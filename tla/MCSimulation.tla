---------------------------- MODULE MCSimulation ----------------------------
(***************************************************************************)
(* Two blocks with the same number and one after them, a V2 and a V3 pool, *)
(* a relay that may differ in any one figure.                              *)
(***************************************************************************)
EXTENDS Simulation

CONSTANTS b1, fork1, b2, v2, v3

MCHashes == {b1, fork1, b2}
MCNumberOf(hash) == IF hash = b2 THEN 2 ELSE 1
MCPools == {v2, v3}
MCIsV3(pool) == pool = v3
MCWords(pool, hash) == {"word-1", "word0", "word+1"}
MCTicks(pool, hash) == IF hash = b2 THEN {"tick-60", "tick60"} ELSE {"tick-60"}

\* 20 units of canary capital, a cap of 10 on one trade.
MCRiskConfig ==
  [strategy_capital |-> 0, max_notional |-> 10, max_notional_bps |-> 100,
   loss_cap |-> 5, loss_cap_bps |-> 100, gas_cap |-> 10, gas_per_bundle |-> 4,
   max_live |-> 2, max_resubmits |-> 1]
Keys == (0 .. 2) \X MCPools \X MCPools
Budget(live, resubmitted, canary, loss, gas) ==
  [live |-> live, canary |-> canary, loss |-> loss, gas |-> gas,
   resubmits |-> [key \in Keys |-> IF key \in resubmitted THEN 1 ELSE 0]]
\* Nothing spent; everything just below its cap, one pair tried before; the gas spent.
MCBudgets ==
  { Budget(0, {}, 20, 0, 0), Budget(1, {<<1, v2, v3>>}, 10, 4, 6), Budget(0, {}, 20, 0, 7) }
MCAmounts == {12}
MCBid(profit) == (profit * 9) \div 10

Swap(success, gas, reads, balance) ==
  [success |-> success, gas |-> gas, reads |-> reads, balance |-> balance]
\* The first swap finds the state it needs or not; the second brings a gain of 10, brings
\* back what was put in, or reverts.
MCSells ==
  { Swap(TRUE, 1, <<Read("router WETH", 12)>>, 5), Swap(FALSE, 0, <<>>, 0) }
MCBuys ==
  { Swap(TRUE, 2, <<Read("u", 7)>>, 22), Swap(TRUE, 2, <<Read("u", 7)>>, 12),
    Swap(FALSE, 2, <<Read("u", 7)>>, 0) }

Relay(success, index, coinbase, reads, profit, gas) ==
  [ok |-> TRUE, outcome |-> [success |-> success, index |-> index, coinbase |-> coinbase,
                             reads |-> reads, profit |-> profit, gas |-> gas]]
MCRelayAnswers ==
  { [ok |-> FALSE, outcome |-> [success |-> FALSE, index |-> 0, coinbase |-> 0,
                                reads |-> <<>>, profit |-> 0, gas |-> 1]] }
  \cup { Relay(success, index, coinbase, reads, profit, gas) :
           success \in BOOLEAN, index \in {0, 1}, coinbase \in {0, 1},
           reads \in { <<Read("u", 7)>>, <<Read("u", 8), Read("u", 7)>>,
                       <<Read("w", 5), Read("u", 7)>>, <<Read("router WETH", 12)>> },
           profit \in {0, 10}, gas \in {1, 3} }

Engine(prefetch, signer, wired) ==
  [prefetch |-> prefetch, signer |-> signer, wired |-> wired]
MCEngines ==
  { Engine(TRUE, "injected", FALSE), Engine(FALSE, "injected", FALSE),
    Engine(TRUE, "disabled", TRUE), Engine(FALSE, "kms", TRUE) }
WiredEngines == { Engine(TRUE, "disabled", TRUE) }
=============================================================================
