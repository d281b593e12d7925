----------------------------- MODULE ArbitrageRun -----------------------------
(***************************************************************************)
(* simulate_with_fingerprint of crates/simulator/src/lib.rs, once its      *)
(* fixture is accepted: a router that holds exactly the opportunity's      *)
(* amount of WETH sells it at the sink pool, buys WETH for the proceeds at *)
(* the source pool, and the profit is what its balance gained.  The        *)
(* RecordingDb notes every storage read, those of its balances included.   *)
(*                                                                         *)
(* A swap, as revm ran it, is a record [success, gas, reads, balance]; the *)
(* balance is that of the token bought, read afterwards.  Reverts, halts   *)
(* and state missing from the fixture (a revert with no gas) do not        *)
(* succeed.                                                                *)
(***************************************************************************)
EXTENDS Integers, Sequences

CONSTANTS
  Sells,  \* what the first router call may come to
  Buys    \* what the second one may come to

\* What a simulator, or a relay, saw in storage.
Observations == Seq([slot : STRING, value : Nat])

ASSUME ArbitrageRunAssumption ==
  Sells \cup Buys \subseteq
    [success : BOOLEAN, gas : Nat, reads : Observations, balance : Nat]

Outcome(success, gas, profit, reads) ==
  [success |-> success, gas |-> gas, profit |-> profit, reads |-> reads]

Read(slot, value) == [slot |-> slot, value |-> value]

Succeeding(swaps) == {swap \in swaps : swap.success}

\* saturating_sub
Gain(weth_in, weth) == IF weth > weth_in THEN weth - weth_in ELSE 0

Ends(sell, buy, tail) == sell.reads \o <<Read("router USDC", sell.balance)>> \o buy.reads \o tail

\* The ways a run ends: the first swap fails, or the USDC it brought cannot be read; the
\* second fails, or the WETH it brought cannot be read; or both swaps went through.
FirstFails(sell) == Outcome(FALSE, sell.gas, 0, sell.reads)
SecondFails(sell, buy) == Outcome(FALSE, sell.gas + buy.gas, 0, Ends(sell, buy, <<>>))
BothSucceed(weth_in, sell, buy) ==
  Outcome(TRUE, sell.gas + buy.gas, Gain(weth_in, buy.balance),
          Ends(sell, buy, <<Read("router WETH", buy.balance)>>))

EvmRuns(weth_in) ==
  {FirstFails(sell) : sell \in Sells}
  \cup {SecondFails(sell, buy) : sell \in Succeeding(Sells), buy \in Buys}
  \cup {BothSucceed(weth_in, sell, buy) : sell \in Succeeding(Sells), buy \in Succeeding(Buys)}
=============================================================================
