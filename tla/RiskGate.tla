------------------------------- MODULE RiskGate -------------------------------
(***************************************************************************)
(* RiskGate::evaluate of crates/risk/src/lib.rs: six caps applied in order *)
(* to an opportunity, under the budget that is current at that moment.     *)
(***************************************************************************)
EXTENDS Integers, Sequences

CONSTANT RiskConfig  \* RiskBudgetConfig, by its field names; strategy_capital 0: None

ASSUME RiskGateAssumption ==
  RiskConfig \in [strategy_capital : Nat, max_notional : Nat, max_notional_bps : Nat,
                  loss_cap : Nat, loss_cap_bps : Nat, gas_cap : Nat, gas_per_bundle : Nat,
                  max_live : Nat, max_resubmits : Nat]

\* A cap that is also relative to the strategy's capital, where that is known.
Effective(absolute, bps) ==
  LET relative == (RiskConfig.strategy_capital * bps) \div 10000
  IN IF RiskConfig.strategy_capital = 0 \/ absolute < relative THEN absolute ELSE relative

OpportunityKey(opp) == <<opp.number, opp.source, opp.sink>>

\* The requested amount, clamped: this cap never refuses.
Size(opp) ==
  LET cap == Effective(RiskConfig.max_notional, RiskConfig.max_notional_bps)
  IN IF opp.amount < cap THEN opp.amount ELSE cap

\* What the day's gas comes to with this bundle.
GasAfterIgnoresToday(budget) == RiskConfig.gas_per_bundle
GasAfter(budget) == budget.gas + RiskConfig.gas_per_bundle

\* The refusals in the order of the code.
Refusals(opp, budget) ==
  << [category |-> "ConcurrencyCapExceeded", holds |-> budget.live >= RiskConfig.max_live],
     [category |-> "ResubmitCapExceeded",
      holds |-> budget.resubmits[OpportunityKey(opp)] >= RiskConfig.max_resubmits],
     [category |-> "InsufficientCanaryCapital", holds |-> Size(opp) > budget.canary],
     [category |-> "DailyLossCapWouldBeExceeded",
      holds |-> budget.loss >= Effective(RiskConfig.loss_cap, RiskConfig.loss_cap_bps)],
     [category |-> "DailyGasCapWouldBeExceeded",
      holds |-> GasAfter(budget) > RiskConfig.gas_cap] >>

\* The first refusal that holds, or approval with the clamped size.
Evaluate(opp, budget) ==
  LET refusals == Refusals(opp, budget)
      failing == {k \in DOMAIN refusals : refusals[k].holds}
      first == CHOOSE k \in failing : \A j \in failing : k <= j
  IN IF failing = {} THEN [ok |-> TRUE, size |-> Size(opp)]
     ELSE [ok |-> FALSE, category |-> refusals[first].category]
=============================================================================
