------------------------------ MODULE Comparison ------------------------------
(***************************************************************************)
(* compare and compare_result of crates/relay-sim/src/lib.rs.  A run, of   *)
(* the local simulator or of the relay, is a record                        *)
(*   [success, index, coinbase, reads, profit, gas]                        *)
(* whose reads are the storage observations in the order they were made,   *)
(* pairs [slot, value].  The local list holds every read RecordingDb saw,  *)
(* so a slot written in between occurs in it with different values.        *)
(***************************************************************************)
EXTENDS Naturals, Sequences

\* iter().find(): the first observation of a slot.
Observed(reads, slot) == \E i \in DOMAIN reads : reads[i].slot = slot
Found(reads, slot) ==
  LET first == CHOOSE i \in DOMAIN reads :
                 reads[i].slot = slot /\ \A j \in 1 .. i - 1 : reads[j].slot # slot
  IN reads[first].value

\* A slot both saw, with another value; a slot only one side saw is no difference.
StatesDiffer(local, relay) ==
  \E i \in DOMAIN local.reads :
    /\ Observed(relay.reads, local.reads[i].slot)
    /\ Found(relay.reads, local.reads[i].slot) # local.reads[i].value

\* The checks in their order: the cause before the symptom.
Categories == <<"Revert", "BundleOutcome", "StateDependency", "Profitability", "Gas">>
DiffersNoCoinbase(local, relay) ==
  << local.success # relay.success,
     local.index # relay.index,
     StatesDiffer(local, relay),
     local.profit # relay.profit,
     local.gas # relay.gas >>
Differs(local, relay) ==
  << local.success # relay.success,
     local.index # relay.index \/ local.coinbase # relay.coinbase,
     StatesDiffer(local, relay),
     local.profit # relay.profit,
     local.gas # relay.gas >>

\* compare returns at the first check that finds a difference.
compare(local, relay) ==
  LET differs == Differs(local, relay)
      found == {k \in 1 .. 5 : differs[k]}
  IN IF found = {} THEN "Ok"
     ELSE Categories[CHOOSE k \in found : \A j \in found : k <= j]

\* An error of the relay is a mismatch of its own; no field of the relay is looked at.
compare_result(local, answer) ==
  IF answer.ok THEN compare(local, answer.outcome) ELSE "Unknown"
=============================================================================
