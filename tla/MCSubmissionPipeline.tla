------------------------ MODULE MCSubmissionPipeline --------------------------
(* Outcomes of the three kinds that matter: one that construct() refuses, one   *)
(* whose bytes are too short, and one that may go all the way.  Capacity 1 lets *)
(* each receiver lag with three outcomes.                                       *)
EXTENDS SubmissionPipeline

Unprofitable == [profitable |-> FALSE, txs |-> "full"]
Unsigned == [profitable |-> TRUE, txs |-> "none"]
ShortTx == [profitable |-> TRUE, txs |-> "short"]
Good == [profitable |-> TRUE, txs |-> "full"]

AllOutcomes == {Unprofitable, Unsigned, ShortTx, Good}
GoodOutcomes == {Good}
=============================================================================
