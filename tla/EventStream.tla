----------------------------- MODULE EventStream ------------------------------
(***************************************************************************)
(* What a bus instance promises ("each instance carries one ordered        *)
(* stream", crates/event-bus/src/lib.rs): a single bounded stream whose    *)
(* events carry the numbers 0, 1, 2, ... in the order they are delivered,  *)
(* never the exhaustion sentinel, and accepted only while a consumer is    *)
(* there to take them.                                                     *)
(***************************************************************************)
EXTENDS Naturals, Sequences

CONSTANTS Payloads, Capacity, SeqLimit

VARIABLES stream, delivered, open

Init == stream = <<>> /\ delivered = 0 /\ open = TRUE

Accept(x) ==
  /\ open
  /\ Len(stream) < SeqLimit
  /\ Len(stream) - delivered < Capacity
  /\ stream' = Append(stream, [sequence |-> Len(stream), payload |-> x])
  /\ UNCHANGED <<delivered, open>>

Deliver ==
  /\ open
  /\ delivered < Len(stream)
  /\ delivered' = delivered + 1
  /\ UNCHANGED <<stream, open>>

Close == open /\ open' = FALSE /\ UNCHANGED <<stream, delivered>>

Next == (\E x \in Payloads : Accept(x)) \/ Deliver \/ Close

Spec == Init /\ [][Next]_<<stream, delivered, open>>
=============================================================================
