------------------------------ MODULE Broadcast -------------------------------
(***************************************************************************)
(* tokio::sync::broadcast, as the drivers of crates/app use it.  A channel *)
(* is the sequence of everything sent on it; each receiver has a cursor of *)
(* its own, the number of messages it is past.  send never waits: a        *)
(* receiver more than `capacity` messages behind gets Lagged and is moved  *)
(* to the oldest message still kept.                                       *)
(***************************************************************************)
EXTENDS Naturals, Sequences

HasNext(sent, cursor, capacity) ==
  cursor < Len(sent) /\ Len(sent) - cursor <= capacity

Lagged(sent, cursor, capacity) == Len(sent) - cursor > capacity

OldestKept(sent, capacity) == Len(sent) - capacity

Drained(sent, cursor) == cursor = Len(sent)
=============================================================================
