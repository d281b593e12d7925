------------------------------- MODULE MCHandles ------------------------------
(* Two publishers, two calls each, on a channel of one slot: a publisher can   *)
(* be blocked while the other waits for the lock, and four calls exceed        *)
(* SeqLimit, so exhaustion is reached; shutdown finds events still queued.     *)
(* Five messages overrun a broadcast of two.  No symmetry: the run checks      *)
(* liveness.                                                                   *)
EXTENDS Handles
=============================================================================
