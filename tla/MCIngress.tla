------------------------------ MODULE MCIngress -------------------------------
(* Two watched hashes and one that is not, announced five times in any order,  *)
(* with a cache of two: enough for a promotion to save what an eviction in     *)
(* order of arrival would drop.  Two troubles reach the fallback, three        *)
(* connections the capped delay.  One item waits on each channel at a time.    *)
EXTENDS Ingress, TLC

WatchedSymmetry == Permutations(Watched)
=============================================================================
