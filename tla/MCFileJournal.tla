---------------------------- MODULE MCFileJournal -----------------------------
(* The bounds are in the .cfg files: a few appends are enough to put a frame   *)
(* before, at and after a torn one.                                            *)
EXTENDS FileJournal
=============================================================================
