--------------------------- MODULE MCStatePipeline ----------------------------
(* Pool 1 quotes the same price on every block, pool 2 diverges from it on fork  *)
(* "b" only, and a third pool has no liquidity.                                  *)
EXTENDS StatePipeline

MCPrice(block, pool) ==
  CASE pool = 1 -> 1
    [] pool = 2 -> IF block.fork = "b" THEN 2 ELSE 1
    [] OTHER -> 0
=============================================================================
