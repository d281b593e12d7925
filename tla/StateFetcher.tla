----------------------------- MODULE StateFetcher -----------------------------
(***************************************************************************)
(* ArchiveStateFetcher::fetch_pool of crates/state-fetcher: the storage    *)
(* slots of a pool at one block, read in rounds.  The first round reads    *)
(* the layout's base slots, each later one what the layout derives from    *)
(* what was read, until it derives nothing more or the rounds run out.     *)
(* A slot is named by what is in it; the hashing of keys is left out.      *)
(***************************************************************************)
EXTENDS Naturals

CONSTANTS
  IsV3(_),      \* whether a pool's kind is UniswapV3Fee005; the others have the V2 layout
  Words(_, _),  \* Words(pool, hash): the three tickBitmap words around slot0's tick
  Ticks(_, _),  \* Ticks(pool, hash): the Tick.Info slots of the bits set in those words
  NoHash        \* B256::ZERO

base_slots(pool) ==
  IF IsV3(pool)
  THEN {"slot0", "feeGrowthGlobal0", "feeGrowthGlobal1", "protocolFees", "liquidity"}
  ELSE {"factory", "token0", "token1", "reserves"}

\* What the V3 layout asks for next: the words once slot0 is known, then their ticks.
derived_slots(pool, hash, fetched) ==
  LET words == Words(pool, hash)
  IN IF ~IsV3(pool) \/ "slot0" \notin fetched THEN {}
     ELSE (IF words \cap fetched = {} THEN words ELSE Ticks(pool, hash)) \ fetched

\* A further round of reads.
Round(pool, hash, fetched) == fetched \cup derived_slots(pool, hash, fetched)

\* fetch_pool: DERIVED_SLOTS_MAX_DEPTH = 3 rounds; refused at the zero hash, and when the
\* rounds run out before the layout does.
fetch_pool(pool, hash) ==
  LET slots == Round(pool, hash, Round(pool, hash, base_slots(pool)))
      deeper == derived_slots(pool, hash, slots)
  IN IF hash = NoHash THEN [ok |-> FALSE, error |-> "InvalidBlockHash"]
     ELSE IF deeper # {} THEN [ok |-> FALSE, error |-> "DerivedSlotsTooDeep"]
     ELSE [ok |-> TRUE, slots |-> slots]

\* The slots of a pool that a swap inside the active words may read.
SwapSlots(pool, hash) ==
  base_slots(pool) \cup (IF IsV3(pool) THEN Words(pool, hash) \cup Ticks(pool, hash) ELSE {})
=============================================================================
