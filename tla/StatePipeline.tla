---------------------------- MODULE StatePipeline -----------------------------
(***************************************************************************)
(* From a block to an arbitrage candidate, as wire_phase4 of               *)
(* crates/app/src/lib.rs connects them: state_engine_driver, which has     *)
(* StateEngine::refresh_block read and save every pool before it sends a   *)
(* StateUpdateEvent for each, and opportunity_driver, which groups the     *)
(* updates by block number, compares pools with OpportunityEngine::check   *)
(* and forgets old groups.                                                 *)
(*                                                                         *)
(* A pool's state is named by the block it was read at, so an update names *)
(* the ingress event that caused its refresh.                              *)
(***************************************************************************)
EXTENDS Broadcast, FiniteSets

CONSTANTS
  Numbers,     \* block numbers
  Forks,       \* block hashes: a block is a number and a fork
  Pools,       \* length of config.state.pools, which refresh_block walks in order
  Price(_, _), \* Price(block, pool): pool_price_q64 rounded to what check() tells apart;
               \* 0: no liquidity
  Mempool,     \* any IngressEvent::Mempool
  Capacity,    \* broadcast::channel(bus.capacity.max(8)), scaled down
  MaxGroups,   \* groups opportunity_driver keeps before it forgets (16), scaled down
  Window,      \* how far below the highest number it then keeps (8), scaled down
  MaxIngress   \* bound: events published on ingress_tx

ASSUME StateAssumption ==
  /\ Numbers \subseteq Nat
  /\ Pools \in Nat \ {0} /\ Capacity \in Nat \ {0}
  /\ MaxGroups \in Nat /\ Window \in Nat /\ Window < MaxGroups
  /\ MaxIngress \in Nat

Blocks == [number : Numbers, fork : Forks]

VARIABLES
  ingress,     \* ingress_tx: every event sent
  stateRead,   \* state_engine_driver's receiver
  engine,      \* where state_engine_driver is
  fetched,     \* pools of the current block read and saved; while sending, also sent
  store,       \* RocksDbSnapshot: the ingress event each key was last saved for (0: none)
  updates,     \* state_tx: every StateUpdateEvent sent
  oppRead,     \* opportunity_driver's receiver
  opp,         \* where opportunity_driver is
  groups,      \* by_block: positions in updates, <<>> where there is no entry
  compared,    \* pairs of updates handed to check(), over the whole run
  found        \* opp_tx: every OpportunityEvent sent

engineVars == <<stateRead, engine, fetched, store>>
oppVars == <<oppRead, opp, groups, compared, found>>
vars == <<ingress, engineVars, updates, oppVars>>

Refreshing == stateRead
Number(u) == ingress[updates[u].from].number
BlockOf(u) == ingress[updates[u].from]

Init ==
  /\ ingress = <<>> /\ stateRead = 0
  /\ engine = "recv" /\ fetched = 0
  /\ store = [n \in Numbers |-> [p \in 1 .. Pools |-> 0]]
  /\ updates = <<>> /\ oppRead = 0 /\ opp = "recv"
  /\ groups = [n \in Numbers |-> <<>>]
  /\ compared = {} /\ found = <<>>

-----------------------------------------------------------------------------
(* The environment *)

\* A block or a mempool transaction appears on ingress_tx.
PublishIngress ==
  /\ Len(ingress) < MaxIngress
  /\ \E e \in Blocks \cup {Mempool} : ingress' = Append(ingress, e)
  /\ UNCHANGED <<engineVars, updates, oppVars>>

-----------------------------------------------------------------------------
(* state_engine_driver *)

\* Mempool events are dropped; a block starts a refresh at its first pool.
TakeIngress ==
  /\ engine = "recv" /\ HasNext(ingress, stateRead, Capacity)
  /\ stateRead' = stateRead + 1 /\ fetched' = 0
  /\ engine' = IF ingress[stateRead'] = Mempool THEN "recv" ELSE "refreshing"
  /\ UNCHANGED <<ingress, store, updates, oppVars>>

StateLagged ==
  /\ engine = "recv" /\ Lagged(ingress, stateRead, Capacity)
  /\ stateRead' = OldestKept(ingress, Capacity)
  /\ engine' = "lagged"
  /\ UNCHANGED <<ingress, fetched, store, updates, oppVars>>

\* The next pool's eth_call at the block's hash answers, decodes, and its state is saved
\* under (number, address); the events go out only when no pool is left.
RefreshPoolEager ==
  LET p == fetched + 1
      n == ingress[Refreshing].number
  IN /\ engine = "refreshing"
     /\ store' = [store EXCEPT ![n][p] = Refreshing]
     /\ engine' = "sending" /\ fetched' = 0
     /\ UNCHANGED <<ingress, stateRead, updates, oppVars>>
RefreshPool ==
  LET p == fetched + 1
      n == ingress[Refreshing].number
  IN /\ engine = "refreshing"
     /\ store' = [store EXCEPT ![n][p] = Refreshing]
     /\ IF p = Pools THEN engine' = "sending" /\ fetched' = 0
        ELSE engine' = "refreshing" /\ fetched' = p
     /\ UNCHANGED <<ingress, stateRead, updates, oppVars>>

\* A call, a decode or a save fails: refresh_block returns at once, what it saved stays.
RefreshFails ==
  /\ engine = "refreshing"
  /\ engine' = "recv" /\ fetched' = 0
  /\ UNCHANGED <<ingress, stateRead, store, updates, oppVars>>

Update(pool) == [from |-> Refreshing, pool |-> pool]

\* The events leave one by one; nothing is awaited between them.
SendUpdateReversed ==
  LET p == fetched + 1
  IN /\ engine = "sending"
     /\ updates' = Append(updates, Update(Pools - fetched))
     /\ IF p = Pools THEN engine' = "recv" /\ fetched' = 0
        ELSE engine' = "sending" /\ fetched' = p
     /\ UNCHANGED <<ingress, stateRead, store, oppVars>>
SendUpdateOnePast ==
  LET p == fetched + 1
  IN /\ engine = "sending"
     /\ updates' = Append(updates, Update(p))
     /\ IF p > Pools THEN engine' = "recv" /\ fetched' = 0
        ELSE engine' = "sending" /\ fetched' = p
     /\ UNCHANGED <<ingress, stateRead, store, oppVars>>
SendUpdate ==
  LET p == fetched + 1
  IN /\ engine = "sending"
     /\ updates' = Append(updates, Update(p))
     /\ IF p = Pools THEN engine' = "recv" /\ fetched' = 0
        ELSE engine' = "sending" /\ fetched' = p
     /\ UNCHANGED <<ingress, stateRead, store, oppVars>>

\* AppHandle4::shutdown aborts the task, which ends where it awaits.
AbortState ==
  /\ engine \in {"recv", "refreshing"}
  /\ engine' = "cancelled"
  /\ UNCHANGED <<ingress, stateRead, fetched, store, updates, oppVars>>

-----------------------------------------------------------------------------
(* opportunity_driver *)

\* check(a, b): different pools, both priced, and not equal.
Diverge(a, b) ==
  LET priceOf(u) == Price(BlockOf(u), updates[u].pool)
  IN /\ updates[a].pool # updates[b].pool
     /\ priceOf(a) # 0 /\ priceOf(b) # 0 /\ priceOf(a) # priceOf(b)

\* All pairs of a group, in the order of the two nested loops.
PairsOf(group) ==
  LET k == Len(group)
      rows[i \in 0 .. k] ==
        IF i = 0 THEN <<>>
        ELSE rows[i - 1] \o [j \in 1 .. k - i |-> <<group[i], group[i + j]>>]
  IN rows[k]

\* The pairs check() makes a candidate of, in the same order.
Hits(pairs) ==
  LET hits[i \in 0 .. Len(pairs)] ==
        IF i = 0 THEN <<>>
        ELSE IF Diverge(pairs[i][1], pairs[i][2]) THEN Append(hits[i - 1], pairs[i])
        ELSE hits[i - 1]
  IN hits[Len(pairs)]

\* More than MaxGroups numbers: keep those at most Window below the highest.
EvictClose(g) ==
  LET keys == {n \in Numbers : g[n] # <<>>}
      high == CHOOSE n \in keys : \A m \in keys : m <= n
  IN IF Cardinality(keys) <= MaxGroups THEN g
     ELSE [n \in Numbers |-> IF n + Window > high THEN g[n] ELSE <<>>]
Evict(g) ==
  LET keys == {n \in Numbers : g[n] # <<>>}
      high == CHOOSE n \in keys : \A m \in keys : m <= n
  IN IF Cardinality(keys) <= MaxGroups THEN g
     ELSE [n \in Numbers |-> IF n + Window >= high THEN g[n] ELSE <<>>]

\* The whole iteration, which awaits nothing: the update joins its group, every pair of
\* the group is compared again, and old groups go.
TakeUpdateNeverEvicts ==
  /\ opp = "recv" /\ HasNext(updates, oppRead, Capacity)
  /\ oppRead' = oppRead + 1
  /\ LET n == Number(oppRead')
         group == Append(groups[n], oppRead')
         pairs == PairsOf(group)
     IN /\ compared' = compared \cup {pairs[i] : i \in DOMAIN pairs}
        /\ found' = found \o Hits(pairs)
        /\ groups' = [groups EXCEPT ![n] = group]
  /\ UNCHANGED <<ingress, engineVars, updates, opp>>
TakeUpdate ==
  /\ opp = "recv" /\ HasNext(updates, oppRead, Capacity)
  /\ oppRead' = oppRead + 1
  /\ LET n == Number(oppRead')
         group == Append(groups[n], oppRead')
         pairs == PairsOf(group)
     IN /\ compared' = compared \cup {pairs[i] : i \in DOMAIN pairs}
        /\ found' = found \o Hits(pairs)
        /\ groups' = Evict([groups EXCEPT ![n] = group])
  /\ UNCHANGED <<ingress, engineVars, updates, opp>>

OppLagged ==
  /\ opp = "recv" /\ Lagged(updates, oppRead, Capacity)
  /\ oppRead' = OldestKept(updates, Capacity)
  /\ opp' = "lagged"
  /\ UNCHANGED <<ingress, engineVars, updates, groups, compared, found>>

AbortOpp ==
  /\ opp = "recv" /\ opp' = "cancelled"
  /\ UNCHANGED <<ingress, engineVars, updates, oppRead, groups, compared, found>>

StateEngine ==
  \/ TakeIngress \/ StateLagged \/ RefreshPool \/ RefreshFails \/ SendUpdate
Opportunity == TakeUpdate \/ OppLagged
Next == PublishIngress \/ StateEngine \/ AbortState \/ Opportunity \/ AbortOpp

Spec == Init /\ [][Next]_vars

-----------------------------------------------------------------------------
(* Properties *)

\* The types of the two drivers' state, of the snapshot and of the three channels.
TypeOK ==
  /\ ingress \in Seq(Blocks \cup {Mempool}) /\ Len(ingress) <= MaxIngress
  /\ stateRead \in 0 .. Len(ingress)
  /\ engine \in {"recv", "refreshing", "sending", "lagged", "cancelled"}
  /\ engine \in {"refreshing", "sending"} => ingress[Refreshing] \in Blocks
  /\ fetched \in 0 .. Pools - 1
  /\ store \in [Numbers -> [1 .. Pools -> 0 .. MaxIngress]]
  /\ updates \in Seq([from : 1 .. MaxIngress, pool : 1 .. Pools])
  /\ oppRead \in 0 .. Len(updates)
  /\ opp \in {"recv", "lagged", "cancelled"}
  /\ groups \in [Numbers -> Seq(1 .. oppRead)]
  /\ compared \subseteq (1 .. oppRead) \X (1 .. oppRead)
  /\ found \in Seq(compared)

\* state_tx carries whole blocks only: a refresh that fails or is aborted half way sends
\* nothing, and the events of the others come in the order of config.state.pools.
UpdatesAreWholeBlocks ==
  /\ \A u \in DOMAIN updates : updates[u].pool = 1 + ((u - 1) % Pools)
  /\ \A u \in 2 .. Len(updates) :
       IF updates[u].pool = 1 THEN updates[u - 1].from < updates[u].from
       ELSE updates[u - 1].from = updates[u].from
  /\ engine # "sending" => Len(updates) % Pools = 0

\* Whoever acts on an update finds in RocksDB, under its number, a state of every pool
\* read for that event or a later one (a reorg overwrites it), never an older one.
StoreCoversUpdates ==
  \A u \in DOMAIN updates, p \in 1 .. Pools : store[Number(u)][p] >= updates[u].from

\* No arbitrage is missed by forgetting: two updates of different pools for one number
\* were compared if no block more than Window above that number was ever taken.
PairsAreCompared ==
  opp # "lagged" =>
    \A a, b \in 1 .. oppRead :
      /\ a < b /\ Number(a) = Number(b) /\ updates[a].pool # updates[b].pool
      /\ \A c \in 1 .. b : Number(c) <= Number(a) + Window
      => <<a, b>> \in compared

\* by_block never holds more than MaxGroups numbers between two iterations.
GroupsBounded == Cardinality({n \in Numbers : groups[n] # <<>>}) <= MaxGroups

\* opportunity/src/lib.rs compares pool states "at the same (block_number, block_hash)".
CandidatesOfOneBlock ==
  \A i \in DOMAIN found : BlockOf(found[i][1]) = BlockOf(found[i][2])
=============================================================================
