-------------------------- MODULE StatePipelineProofs --------------------------
(***************************************************************************)
(* Proofs about StatePipeline, for any block numbers and forks, any number *)
(* of pools, any prices and any bounds.  state_engine_driver: while a      *)
(* block's events leave, how many have left is the remainder of the        *)
(* channel's length, and the snapshot already holds every pool of it.      *)
(* opportunity_driver: until it lags, every update whose number is within  *)
(* Window of all it took is still in its group, so the next arrival of     *)
(* that number is compared with it.                                        *)
(***************************************************************************)
EXTENDS StatePipeline, NumberLemmas, SequenceTheorems, FiniteSetTheorems

-----------------------------------------------------------------------------
(* state_engine_driver *)

UpdateRecord == [from : 1 .. MaxIngress, pool : 1 .. Pools]

EngineTyped ==
  /\ ingress \in Seq(Blocks \cup {Mempool}) /\ Len(ingress) <= MaxIngress
  /\ stateRead \in 0 .. Len(ingress)
  /\ engine \in {"recv", "refreshing", "sending", "lagged", "cancelled"}
  /\ engine \in {"refreshing", "sending"} => stateRead # 0 /\ ingress[stateRead] \in Blocks
  /\ fetched \in 0 .. Pools - 1
  /\ store \in [Numbers -> [1 .. Pools -> 0 .. MaxIngress]]
  /\ updates \in Seq(UpdateRecord)

\* Every update is of a block already received, and of an earlier one than the block that
\* has sent nothing yet; the events of the current block are as many as the remainder.
Sent ==
  /\ \A u \in 1 .. Len(updates) :
       updates[u].from <= stateRead /\ ingress[updates[u].from] \in Blocks
  /\ engine = "refreshing" \/ (engine = "sending" /\ fetched = 0) =>
       \A u \in 1 .. Len(updates) : updates[u].from < stateRead
  /\ engine = "sending" /\ fetched # 0 =>
       Len(updates) # 0 /\ updates[Len(updates)].from = stateRead
  /\ Len(updates) % Pools = IF engine = "sending" THEN fetched ELSE 0

WholeBlocks ==
  /\ \A u \in 1 .. Len(updates) : updates[u].pool = 1 + ((u - 1) % Pools)
  /\ \A u \in 2 .. Len(updates) :
       IF updates[u].pool = 1 THEN updates[u - 1].from < updates[u].from
       ELSE updates[u - 1].from = updates[u].from

\* What the current refresh has saved.
Saved ==
  /\ engine = "refreshing" =>
       \A p \in 1 .. fetched : store[ingress[stateRead].number][p] = stateRead
  /\ engine = "sending" =>
       \A p \in 1 .. Pools : store[ingress[stateRead].number][p] = stateRead

Covered ==
  \A u \in 1 .. Len(updates) : \A p \in 1 .. Pools : store[Number(u)][p] >= updates[u].from

EngineInv == EngineTyped /\ Sent /\ WholeBlocks /\ Saved /\ Covered

\* The channels only grow, so an update keeps its meaning.
Grow ==
  /\ Len(ingress) <= Len(ingress') /\ \A i \in 1 .. Len(ingress) : ingress'[i] = ingress[i]
  /\ Len(updates) <= Len(updates') /\ \A u \in 1 .. Len(updates) : updates'[u] = updates[u]

LEMMA Lengths ==
  ASSUME EngineTyped
  PROVE  /\ Len(ingress) \in Nat /\ Len(updates) \in Nat
         /\ DOMAIN ingress = 1 .. Len(ingress) /\ DOMAIN updates = 1 .. Len(updates)
         /\ \A u \in 1 .. Len(updates) :
              updates[u] \in UpdateRecord /\ updates[u].from \in Nat /\ updates[u].pool \in 1 .. Pools
<1>1. /\ Len(ingress) \in Nat /\ DOMAIN ingress = 1 .. Len(ingress)
      /\ Len(updates) \in Nat /\ DOMAIN updates = 1 .. Len(updates)
  BY LenProperties DEF EngineTyped
<1>2. \A u \in 1 .. Len(updates) : updates[u] \in UpdateRecord
  BY ElementOfSeq DEF EngineTyped
<1>. QED
  BY <1>1, <1>2 DEF UpdateRecord

LEMMA NumbersStay ==
  ASSUME EngineInv, Grow
  PROVE  \A u \in 1 .. Len(updates) :
           /\ Number(u)' = Number(u) /\ Number(u) \in Numbers /\ Number(u) \in Nat
           /\ BlockOf(u)' = BlockOf(u) /\ BlockOf(u) \in Blocks
<1> TAKE u \in 1 .. Len(updates)
<1>1. /\ updates[u].from \in 1 .. Len(ingress) /\ ingress[updates[u].from] \in Blocks
  BY Lengths DEF EngineInv, EngineTyped, Sent, UpdateRecord
<1>. QED
  BY <1>1, StateAssumption DEF Grow, Number, BlockOf, Blocks

LEMMA EngineInit == Init => EngineInv
<1> SUFFICES ASSUME Init PROVE EngineInv
  OBVIOUS
<1>1. EngineTyped
  BY StateAssumption DEF Init, EngineTyped
<1>2. Len(updates) = 0 /\ engine = "recv"
  BY DEF Init
<1>3. 0 % Pools = 0
  BY StateAssumption
<1>. QED
  BY <1>1, <1>2, <1>3 DEF EngineInv, Sent, WholeBlocks, Saved, Covered

LEMMA PublishKeepsEngine ==
  ASSUME EngineInv, PublishIngress
  PROVE  EngineInv' /\ Grow
<1>1. PICK e \in Blocks \cup {Mempool} : ingress' = Append(ingress, e)
  BY DEF PublishIngress
<1>2. /\ Len(ingress) < MaxIngress
      /\ UNCHANGED <<stateRead, engine, fetched, store, updates>>
  BY DEF PublishIngress, engineVars
<1>3. /\ ingress' \in Seq(Blocks \cup {Mempool}) /\ Len(ingress') = Len(ingress) + 1
      /\ \A i \in 1 .. Len(ingress) : ingress'[i] = ingress[i]
  BY <1>1, AppendProperties DEF EngineInv, EngineTyped
<1>4. Grow
  BY <1>2, <1>3, Lengths DEF EngineInv, Grow
<1>5. EngineTyped'
  BY <1>2, <1>3, Lengths, StateAssumption DEF EngineInv, EngineTyped
<1>6. \A u \in 1 .. Len(updates) : Number(u)' = Number(u) /\ updates[u].from \in 1 .. Len(ingress)
  BY <1>4, NumbersStay, Lengths DEF EngineInv, EngineTyped, Sent, UpdateRecord
<1>7. engine \in {"refreshing", "sending"} => stateRead \in 1 .. Len(ingress)
  BY Lengths DEF EngineInv, EngineTyped
<1>8. Sent' /\ WholeBlocks' /\ Covered'
  BY <1>2, <1>3, <1>6 DEF EngineInv, Sent, WholeBlocks, Covered
<1>9. Saved'
  BY <1>2, <1>3, <1>7 DEF EngineInv, Saved
<1>. QED
  BY <1>4, <1>5, <1>8, <1>9 DEF EngineInv

\* Receiving, lagging, failing and being aborted send and save nothing.
LEMMA ReceiveKeepsEngine ==
  ASSUME EngineInv, TakeIngress \/ StateLagged \/ RefreshFails \/ AbortState
  PROVE  EngineInv' /\ Grow
<1>1. UNCHANGED <<ingress, store, updates>>
  BY DEF TakeIngress, StateLagged, RefreshFails, AbortState
<1>2. Grow
  BY <1>1, Lengths DEF EngineInv, Grow
<1>3. WholeBlocks' /\ Covered'
  BY <1>1 DEF EngineInv, WholeBlocks, Covered, Number
<1>4. /\ stateRead' \in stateRead .. Len(ingress) /\ fetched' \in 0 .. Pools - 1
      /\ engine # "sending"
      /\ \/ engine' \in {"recv", "lagged", "cancelled"}
         \/ /\ engine' = "refreshing" /\ fetched' = 0 /\ stateRead' = stateRead + 1
            /\ ingress[stateRead'] \in Blocks
  <2>1. CASE TakeIngress
    <3>1. stateRead' = stateRead + 1 /\ stateRead' \in 1 .. Len(ingress) /\ fetched' = 0
      BY <2>1, Lengths DEF TakeIngress, HasNext, EngineInv, EngineTyped
    <3>2. ingress[stateRead'] \in Blocks \cup {Mempool}
      BY <3>1, ElementOfSeq DEF EngineInv, EngineTyped
    <3>. QED
      BY <2>1, <3>1, <3>2, Lengths, StateAssumption DEF TakeIngress, EngineInv, EngineTyped
  <2>2. CASE StateLagged
    BY <2>2, Lengths, StateAssumption DEF StateLagged, Lagged, OldestKept, EngineInv, EngineTyped
  <2>3. CASE RefreshFails \/ AbortState
    BY <2>3, Lengths, StateAssumption DEF RefreshFails, AbortState, EngineInv, EngineTyped
  <2>. QED
    BY <2>1, <2>2, <2>3
<1>5. EngineTyped'
  BY <1>1, <1>4, Lengths DEF EngineInv, EngineTyped
<1>6. Sent'
  BY <1>1, <1>4, Lengths DEF EngineInv, EngineTyped, Sent
<1>7. Saved'
  BY <1>4 DEF Saved
<1>. QED
  BY <1>2, <1>3, <1>5, <1>6, <1>7 DEF EngineInv

\* A save under the current block's number raises the record to the current event.
LEMMA RefreshKeepsEngine ==
  ASSUME EngineInv, RefreshPool
  PROVE  EngineInv' /\ Grow
<1> DEFINE p == fetched + 1
           n == ingress[stateRead].number
<1>1. /\ engine = "refreshing"
      /\ store' = [store EXCEPT ![n][p] = stateRead]
      /\ IF p = Pools THEN engine' = "sending" /\ fetched' = 0
         ELSE engine' = "refreshing" /\ fetched' = p
      /\ UNCHANGED <<ingress, stateRead, updates>>
  BY DEF RefreshPool, Refreshing
<1>2. n \in Numbers /\ p \in 1 .. Pools /\ stateRead \in 1 .. MaxIngress
  BY <1>1, Lengths, StateAssumption DEF EngineInv, EngineTyped, Blocks
<1>3. /\ store' \in [Numbers -> [1 .. Pools -> 0 .. MaxIngress]]
      /\ store'[n][p] = stateRead
      /\ \A m \in Numbers, q \in 1 .. Pools : store'[m][q] = stateRead \/ store'[m][q] = store[m][q]
      /\ \A q \in 1 .. Pools : q # p => store'[n][q] = store[n][q]
  <2>1. store \in [Numbers -> [1 .. Pools -> 0 .. MaxIngress]]
    BY DEF EngineInv, EngineTyped
  <2> DEFINE row == [store[n] EXCEPT ![p] = stateRead]
  <2>2. store[n] \in [1 .. Pools -> 0 .. MaxIngress]
    BY <1>2, <2>1
  <2>3. /\ row \in [1 .. Pools -> 0 .. MaxIngress] /\ row[p] = stateRead
        /\ \A q \in 1 .. Pools : q # p => row[q] = store[n][q]
    <3>1. stateRead \in 0 .. MaxIngress
      BY <1>2, StateAssumption
    <3> HIDE DEF n, p
    <3>. QED
      BY <1>2, <2>2, <3>1
  <2>4. store' = [store EXCEPT ![n] = row]
    BY <1>1
  <2> HIDE DEF row
  <2>5. store' \in [Numbers -> [1 .. Pools -> 0 .. MaxIngress]] /\ store'[n] = row
    BY <1>2, <2>1, <2>3, <2>4
  <2>6. \A m \in Numbers : m # n => store'[m] = store[m]
    BY <2>1, <2>4
  <2>. QED
    BY <1>2, <2>3, <2>5, <2>6
<1>4. EngineTyped'
  BY <1>1, <1>2, <1>3, StateAssumption DEF EngineInv, EngineTyped
<1>5. Grow
  BY <1>1, Lengths DEF EngineInv, Grow
<1>6. Sent'
  BY <1>1, <1>2 DEF EngineInv, Sent
<1>7. WholeBlocks'
  BY <1>1 DEF EngineInv, WholeBlocks
<1>8. Saved'
  <2>1. \A q \in 1 .. p : store'[n][q] = stateRead
    <3>1. \A q \in 1 .. fetched : store[n][q] = stateRead
      BY <1>1 DEF EngineInv, Saved
    <3>2. \A q \in 1 .. p : q = p \/ q \in 1 .. fetched
      BY DEF EngineInv, EngineTyped
    <3>3. \A q \in 1 .. fetched : q \in 1 .. Pools /\ q # p
      BY <1>2, StateAssumption DEF EngineInv, EngineTyped
    <3>. QED
      BY <1>3, <3>1, <3>2, <3>3
  <2>. QED
    BY <1>1, <2>1 DEF Saved
<1>9. Covered'
  <2> SUFFICES ASSUME NEW u \in 1 .. Len(updates), NEW q \in 1 .. Pools
               PROVE  store'[Number(u)][q] >= updates[u].from
    BY <1>1 DEF Covered, Number
  <2>1. Number(u) \in Numbers
    BY <1>5, NumbersStay
  <2>2. store[Number(u)][q] >= updates[u].from /\ stateRead >= updates[u].from
    BY Lengths, <1>2 DEF EngineInv, Covered, Sent
  <2>. QED
    BY <1>3, <2>1, <2>2
<1>. QED
  BY <1>4, <1>5, <1>6, <1>7, <1>8, <1>9 DEF EngineInv

\* The event of the next pool leaves: the remainder counts it.
LEMMA SendKeepsEngine ==
  ASSUME EngineInv, SendUpdate
  PROVE  EngineInv' /\ Grow
<1> DEFINE p == fetched + 1
           new == [from |-> stateRead, pool |-> p]
           last == Len(updates) + 1
<1>1. /\ engine = "sending"
      /\ updates' = Append(updates, new)
      /\ IF p = Pools THEN engine' = "recv" /\ fetched' = 0
         ELSE engine' = "sending" /\ fetched' = p
      /\ UNCHANGED <<ingress, stateRead, store>>
  BY DEF SendUpdate, Update, Refreshing
<1>2. /\ p \in 1 .. Pools /\ stateRead \in 1 .. MaxIngress /\ new \in UpdateRecord
      /\ stateRead \in 1 .. Len(ingress) /\ ingress[stateRead] \in Blocks
      /\ Len(updates) \in Nat
  BY <1>1, Lengths, StateAssumption DEF EngineInv, EngineTyped, UpdateRecord
<1>3. /\ updates' \in Seq(UpdateRecord) /\ Len(updates') = last
      /\ \A u \in 1 .. Len(updates) : updates'[u] = updates[u]
      /\ updates'[last] = new
  BY <1>1, <1>2, AppendProperties DEF EngineInv, EngineTyped
<1>4. Grow
  BY <1>1, <1>2, <1>3, Lengths DEF EngineInv, Grow
<1>5. EngineTyped'
  BY <1>1, <1>2, <1>3, StateAssumption DEF EngineInv, EngineTyped
<1>6. Len(updates) % Pools = fetched /\ last % Pools = IF p = Pools THEN 0 ELSE p
  <2>1. Len(updates) % Pools = fetched
    BY <1>1 DEF EngineInv, Sent
  <2>2. last % Pools = IF (Len(updates) % Pools) + 1 = Pools THEN 0 ELSE (Len(updates) % Pools) + 1
    BY <1>2, NextRemainder, StateAssumption
  <2>. QED
    BY <2>1, <2>2
<1>7. Sent'
  <2>1. \A u \in 1 .. last : updates'[u].from <= stateRead /\ ingress[updates'[u].from] \in Blocks
    BY <1>2, <1>3 DEF EngineInv, Sent
  <2>2. engine' = "sending" => fetched' # 0
    BY <1>1, <1>2
  <2>. QED
    BY <1>1, <1>2, <1>3, <1>6, <2>1, <2>2 DEF Sent
<1>8. WholeBlocks'
  <2>1. \A u \in 1 .. last : updates'[u].pool = 1 + ((u - 1) % Pools)
    <3> TAKE u \in 1 .. last
    <3>1. CASE u = last
      <4>1. u - 1 = Len(updates) /\ updates'[u].pool = p
        BY <1>2, <1>3, <3>1
      <4>2. (u - 1) % Pools = fetched /\ fetched \in Nat
        BY <1>6, <4>1 DEF EngineInv, EngineTyped
      <4>. QED
        BY <4>1, <4>2
    <3>2. CASE u \in 1 .. Len(updates)
      BY <1>3, <3>2 DEF EngineInv, WholeBlocks
    <3>. QED
      BY <1>2, <3>1, <3>2
  <2>2. \A u \in 2 .. last :
          IF updates'[u].pool = 1 THEN updates'[u - 1].from < updates'[u].from
          ELSE updates'[u - 1].from = updates'[u].from
    <3> TAKE u \in 2 .. last
    <3>1. CASE u = last
      <4>1. /\ u - 1 = Len(updates) /\ u - 1 \in 1 .. Len(updates)
            /\ updates'[u].pool = p /\ updates'[u].from = stateRead
            /\ updates'[u - 1] = updates[u - 1]
        BY <1>2, <1>3, <3>1
      <4>2. CASE p = 1
        <5>1. fetched = 0
          BY <1>2, <4>2 DEF EngineInv, EngineTyped
        <5>. QED
          BY <1>1, <4>1, <4>2, <5>1 DEF EngineInv, Sent
      <4>3. CASE p # 1
        <5>1. fetched # 0
          BY <4>3
        <5>. QED
          BY <1>1, <4>1, <4>3, <5>1 DEF EngineInv, Sent
      <4>. QED
        BY <4>2, <4>3
    <3>2. CASE u \in 2 .. Len(updates)
      <4>1. updates'[u] = updates[u] /\ updates'[u - 1] = updates[u - 1]
        BY <1>2, <1>3, <3>2
      <4>. QED
        BY <3>2, <4>1 DEF EngineInv, WholeBlocks
    <3>. QED
      BY <1>2, <3>1, <3>2
  <2>. QED
    BY <1>3, <2>1, <2>2 DEF WholeBlocks
<1>9. Saved'
  BY <1>1 DEF EngineInv, Saved
<1>10. Covered'
  <2> SUFFICES ASSUME NEW u \in 1 .. last, NEW q \in 1 .. Pools
               PROVE  store[Number(u)'][q] >= updates'[u].from
    BY <1>1, <1>3 DEF Covered
  <2>1. CASE u = last
    <3>1. Number(u)' = ingress[stateRead].number /\ updates'[u].from = stateRead
      BY <1>1, <1>3, <2>1 DEF Number
    <3>2. store[ingress[stateRead].number][q] = stateRead
      BY <1>1 DEF EngineInv, Saved
    <3>. QED
      BY <1>2, <3>1, <3>2
  <2>2. CASE u \in 1 .. Len(updates)
    <3>1. Number(u)' = Number(u) /\ updates'[u] = updates[u]
      BY <1>3, <1>4, <2>2, NumbersStay
    <3>. QED
      BY <2>2, <3>1 DEF EngineInv, Covered
  <2>. QED
    BY <1>2, <2>1, <2>2
<1>. QED
  BY <1>4, <1>5, <1>7, <1>8, <1>9, <1>10 DEF EngineInv

\* Every step keeps the engine's invariant and lets the channels only grow.
LEMMA EngineStep == EngineInv /\ [Next]_vars => EngineInv' /\ Grow
<1> SUFFICES ASSUME EngineInv, [Next]_vars PROVE EngineInv' /\ Grow
  OBVIOUS
<1>1. CASE PublishIngress
  BY <1>1, PublishKeepsEngine
<1>2. CASE TakeIngress \/ StateLagged \/ RefreshFails \/ AbortState
  BY <1>2, ReceiveKeepsEngine
<1>3. CASE RefreshPool
  BY <1>3, RefreshKeepsEngine
<1>4. CASE SendUpdate
  BY <1>4, SendKeepsEngine
<1>5. CASE Opportunity \/ AbortOpp \/ UNCHANGED vars
  <2>1. UNCHANGED <<ingress, stateRead, engine, fetched, store, updates>>
    BY <1>5 DEF Opportunity, TakeUpdate, OppLagged, AbortOpp, vars, engineVars
  <2>2. Grow
    BY <2>1, Lengths DEF EngineInv, Grow
  <2>. QED
    BY <2>1, <2>2 DEF EngineInv, EngineTyped, Sent, WholeBlocks, Saved, Covered, Number
<1>. QED
  BY <1>1, <1>2, <1>3, <1>4, <1>5 DEF Next, StateEngine

LEMMA EngineInductive == Spec => []EngineInv
<1>1. EngineInv /\ [Next]_vars => EngineInv'
  BY EngineStep
<1>. QED
  BY <1>1, EngineInit, PTL DEF Spec

\* state_tx carries whole blocks, each in the order of config.state.pools.
THEOREM WholeBlocksSent == Spec => []UpdatesAreWholeBlocks
<1>1. EngineInv => UpdatesAreWholeBlocks
  BY Lengths DEF EngineInv, Sent, WholeBlocks, UpdatesAreWholeBlocks
<1>. QED
  BY <1>1, EngineInductive, PTL

\* The snapshot is never older than an update that left.
THEOREM StoreCovers == Spec => []StoreCoversUpdates
<1>1. EngineInv => StoreCoversUpdates
  BY Lengths DEF EngineInv, Covered, StoreCoversUpdates
<1>. QED
  BY <1>1, EngineInductive, PTL

-----------------------------------------------------------------------------
(* The pairs of a group *)

\* The nested loops give pairs of the group's members, and every pair of two of them.
LEMMA PairsOfGroup ==
  ASSUME NEW X, NEW group \in Seq(X)
  PROVE  /\ PairsOf(group) \in Seq(X \X X)
         /\ \A a, b \in 1 .. Len(group) : a < b =>
              \E m \in 1 .. Len(PairsOf(group)) : PairsOf(group)[m] = <<group[a], group[b]>>
<1> DEFINE k == Len(group)
           V == Seq(X \X X)
           Row(i) == [j \in 1 .. k - i |-> <<group[i], group[i + j]>>]
           rows == CHOOSE f : f = [i \in 0 .. k |-> IF i = 0 THEN <<>> ELSE f[i - 1] \o Row(i)]
           step == [i \in 1 .. k |-> [x \in V |-> x \o Row(i)]]
<1>1. k \in Nat /\ \A i \in 1 .. k : group[i] \in X
  BY LenProperties, ElementOfSeq
<1>2. PairsOf(group) = rows[k]
  BY DEF PairsOf
<1>3. \A i \in 1 .. k : /\ Row(i) \in V /\ Len(Row(i)) = k - i
                        /\ \A j \in 1 .. k - i : Row(i)[j] = <<group[i], group[i + j]>>
  <2> TAKE i \in 1 .. k
  <2>1. k - i \in Nat /\ \A j \in 1 .. k - i : <<group[i], group[i + j]>> \in X \X X
    BY <1>1
  <2>2. Row(i) \in [1 .. k - i -> X \X X]
    BY <2>1
  <2>. QED
    BY <2>1, <2>2
<1> HIDE DEF Row
<1>4. <<>> \in V /\ step \in [1 .. k -> [V -> V]]
  <2>1. \A i \in 1 .. k : \A x \in V : x \o Row(i) \in V
    BY <1>3, ConcatProperties
  <2> HIDE DEF V
  <2>2. \A i \in 1 .. k : [x \in V |-> x \o Row(i)] \in [V -> V]
    BY <2>1
  <2>3. step \in [1 .. k -> [V -> V]]
    BY <2>2
  <2>4. <<>> \in V
    BY DEF V
  <2>. QED
    BY <2>3, <2>4
<1>5. \A i \in 1 .. k : \A x \in V : step[i][x] = x \o Row(i)
  OBVIOUS
<1> HIDE DEF V, step, k
<1>6. PICK g \in [0 .. k -> V] : g[0] = <<>> /\ \A i \in 1 .. k : g[i] = step[i][g[i - 1]]
  <2>1. \E g : Follows(g, k, V, <<>>, step)
    BY <1>1, <1>4, Recursion
  <2>. QED
    BY <2>1 DEF Follows
<1>7. \A i \in 1 .. k : i - 1 \in 0 .. k /\ g[i] = g[i - 1] \o Row(i)
  <2> TAKE i \in 1 .. k
  <2>1. i - 1 \in 0 .. k
    BY <1>1
  <2>2. g[i - 1] \in V
    BY <1>6, <2>1
  <2>. QED
    BY <1>5, <1>6, <2>1, <2>2
<1>8. g = [i \in 0 .. k |-> IF i = 0 THEN <<>> ELSE g[i - 1] \o Row(i)]
  BY <1>1, <1>6, <1>7
<1>9. rows = [i \in 0 .. k |-> IF i = 0 THEN <<>> ELSE rows[i - 1] \o Row(i)]
  BY <1>8
<1> HIDE DEF rows
<1>10. rows[0] = <<>> /\ \A i \in 1 .. k : rows[i] = rows[i - 1] \o Row(i)
  <2>1. \A i \in 0 .. k : rows[i] = IF i = 0 THEN <<>> ELSE rows[i - 1] \o Row(i)
    BY <1>9, Zenon
  <2>2. 0 \in 0 .. k /\ \A i \in 1 .. k : i \in 0 .. k /\ i # 0
    BY <1>1
  <2>. QED
    BY <2>1, <2>2, Zenon
<1> DEFINE Has(i) == /\ rows[i] \in V
                     /\ \A a \in 1 .. i : \A b \in a + 1 .. k :
                          \E m \in 1 .. Len(rows[i]) : rows[i][m] = <<group[a], group[b]>>
           S == {i \in Nat : i <= k => Has(i)}
<1>11. Has(0)
  BY <1>4, <1>10
<1>12. ASSUME NEW i \in Nat, Has(i), i + 1 <= k PROVE Has(i + 1)
  <2> DEFINE old == rows[i]
             row == Row(i + 1)
             new == old \o row
  <2>1. i + 1 \in 1 .. k /\ (i + 1) - 1 = i
    BY <1>1, <1>12
  <2>2. /\ rows[i + 1] = new /\ old \in V /\ row \in V /\ Len(row) = k - (i + 1)
        /\ \A j \in 1 .. k - (i + 1) : row[j] = <<group[i + 1], group[i + 1 + j]>>
    BY <1>3, <1>10, <1>12, <2>1
  <2> HIDE DEF old, row
  <2>3. /\ new \in V /\ Len(new) = Len(old) + Len(row)
        /\ Len(old) \in Nat /\ Len(row) \in Nat
        /\ \A m \in 1 .. Len(old) + Len(row) :
             new[m] = IF m <= Len(old) THEN old[m] ELSE row[m - Len(old)]
    BY <2>2, ConcatProperties, LenProperties DEF V
  <2> HIDE DEF new
  <2>4. ASSUME NEW a \in 1 .. i + 1, NEW b \in a + 1 .. k
        PROVE  \E m \in 1 .. Len(new) : new[m] = <<group[a], group[b]>>
    <3>1. CASE a \in 1 .. i
      <4>1. PICK m \in 1 .. Len(old) : old[m] = <<group[a], group[b]>>
        BY <1>12, <2>4, <3>1 DEF old
      <4>2. m \in 1 .. Len(new) /\ new[m] = old[m]
        BY <2>3
      <4>. QED
        BY <4>1, <4>2
    <3>2. CASE a = i + 1
      <4>1. b - a \in 1 .. Len(row) /\ row[b - a] = <<group[a], group[b]>>
        BY <1>1, <2>2, <2>4, <3>2
      <4> DEFINE m == Len(old) + (b - a)
      <4>2. m \in 1 .. Len(new) /\ ~ (m <= Len(old)) /\ m - Len(old) = b - a
        BY <2>3, <4>1
      <4>. QED
        BY <2>3, <4>1, <4>2
    <3>. QED
      BY <2>4, <3>1, <3>2
  <2>. QED
    BY <2>2, <2>3, <2>4
<1> HIDE DEF Has
<1>13. \A i \in Nat : i \in S
  <2>1. 0 \in S /\ \A i \in Nat : i \in S => i + 1 \in S
    BY <1>1, <1>11, <1>12
  <2> HIDE DEF S
  <2>. QED
    BY <2>1, SetInduction
<1>14. Has(k)
  BY <1>1, <1>13
<1>15. \A a, b \in 1 .. k : a < b => b \in a + 1 .. k
  BY <1>1
<1>. QED
  BY <1>2, <1>14, <1>15 DEF V, Has, k

\* The candidates are among the pairs.
LEMMA HitsArePairs ==
  ASSUME NEW T, NEW pairs \in Seq(T)
  PROVE  Hits(pairs) \in Seq(T)
<1> DEFINE k == Len(pairs)
           V == Seq(T)
           Step(i, x) == IF Diverge(pairs[i][1], pairs[i][2]) THEN Append(x, pairs[i]) ELSE x
           hits == CHOOSE f : f = [i \in 0 .. k |->
                     IF i = 0 THEN <<>>
                     ELSE IF Diverge(pairs[i][1], pairs[i][2]) THEN Append(f[i - 1], pairs[i])
                     ELSE f[i - 1]]
           step == [i \in 1 .. k |-> [x \in V |-> Step(i, x)]]
<1>1. k \in Nat /\ \A i \in 1 .. k : pairs[i] \in T
  BY LenProperties, ElementOfSeq
<1>2. Hits(pairs) = hits[k]
  BY DEF Hits
<1>3. \A i \in 1 .. k : \A x \in V : Step(i, x) \in V
  BY <1>1, AppendProperties
<1>4. <<>> \in V /\ step \in [1 .. k -> [V -> V]]
  <2>1. <<>> \in V
    OBVIOUS
  <2> HIDE DEF V, Step
  <2>. QED
    BY <1>3, <2>1
<1> HIDE DEF V, step, k, Step
<1>5. PICK g \in [0 .. k -> V] : g[0] = <<>> /\ \A i \in 1 .. k : g[i] = step[i][g[i - 1]]
  <2>1. \E g : Follows(g, k, V, <<>>, step)
    BY <1>1, <1>4, Recursion
  <2>. QED
    BY <2>1 DEF Follows
<1>6. \A i \in 1 .. k : g[i] = Step(i, g[i - 1])
  <2> TAKE i \in 1 .. k
  <2>1. i - 1 \in 0 .. k
    BY <1>1
  <2>2. g[i - 1] \in V
    BY <1>5, <2>1
  <2>. QED
    BY <1>5, <2>2 DEF step
<1>7. g = [i \in 0 .. k |-> IF i = 0 THEN <<>> ELSE Step(i, g[i - 1])]
  BY <1>1, <1>5, <1>6
<1>8. hits = [i \in 0 .. k |-> IF i = 0 THEN <<>> ELSE Step(i, hits[i - 1])]
  BY <1>7 DEF Step
<1> HIDE DEF hits
<1>9. hits[0] = <<>> /\ \A i \in 1 .. k : hits[i] = Step(i, hits[i - 1])
  <2>1. \A i \in 0 .. k : hits[i] = IF i = 0 THEN <<>> ELSE Step(i, hits[i - 1])
    BY <1>8, Zenon
  <2>2. 0 \in 0 .. k /\ \A i \in 1 .. k : i \in 0 .. k /\ i # 0
    BY <1>1
  <2>. QED
    BY <2>1, <2>2, Zenon
<1> DEFINE S == {i \in Nat : i <= k => hits[i] \in V}
<1>10. \A i \in Nat : i \in S
  <2>1. 0 \in S
    BY <1>4, <1>9
  <2>2. ASSUME NEW i \in Nat, i \in S PROVE i + 1 \in S
    <3>1. CASE i + 1 <= k
      <4>1. i + 1 \in 1 .. k /\ (i + 1) - 1 = i /\ hits[i] \in V
        BY <1>1, <2>2, <3>1
      <4>. QED
        BY <1>3, <1>9, <4>1
    <3>2. CASE ~ (i + 1 <= k)
      BY <3>2
    <3>. QED
      BY <3>1, <3>2
  <2> HIDE DEF S
  <2>. QED
    BY <2>1, <2>2, SetInduction
<1>. QED
  BY <1>1, <1>2, <1>10 DEF V

-----------------------------------------------------------------------------
(* opportunity_driver *)

Keys(g) == {n \in Numbers : g[n] # <<>>}

\* Forgetting empties groups, those more than Window below the highest, and leaves no more
\* than MaxGroups of them.
LEMMA EvictForgets ==
  ASSUME NEW X, NEW g \in [Numbers -> Seq(X)],
         NEW bound \in Nat, \A n \in Keys(g) : n <= bound
  PROVE  /\ Evict(g) \in [Numbers -> Seq(X)]
         /\ \A n \in Numbers : Evict(g)[n] \in {g[n], <<>>}
         /\ \A n \in Numbers : (\A m \in Keys(g) : m <= n + Window) => Evict(g)[n] = g[n]
         /\ Cardinality(Keys(Evict(g))) <= MaxGroups
<1> DEFINE high == CHOOSE n \in Keys(g) : \A m \in Keys(g) : m <= n
<1>1. CASE Cardinality(Keys(g)) <= MaxGroups
  <2>1. Evict(g) = g
    BY <1>1 DEF Evict, Keys
  <2>. QED
    BY <1>1, <2>1
<1>2. CASE ~ (Cardinality(Keys(g)) <= MaxGroups)
  <2>1. Evict(g) = [n \in Numbers |-> IF n + Window >= high THEN g[n] ELSE <<>>]
    BY <1>2 DEF Evict, Keys
  <2>2. Keys(g) \in SUBSET Nat
    BY StateAssumption DEF Keys
  <2>3. Keys(g) # {}
    BY <1>2, FS_EmptySet, StateAssumption
  <2>4. \E n \in Keys(g) : \A m \in Keys(g) : m <= n
    BY <2>2, <2>3, Greatest
  <2>5. high \in Keys(g) /\ high \in Nat /\ \A m \in Keys(g) : m <= high
    BY <2>2, <2>4
  <2> HIDE DEF high
  <2>6. Evict(g) \in [Numbers -> Seq(X)] /\ \A n \in Numbers : Evict(g)[n] \in {g[n], <<>>}
    BY <2>1
  <2>7. ASSUME NEW n \in Numbers, \A m \in Keys(g) : m <= n + Window
        PROVE  Evict(g)[n] = g[n]
    BY <2>1, <2>5, <2>7, StateAssumption
  <2>8. Keys(Evict(g)) \in SUBSET ((high - Window) .. high)
    <3> SUFFICES ASSUME NEW n \in Numbers, Evict(g)[n] # <<>>
                 PROVE  n \in (high - Window) .. high
      BY DEF Keys
    <3>1. n + Window >= high /\ g[n] # <<>>
      BY <2>1
    <3>2. n <= high /\ n \in Nat
      BY <2>5, <3>1, StateAssumption DEF Keys
    <3>. QED
      BY <2>5, <3>1, <3>2, StateAssumption
  <2>9. /\ IsFiniteSet((high - Window) .. high)
        /\ Cardinality((high - Window) .. high) = Window + 1
    <3>1. high - Window \in Int /\ high \in Int /\ ~ (high - Window > high)
          /\ high - (high - Window) + 1 = Window + 1
      BY <2>5, StateAssumption
    <3>. QED
      BY <3>1, FS_Interval
  <2>10. /\ Cardinality(Keys(Evict(g))) <= Window + 1
         /\ Cardinality(Keys(Evict(g))) \in Nat
    BY <2>8, <2>9, FS_Subset, FS_CardinalityType
  <2>. QED
    BY <2>6, <2>7, <2>10, StateAssumption
<1>. QED
  BY <1>1, <1>2

OppTyped ==
  /\ oppRead \in 0 .. Len(updates)
  /\ opp \in {"recv", "lagged", "cancelled"}
  /\ groups \in [Numbers -> Seq(1 .. oppRead)]
  /\ compared \subseteq (1 .. oppRead) \X (1 .. oppRead)
  /\ found \in Seq(compared)

\* A group holds updates of its number, and there is a highest number with one.
Grouped ==
  /\ \A n \in Numbers : \A i \in 1 .. Len(groups[n]) : Number(groups[n][i]) = n
  /\ \E bound \in Nat : \A n \in Keys(groups) : n <= bound

\* No number taken by now is more than Window above that of a.
Near(a) == \A c \in 1 .. oppRead : Number(c) <= Number(a) + Window

Remembered ==
  opp # "lagged" =>
    \A a \in 1 .. oppRead :
      Near(a) => \E i \in 1 .. Len(groups[Number(a)]) : groups[Number(a)][i] = a

OppInv == OppTyped /\ Grouped /\ Remembered /\ PairsAreCompared /\ GroupsBounded

LEMMA OppInit == Init => OppInv
<1> SUFFICES ASSUME Init PROVE OppInv
  OBVIOUS
<1>1. oppRead = 0 /\ Len(updates) = 0 /\ groups = [n \in Numbers |-> <<>>]
      /\ compared = {} /\ found = <<>> /\ opp = "recv"
  BY DEF Init
<1>2. OppTyped
  BY <1>1 DEF OppTyped
<1>3. Keys(groups) = {}
  BY <1>1 DEF Keys
<1>4. GroupsBounded
  BY <1>3, FS_EmptySet, StateAssumption DEF GroupsBounded, Keys
<1>5. Grouped
  BY <1>1, <1>3 DEF Grouped
<1>. QED
  BY <1>1, <1>2, <1>4, <1>5 DEF OppInv, Remembered, PairsAreCompared

\* A step that takes no update keeps the groups; a lag ends the promise of memory.
LEMMA IdleKeepsOpp ==
  ASSUME EngineInv, Grow, OppInv, UNCHANGED <<groups, compared, found>>,
         oppRead' \in oppRead .. Len(updates'), opp' \in {"recv", "lagged", "cancelled"},
         opp' # "lagged" => oppRead' = oppRead /\ opp # "lagged"
  PROVE  OppInv'
<1>1. /\ oppRead \in Nat /\ oppRead <= Len(updates) /\ oppRead' \in Nat /\ oppRead <= oppRead'
      /\ Len(updates) \in Nat
      /\ 1 .. oppRead \subseteq 1 .. oppRead' /\ 1 .. oppRead \subseteq 1 .. Len(updates)
  BY Lengths DEF OppInv, OppTyped, EngineInv
<1>2. \A a \in 1 .. oppRead : Number(a)' = Number(a)
  BY <1>1, NumbersStay
<1>3. OppTyped'
  <2>1. Seq(1 .. oppRead) \subseteq Seq(1 .. oppRead')
    BY <1>1, SeqMonotonic
  <2>2. groups' \in [Numbers -> Seq(1 .. oppRead')]
    BY <2>1 DEF OppInv, OppTyped
  <2>3. compared' \subseteq (1 .. oppRead') \X (1 .. oppRead')
    BY <1>1 DEF OppInv, OppTyped
  <2>. QED
    BY <1>1, <2>2, <2>3 DEF OppInv, OppTyped
<1>4. Grouped'
  <2>1. \A n \in Numbers : \A i \in 1 .. Len(groups[n]) : groups[n][i] \in 1 .. oppRead
    BY ElementOfSeq DEF OppInv, OppTyped
  <2>. QED
    BY <1>2, <2>1 DEF OppInv, Grouped, Keys
<1>5. GroupsBounded'
  BY DEF OppInv, GroupsBounded
<1>6. CASE opp' = "lagged"
  BY <1>3, <1>4, <1>5, <1>6 DEF OppInv, Remembered, PairsAreCompared
<1>7. CASE opp' # "lagged"
  <2>1. oppRead' = oppRead /\ opp # "lagged"
    BY <1>7
  <2>2. Remembered'
    BY <1>2, <2>1 DEF OppInv, Remembered, Near
  <2>3. PairsAreCompared'
    <3> SUFFICES ASSUME NEW a \in 1 .. oppRead, NEW b \in 1 .. oppRead,
                        a < b, Number(a) = Number(b), updates[a].pool # updates[b].pool,
                        \A c \in 1 .. b : Number(c) <= Number(a) + Window
                 PROVE  <<a, b>> \in compared
      <4>1. \A a \in 1 .. oppRead : updates'[a] = updates[a]
        BY <1>1 DEF Grow
      <4>2. \A b \in 1 .. oppRead : \A c \in 1 .. b : c \in 1 .. oppRead
        BY <1>1
      <4>. QED
        BY <1>2, <2>1, <4>1, <4>2 DEF PairsAreCompared
    <3>. QED
      BY <2>1 DEF OppInv, PairsAreCompared
  <2>. QED
    BY <1>3, <1>4, <1>5, <2>2, <2>3 DEF OppInv
<1>. QED
  BY <1>6, <1>7

\* An update joins its group and is compared with all it holds.
LEMMA TakeKeepsOpp ==
  ASSUME EngineInv, OppInv, TakeUpdate
  PROVE  OppInv'
<1> DEFINE next == oppRead + 1
           n == Number(next)
           group == Append(groups[n], next)
           pairs == PairsOf(group)
           joined == [groups EXCEPT ![n] = group]
<1>1. /\ opp = "recv" /\ opp' = opp /\ oppRead' = next /\ UNCHANGED <<ingress, updates>>
      /\ compared' = compared \cup {pairs[i] : i \in DOMAIN pairs}
      /\ found' = found \o Hits(pairs)
      /\ groups' = Evict(joined)
  BY DEF TakeUpdate
<1>2. /\ oppRead \in Nat /\ next \in 1 .. Len(updates) /\ Len(updates) \in Nat
      /\ 1 .. oppRead \subseteq 1 .. next /\ next \in 1 .. next
      /\ \A a \in 1 .. next : a \in 1 .. oppRead \/ a = next
  BY Lengths DEF TakeUpdate, HasNext, OppInv, OppTyped, EngineInv
<1>3. \A a \in 1 .. next : Number(a)' = Number(a) /\ Number(a) \in Numbers /\ Number(a) \in Nat
  <2>1. \A a \in 1 .. next : a \in 1 .. Len(updates)
    BY <1>2
  <2>2. \A a \in 1 .. Len(updates) : Number(a) \in Numbers /\ Number(a) \in Nat
    BY Lengths, StateAssumption DEF EngineInv, Sent, Number, Blocks
  <2>. QED
    BY <1>1, <2>1, <2>2 DEF Number
<1>4. groups \in [Numbers -> Seq(1 .. next)] /\ n \in Numbers
  <2>1. Seq(1 .. oppRead) \subseteq Seq(1 .. next)
    BY <1>2, SeqMonotonic
  <2>. QED
    BY <1>2, <1>3, <2>1 DEF OppInv, OppTyped
<1>5. /\ group \in Seq(1 .. next) /\ Len(group) = Len(groups[n]) + 1 /\ Len(groups[n]) \in Nat
      /\ \A i \in 1 .. Len(groups[n]) : group[i] = groups[n][i]
      /\ group[Len(group)] = next
  BY <1>2, <1>4, AppendProperties, LenProperties
<1> HIDE DEF n, group
<1>6. joined \in [Numbers -> Seq(1 .. next)] /\ joined[n] = group
      /\ \A m \in Numbers : m # n => joined[m] = groups[m]
  BY <1>4, <1>5
<1>7. \A m \in Numbers : \A i \in 1 .. Len(joined[m]) :
        /\ joined[m][i] \in 1 .. next /\ Number(joined[m][i]) = m
  <2> TAKE m \in Numbers
  <2> TAKE i \in 1 .. Len(joined[m])
  <2>1. joined[m][i] \in 1 .. next
    BY <1>6, ElementOfSeq
  <2>2. CASE m # n
    BY <1>6, <2>1, <2>2 DEF OppInv, Grouped
  <2>3. CASE m = n
    <3>1. i \in 1 .. Len(groups[n]) \/ i = Len(group)
      BY <1>5, <1>6, <2>3
    <3>2. i \in 1 .. Len(groups[n]) => Number(group[i]) = n
      BY <1>4, <1>5 DEF OppInv, Grouped
    <3>3. Number(group[Len(group)]) = n
      BY <1>5 DEF n
    <3>. QED
      BY <1>6, <2>1, <2>3, <3>1, <3>2, <3>3
  <2>. QED
    BY <2>2, <2>3
<1>8. \E bound \in Nat : \A m \in Keys(joined) : m <= bound
  <2>1. PICK old \in Nat : \A m \in Keys(groups) : m <= old
    BY DEF OppInv, Grouped
  <2> DEFINE bound == IF n <= old THEN old ELSE n
  <2>2. n \in Nat /\ bound \in Nat /\ old <= bound /\ n <= bound
    BY <1>2, <1>3, <2>1 DEF n
  <2>3. \A m \in Keys(joined) : m = n \/ m \in Keys(groups)
    BY <1>6 DEF Keys
  <2>4. \A m \in Numbers : m \in Nat
    BY StateAssumption
  <2>. QED
    BY <2>1, <2>2, <2>3, <2>4 DEF Keys
<1> HIDE DEF joined
<1>9. PICK bound \in Nat : \A m \in Keys(joined) : m <= bound
  BY <1>8
<1>10. /\ groups' \in [Numbers -> Seq(1 .. next)]
       /\ \A m \in Numbers : groups'[m] \in {joined[m], <<>>}
       /\ \A m \in Numbers : (\A k \in Keys(joined) : k <= m + Window) => groups'[m] = joined[m]
       /\ Cardinality(Keys(groups')) <= MaxGroups
  BY <1>1, <1>6, <1>9, EvictForgets
<1>11. GroupsBounded'
  BY <1>10 DEF GroupsBounded, Keys
<1>12. Grouped'
  <2>1. \A m \in Numbers : \A i \in 1 .. Len(groups'[m]) :
          groups'[m][i] \in 1 .. next /\ Number(groups'[m][i]) = m
    <3> TAKE m \in Numbers
    <3> TAKE i \in 1 .. Len(groups'[m])
    <3>1. groups'[m] = joined[m]
      BY <1>10
    <3>. QED
      BY <1>7, <3>1
  <2>2. Keys(groups)' \subseteq Keys(joined)
    BY <1>10 DEF Keys
  <2>3. (\A m \in Numbers : \A i \in 1 .. Len(groups[m]) : Number(groups[m][i]) = m)'
    BY <1>1, <2>1 DEF Number
  <2>4. (\E k \in Nat : \A m \in Keys(groups) : m <= k)'
    BY <1>9, <2>2
  <2>. QED
    BY <2>3, <2>4 DEF Grouped
<1>13. \A a \in 1 .. next : (\A c \in 1 .. next : Number(c) <= Number(a) + Window) =>
         groups'[Number(a)] = joined[Number(a)]
  <2> SUFFICES ASSUME NEW a \in 1 .. next, NEW k \in Keys(joined),
                      \A c \in 1 .. next : Number(c) <= Number(a) + Window
               PROVE  k <= Number(a) + Window
    BY <1>3, <1>10
  <2>1. k \in Numbers /\ joined[k] # <<>>
    BY DEF Keys
  <2>2. Len(joined[k]) \in Nat /\ Len(joined[k]) # 0
    BY <1>6, <2>1, LenProperties, EmptySeq
  <2>3. joined[k][1] \in 1 .. next /\ Number(joined[k][1]) = k
    BY <1>7, <2>1, <2>2
  <2>. QED
    BY <2>3
<1>14. Remembered'
  <2> SUFFICES ASSUME NEW a \in 1 .. next, \A c \in 1 .. next : Number(c) <= Number(a) + Window
               PROVE  \E i \in 1 .. Len(joined[Number(a)]) : joined[Number(a)][i] = a
    BY <1>1, <1>3, <1>13 DEF Remembered, Near
  <2>1. CASE a = next
    <3>1. Number(a) = n /\ Len(group) \in 1 .. Len(group)
      BY <1>5, <2>1 DEF n
    <3>. QED
      BY <1>5, <1>6, <2>1, <3>1
  <2>2. CASE a \in 1 .. oppRead
    <3>1. PICK i \in 1 .. Len(groups[Number(a)]) : groups[Number(a)][i] = a
      BY <1>1, <1>2, <2>2 DEF OppInv, Remembered, Near
    <3>2. CASE Number(a) = n
      BY <1>5, <1>6, <3>1, <3>2
    <3>3. CASE Number(a) # n
      BY <1>3, <1>6, <3>1, <3>3
    <3>. QED
      BY <3>2, <3>3
  <2>. QED
    BY <1>2, <2>1, <2>2
<1>15. /\ pairs \in Seq((1 .. next) \X (1 .. next))
       /\ \A i, j \in 1 .. Len(group) : i < j =>
            \E m \in 1 .. Len(pairs) : pairs[m] = <<group[i], group[j]>>
  BY <1>5, PairsOfGroup
<1> HIDE DEF pairs
<1>16. DOMAIN pairs = 1 .. Len(pairs) /\ \A m \in 1 .. Len(pairs) : pairs[m] \in (1 .. next) \X (1 .. next)
  BY <1>15, LenProperties, ElementOfSeq
<1>17. OppTyped'
  <2>1. compared' \subseteq (1 .. next) \X (1 .. next)
    BY <1>1, <1>2, <1>16 DEF OppInv, OppTyped
  <2>2. found \in Seq(compared')
    <3>1. Seq(compared) \subseteq Seq(compared')
      BY <1>1, SeqMonotonic
    <3>. QED
      BY <3>1 DEF OppInv, OppTyped
  <2>3. pairs \in Seq(compared')
    <3>1. Len(pairs) \in Nat /\ pairs \in [1 .. Len(pairs) -> compared']
      BY <1>1, <1>15, <1>16, LenProperties
    <3>. QED
      BY <3>1
  <2>4. found' \in Seq(compared')
    BY <1>1, <2>2, <2>3, HitsArePairs, ConcatProperties
  <2>5. oppRead' \in 0 .. Len(updates')
    BY <1>1, <1>2
  <2>. QED
    BY <1>1, <1>10, <2>1, <2>4, <2>5 DEF OppTyped
<1>18. PairsAreCompared'
  <2> SUFFICES ASSUME NEW a \in 1 .. next, NEW b \in 1 .. next,
                      a < b, Number(a) = Number(b), updates[a].pool # updates[b].pool,
                      \A c \in 1 .. b : Number(c) <= Number(a) + Window
               PROVE  <<a, b>> \in compared'
    <3>1. \A b \in 1 .. next : \A c \in 1 .. b : c \in 1 .. next
      BY <1>2
    <3>. QED
      BY <1>1, <1>3, <3>1 DEF PairsAreCompared
  <2>1. CASE b \in 1 .. oppRead
    <3>1. a \in 1 .. oppRead
      BY <1>2, <2>1
    <3>2. <<a, b>> \in compared
      BY <1>1, <2>1, <3>1 DEF OppInv, PairsAreCompared
    <3>. QED
      BY <1>1, <3>2
  <2>2. CASE b = next
    <3>1. a \in 1 .. oppRead /\ Number(a) = n
      BY <1>2, <2>2 DEF n
    <3>2. PICK i \in 1 .. Len(groups[n]) : groups[n][i] = a
      BY <1>1, <1>2, <2>2, <3>1 DEF OppInv, Remembered, Near
    <3>3. i \in 1 .. Len(group) /\ Len(group) \in 1 .. Len(group) /\ i < Len(group)
      BY <1>5, <3>2
    <3>4. PICK m \in 1 .. Len(pairs) : pairs[m] = <<group[i], group[Len(group)]>>
      BY <1>15, <3>3
    <3>5. pairs[m] = <<a, b>>
      BY <1>5, <2>2, <3>2, <3>4
    <3>. QED
      BY <1>1, <1>16, <3>4, <3>5
  <2>. QED
    BY <1>2, <2>1, <2>2
<1>. QED
  BY <1>11, <1>12, <1>14, <1>17, <1>18 DEF OppInv

LEMMA OppInductive == Spec => []OppInv
<1>1. EngineInv /\ OppInv /\ [Next]_vars => OppInv'
  <2> SUFFICES ASSUME EngineInv, OppInv, [Next]_vars PROVE OppInv'
    OBVIOUS
  <2>1. Grow
    BY EngineStep
  <2>2. /\ oppRead \in Nat /\ oppRead <= Len(updates) /\ Len(updates) <= Len(updates')
        /\ Len(updates) \in Nat /\ opp \in {"recv", "lagged", "cancelled"}
        /\ Len(updates') \in Nat
    <3>1. EngineInv'
      BY EngineStep
    <3>2. Len(updates') \in Nat
      BY <3>1, LenProperties DEF EngineInv, EngineTyped
    <3>. QED
      BY <2>1, <3>2, Lengths DEF Grow, OppInv, OppTyped, EngineInv
  <2>3. CASE TakeUpdate
    BY <2>3, TakeKeepsOpp
  <2>4. CASE OppLagged
    <3>1. oppRead' \in oppRead .. Len(updates') /\ opp' = "lagged"
          /\ UNCHANGED <<groups, compared, found>>
      BY <2>2, <2>4, StateAssumption DEF OppLagged, Lagged, OldestKept
    <3>. QED
      BY <2>1, <3>1, IdleKeepsOpp
  <2>5. CASE AbortOpp
    <3>1. oppRead' = oppRead /\ opp = "recv" /\ opp' = "cancelled"
          /\ UNCHANGED <<groups, compared, found>>
      BY <2>5 DEF AbortOpp
    <3>. QED
      BY <2>1, <2>2, <3>1, IdleKeepsOpp
  <2>6. CASE PublishIngress \/ StateEngine \/ AbortState \/ UNCHANGED vars
    <3>1. UNCHANGED <<oppRead, opp, groups, compared, found>>
      BY <2>6 DEF PublishIngress, StateEngine, TakeIngress, StateLagged, RefreshPool, RefreshFails,
                  SendUpdate, AbortState, vars, oppVars
    <3>. QED
      BY <2>1, <2>2, <3>1, IdleKeepsOpp
  <2>. QED
    BY <2>3, <2>4, <2>5, <2>6 DEF Next, Opportunity
<1>. QED
  BY <1>1, OppInit, EngineInductive, PTL DEF Spec

\* No pair within the window is missed before a lag.
THEOREM PairsCompared == Spec => []PairsAreCompared
<1>1. OppInv => PairsAreCompared
  BY DEF OppInv
<1>. QED
  BY <1>1, OppInductive, PTL

\* by_block holds at most MaxGroups numbers.
THEOREM GroupsStayBounded == Spec => []GroupsBounded
<1>1. OppInv => GroupsBounded
  BY DEF OppInv
<1>. QED
  BY <1>1, OppInductive, PTL

\* The type invariant of both drivers.
THEOREM TypeCorrect == Spec => []TypeOK
<1>1. EngineInv /\ OppInv => TypeOK
  BY DEF EngineInv, EngineTyped, OppInv, OppTyped, UpdateRecord, TypeOK, Refreshing
<1>. QED
  BY <1>1, EngineInductive, OppInductive, PTL
=============================================================================
