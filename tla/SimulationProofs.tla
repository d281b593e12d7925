--------------------------- MODULE SimulationProofs ---------------------------
(***************************************************************************)
(* Proofs about Simulation, for every chain, every engine and every bound. *)
(*                                                                         *)
(* What the simulator is given is safe because the fixtures that exist are *)
(* few: whoever installs one, it is the whole state of two pools at one    *)
(* block, so the comparisons of simulate_with_fingerprint, of the block    *)
(* and of the pools, decide everything.  The inductive invariant says      *)
(* that, of the active fixture, of the cache and of what is half fetched.  *)
(***************************************************************************)
EXTENDS Simulation, NumberLemmas, SequenceTheorems

LOCAL INSTANCE SequencesExt

\* The state of two pools and four accounts at one block, and nothing else.
WholeFixture(hash, source, sink) ==
  Fixture(Key(hash, source, sink), [part \in DOMAIN Parts |-> hash],
          << SwapSlots(source, hash), SwapSlots(sink, hash) >>)
WholeFixtures ==
  {WholeFixture(hash, source, sink) : hash \in Hashes, source \in Pools, sink \in Pools}

Opportunities ==
  [number : Nat, hash : Hashes \cup {NoHash}, readAt : Hashes, source : Pools,
   sink : Pools, amount : Amounts]
Approvals ==
  [opp : Nat \ {0}, size : {Size(opp) : opp \in Opportunities}, under : Budgets]
Runs == UNION {EvmRuns(amount) : amount \in Amounts}
Outcomes ==
  [opp : Nat \ {0}, checked : Nat \ {0}, fixture : WholeFixtures, run : Runs]

Typed ==
  /\ opps \in Seq(Opportunities) /\ budget \in Budgets
  /\ riskRead \in Nat /\ riskRead <= Len(opps)
  /\ checked \in Seq(Approvals) /\ simRead \in Nat /\ simRead <= Len(checked)
  /\ sim \in {"recv", "fetching", "simulating", "signing", "lagged", "cancelled"}
  /\ sim \in {"fetching", "simulating", "signing"} => simRead > 0
  /\ outcomes \in Seq(Outcomes)

\* What was approved, or run, is about an opportunity that was sent.
Sent ==
  /\ \A k \in DOMAIN checked : checked[k].opp <= Len(opps)
  /\ \A k \in DOMAIN outcomes : outcomes[k].opp <= Len(opps)

FixturesAreWhole ==
  /\ active \in WholeFixtures \cup {NoFixture}
  /\ cache \in Seq(WholeFixtures)

\* Everything fetched so far is of the block asked for, which is then a block.
FetchedIsOfOneBlock ==
  sim = "fetching" =>
    /\ fetched \in Seq({Current.hash}) /\ Len(fetched) <= Len(Parts)
    /\ fetched # <<>> => Current.hash # NoHash

RanOnItsFixture(outcome) == outcome.fixture.key = OppKey(opps[outcome.opp])
OutcomesRanOnTheirs ==
  /\ \A k \in DOMAIN outcomes : RanOnItsFixture(outcomes[k])
  /\ sim = "signing" =>
       local \in Outcomes /\ local.opp <= Len(opps) /\ RanOnItsFixture(local)

IInv == Typed /\ Sent /\ FixturesAreWhole /\ FetchedIsOfOneBlock /\ OutcomesRanOnTheirs

-----------------------------------------------------------------------------
(* The fetcher *)

\* Three rounds are enough for both layouts: at a block, fetch_pool always comes to an
\* end, with exactly the slots that a swap may read.
LEMMA FetchPoolIsWhole ==
  ASSUME NEW pool \in Pools, NEW hash \in Hashes
  PROVE  fetch_pool(pool, hash) = [ok |-> TRUE, slots |-> SwapSlots(pool, hash)]
<1> DEFINE base == base_slots(pool)
           words == Words(pool, hash)
           ticks == Ticks(pool, hash)
<1>1. hash # NoHash /\ words # {} /\ words \cap base = {}
  BY SimulationAssumption
<1>2. CASE ~IsV3(pool)
  <2>1. \A seen : derived_slots(pool, hash, seen) = {}
    BY <1>2 DEF derived_slots
  <2>2. \A seen : Round(pool, hash, seen) = seen
    BY <2>1 DEF Round
  <2>. QED
    BY <1>1, <1>2, <2>1, <2>2 DEF fetch_pool, SwapSlots
<1>3. CASE IsV3(pool)
  <2>1. "slot0" \in base
    BY <1>3 DEF base_slots
  <2>2. Round(pool, hash, base) = base \cup words
    BY <1>1, <1>3, <2>1 DEF Round, derived_slots
  <2>3. Round(pool, hash, base \cup words) = base \cup words \cup ticks
    BY <1>1, <1>3, <2>1 DEF Round, derived_slots
  <2>4. derived_slots(pool, hash, base \cup words \cup ticks) = {}
    BY <1>1, <1>3, <2>1 DEF derived_slots
  <2>5. SwapSlots(pool, hash) = base \cup words \cup ticks
    BY <1>3 DEF SwapSlots
  <2>. HIDE DEF base, words, ticks
  <2>. QED
    BY <1>1, <2>2, <2>3, <2>4, <2>5 DEF fetch_pool, base
<1>. QED
  BY <1>2, <1>3

\* A fixture that prefetch_for put together out of six reads at one block.
LEMMA FetchedFixtureIsWhole ==
  ASSUME NEW hash \in Hashes, NEW source \in Pools, NEW sink \in Pools,
         NEW parts \in Seq({hash}), Len(parts) = Len(Parts)
  PROVE  Fixture(Key(hash, source, sink), parts,
                 << fetch_pool(source, hash).slots, fetch_pool(sink, hash).slots >>)
           = WholeFixture(hash, source, sink)
<1>1. parts = [part \in DOMAIN Parts |-> hash]
  <2>1. Len(Parts) = 6 /\ DOMAIN Parts = 1 .. 6
    BY DEF Parts
  <2>2. parts \in [1 .. 6 -> {hash}]
    BY <2>1, LenProperties
  <2>. QED
    BY <2>1, <2>2
<1>2. fetch_pool(source, hash).slots = SwapSlots(source, hash)
  BY FetchPoolIsWhole
<1>3. fetch_pool(sink, hash).slots = SwapSlots(sink, hash)
  BY FetchPoolIsWhole
<1>. QED
  BY <1>1, <1>2, <1>3 DEF WholeFixture

\* A whole fixture is never mistaken for the absence of one.
LEMMA WholeIsNotNone ==
  ASSUME NEW fixture \in WholeFixtures
  PROVE  fixture # NoFixture
  BY SimulationAssumption DEF WholeFixtures, WholeFixture, NoFixture, Fixture, Key

-----------------------------------------------------------------------------
(* The cache *)

\* Taking an entry out of the cache leaves a sequence of entries.
LEMMA RemoveAtIsSeq ==
  ASSUME NEW S, NEW s \in Seq(S), NEW k \in DOMAIN s
  PROVE  RemoveAt(s, k) \in Seq(S)
  BY DEF RemoveAt

\* LruCache::put keeps a sequence of entries, the new one among them.
LEMMA PutIsSeq ==
  ASSUME cache \in Seq(WholeFixtures), NEW fixture \in WholeFixtures
  PROVE  Put(fixture) \in Seq(WholeFixtures)
<1> DEFINE same == {k \in DOMAIN cache : cache[k].key = fixture.key}
<1>1. CASE same # {}
  <2>1. PICK k \in DOMAIN cache : k = CHOOSE i \in same : TRUE
    BY <1>1
  <2>2. RemoveAt(cache, k) \in Seq(WholeFixtures)
    BY RemoveAtIsSeq
  <2>. QED
    BY <1>1, <2>1, <2>2 DEF Put
<1>2. CASE same = {} /\ Len(cache) = CacheCapacity
  <2>1. cache # <<>>
    BY <1>2, SimulationAssumption
  <2>. QED
    BY <1>2, <2>1 DEF Put
<1>3. CASE same = {} /\ Len(cache) # CacheCapacity
  BY <1>3 DEF Put
<1>. QED
  BY <1>1, <1>2, <1>3

-----------------------------------------------------------------------------
(* The inductive invariant *)

\* What is in a sequence over S is in S.
LEMMA ElementsOfSeq ==
  ASSUME NEW S, NEW s \in Seq(S)
  PROVE  \A k \in DOMAIN s : s[k] \in S
  OBVIOUS

\* Approvals and outcomes name opportunities that were sent.
LEMMA OriginsWereSent ==
  ASSUME Typed, Sent
  PROVE  /\ Len(opps) \in Nat /\ DOMAIN opps = 1 .. Len(opps)
         /\ \A k \in DOMAIN checked :
              checked[k] \in Approvals /\ checked[k].opp \in 1 .. Len(opps)
         /\ \A k \in DOMAIN outcomes :
              outcomes[k] \in Outcomes /\ outcomes[k].opp \in 1 .. Len(opps)
<1>1. Len(opps) \in Nat /\ DOMAIN opps = 1 .. Len(opps)
  BY DEF Typed
<1>2. ASSUME NEW k \in DOMAIN checked
      PROVE  checked[k] \in Approvals /\ checked[k].opp \in 1 .. Len(opps)
  <2>1. checked[k] \in Approvals
    BY ElementsOfSeq DEF Typed
  <2>2. checked[k].opp \in Nat \ {0}
    BY <2>1 DEF Approvals
  <2>. QED
    BY <1>1, <2>1, <2>2 DEF Sent
<1>3. ASSUME NEW k \in DOMAIN outcomes
      PROVE  outcomes[k] \in Outcomes /\ outcomes[k].opp \in 1 .. Len(opps)
  <2>1. outcomes[k] \in Outcomes
    BY ElementsOfSeq DEF Typed
  <2>2. outcomes[k].opp \in Nat \ {0}
    BY <2>1 DEF Outcomes
  <2>. QED
    BY <1>1, <2>1, <2>2 DEF Sent
<1>. QED
  BY <1>1, <1>2, <1>3

\* The opportunity the simulator works on was sent.
LEMMA CurrentWasSent ==
  ASSUME Typed, Sent, sim \in {"fetching", "simulating", "signing"}
  PROVE  /\ simRead \in DOMAIN checked /\ checked[simRead] \in Approvals
         /\ checked[simRead].opp \in DOMAIN opps
         /\ Current \in Opportunities
<1>1. simRead \in DOMAIN checked /\ checked[simRead] \in Approvals
  BY DEF Typed
<1>2. checked[simRead].opp \in DOMAIN opps
  BY <1>1 DEF Typed, Sent, Approvals
<1>. QED
  BY <1>1, <1>2 DEF Typed, Current

\* At the start no fixture exists and nothing was sent.
LEMMA InitInvariant == Init => IInv
  BY SimulationAssumption
  DEF Init, IInv, Typed, Sent, FixturesAreWhole, FetchedIsOfOneBlock, OutcomesRanOnTheirs

\* A further opportunity leaves those already sent alone.
LEMMA PublishKeepsInvariant ==
  ASSUME IInv, PublishOpportunity
  PROVE  IInv'
<1>1. PICK opp \in Opportunities : opps' = Append(opps, opp)
  BY SimulationAssumption DEF PublishOpportunity, Opportunities, Stamp
<1>2. /\ Len(opps') = Len(opps) + 1 /\ opps' \in Seq(Opportunities)
      /\ \A i \in DOMAIN opps : opps'[i] = opps[i]
  BY <1>1 DEF IInv, Typed
<1>3. UNCHANGED <<budget, riskVars, fixtureVars, driverVars>>
  BY DEF PublishOpportunity
<1>4. Typed'
  BY <1>2, <1>3 DEF IInv, Typed, riskVars, driverVars
<1>5. Sent'
  <2>. QED
    BY OriginsWereSent, <1>2, <1>3 DEF IInv, Sent, riskVars, driverVars
<1>6. FixturesAreWhole'
  BY <1>3 DEF IInv, FixturesAreWhole, fixtureVars
<1>7. FetchedIsOfOneBlock'
  <2>1. sim \in {"fetching", "simulating", "signing"} => Current' = Current
    BY <1>2, <1>3, CurrentWasSent DEF IInv, Current, riskVars, driverVars
  <2>. QED
    BY <2>1, <1>3 DEF IInv, FetchedIsOfOneBlock, driverVars
<1>8. OutcomesRanOnTheirs'
  <2>1. \A outcome \in Outcomes : outcome.opp <= Len(opps) => outcome.opp \in DOMAIN opps
    BY DEF IInv, Typed, Outcomes
  <2>2. \A k \in DOMAIN outcomes : outcomes[k] \in Outcomes /\ outcomes[k].opp <= Len(opps)
    BY DEF IInv, Typed, Sent
  <2>3. ASSUME NEW outcome \in Outcomes, outcome.opp <= Len(opps), RanOnItsFixture(outcome)
        PROVE  outcome.fixture.key = OppKey(opps'[outcome.opp])
    BY <2>1, <2>3, <1>2 DEF RanOnItsFixture
  <2>. QED
    BY <2>2, <2>3, <1>2, <1>3
    DEF IInv, Typed, Outcomes, OutcomesRanOnTheirs, RanOnItsFixture, driverVars
<1>. QED
  BY <1>4, <1>5, <1>6, <1>7, <1>8 DEF IInv

\* A further approval leaves the one being worked on alone.
LEMMA RiskKeepsInvariant ==
  ASSUME IInv, Risk
  PROVE  IInv'
<1>1. UNCHANGED <<opps, budget, fixtureVars, driverVars>>
  BY DEF Risk, RiskTake, RiskLagged
<1>2. riskRead' \in Nat /\ riskRead' <= Len(opps)
  BY SimulationAssumption DEF Risk, RiskTake, RiskLagged, HasNext, Lagged, OldestKept, IInv, Typed
<1>3. \/ UNCHANGED checked
      \/ \E approval \in Approvals :
           approval.opp <= Len(opps) /\ checked' = Append(checked, approval)
  <2>1. CASE RiskTake
    <3>1. riskRead' \in 1 .. Len(opps)
      BY <2>1 DEF RiskTake, HasNext, IInv, Typed
    <3>2. ASSUME Evaluate(opps[riskRead'], budget).ok
          PROVE  Evaluate(opps[riskRead'], budget).size = Size(opps[riskRead'])
      BY <3>2 DEF Evaluate
    <3>3. ASSUME NEW size, size = Size(opps[riskRead'])
          PROVE  [opp |-> riskRead', size |-> size, under |-> budget] \in Approvals
      BY <3>1, <3>3 DEF Approvals, IInv, Typed
    <3>. QED
      BY <2>1, <3>1, <3>2, <3>3 DEF RiskTake
  <2>2. CASE RiskLagged
    BY <2>2 DEF RiskLagged
  <2>. QED
    BY <2>1, <2>2 DEF Risk
<1>4. /\ checked' \in Seq(Approvals) /\ Len(checked') >= Len(checked)
      /\ \A i \in DOMAIN checked : checked'[i] = checked[i]
      /\ \A i \in DOMAIN checked' : checked'[i].opp <= Len(opps)
  <2>1. CASE UNCHANGED checked
    BY <2>1, OriginsWereSent DEF IInv, Typed
  <2>2. ASSUME NEW approval \in Approvals, approval.opp <= Len(opps),
               checked' = Append(checked, approval)
        PROVE  /\ checked' \in Seq(Approvals) /\ Len(checked') >= Len(checked)
               /\ \A i \in DOMAIN checked : checked'[i] = checked[i]
               /\ \A i \in DOMAIN checked' : checked'[i].opp <= Len(opps)
    <3>1. /\ checked' \in Seq(Approvals) /\ Len(checked') = Len(checked) + 1
          /\ \A i \in 1 .. Len(checked) : checked'[i] = checked[i]
          /\ checked'[Len(checked) + 1] = approval
      BY <2>2, AppendProperties DEF IInv, Typed
    <3>2. Len(checked) \in Nat /\ DOMAIN checked = 1 .. Len(checked)
      BY LenProperties DEF IInv, Typed
    <3>3. \A i \in DOMAIN checked : checked[i].opp <= Len(opps)
      BY DEF IInv, Sent
    <3>4. DOMAIN checked' = 1 .. Len(checked) + 1
      BY <3>1, LenProperties
    <3>. QED
      BY <2>2, <3>1, <3>2, <3>3, <3>4
  <2>. QED
    BY <1>3, <2>1, <2>2
<1>5. Typed'
  BY <1>1, <1>2, <1>4 DEF IInv, Typed, driverVars
<1>6. Sent' /\ FixturesAreWhole'
  BY <1>1, <1>4 DEF IInv, Sent, FixturesAreWhole, driverVars, fixtureVars
<1>7. FetchedIsOfOneBlock'
  <2>1. sim \in {"fetching", "simulating", "signing"} => Current' = Current
    BY <1>1, <1>4, CurrentWasSent DEF IInv, Current, driverVars
  <2>. QED
    BY <1>1, <2>1 DEF IInv, FetchedIsOfOneBlock, driverVars
<1>8. OutcomesRanOnTheirs'
  BY <1>1 DEF IInv, OutcomesRanOnTheirs, RanOnItsFixture, driverVars
<1>. QED
  BY <1>5, <1>6, <1>7, <1>8 DEF IInv

\* Steps of the simulator and of those who load fixtures: nothing sent upstream changes.
Upstream == <<opps, budget, riskRead, checked>>

\* What the forgetting of Phase 1 retains is still whole.
LEMMA CacheKeepsWhole ==
  ASSUME FixturesAreWhole, NEW number
  PROVE  Retained(number) \in Seq(WholeFixtures)
  BY DEF FixturesAreWhole, Retained

\* load_fixture takes what is of one block, which makes it whole.
LEMMA LoadKeepsInvariant ==
  ASSUME IInv, LoadFixture
  PROVE  IInv'
<1>1. UNCHANGED <<Upstream, driverVars>>
  BY DEF LoadFixture, Upstream, riskVars, driverVars
<1>2. FixturesAreWhole'
  <2>1. PICK h \in Hashes, odd \in Hashes, part \in DOMAIN Parts, source \in Pools, sink \in Pools :
          LET hashes == [k \in DOMAIN Parts |-> IF k = part THEN odd ELSE h]
              slots == << fetch_pool(source, hashes[1]).slots, fetch_pool(sink, hashes[2]).slots >>
              fixture == Fixture(Key(hashes[1], source, sink), hashes, slots)
          IN /\ source # sink /\ OneBlock(hashes)
             /\ active' = fixture /\ cache' = Put(fixture)
    BY Zenon DEF LoadFixture
  <2> DEFINE hashes == [k \in DOMAIN Parts |-> IF k = part THEN odd ELSE h]
  <2>2. DOMAIN Parts = 1 .. 6
    BY DEF Parts
  <2>3. hashes[1] \in Hashes /\ hashes[2] = hashes[1]
        /\ hashes = [k \in DOMAIN Parts |-> hashes[1]]
    BY <2>1, <2>2 DEF OneBlock
  <2>4. /\ fetch_pool(source, hashes[1]).slots = SwapSlots(source, hashes[1])
        /\ fetch_pool(sink, hashes[1]).slots = SwapSlots(sink, hashes[1])
    BY <2>3, FetchPoolIsWhole
  <2> DEFINE whole == WholeFixture(hashes[1], source, sink)
  <2>5. active' = whole /\ cache' = Put(whole)
    <3>1. whole = Fixture(Key(hashes[1], source, sink), hashes,
                     << SwapSlots(source, hashes[1]), SwapSlots(sink, hashes[1]) >>)
      BY <2>3 DEF WholeFixture
    <3>. QED
      BY <2>1, <2>3, <2>4, <3>1
  <2>6. whole \in WholeFixtures
    BY <2>3 DEF WholeFixtures
  <2>. QED
    BY <2>5, <2>6, PutIsSeq DEF IInv, FixturesAreWhole
<1>. QED
  BY <1>1, <1>2
  DEF IInv, Typed, Sent, FetchedIsOfOneBlock, OutcomesRanOnTheirs, RanOnItsFixture, Current,
      Upstream, driverVars

\* A step to another place of the loop that brings out nothing: what is unchanged is safe.
LEMMA QuietStepKeepsInvariant ==
  ASSUME IInv, UNCHANGED <<Upstream, outcomes>>, FixturesAreWhole',
         simRead' \in Nat, simRead' <= Len(checked),
         sim' \in {"recv", "fetching", "simulating", "lagged", "cancelled"},
         sim' \in {"fetching", "simulating"} => simRead' > 0,
         FetchedIsOfOneBlock'
  PROVE  IInv'
<1>1. Typed' /\ Sent'
  BY DEF IInv, Typed, Sent, Upstream
<1>2. OutcomesRanOnTheirs'
  BY DEF IInv, OutcomesRanOnTheirs, RanOnItsFixture, Upstream
<1>. QED
  BY <1>1, <1>2 DEF IInv

\* Taking an approval: a hit activates an entry of the cache, a miss only forgets.
LEMMA TakeKeepsInvariant ==
  ASSUME IInv, TakeChecked \/ Hit \/ Miss
  PROVE  IInv'
<1>1. UNCHANGED <<Upstream, outcomes>>
  BY DEF TakeChecked, Hit, Miss, Upstream, riskVars
<1>2. simRead' \in Nat /\ simRead' <= Len(checked) /\ simRead' > 0
  BY DEF TakeChecked, Hit, Miss, HasNext, IInv, Typed
<1>3. FixturesAreWhole'
  <2>1. CASE TakeChecked
    BY <2>1 DEF TakeChecked, IInv, FixturesAreWhole, fixtureVars
  <2>2. CASE Hit
    <3> DEFINE kept == Retained(NextTaken.number)
    <3>1. kept \in Seq(WholeFixtures)
      BY CacheKeepsWhole DEF IInv
    <3>2. PICK k \in DOMAIN kept :
            /\ cache' = Append(RemoveAt(kept, k), kept[k])
            /\ active' \in {active, kept[k]}
      BY <2>2 DEF Hit
    <3>3. kept[k] \in WholeFixtures
      BY <3>1, ElementsOfSeq
    <3>4. RemoveAt(kept, k) \in Seq(WholeFixtures)
      BY <3>1, RemoveAtIsSeq
    <3>5. Append(RemoveAt(kept, k), kept[k]) \in Seq(WholeFixtures)
      BY <3>3, <3>4, AppendProperties
    <3>. QED
      BY <3>2, <3>3, <3>5 DEF IInv, FixturesAreWhole
  <2>3. CASE Miss
    BY <2>3, CacheKeepsWhole DEF Miss, IInv, FixturesAreWhole
  <2>. QED
    BY <2>1, <2>2, <2>3
<1>4. sim' = "fetching" => fetched' = <<>>
  BY DEF TakeChecked, Hit, Miss
<1>5. FetchedIsOfOneBlock'
  BY <1>4 DEF FetchedIsOfOneBlock, Parts
<1>6. sim' \in {"fetching", "simulating"}
  BY DEF TakeChecked, Hit, Miss
<1>. QED
  BY <1>1, <1>2, <1>3, <1>5, <1>6, QuietStepKeepsInvariant

\* What Install puts together is six reads of one block.
LEMMA InstallHasAllParts ==
  ASSUME IInv, Install
  PROVE  /\ fetched \in Seq({Current.hash}) /\ Len(fetched) = Len(Parts)
         /\ Current.hash # NoHash
<1>1. sim = "fetching" /\ Len(fetched) = Len(Parts)
  BY DEF Install
<1>2. fetched \in Seq({Current.hash}) /\ (fetched # <<>> => Current.hash # NoHash)
  BY <1>1 DEF IInv, FetchedIsOfOneBlock
<1>3. Len(Parts) = 6
  BY DEF Parts
<1>4. fetched # <<>>
  BY <1>1, <1>3
<1>. QED
  BY <1>1, <1>2, <1>4

\* A fetch reads at the opportunity's own hash; Install turns six of them into a fixture.
LEMMA FetchKeepsInvariant ==
  ASSUME IInv, Fetch \/ FetchFails \/ Install
  PROVE  IInv'
<1>1. UNCHANGED <<Upstream, outcomes, simRead>>
  BY DEF Fetch, FetchFails, Install, Upstream, riskVars
<1>2. sim = "fetching" /\ simRead > 0
  BY DEF Fetch, FetchFails, Install, IInv, Typed
<1>3. Current \in Opportunities /\ Current' = Current
  BY <1>1, <1>2, CurrentWasSent DEF IInv, Current, Upstream
<1>4. CASE Fetch
  <2>1. sim' = "fetching" /\ UNCHANGED fixtureVars
    BY <1>2, <1>4 DEF Fetch
  <2>2. /\ Current.hash # NoHash
        /\ fetched' = Append(fetched, Current.hash) /\ Len(fetched) < Len(Parts)
    BY <1>4 DEF Fetch, Fetchable, fetch_pool
  <2>3. FetchedIsOfOneBlock'
    BY <1>2, <1>3, <2>2 DEF IInv, FetchedIsOfOneBlock, Parts
  <2>. QED
    BY <1>1, <1>2, <2>1, <2>3, QuietStepKeepsInvariant
    DEF IInv, Typed, FixturesAreWhole, fixtureVars
<1>5. CASE FetchFails
  <2>1. sim' = "recv" /\ UNCHANGED fixtureVars
    BY <1>5 DEF FetchFails
  <2>. QED
    BY <1>1, <1>2, <2>1, QuietStepKeepsInvariant
    DEF IInv, Typed, FixturesAreWhole, FetchedIsOfOneBlock, fixtureVars
<1>6. CASE Install
  <2> DEFINE whole == WholeFixture(Current.hash, Current.source, Current.sink)
  <2>1. fetched \in Seq({Current.hash}) /\ Len(fetched) = Len(Parts) /\ Current.hash # NoHash
    BY <1>6, InstallHasAllParts
  <2>2. Current.hash \in Hashes /\ Current.source \in Pools /\ Current.sink \in Pools
    BY <1>3, <2>1 DEF Opportunities
  <2>3. active' = whole /\ cache' = Put(whole)
    BY <1>6, <2>1, <2>2, FetchedFixtureIsWhole DEF Install, OppKey
  <2>4. whole \in WholeFixtures
    BY <2>2 DEF WholeFixtures
  <2>5. FixturesAreWhole'
    BY <2>3, <2>4, PutIsSeq DEF IInv, FixturesAreWhole
  <2>6. sim' = "simulating"
    BY <1>6 DEF Install
  <2>. QED
    BY <1>1, <1>2, <2>5, <2>6, QuietStepKeepsInvariant DEF IInv, Typed, FetchedIsOfOneBlock
<1>. QED
  BY <1>4, <1>5, <1>6

\* The comparisons of the fixture with the opportunity let only its own through.
LEMMA SimulateKeepsInvariant ==
  ASSUME IInv, Simulate
  PROVE  IInv'
<1>1. UNCHANGED <<Upstream, outcomes, simRead, fixtureVars>> /\ sim' = "signing"
  BY DEF Simulate, Upstream, riskVars
<1>2. sim = "simulating" /\ Matches(active, Current)
  BY DEF Simulate
<1>3. Current = opps[checked[simRead].opp] /\ checked[simRead].opp \in DOMAIN opps
      /\ simRead \in Nat \ {0}
  BY <1>2, CurrentWasSent DEF IInv, Typed, Current
<1>4. active \in WholeFixtures
  BY <1>2 DEF Matches, IInv, FixturesAreWhole
<1>5. active.key = OppKey(Current)
  <2>1. PICK hash \in Hashes, source \in Pools, sink \in Pools :
          active = WholeFixture(hash, source, sink)
    BY <1>4 DEF WholeFixtures
  <2>2. active.key = Key(hash, source, sink)
    BY <2>1 DEF WholeFixture, Fixture
  <2>. QED
    BY <1>2, <2>2 DEF Matches, OppKey, Key
<1>6. PICK run \in EvmRuns(Current.amount) :
        local' = [opp |-> checked[simRead].opp, checked |-> simRead, fixture |-> active,
                  run |-> run]
  BY DEF Simulate
<1>11. Current \in Opportunities
  BY <1>3, ElementOfSeq DEF IInv, Typed
<1>12. run \in Runs
  BY <1>6, <1>11 DEF Runs, Opportunities
<1>7. local' \in Outcomes /\ local'.opp <= Len(opps) /\ local'.fixture.key = OppKey(opps[local'.opp])
  BY <1>3, <1>4, <1>5, <1>6, <1>12, OriginsWereSent DEF Outcomes, IInv
<1>8. Typed' /\ Sent' /\ FixturesAreWhole' /\ FetchedIsOfOneBlock'
  BY <1>1, <1>2 DEF IInv, Typed, Sent, FixturesAreWhole, FetchedIsOfOneBlock, Upstream, fixtureVars
<1>9. OutcomesRanOnTheirs'
  BY <1>1, <1>7 DEF IInv, OutcomesRanOnTheirs, RanOnItsFixture, Upstream
<1>. QED
  BY <1>8, <1>9 DEF IInv

\* A signature sends on the outcome that was run, unchanged.
LEMMA SignedKeepsInvariant ==
  ASSUME IInv, Signed
  PROVE  IInv'
<1>1. UNCHANGED <<Upstream, simRead, fixtureVars>> /\ sim' = "recv"
  BY DEF Signed, Upstream, riskVars
<1>2. /\ local \in Outcomes /\ local.opp <= Len(opps) /\ RanOnItsFixture(local)
      /\ outcomes' = Append(outcomes, local)
  BY DEF Signed, IInv, OutcomesRanOnTheirs
<1>3. /\ outcomes' \in Seq(Outcomes)
      /\ \A k \in DOMAIN outcomes' : outcomes'[k] = local \/
           (k \in DOMAIN outcomes /\ outcomes'[k] = outcomes[k])
  BY <1>2, AppendProperties DEF IInv, Typed
<1>4. Typed' /\ Sent' /\ FixturesAreWhole' /\ FetchedIsOfOneBlock'
  BY <1>1, <1>2, <1>3
  DEF IInv, Typed, Sent, FixturesAreWhole, FetchedIsOfOneBlock, Upstream, fixtureVars
<1>5. OutcomesRanOnTheirs'
  BY <1>1, <1>2, <1>3 DEF IInv, OutcomesRanOnTheirs, RanOnItsFixture, Upstream
<1>. QED
  BY <1>4, <1>5 DEF IInv

\* Everything else changes neither fixtures nor messages.
LEMMA OtherStepsKeepInvariant ==
  ASSUME IInv,
         \/ SimulateFails \/ SigningFails \/ SimLagged \/ SetBudget \/ Execution \/ Shutdown
         \/ UNCHANGED vars
  PROVE  IInv'
<1>1. CASE SimulateFails \/ SigningFails \/ SimLagged \/ CancelSimulator
  <2>1. UNCHANGED <<Upstream, outcomes, fixtureVars>>
    BY <1>1 DEF SimulateFails, SigningFails, SimLagged, CancelSimulator, Upstream, riskVars
  <2>2. sim' \in {"recv", "lagged", "cancelled"} /\ simRead' \in Nat /\ simRead' <= Len(checked)
    BY <1>1, SimulationAssumption
    DEF SimulateFails, SigningFails, SimLagged, CancelSimulator, Lagged, OldestKept, IInv, Typed
  <2>. QED
    BY <2>1, <2>2, QuietStepKeepsInvariant
    DEF IInv, FixturesAreWhole, FetchedIsOfOneBlock, fixtureVars
<1>2. CASE SetBudget
  BY <1>2
  DEF SetBudget, IInv, Typed, Sent, FixturesAreWhole, FetchedIsOfOneBlock, OutcomesRanOnTheirs,
      RanOnItsFixture, Current, riskVars, fixtureVars, driverVars
<1>3. CASE Execution \/ CancelExecution \/ CancelRisk \/ UNCHANGED vars
  <2>1. UNCHANGED <<Upstream, budget, fixtureVars, driverVars>>
    BY <1>3
    DEF Execution, ExecutionTake, ExecutionLagged, CancelExecution, CancelRisk, vars, Upstream,
        riskVars
  <2>. QED
    BY <2>1
    DEF IInv, Typed, Sent, FixturesAreWhole, FetchedIsOfOneBlock, OutcomesRanOnTheirs,
        RanOnItsFixture, Current, Upstream, fixtureVars, driverVars
<1>. QED
  BY <1>1, <1>2, <1>3 DEF Shutdown

\* Every step keeps the invariant: the cases above are all there are.
LEMMA NextKeepsInvariant == IInv /\ [Next]_vars => IInv'
<1> SUFFICES ASSUME IInv, [Next]_vars PROVE IInv'
  OBVIOUS
<1>. QED
  BY PublishKeepsInvariant, RiskKeepsInvariant, LoadKeepsInvariant, TakeKeepsInvariant,
     FetchKeepsInvariant, SimulateKeepsInvariant, SignedKeepsInvariant, OtherStepsKeepInvariant
  DEF Next, Simulator, Prefetch, Others

-----------------------------------------------------------------------------
(* The theorems *)

\* No outcome was run on anything but the whole state of its own two pools at its own
\* block, whatever is loaded, fetched, cached or evicted meanwhile.
THEOREM OutcomesAreOfWholeFixtures == Spec => []SimulatedOnWholeFixture
<1>1. IInv => SimulatedOnWholeFixture
  <2> SUFFICES ASSUME IInv, NEW k \in DOMAIN outcomes
               PROVE  LET opp == opps[outcomes[k].opp]
                          fixture == outcomes[k].fixture
                      IN /\ \A part \in DOMAIN Parts : fixture.hashes[part] = opp.hash
                         /\ fixture.key.source = opp.source /\ fixture.key.sink = opp.sink
                         /\ SwapSlots(opp.source, opp.hash) \subseteq fixture.slots[1]
                         /\ SwapSlots(opp.sink, opp.hash) \subseteq fixture.slots[2]
    BY DEF SimulatedOnWholeFixture
  <2>1. PICK hash \in Hashes, source \in Pools, sink \in Pools :
          outcomes[k].fixture = WholeFixture(hash, source, sink)
    BY OriginsWereSent DEF IInv, Outcomes, WholeFixtures
  <2>2. Key(hash, source, sink) = OppKey(opps[outcomes[k].opp])
    BY <2>1 DEF IInv, OutcomesRanOnTheirs, RanOnItsFixture, WholeFixture, Fixture
  <2>3. /\ opps[outcomes[k].opp].hash = hash
        /\ opps[outcomes[k].opp].source = source /\ opps[outcomes[k].opp].sink = sink
    BY <2>2 DEF Key, OppKey
  <2>. QED
    BY <2>1, <2>3 DEF WholeFixture, Fixture, Key
<1>. QED
  BY <1>1, InitInvariant, NextKeepsInvariant, PTL DEF Spec

\* Whichever way prefetch_for comes back with Ok, the active fixture is the opportunity's.
THEOREM PrefetchServes == Spec => PrefetchedIsSimulable
<1>1. ASSUME IInv, Next, sim' = "simulating", sim # "simulating", engine.prefetch
      PROVE  Matches(active', Current')
  <2>1. Hit \/ Install
    <3>1. ~(PublishOpportunity \/ Risk \/ Execution \/ Others)
      BY <1>1
      DEF PublishOpportunity, Risk, RiskTake, RiskLagged, Execution, ExecutionTake,
          ExecutionLagged, Others, SetBudget, LoadFixture, driverVars
    <3>2. ~Shutdown
      BY <1>1 DEF Shutdown, CancelExecution, CancelSimulator, CancelRisk, driverVars
    <3>3. ~(TakeChecked \/ SimLagged \/ Simulate \/ SimulateFails \/ Signed \/ SigningFails)
      BY <1>1 DEF TakeChecked, SimLagged, Simulate, SimulateFails, Signed, SigningFails
    <3>4. ~(Miss \/ Fetch \/ FetchFails)
      BY <1>1 DEF Miss, Fetch, FetchFails
    <3>. QED
      BY <1>1, <3>1, <3>2, <3>3, <3>4 DEF Next, Simulator, Prefetch
  <2>2. active' # NoFixture /\ active'.key = OppKey(Current')
    <3>1. CASE Hit
      <4>1. Current' = NextTaken
        BY <3>1 DEF Hit, Current, NextTaken, riskVars
      <4> DEFINE key == OppKey(NextTaken)
                 kept == Retained(NextTaken.number)
      <4>2. PICK k \in DOMAIN kept :
              /\ kept[k].key = key
              /\ active' = IF active # NoFixture /\ active.key = key THEN active ELSE kept[k]
        BY <3>1 DEF Hit
      <4>3. kept[k] \in WholeFixtures
        BY <1>1, CacheKeepsWhole, ElementsOfSeq DEF IInv
      <4>4. kept[k] # NoFixture
        BY <4>3, WholeIsNotNone
      <4>. QED
        BY <4>1, <4>2, <4>4
    <3>2. CASE Install
      <4> DEFINE whole == WholeFixture(Current.hash, Current.source, Current.sink)
      <4>1. Current' = Current /\ Current \in Opportunities
        BY <1>1, <3>2, CurrentWasSent DEF Install, Current, IInv, riskVars
      <4>2. fetched \in Seq({Current.hash}) /\ Len(fetched) = Len(Parts) /\ Current.hash # NoHash
        BY <1>1, <3>2, InstallHasAllParts
      <4>3. Current.hash \in Hashes /\ Current.source \in Pools /\ Current.sink \in Pools
        BY <4>1, <4>2 DEF Opportunities
      <4>4. active' = whole
        BY <3>2, <4>2, <4>3, FetchedFixtureIsWhole DEF Install, OppKey
      <4>5. whole # NoFixture
        BY <4>3, WholeIsNotNone DEF WholeFixtures
      <4>. QED
        BY <4>1, <4>4, <4>5 DEF WholeFixture, Fixture, OppKey
    <3>. QED
      BY <2>1, <3>1, <3>2
  <2>. QED
    BY <2>2 DEF Matches, OppKey, Key
<1>2. IInv /\ [Next]_vars =>
        [(sim' = "simulating" /\ sim # "simulating" /\ engine.prefetch)
           => Matches(active', Current')]_vars
  BY <1>1
<1>. QED
  BY <1>2, InitInvariant, NextKeepsInvariant, PTL DEF Spec, PrefetchedIsSimulable

-----------------------------------------------------------------------------
(* Candidates *)

\* What the gate leaves of an amount, and the budget it did so under.
WithinCaps(approval, amount) ==
  /\ approval.size <= RiskConfig.max_notional /\ approval.size <= amount
  /\ approval.size <= approval.under.canary
  /\ approval.under.live < RiskConfig.max_live
  /\ approval.under.loss < RiskConfig.loss_cap
  /\ approval.under.gas + RiskConfig.gas_per_bundle <= RiskConfig.gas_cap

\* Approvals follow the cursor of risk_driver.
ChecksApproved ==
  /\ \A k \in DOMAIN checked :
       /\ checked[k].opp <= riskRead
       /\ WithinCaps(checked[k], opps[checked[k].opp].amount)
  /\ StrictlyIncreasing(checked, LAMBDA c : c.opp)

\* Outcomes follow the cursor of simulator_driver, which is one ahead while it works.
RanFor(outcome) ==
  /\ outcome.checked \in DOMAIN checked
  /\ outcome.opp = checked[outcome.checked].opp
  /\ outcome.run \in EvmRuns(opps[outcome.opp].amount)
Working == sim \in {"fetching", "simulating", "signing"}
RunsOfApprovals ==
  /\ \A k \in DOMAIN outcomes :
       /\ RanFor(outcomes[k]) /\ outcomes[k].checked <= simRead
       /\ Working => outcomes[k].checked < simRead
  /\ StrictlyIncreasing(outcomes, LAMBDA o : o.checked)
  /\ sim = "signing" => RanFor(local) /\ local.checked = simRead

\* Candidates follow the cursor of execution_driver.
Bids == [outcome : Nat \ {0}, bid : Nat, validity : Nat \X Nat]
PaidFor(candidate) ==
  LET run == outcomes[candidate.outcome].run
  IN run.success /\ run.profit # 0 /\ candidate.bid # 0 /\ candidate.bid = Bid(run.profit)
BidsOfRuns ==
  /\ candidates \in Seq(Bids) /\ execRead \in Nat /\ execRead <= Len(outcomes)
  /\ \A k \in DOMAIN candidates :
       candidates[k].outcome <= execRead /\ PaidFor(candidates[k])
  /\ StrictlyIncreasing(candidates, LAMBDA c : c.outcome)

\* Longer: every element stays in its place.
Longer(seq, longer) ==
  \A k \in DOMAIN seq : k \in DOMAIN longer /\ longer[k] = seq[k]

LEMMA AppendIsLonger ==
  ASSUME NEW S, NEW seq \in Seq(S), NEW e \in S
  PROVE  /\ Longer(seq, Append(seq, e)) /\ Append(seq, e) \in Seq(S)
         /\ \A k \in DOMAIN Append(seq, e) :
              \/ k \in DOMAIN seq /\ Append(seq, e)[k] = seq[k] /\ k < Len(seq) + 1
              \/ k = Len(seq) + 1 /\ Append(seq, e)[k] = e
<1>1. /\ Append(seq, e) \in Seq(S) /\ Len(Append(seq, e)) = Len(seq) + 1
      /\ \A k \in 1 .. Len(seq) : Append(seq, e)[k] = seq[k]
      /\ Append(seq, e)[Len(seq) + 1] = e
  BY AppendProperties
<1>2. /\ Len(seq) \in Nat /\ DOMAIN seq = 1 .. Len(seq)
      /\ DOMAIN Append(seq, e) = 1 .. Len(seq) + 1
  BY <1>1, LenProperties
<1>. QED
  BY <1>1, <1>2 DEF Longer

\* What a cap relative to the capital leaves is at most the absolute one.
LEMMA EffectiveIsLess ==
  ASSUME NEW absolute \in Nat, NEW bps \in Nat
  PROVE  Effective(absolute, bps) \in Int /\ Effective(absolute, bps) <= absolute
<1> DEFINE product == RiskConfig.strategy_capital * bps
           relative == product \div 10000
<1>1. product \in Nat
  BY RiskGateAssumption
<1> HIDE DEF product
<1>2. relative \in Int
  BY <1>1
<1> HIDE DEF relative
<1>. QED
  BY <1>2 DEF Effective, relative, product

\* RiskGate::evaluate: what passes is within every cap.
LEMMA ApprovedIsWithinCaps ==
  ASSUME NEW opp \in Opportunities, NEW state \in Budgets, Evaluate(opp, state).ok
  PROVE  WithinCaps([opp |-> 1, size |-> Size(opp), under |-> state], opp.amount)
<1> DEFINE refusals == Refusals(opp, state)
           failing == {k \in DOMAIN refusals : refusals[k].holds}
<1>1. failing = {}
  BY DEF Evaluate
<1>2. DOMAIN refusals = 1 .. 5
  BY DEF Refusals
<1>3. ~refusals[1].holds /\ ~refusals[3].holds /\ ~refusals[4].holds /\ ~refusals[5].holds
  BY <1>1, <1>2
<1>4. /\ ~(state.live >= RiskConfig.max_live) /\ ~(Size(opp) > state.canary)
      /\ ~(state.loss >= Effective(RiskConfig.loss_cap, RiskConfig.loss_cap_bps))
      /\ ~(GasAfter(state) > RiskConfig.gas_cap)
  BY <1>3 DEF Refusals
<1>5. /\ state.live \in Nat /\ state.canary \in Nat /\ state.loss \in Nat /\ state.gas \in Nat
      /\ opp.amount \in Nat
  BY MoneyAssumption DEF Opportunities
<1>6. /\ Effective(RiskConfig.max_notional, RiskConfig.max_notional_bps) \in Int
      /\ Effective(RiskConfig.max_notional, RiskConfig.max_notional_bps)
           <= RiskConfig.max_notional
      /\ Effective(RiskConfig.loss_cap, RiskConfig.loss_cap_bps) \in Int
      /\ Effective(RiskConfig.loss_cap, RiskConfig.loss_cap_bps) <= RiskConfig.loss_cap
  BY EffectiveIsLess, RiskGateAssumption
<1>7. Size(opp) \in Int /\ Size(opp) <= opp.amount /\ Size(opp) <= RiskConfig.max_notional
  BY <1>5, <1>6, RiskGateAssumption DEF Size
<1>. QED
  BY <1>4, <1>5, <1>6, <1>7, RiskGateAssumption DEF WithinCaps, GasAfter

\* A run that succeeds went through two swaps, and its profit is what they gained.
LEMMA ProfitIsGain ==
  ASSUME NEW amount \in Amounts, NEW run \in EvmRuns(amount), run.success
  PROVE  \E buy \in Succeeding(Buys) : run.profit = Gain(amount, buy.balance)
<1>1. \A sell, buy :
        /\ ~FirstFails(sell).success /\ ~SecondFails(sell, buy).success
        /\ BothSucceed(amount, sell, buy).profit = Gain(amount, buy.balance)
  BY DEF FirstFails, SecondFails, BothSucceed, Outcome
<1>. QED
  BY <1>1 DEF EvmRuns

\* A bid that is not zero is at least one and at most the gain of that run.
LEMMA BidIsOfGain ==
  ASSUME NEW amount \in Amounts, NEW buy \in Buys,
         Bid(Gain(amount, buy.balance)) # 0
  PROVE  /\ Bid(Gain(amount, buy.balance)) \in Nat
         /\ Bid(Gain(amount, buy.balance)) \in 1 .. buy.balance - amount
<1>1. amount \in Nat /\ buy.balance \in Nat
  BY MoneyAssumption, ArbitrageRunAssumption
<1>2. Bid(Gain(amount, buy.balance)) \in 0 .. Gain(amount, buy.balance)
  BY MoneyAssumption
<1>. QED
  BY <1>1, <1>2 DEF Gain

\* Only three steps send anything that the next driver takes.
LEMMA OnlyThreeSend ==
  ASSUME [Next]_vars
  PROVE  PublishOpportunity \/ RiskTake \/ Signed \/ UNCHANGED <<opps, checked, outcomes>>
<1>1. CASE RiskLagged \/ Execution \/ Others \/ Shutdown \/ UNCHANGED vars
  BY <1>1
  DEF RiskLagged, Execution, ExecutionTake, ExecutionLagged, Others, SetBudget, LoadFixture,
      Shutdown, CancelExecution, CancelSimulator, CancelRisk, vars, riskVars, driverVars
<1>2. CASE TakeChecked \/ Prefetch \/ SimLagged \/ Simulate \/ SimulateFails \/ SigningFails
  BY <1>2
  DEF TakeChecked, Prefetch, Hit, Miss, Fetch, FetchFails, Install, SimLagged, Simulate,
      SimulateFails, SigningFails, riskVars, driverVars
<1>. QED
  BY <1>1, <1>2 DEF Next, Risk, Simulator

\* A step of risk_driver that sends: the opportunity after its cursor, within the caps.
LEMMA RiskTakeApproves ==
  ASSUME IInv, RiskTake, checked' # checked
  PROVE  \E approval \in Approvals :
           /\ checked' = Append(checked, approval)
           /\ approval.opp = riskRead + 1 /\ approval.opp \in DOMAIN opps
           /\ WithinCaps(approval, opps[approval.opp].amount)
<1>1. PICK opp : opp = opps[riskRead + 1]
  OBVIOUS
<1>2. /\ riskRead + 1 \in DOMAIN opps /\ opp \in Opportunities /\ budget \in Budgets
      /\ riskRead + 1 \in Nat \ {0}
  BY <1>1 DEF RiskTake, HasNext, IInv, Typed
<1>3. PICK verdict : verdict = Evaluate(opp, budget)
  OBVIOUS
<1>4. /\ verdict.ok
      /\ checked' = Append(checked, [opp |-> riskRead + 1, size |-> verdict.size,
                                     under |-> budget])
  BY <1>1, <1>3 DEF RiskTake
<1>5. verdict.size = Size(opp)
  BY <1>3, <1>4 DEF Evaluate
<1>6. PICK approval : approval = [opp |-> riskRead + 1, size |-> Size(opp), under |-> budget]
  OBVIOUS
<1>7. approval \in Approvals /\ checked' = Append(checked, approval) /\ approval.opp = riskRead + 1
  BY <1>2, <1>4, <1>5, <1>6 DEF Approvals
<1>8. WithinCaps(approval, opp.amount)
  BY <1>2, <1>3, <1>4, <1>6, ApprovedIsWithinCaps DEF WithinCaps
<1>. QED
  BY <1>1, <1>2, <1>7, <1>8

\* What was sent stays, in its place.
LEMMA SentStays ==
  ASSUME IInv, [Next]_vars
  PROVE  Longer(opps, opps') /\ Longer(checked, checked') /\ Longer(outcomes, outcomes')
<1>1. CASE PublishOpportunity
  <2>1. PICK opp \in Opportunities : opps' = Append(opps, opp)
    BY <1>1, SimulationAssumption DEF PublishOpportunity, Opportunities, Stamp
  <2>2. Longer(opps, opps')
    BY <2>1, AppendIsLonger DEF IInv, Typed
  <2>3. UNCHANGED <<checked, outcomes>>
    BY <1>1 DEF PublishOpportunity, riskVars, driverVars
  <2>. QED
    BY <2>2, <2>3 DEF Longer
<1>2. CASE RiskTake
  <2>1. UNCHANGED <<opps, outcomes>>
    BY <1>2 DEF RiskTake, driverVars
  <2>2. CASE UNCHANGED checked
    BY <2>1, <2>2 DEF Longer
  <2>3. CASE ~ UNCHANGED checked
    <3>1. PICK approval \in Approvals : checked' = Append(checked, approval)
      BY <1>2, <2>3, RiskTakeApproves
    <3>. QED
      BY <2>1, <3>1, AppendIsLonger DEF IInv, Typed, Longer
  <2>. QED
    BY <2>2, <2>3
<1>3. CASE Signed
  <2>1. outcomes' = Append(outcomes, local) /\ local \in Outcomes /\ UNCHANGED <<opps, checked>>
    BY <1>3 DEF Signed, IInv, OutcomesRanOnTheirs, riskVars
  <2>. QED
    BY <2>1, AppendIsLonger DEF IInv, Typed, Longer
<1>4. CASE UNCHANGED <<opps, checked, outcomes>>
  BY <1>4 DEF Longer
<1>. QED
  BY <1>1, <1>2, <1>3, <1>4, OnlyThreeSend

\* Approvals stay in the order of the opportunities, each within the caps.
LEMMA ChecksKept ==
  ASSUME IInv, IInv', ChecksApproved, [Next]_vars
  PROVE  ChecksApproved'
<1>1. /\ Longer(opps, opps') /\ riskRead \in Nat /\ riskRead' \in Nat
      /\ \A k \in DOMAIN checked : checked[k].opp \in DOMAIN opps /\ checked[k].opp \in Nat
  BY SentStays, OriginsWereSent DEF IInv, Typed
<1>2. CASE UNCHANGED checked /\ riskRead' >= riskRead
  <2>1. \A k \in DOMAIN checked : opps'[checked[k].opp] = opps[checked[k].opp]
    BY <1>1 DEF Longer
  <2>. QED
    BY <1>1, <1>2, <2>1 DEF ChecksApproved, StrictlyIncreasing
<1>3. CASE RiskTake /\ ~ UNCHANGED checked
  <2>1. PICK approval \in Approvals :
           /\ checked' = Append(checked, approval)
           /\ approval.opp = riskRead + 1 /\ approval.opp \in DOMAIN opps
           /\ WithinCaps(approval, opps[approval.opp].amount)
    BY <1>3, RiskTakeApproves
  <2>2. \A k \in DOMAIN checked' :
          \/ k \in DOMAIN checked /\ checked'[k] = checked[k] /\ k < Len(checked) + 1
          \/ k = Len(checked) + 1 /\ checked'[k] = approval
    BY <2>1, AppendIsLonger DEF IInv, Typed
  <2>3. riskRead' = riskRead + 1 /\ UNCHANGED opps
    BY <1>3 DEF RiskTake
  <2>4. ASSUME NEW k \in DOMAIN checked'
        PROVE  /\ checked'[k].opp <= riskRead'
               /\ WithinCaps(checked'[k], opps'[checked'[k].opp].amount)
    BY <1>1, <2>1, <2>2, <2>3 DEF ChecksApproved
  <2>5. ASSUME NEW j \in DOMAIN checked', NEW k \in DOMAIN checked', j < k
        PROVE  checked'[j].opp < checked'[k].opp
    <3>1. j \in DOMAIN checked /\ checked'[j] = checked[j]
      BY <2>2, <2>5 DEF IInv, Typed
    <3>2. checked[j].opp <= riskRead /\ checked[j].opp \in Nat
      BY <1>1, <3>1 DEF ChecksApproved
    <3>. QED
      BY <1>1, <2>1, <2>2, <2>5, <3>1, <3>2 DEF ChecksApproved, StrictlyIncreasing
  <2>. QED
    BY <2>4, <2>5 DEF ChecksApproved, StrictlyIncreasing
<1>4. RiskTake \/ RiskLagged \/ UNCHANGED <<checked, riskRead>>
  <2>1. CASE Simulator
    BY <2>1
    DEF Simulator, TakeChecked, Prefetch, Hit, Miss, Fetch, FetchFails, Install, SimLagged,
        Simulate, SimulateFails, Signed, SigningFails, riskVars
  <2>2. CASE PublishOpportunity \/ Execution \/ Others \/ Shutdown \/ UNCHANGED vars
    BY <2>2
    DEF PublishOpportunity, Execution, ExecutionTake, ExecutionLagged, Others, SetBudget,
        LoadFixture, Shutdown, CancelExecution, CancelSimulator, CancelRisk, vars, riskVars
  <2>. QED
    BY <2>1, <2>2 DEF Next, Risk
<1>5. RiskTake => riskRead' >= riskRead
  BY <1>1 DEF RiskTake
<1>6. RiskLagged => UNCHANGED checked /\ riskRead' >= riskRead
  BY <1>1, SimulationAssumption DEF RiskLagged, Lagged, OldestKept, IInv, Typed
<1>. QED
  BY <1>1, <1>2, <1>3, <1>4, <1>5, <1>6

\* A run that was made for an approval stays so.
LEMMA RanForStays ==
  ASSUME IInv, [Next]_vars, NEW outcome, RanFor(outcome)
  PROVE  /\ outcome.checked \in DOMAIN checked'
         /\ outcome.opp = checked'[outcome.checked].opp
         /\ outcome.run \in EvmRuns(opps'[outcome.opp].amount)
<1>1. outcome.opp \in DOMAIN opps
  BY OriginsWereSent DEF IInv, RanFor
<1>. QED
  BY <1>1, SentStays DEF Longer, RanFor

\* What the simulator does to its cursor: it moves it on when it begins to work, and when
\* it lagged, and never while it works.
LEMMA SimulatorCursor ==
  ASSUME IInv, [Next]_vars
  PROVE  /\ simRead \in Nat /\ simRead' \in Nat
         /\ \/ simRead' = simRead /\ (Working' => Working)
            \/ simRead' > simRead
         /\ sim' = "signing" => Simulate \/ UNCHANGED <<sim, simRead, local>>
<1>1. simRead \in Nat
  BY DEF IInv, Typed
<1>2. CASE TakeChecked \/ Hit \/ Miss
  BY <1>1, <1>2 DEF TakeChecked, Hit, Miss
<1>3. CASE SimLagged
  BY <1>1, <1>3, SimulationAssumption DEF SimLagged, Lagged, OldestKept, IInv, Typed
<1>4. CASE Fetch \/ FetchFails \/ Install \/ Simulate \/ SimulateFails \/ Signed \/ SigningFails
  BY <1>1, <1>4
  DEF Fetch, FetchFails, Install, Simulate, SimulateFails, Signed, SigningFails, Working
<1>5. CASE PublishOpportunity \/ Risk \/ Execution \/ Others \/ Shutdown \/ UNCHANGED vars
  BY <1>1, <1>5
  DEF PublishOpportunity, Risk, RiskTake, RiskLagged, Execution, ExecutionTake,
      ExecutionLagged, Others, SetBudget, LoadFixture, Shutdown, CancelExecution,
      CancelSimulator, CancelRisk, vars, driverVars, Working
<1>. QED
  BY <1>2, <1>3, <1>4, <1>5 DEF Next, Simulator, Prefetch

\* Outcomes stay in the order of the approvals they were run for.
LEMMA RunsKept ==
  ASSUME IInv, IInv', RunsOfApprovals, [Next]_vars
  PROVE  RunsOfApprovals'
<1>1. /\ simRead \in Nat /\ simRead' \in Nat
      /\ \A k \in DOMAIN outcomes : outcomes[k].checked \in Nat
  BY SimulatorCursor, OriginsWereSent DEF IInv, Outcomes
<1>2. \A k \in DOMAIN outcomes :
        /\ RanFor(outcomes[k])' /\ outcomes'[k] = outcomes[k]
        /\ outcomes[k].checked <= simRead'
        /\ Working' => outcomes[k].checked < simRead'
  <2> TAKE k \in DOMAIN outcomes
  <2>1. RanFor(outcomes[k]) /\ outcomes[k].checked <= simRead
        /\ (Working => outcomes[k].checked < simRead)
    BY DEF RunsOfApprovals
  <2>. QED
    BY <1>1, <2>1, SimulatorCursor, RanForStays, SentStays DEF RanFor, Longer
<1>3. CASE Signed
  <2>1. /\ outcomes' = Append(outcomes, local) /\ local \in Outcomes
        /\ RanFor(local) /\ local.checked = simRead /\ simRead' = simRead
        /\ sim = "signing" /\ sim' = "recv"
    BY <1>3 DEF Signed, IInv, OutcomesRanOnTheirs, RunsOfApprovals
  <2>2. PICK e : e = local
    OBVIOUS
  <2>3. /\ RanFor(e)'
        /\ \A k \in DOMAIN outcomes : outcomes[k].checked < e.checked
        /\ e.checked \in Nat
    BY <1>1, <2>1, <2>2, RanForStays DEF RunsOfApprovals, Working, RanFor
  <2>4. \A k \in DOMAIN outcomes' :
          \/ k \in DOMAIN outcomes /\ outcomes'[k] = outcomes[k] /\ k < Len(outcomes) + 1
          \/ k = Len(outcomes) + 1 /\ outcomes'[k] = e
    BY <2>1, <2>2, AppendIsLonger DEF IInv, Typed
  <2>5. ASSUME NEW k \in DOMAIN outcomes'
        PROVE  RanFor(outcomes[k])' /\ outcomes'[k].checked <= simRead'
    <3>1. CASE outcomes'[k] = e
      BY <1>1, <2>1, <2>2, <2>3, <3>1 DEF RanFor
    <3>2. CASE k \in DOMAIN outcomes /\ outcomes'[k] = outcomes[k]
      BY <1>2, <3>2
    <3>. QED
      BY <2>4, <3>1, <3>2
  <2>6. ASSUME NEW j \in DOMAIN outcomes', NEW k \in DOMAIN outcomes', j < k
        PROVE  outcomes'[j].checked < outcomes'[k].checked
    <3>1. j \in DOMAIN outcomes /\ outcomes'[j] = outcomes[j]
      BY <2>4, <2>6 DEF IInv, Typed
    <3>. QED
      BY <2>3, <2>4, <2>6, <3>1 DEF RunsOfApprovals, StrictlyIncreasing
  <2>. QED
    BY <2>1, <2>5, <2>6 DEF RunsOfApprovals, StrictlyIncreasing, Working
<1>4. CASE UNCHANGED outcomes
  <2>1. /\ \A k \in DOMAIN outcomes' :
             /\ RanFor(outcomes[k])' /\ outcomes'[k].checked <= simRead'
             /\ Working' => outcomes'[k].checked < simRead'
        /\ StrictlyIncreasing(outcomes, LAMBDA o : o.checked)'
    BY <1>2, <1>4 DEF RunsOfApprovals, StrictlyIncreasing
  <2>2. ASSUME sim' = "signing" PROVE RanFor(local)' /\ local'.checked = simRead'
    <3>1. CASE Simulate
      <4>1. /\ simRead' = simRead /\ UNCHANGED <<opps, checked>>
            /\ sim \in {"fetching", "simulating", "signing"}
        BY <3>1 DEF Simulate, riskVars
      <4>2. simRead \in DOMAIN checked
        BY <4>1, CurrentWasSent DEF IInv
      <4>3. PICK run \in EvmRuns(Current.amount) :
              local' = [opp |-> checked[simRead].opp, checked |-> simRead, fixture |-> active,
                        run |-> run]
        BY <3>1 DEF Simulate
      <4>. QED
        BY <4>1, <4>2, <4>3 DEF RanFor, Current
    <3>2. CASE UNCHANGED <<sim, simRead, local>>
      <4>1. RanFor(local) /\ local.checked = simRead
        BY <2>2, <3>2 DEF RunsOfApprovals
      <4>. QED
        BY <3>2, <4>1, RanForStays DEF RanFor
    <3>. QED
      BY <2>2, <3>1, <3>2, SimulatorCursor
  <2>. QED
    BY <2>1, <2>2 DEF RunsOfApprovals
<1>5. Signed \/ UNCHANGED outcomes
  BY OnlyThreeSend DEF PublishOpportunity, RiskTake, driverVars
<1>. QED
  BY <1>3, <1>4, <1>5

\* What construct makes of an outcome with a success, a profit and a bid.
LEMMA TakeBids ==
  ASSUME IInv, RunsOfApprovals, BidsOfRuns, ExecutionTake, candidates' # candidates
  PROVE  \E candidate \in Bids :
           /\ candidates' = Append(candidates, candidate)
           /\ candidate.outcome = execRead + 1 /\ PaidFor(candidate)
<1>1. PICK n, outcome : n = execRead + 1 /\ outcome = outcomes[n]
  OBVIOUS
<1>2. n \in DOMAIN outcomes /\ n \in Nat \ {0} /\ outcome \in Outcomes
      /\ outcome.opp \in DOMAIN opps /\ RanFor(outcome)
  <2>1. n \in DOMAIN outcomes /\ n \in Nat \ {0}
    BY <1>1 DEF ExecutionTake, HasNext, BidsOfRuns, IInv, Typed
  <2>. QED
    BY <1>1, <2>1, OriginsWereSent DEF IInv, RunsOfApprovals
<1>3. PICK number, bid : number = opps[outcome.opp].number /\ bid = Bid(outcome.run.profit)
  OBVIOUS
<1>4. PICK candidate : candidate = [outcome |-> n, bid |-> bid,
                                    validity |-> <<number, number + Validity - 1>>]
  OBVIOUS
<1>5. Constructible(outcome.run) /\ candidates' = Append(candidates, candidate)
  BY <1>1, <1>3, <1>4 DEF ExecutionTake
<1>6. /\ outcome.run.success /\ outcome.run.profit # 0 /\ bid # 0
  BY <1>3, <1>5 DEF Constructible
<1>7. opps[outcome.opp] \in Opportunities
  BY <1>2, ElementsOfSeq DEF IInv, Typed
<1>8. number \in Nat /\ number + Validity - 1 \in Nat
  BY <1>3, <1>7, SimulationAssumption DEF Opportunities
<1>9. bid \in Nat
  <2>1. opps[outcome.opp].amount \in Amounts /\ outcome.run \in EvmRuns(opps[outcome.opp].amount)
    BY <1>2, <1>7 DEF RanFor, Opportunities
  <2>2. PICK buy \in Succeeding(Buys) :
          outcome.run.profit = Gain(opps[outcome.opp].amount, buy.balance)
    BY <1>6, <2>1, ProfitIsGain
  <2>3. buy \in Buys
    BY <2>2 DEF Succeeding
  <2>. QED
    BY <1>3, <1>6, <2>1, <2>2, <2>3, BidIsOfGain
<1>10. candidate \in Bids /\ candidate.outcome = n /\ candidate.bid = bid
  <2>1. <<number, number + Validity - 1>> \in Nat \X Nat
    BY <1>8
  <2>. QED
    BY <1>2, <1>4, <1>9, <2>1 DEF Bids
<1>11. PaidFor(candidate)
  BY <1>1, <1>3, <1>6, <1>10 DEF PaidFor
<1>. QED
  BY <1>1, <1>5, <1>10, <1>11

\* Candidates stay in the order of the outcomes that pay for them.
LEMMA BidsKept ==
  ASSUME IInv, IInv', RunsOfApprovals, BidsOfRuns, [Next]_vars
  PROVE  BidsOfRuns'
<1>1. /\ Longer(outcomes, outcomes') /\ execRead \in Nat
      /\ DOMAIN outcomes = 1 .. Len(outcomes) /\ Len(outcomes) \in Nat
      /\ Len(outcomes') >= Len(outcomes) /\ Len(outcomes') \in Nat
      /\ execRead <= Len(outcomes)
  <2>1. /\ DOMAIN outcomes = 1 .. Len(outcomes) /\ Len(outcomes) \in Nat
        /\ DOMAIN outcomes' = 1 .. Len(outcomes') /\ Len(outcomes') \in Nat
    BY LenProperties DEF IInv, Typed
  <2>2. Longer(outcomes, outcomes')
    BY SentStays
  <2>3. Len(outcomes) = 0 \/ Len(outcomes) \in DOMAIN outcomes'
    BY <2>1, <2>2 DEF Longer
  <2>. QED
    BY <2>1, <2>2, <2>3 DEF BidsOfRuns
<1>2. \A k \in DOMAIN candidates :
        /\ candidates[k].outcome \in Nat /\ candidates[k].outcome \in DOMAIN outcomes
        /\ candidates[k].outcome <= execRead /\ PaidFor(candidates[k])
        /\ outcomes'[candidates[k].outcome] = outcomes[candidates[k].outcome]
  <2> TAKE k \in DOMAIN candidates
  <2>1. candidates[k] \in Bids /\ candidates[k].outcome <= execRead /\ PaidFor(candidates[k])
    BY ElementsOfSeq DEF BidsOfRuns
  <2>2. candidates[k].outcome \in Nat \ {0}
    BY <2>1 DEF Bids
  <2>3. candidates[k].outcome \in DOMAIN outcomes
    BY <1>1, <2>1, <2>2
  <2>. QED
    BY <1>1, <2>1, <2>2, <2>3 DEF Longer
<1>3. CASE UNCHANGED candidates /\ execRead' \in Nat /\ execRead' >= execRead
           /\ execRead' <= Len(outcomes)
  <2>1. \A k \in DOMAIN candidates' :
          candidates'[k].outcome <= execRead' /\ PaidFor(candidates[k])'
    BY <1>1, <1>2, <1>3 DEF PaidFor
  <2>. QED
    BY <1>1, <1>3, <2>1 DEF BidsOfRuns, StrictlyIncreasing
<1>4. CASE ExecutionTake /\ ~ UNCHANGED candidates
  <2>1. PICK candidate \in Bids :
           /\ candidates' = Append(candidates, candidate)
           /\ candidate.outcome = execRead + 1 /\ PaidFor(candidate)
    BY <1>4, TakeBids
  <2>2. UNCHANGED outcomes /\ execRead' = execRead + 1 /\ execRead + 1 <= Len(outcomes)
    BY <1>1, <1>4 DEF ExecutionTake, HasNext, driverVars
  <2>3. /\ candidates' \in Seq(Bids)
        /\ \A k \in DOMAIN candidates' :
             \/ k \in DOMAIN candidates /\ candidates'[k] = candidates[k]
                /\ k < Len(candidates) + 1
             \/ k = Len(candidates) + 1 /\ candidates'[k] = candidate
    BY <2>1, AppendIsLonger DEF BidsOfRuns
  <2>4. ASSUME NEW k \in DOMAIN candidates'
        PROVE  candidates'[k].outcome <= execRead' /\ PaidFor(candidates[k])'
    <3>1. CASE k \in DOMAIN candidates /\ candidates'[k] = candidates[k]
      BY <1>1, <1>2, <2>2, <3>1 DEF PaidFor
    <3>2. CASE candidates'[k] = candidate
      BY <1>1, <2>1, <2>2, <3>2 DEF PaidFor
    <3>. QED
      BY <2>3, <3>1, <3>2
  <2>5. ASSUME NEW j \in DOMAIN candidates', NEW k \in DOMAIN candidates', j < k
        PROVE  candidates'[j].outcome < candidates'[k].outcome
    <3>1. j \in DOMAIN candidates /\ candidates'[j] = candidates[j]
      BY <2>3, <2>5 DEF BidsOfRuns
    <3>. QED
      BY <1>1, <1>2, <2>1, <2>3, <2>5, <3>1 DEF BidsOfRuns, StrictlyIncreasing
  <2>. QED
    BY <1>1, <2>2, <2>3, <2>4, <2>5 DEF BidsOfRuns, StrictlyIncreasing
<1>5. ExecutionTake \/ ExecutionLagged \/ UNCHANGED <<candidates, execRead>>
  <2>1. CASE Simulator
    BY <2>1
    DEF Simulator, TakeChecked, Prefetch, Hit, Miss, Fetch, FetchFails, Install, SimLagged,
        Simulate, SimulateFails, Signed, SigningFails, execVars
  <2>2. CASE PublishOpportunity \/ Risk \/ Others \/ Shutdown \/ UNCHANGED vars
    BY <2>2
    DEF PublishOpportunity, Risk, RiskTake, RiskLagged, Others, SetBudget, LoadFixture,
        Shutdown, CancelExecution, CancelSimulator, CancelRisk, vars, execVars
  <2>. QED
    BY <2>1, <2>2 DEF Next, Execution
<1>6. ExecutionTake => execRead' = execRead + 1 /\ execRead + 1 <= Len(outcomes)
  BY <1>1 DEF ExecutionTake, HasNext
<1>7. ExecutionLagged => /\ UNCHANGED candidates /\ execRead' \in Nat /\ execRead' >= execRead
                         /\ execRead' <= Len(outcomes)
  BY <1>1, SimulationAssumption DEF ExecutionLagged, Lagged, OldestKept
<1>. QED
  BY <1>1, <1>3, <1>4, <1>5, <1>6, <1>7

\* Whatever lags, whatever budget is set and whatever shutdown interrupts: a bundle
\* candidate descends from one approval within the caps, bids at most what its run gained,
\* and candidates keep the order of their opportunities.
THEOREM CandidatesDescend == Spec => []CandidatesWereApproved
<1> DEFINE Inv == IInv /\ ChecksApproved /\ RunsOfApprovals /\ BidsOfRuns
<1>1. Init => Inv
  BY InitInvariant
  DEF Init, ChecksApproved, RunsOfApprovals, BidsOfRuns, StrictlyIncreasing
<1>2. Inv /\ [Next]_vars => Inv'
  BY NextKeepsInvariant, ChecksKept, RunsKept, BidsKept
<1>3. Inv => CandidatesWereApproved
  <2> SUFFICES ASSUME Inv PROVE CandidatesWereApproved
    OBVIOUS
  <2>1. ASSUME NEW k \in DOMAIN candidates
        PROVE  LET outcome == outcomes[candidates[k].outcome]
                   approval == checked[outcome.checked]
                   opp == opps[approval.opp]
               IN /\ outcome.opp = approval.opp
                  /\ outcome.run.success
                  /\ \E buy \in Succeeding(Buys) :
                       candidates[k].bid \in 1 .. buy.balance - opp.amount
                  /\ WithinCaps(approval, opp.amount)
    <3>1. PICK n, outcome, opp : /\ n = candidates[k].outcome /\ outcome = outcomes[n]
                                 /\ opp = opps[outcome.opp]
      OBVIOUS
    <3>2. /\ candidates[k] \in Bids /\ n <= execRead /\ PaidFor(candidates[k])
          /\ execRead \in Nat /\ execRead <= Len(outcomes)
      BY <3>1, ElementsOfSeq DEF BidsOfRuns
    <3>3. n \in DOMAIN outcomes
      BY <3>1, <3>2 DEF Bids, IInv, Typed
    <3>4. /\ outcome.checked \in DOMAIN checked /\ outcome.opp = checked[outcome.checked].opp
          /\ outcome.run \in EvmRuns(opp.amount)
      BY <3>1, <3>3 DEF RunsOfApprovals, RanFor
    <3>5. WithinCaps(checked[outcome.checked], opp.amount)
      BY <3>1, <3>4 DEF ChecksApproved
    <3>6. opp.amount \in Amounts
      <4>1. outcome.opp \in DOMAIN opps
        BY <3>4, OriginsWereSent DEF IInv
      <4>2. opp \in Opportunities
        BY <3>1, <4>1, ElementsOfSeq DEF IInv, Typed
      <4>. QED
        BY <4>2 DEF Opportunities
    <3>7. /\ outcome.run.success /\ candidates[k].bid # 0
          /\ candidates[k].bid = Bid(outcome.run.profit)
      BY <3>1, <3>2 DEF PaidFor
    <3>8. PICK buy \in Succeeding(Buys) : outcome.run.profit = Gain(opp.amount, buy.balance)
      BY <3>4, <3>6, <3>7, ProfitIsGain
    <3>9. candidates[k].bid \in 1 .. buy.balance - opp.amount
      <4>1. buy \in Buys
        BY <3>8 DEF Succeeding
      <4>. QED
        BY <3>6, <3>7, <3>8, <4>1, BidIsOfGain
    <3>. QED
      BY <3>1, <3>4, <3>5, <3>7, <3>8, <3>9
  <2>. QED
    BY <2>1 DEF CandidatesWereApproved, ChecksApproved, RunsOfApprovals, BidsOfRuns, WithinCaps
<1>. QED
  BY <1>1, <1>2, <1>3, PTL DEF Spec

-----------------------------------------------------------------------------
(* The comparison *)

\* compare comes to the first check that finds a difference, and never to "Unknown".
LEMMA FirstDifference ==
  ASSUME NEW run, NEW relay
  PROVE  \/ compare(run, relay) = "Ok" /\ \A k \in 1 .. 5 : ~Differs(run, relay)[k]
         \/ \E k \in 1 .. 5 :
              /\ compare(run, relay) = Categories[k] /\ Differs(run, relay)[k]
              /\ \A j \in 1 .. k - 1 : ~Differs(run, relay)[j]
<1> DEFINE differs == Differs(run, relay)
           found == {k \in 1 .. 5 : differs[k]}
<1>1. compare(run, relay) = IF found = {} THEN "Ok"
        ELSE Categories[CHOOSE k \in found : \A j \in found : k <= j]
  BY DEF compare
<1> HIDE DEF differs
<1>2. CASE found = {}
  <2>1. compare(run, relay) = "Ok"
    BY <1>1, <1>2
  <2>. QED
    BY <1>2, <2>1 DEF differs
<1>3. CASE found # {}
  <2>1. \E m \in found : \A n \in found : m <= n
    BY <1>3, Least
  <2>2. PICK k : k = CHOOSE m \in found : \A j \in found : m <= j
    OBVIOUS
  <2>3. k \in found /\ \A j \in found : k <= j
    BY <2>1, <2>2
  <2>4. \A j \in 1 .. k - 1 : ~differs[j]
    BY <2>3
  <2>5. compare(run, relay) = Categories[k]
    BY <1>1, <1>3, <2>2
  <2>. QED
    BY <2>3, <2>4, <2>5 DEF differs
<1>. QED
  BY <1>2, <1>3

\* What each category says of the figures.
LEMMA CategorySays ==
  ASSUME NEW run, NEW relay, NEW verdict, verdict = compare(run, relay)
  PROVE  /\ verdict # "Unknown"
         /\ verdict = "Ok" <=> \A k \in 1 .. 5 : ~Differs(run, relay)[k]
         /\ verdict \in {"Profitability", "Gas"} => ~StatesDiffer(run, relay)
         /\ verdict = "Gas" => run.profit = relay.profit
         /\ verdict # "Revert" => run.success = relay.success
<1>1. /\ Categories[1] = "Revert" /\ Categories[2] = "BundleOutcome"
      /\ Categories[3] = "StateDependency" /\ Categories[4] = "Profitability"
      /\ Categories[5] = "Gas"
  BY DEF Categories
<1>2. /\ Differs(run, relay)[1] <=> run.success # relay.success
      /\ Differs(run, relay)[3] <=> StatesDiffer(run, relay)
      /\ Differs(run, relay)[4] <=> run.profit # relay.profit
  BY DEF Differs
<1>3. 1 .. 5 = {1, 2, 3, 4, 5}
  OBVIOUS
<1>4. CASE verdict = "Ok" /\ \A k \in 1 .. 5 : ~Differs(run, relay)[k]
  BY <1>2, <1>3, <1>4
<1>5. ASSUME NEW k \in 1 .. 5, verdict = Categories[k], Differs(run, relay)[k],
             \A j \in 1 .. k - 1 : ~Differs(run, relay)[j]
      PROVE  /\ verdict # "Unknown" /\ verdict # "Ok"
             /\ verdict \in {"Profitability", "Gas"} => ~StatesDiffer(run, relay)
             /\ verdict = "Gas" => run.profit = relay.profit
             /\ verdict # "Revert" => run.success = relay.success
  <2>1. CASE k = 1
    BY <1>1, <1>5, <2>1
  <2>2. CASE k = 2
    BY <1>1, <1>2, <1>5, <2>2
  <2>3. CASE k = 3
    BY <1>1, <1>2, <1>5, <2>3
  <2>4. CASE k = 4
    BY <1>1, <1>2, <1>5, <2>4
  <2>5. CASE k = 5
    BY <1>1, <1>2, <1>5, <2>5
  <2>. QED
    BY <1>3, <2>1, <2>2, <2>3, <2>4, <2>5
<1>. QED
  BY <1>4, <1>5, FirstDifference

\* The first of n observations of a slot has this value.
FirstIn(reads, n, slot, value) ==
  \E i \in 1 .. n :
    /\ reads[i].slot = slot /\ reads[i].value = value
    /\ \A j \in 1 .. i - 1 : reads[j].slot # slot

\* There is one first observation, and Found comes to it.
LEMMA FoundIsFirst ==
  ASSUME NEW T, NEW reads \in Seq(T), NEW slot
  PROVE  /\ Observed(reads, slot) => FirstIn(reads, Len(reads), slot, Found(reads, slot))
         /\ \A value : FirstIn(reads, Len(reads), slot, value) =>
              Observed(reads, slot) /\ Found(reads, slot) = value
<1> DEFINE n == Len(reads)
           First(i) == reads[i].slot = slot /\ \A j \in 1 .. i - 1 : reads[j].slot # slot
           where == {i \in 1 .. n : reads[i].slot = slot}
<1>1. n \in Nat /\ DOMAIN reads = 1 .. n
  BY LenProperties
<1> HIDE DEF n
<1>2. \A i, j \in 1 .. n : First(i) /\ First(j) => i = j
  BY <1>1
<1>3. Observed(reads, slot) => \E i \in 1 .. n : First(i)
  <2> SUFFICES ASSUME where # {} PROVE \E i \in 1 .. n : First(i)
    BY <1>1 DEF Observed
  <2>0. where \in SUBSET Nat
    BY <1>1
  <2>1. PICK i \in where : \A j \in where : i <= j
    BY <2>0, Least
  <2>2. \A j \in 1 .. i - 1 : reads[j].slot # slot
    BY <1>1, <2>1
  <2>. QED
    BY <2>1, <2>2
<1>4. \A i \in 1 .. n : First(i) => Found(reads, slot) = reads[i].value
  <2> SUFFICES ASSUME NEW i \in 1 .. n, First(i) PROVE Found(reads, slot) = reads[i].value
    OBVIOUS
  <2>1. PICK k : k = CHOOSE m \in DOMAIN reads :
                       reads[m].slot = slot /\ \A j \in 1 .. m - 1 : reads[j].slot # slot
    OBVIOUS
  <2>2. k \in 1 .. n /\ First(k)
    BY <1>1, <2>1
  <2>3. Found(reads, slot) = reads[k].value
    BY <2>1 DEF Found
  <2>. QED
    BY <1>2, <2>2, <2>3
<1>5. \A i \in 1 .. n : First(i) => Observed(reads, slot)
  BY <1>1 DEF Observed
<1>. QED
  BY <1>3, <1>4, <1>5 DEF FirstIn, n

\* Leaving whole slots out keeps the first observation of each that stays.
LEMMA SparserKeepsFirst ==
  ASSUME NEW T, NEW reads \in Seq(T), NEW slots
  PROVE  /\ ReadsOf(reads, slots) \in Seq(T)
         /\ \A slot, value :
              FirstIn(ReadsOf(reads, slots), Len(ReadsOf(reads, slots)), slot, value) =>
                FirstIn(reads, Len(reads), slot, value)
<1> DEFINE k == Len(reads)
           V == Seq(T)
           Step(i, x) == IF reads[i].slot \in slots THEN Append(x, reads[i]) ELSE x
           kept == CHOOSE f : f = [i \in 0 .. k |->
                     IF i = 0 THEN <<>>
                     ELSE IF reads[i].slot \in slots THEN Append(f[i - 1], reads[i])
                     ELSE f[i - 1]]
           step == [i \in 1 .. k |-> [x \in V |-> Step(i, x)]]
<1>1. k \in Nat /\ \A i \in 1 .. k : reads[i] \in T
  BY LenProperties, ElementOfSeq
<1>2. ReadsOf(reads, slots) = kept[k]
  BY DEF ReadsOf
<1>3. \A i \in 1 .. k : \A x \in V : Step(i, x) \in V
  BY <1>1, AppendProperties
<1>4. <<>> \in V /\ step \in [1 .. k -> [V -> V]]
  <2>1. <<>> \in V
    OBVIOUS
  <2> HIDE DEF V, Step
  <2>. QED
    BY <1>3, <2>1
<1> HIDE DEF V, step, k, Step
<1>5. PICK g \in [0 .. k -> V] : g[0] = <<>> /\ \A i \in 1 .. k : g[i] = step[i][g[i - 1]]
  <2>1. \E g : Follows(g, k, V, <<>>, step)
    BY <1>1, <1>4, Recursion
  <2>. QED
    BY <2>1 DEF Follows
<1>6. \A i \in 1 .. k : g[i] = Step(i, g[i - 1])
  <2> TAKE i \in 1 .. k
  <2>1. i - 1 \in 0 .. k
    BY <1>1
  <2>2. g[i - 1] \in V
    BY <1>5, <2>1
  <2>. QED
    BY <1>5, <2>2 DEF step
<1>7. g = [i \in 0 .. k |-> IF i = 0 THEN <<>> ELSE Step(i, g[i - 1])]
  BY <1>1, <1>5, <1>6
<1>8. kept = [i \in 0 .. k |-> IF i = 0 THEN <<>> ELSE Step(i, kept[i - 1])]
  BY <1>7 DEF Step
<1> HIDE DEF kept
<1>9. kept[0] = <<>> /\ \A i \in 1 .. k : kept[i] = Step(i, kept[i - 1])
  <2>1. \A i \in 0 .. k : kept[i] = IF i = 0 THEN <<>> ELSE Step(i, kept[i - 1])
    BY <1>8, Zenon
  <2>. QED
    BY <1>1, <2>1
<1> DEFINE Faithful(i, x) ==
             /\ x \in V
             /\ \A j \in 1 .. i : reads[j].slot \in slots => Observed(x, reads[j].slot)
             /\ \A slot, value : FirstIn(x, Len(x), slot, value) => FirstIn(reads, i, slot, value)
           S == {i \in Nat : i <= k => Faithful(i, kept[i])}
<1>10. 0 \in S
  <2>1. <<>> \in V /\ Len(<<>>) = 0
    BY <1>4
  <2>2. \A slot, value : ~FirstIn(<<>>, 0, slot, value)
    BY DEF FirstIn
  <2>. QED
    BY <1>9, <2>1, <2>2
<1>11. ASSUME NEW i \in Nat, i \in S PROVE i + 1 \in S
  <2> SUFFICES ASSUME i + 1 <= k PROVE Faithful(i + 1, kept[i + 1])
    BY <1>11
  <2>1. PICK x : x = kept[i]
    OBVIOUS
  <2>2. /\ Faithful(i, x) /\ kept[i + 1] = Step(i + 1, x) /\ i + 1 \in 1 .. k
        /\ \A j \in 1 .. i + 1 : j \in 1 .. i \/ j = i + 1
    <3>1. i + 1 \in 1 .. k /\ (i + 1) - 1 = i /\ i <= k
      BY <1>1
    <3>. QED
      BY <1>9, <1>11, <2>1, <3>1
  <2>3. x \in Seq(T) /\ reads[i + 1] \in T
    BY <1>1, <2>2 DEF V
  <2>4. \A slot, value : FirstIn(reads, i, slot, value) => FirstIn(reads, i + 1, slot, value)
    BY DEF FirstIn
  <2>5. CASE reads[i + 1].slot \notin slots
    <3>1. kept[i + 1] = x
      BY <2>2, <2>5 DEF Step
    <3>. QED
      BY <2>2, <2>4, <2>5, <3>1
  <2>6. CASE reads[i + 1].slot \in slots
    <3>1. PICK y : y = Append(x, reads[i + 1])
      OBVIOUS
    <3>2. /\ y \in Seq(T) /\ Len(y) = Len(x) + 1 /\ Len(x) \in Nat
          /\ \A j \in 1 .. Len(x) : y[j] = x[j]
          /\ y[Len(x) + 1] = reads[i + 1]
      BY <2>3, <3>1, AppendProperties, LenProperties
    <3>3. DOMAIN x = 1 .. Len(x) /\ DOMAIN y = 1 .. Len(x) + 1
      BY <2>3, <3>2, LenProperties
    <3>4. \A j \in 1 .. i + 1 : reads[j].slot \in slots => Observed(y, reads[j].slot)
      <4> TAKE j \in 1 .. i + 1
      <4>1. CASE j \in 1 .. i
        BY <2>2, <3>2, <3>3, <4>1 DEF Observed
      <4>2. CASE j = i + 1
        BY <3>2, <3>3, <4>2 DEF Observed
      <4>. QED
        BY <2>2, <4>1, <4>2
    <3>5. ASSUME NEW slot, NEW value, FirstIn(y, Len(y), slot, value)
          PROVE  FirstIn(reads, i + 1, slot, value)
      <4>1. PICK m \in 1 .. Len(x) + 1 :
              /\ y[m].slot = slot /\ y[m].value = value
              /\ \A j \in 1 .. m - 1 : y[j].slot # slot
        BY <3>2, <3>5 DEF FirstIn
      <4>2. CASE m \in 1 .. Len(x)
        <5>1. FirstIn(x, Len(x), slot, value)
          <6>1. \A j \in 1 .. m - 1 : j \in 1 .. Len(x)
            BY <3>2, <4>2
          <6>. QED
            BY <3>2, <4>1, <4>2, <6>1 DEF FirstIn
        <5>. QED
          BY <2>2, <2>4, <5>1
      <4>3. CASE m = Len(x) + 1
        <5>1. reads[i + 1].slot = slot /\ reads[i + 1].value = value
          BY <3>2, <4>1, <4>3
        <5>2. ~Observed(x, slot)
          BY <3>2, <3>3, <4>1, <4>3 DEF Observed
        <5>3. \A j \in 1 .. i : reads[j].slot # slot
          BY <2>2, <2>6, <5>1, <5>2
        <5>. QED
          BY <5>1, <5>3 DEF FirstIn
      <4>. QED
        BY <3>2, <4>2, <4>3
    <3>6. kept[i + 1] = y
      BY <2>2, <2>6, <3>1 DEF Step
    <3>. QED
      BY <3>2, <3>4, <3>5, <3>6 DEF V
  <2>. QED
    BY <2>5, <2>6
<1> HIDE DEF S
<1>12. k \in S
  BY <1>1, <1>10, <1>11, SetInduction
<1>13. Faithful(k, kept[k])
  BY <1>1, <1>12 DEF S
<1>. QED
  BY <1>2, <1>13 DEF k, V

\* What a sparser relay contradicts, the relay contradicts.
LEMMA SparserAgrees ==
  ASSUME NEW run, NEW T, NEW relay, relay.reads \in Seq(T), NEW slots, NEW sparser,
         sparser.reads = ReadsOf(relay.reads, slots), StatesDiffer(run, sparser)
  PROVE  StatesDiffer(run, relay)
<1>1. PICK i \in DOMAIN run.reads :
        /\ Observed(sparser.reads, run.reads[i].slot)
        /\ Found(sparser.reads, run.reads[i].slot) # run.reads[i].value
  BY DEF StatesDiffer
<1>2. PICK slot, value : slot = run.reads[i].slot /\ value = Found(sparser.reads, slot)
  OBVIOUS
<1>3. sparser.reads \in Seq(T)
  BY SparserKeepsFirst
<1>4. FirstIn(sparser.reads, Len(sparser.reads), slot, value)
  BY <1>1, <1>2, <1>3, FoundIsFirst
<1>5. FirstIn(relay.reads, Len(relay.reads), slot, value)
  BY <1>4, SparserKeepsFirst
<1>6. Observed(relay.reads, slot) /\ Found(relay.reads, slot) = value
  BY <1>5, FoundIsFirst
<1>. QED
  BY <1>1, <1>2, <1>6 DEF StatesDiffer

\* A contradiction is what StatesDiffer looks for.
LEMMA ContradictedIsDifference ==
  ASSUME NEW run, NEW T, NEW relay, relay.reads \in Seq(T), Contradicted(run, relay)
  PROVE  StatesDiffer(run, relay)
<1>1. PICK i \in DOMAIN run.reads, j \in DOMAIN relay.reads :
        /\ relay.reads[j].slot = run.reads[i].slot
        /\ \A before \in 1 .. j - 1 : relay.reads[before].slot # run.reads[i].slot
        /\ relay.reads[j].value # run.reads[i].value
  BY DEF Contradicted
<1>2. j \in 1 .. Len(relay.reads)
  BY LenProperties
<1>3. FirstIn(relay.reads, Len(relay.reads), run.reads[i].slot, relay.reads[j].value)
  BY <1>1, <1>2 DEF FirstIn
<1>4. /\ Observed(relay.reads, run.reads[i].slot)
      /\ Found(relay.reads, run.reads[i].slot) = relay.reads[j].value
  BY <1>3, FoundIsFirst
<1>. QED
  BY <1>1, <1>4 DEF StatesDiffer

\* compare_result, for every run and every answer.
LEMMA VerdictsAreSound ==
  ASSUME NEW run, NEW answer \in RelayAnswers
  PROVE  VerdictIsSound(run, answer)
<1>1. PICK verdict, relay : verdict = compare_result(run, answer) /\ relay = answer.outcome
  OBVIOUS
<1>2. /\ answer.ok \in BOOLEAN
      /\ relay \in [success : BOOLEAN, index : Nat, coinbase : Nat, reads : Observations,
                    profit : Nat, gas : Nat]
  BY <1>1, RelayAssumption
<1>3. ~StatesDiffer(run, relay) => ~Contradicted(run, relay)
  BY <1>2, ContradictedIsDifference DEF Observations
<1>4. CASE ~answer.ok
  <2>1. verdict = "Unknown"
    BY <1>1, <1>4 DEF compare_result
  <2>. QED
    BY <1>1, <1>4, <2>1 DEF VerdictIsSound
<1>5. CASE answer.ok
  <2>1. verdict = compare(run, relay)
    BY <1>1, <1>5 DEF compare_result
  <2>2. /\ verdict # "Unknown"
        /\ verdict = "Ok" <=> \A k \in 1 .. 5 : ~Differs(run, relay)[k]
        /\ verdict \in {"Profitability", "Gas"} => ~StatesDiffer(run, relay)
        /\ verdict = "Gas" => run.profit = relay.profit
        /\ verdict # "Revert" => run.success = relay.success
    BY <2>1, CategorySays
  <2>3. ASSUME verdict = "Ok"
        PROVE  /\ run.success = relay.success /\ run.index = relay.index
               /\ run.coinbase = relay.coinbase /\ run.profit = relay.profit
               /\ run.gas = relay.gas /\ ~StatesDiffer(run, relay)
    <3>1. /\ ~Differs(run, relay)[1] /\ ~Differs(run, relay)[2] /\ ~Differs(run, relay)[3]
          /\ ~Differs(run, relay)[4] /\ ~Differs(run, relay)[5]
      BY <2>2, <2>3
    <3>. QED
      BY <3>1 DEF Differs
  <2>4. ASSUME verdict = "Ok", NEW slots
        PROVE  compare(run, Sparser(relay, slots)) = "Ok"
    <3>1. PICK sparser : sparser = Sparser(relay, slots)
      OBVIOUS
    <3>2. /\ sparser.success = relay.success /\ sparser.index = relay.index
          /\ sparser.coinbase = relay.coinbase /\ sparser.profit = relay.profit
          /\ sparser.gas = relay.gas /\ sparser.reads = ReadsOf(relay.reads, slots)
      BY <1>2, <3>1 DEF Sparser
    <3>3. ~StatesDiffer(run, sparser)
      BY <1>2, <2>3, <2>4, <3>2, SparserAgrees DEF Observations
    <3>4. /\ ~Differs(run, sparser)[1] /\ ~Differs(run, sparser)[2]
          /\ ~Differs(run, sparser)[3] /\ ~Differs(run, sparser)[4]
          /\ ~Differs(run, sparser)[5]
      BY <2>3, <2>4, <3>2, <3>3 DEF Differs
    <3>5. \A k \in 1 .. 5 : ~Differs(run, sparser)[k]
      <4>1. 1 .. 5 = {1, 2, 3, 4, 5}
        OBVIOUS
      <4>. QED
        BY <3>4, <4>1
    <3>. QED
      BY <3>1, <3>5, CategorySays
  <2>5. verdict = "Ok" => \A field \in {"success", "index", "coinbase", "profit", "gas"} :
                           run[field] = relay[field]
    BY <2>3
  <2>. QED
    BY <1>1, <1>3, <1>5, <2>2, <2>3, <2>4, <2>5 DEF VerdictIsSound
<1>. QED
  BY <1>2, <1>4, <1>5

\* A match agrees in every figure and in every slot both saw, also when the relay shows
\* less of them; a symptom is not reported where its cause is; an error is reported as
\* nothing else.
THEOREM MatchesAgree == Spec => []MatchMeansAgreement
<1>1. MatchMeansAgreement
  BY VerdictsAreSound DEF MatchMeansAgreement
<1>. QED
  BY <1>1, PTL
=============================================================================
