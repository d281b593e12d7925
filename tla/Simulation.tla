------------------------------ MODULE Simulation ------------------------------
(***************************************************************************)
(* From an arbitrage candidate to a bundle candidate, as wire_phase4 of    *)
(* crates/app/src/lib.rs connects them: risk_driver, simulator_driver with *)
(* LocalSimulator (crates/simulator) and its fixture cache, the signer,    *)
(* and execution_driver.  The simulator is behind an Arc that              *)
(* AppHandle4::simulator() lends out: other holders may load a fixture     *)
(* between two steps of the driver, as the risk budget may be written      *)
(* between two evaluations.                                                *)
(*                                                                         *)
(* A state is named by the block hash it was read at; what a run on it may *)
(* come to is one of ArbitrageRun's EvmRuns.                               *)
(***************************************************************************)
EXTENDS Broadcast, RiskGate, StateFetcher, Comparison, ArbitrageRun

LOCAL INSTANCE SequencesExt

CONSTANTS
  Hashes,        \* block hashes
  NumberOf(_),   \* NumberOf(hash): the block's number
  Pools,         \* pools an opportunity may name
  Amounts,       \* OpportunityEvent::optimal_amount_in_wei
  Budgets,       \* states of RiskBudgetState; the first opportunity meets one of them
  RelayAnswers,  \* what a relay may answer to a simulation request
  Bid(_),        \* Bid(profit): the bid strategy, 0 when it rounds to nothing
  Validity,      \* BundleConfig::validity_block_window
  Engines,       \* the engines a host may build: records [prefetch, signer, wired]
  None,          \* no block seen yet, nothing to sign
  Capacity,      \* broadcast::channel(bus.capacity.max(8)), scaled down
  CacheCapacity, \* simulator.prefetch_cache_capacity, scaled down
  Window,        \* simulator.freshness_window_blocks
  MaxOpps,       \* bound: opportunities published on opp_tx
  MaxTouches     \* bound: what other holders of the simulator and the gate do

ASSUME SimulationAssumption ==
  /\ \A h \in Hashes : NumberOf(h) \in Nat \ {0}
  /\ NoHash \notin Hashes
  /\ \A pool \in Pools, hash \in Hashes :
       Words(pool, hash) # {} /\ Words(pool, hash) \cap base_slots(pool) = {}
  /\ Capacity \in Nat \ {0} /\ CacheCapacity \in Nat \ {0} /\ Window \in Nat
  /\ Validity \in Nat \ {0} /\ MaxOpps \in Nat /\ MaxTouches \in Nat
  /\ Engines \subseteq [prefetch : BOOLEAN, signer : {"disabled", "kms", "injected"},
                        wired : BOOLEAN]

\* Amounts are unsigned, and both bid strategies bid at most 10000 basis points of the profit.
ASSUME MoneyAssumption ==
  /\ Amounts \subseteq Nat
  /\ \A state \in Budgets :
       {state.live, state.canary, state.loss, state.gas} \subseteq Nat
  /\ \A amount \in Amounts, buy \in Buys :
       Bid(Gain(amount, buy.balance)) \in 0 .. Gain(amount, buy.balance)

ASSUME RelayAssumption ==
  RelayAnswers \subseteq
    [ok : BOOLEAN,
     outcome : [success : BOOLEAN, index : Nat, coinbase : Nat, reads : Observations,
                profit : Nat, gas : Nat]]

VARIABLES
  engine,      \* the engine that was built
  opps,        \* opp_tx: every OpportunityEvent sent
  risk,        \* where risk_driver is
  riskRead,    \* its receiver
  budget,      \* RiskGate's state
  checked,     \* risk_tx: every RiskCheckedOpportunity sent
  sim,         \* where simulator_driver is
  simRead,     \* its receiver
  fetched,     \* the parts of the fixture prefetch_for has fetched so far
  active,      \* SimulatorState::active
  cache,       \* SimulatorState::cache, least recently used first
  lastBlock,   \* SimulatorState::last_block_seen
  touches,     \* how often other holders acted
  local,       \* the outcome being signed
  outcomes,    \* sim_tx: every SimulationOutcomeWithFingerprint sent
  execution,   \* where execution_driver is
  execRead,    \* its receiver
  candidates   \* exec_tx: every BundleCandidate sent

riskVars == <<risk, riskRead, checked>>
fixtureVars == <<active, cache, lastBlock>>
driverVars == <<sim, simRead, fetched, local, outcomes>>
execVars == <<execution, execRead, candidates>>
vars == <<engine, opps, budget, riskVars, fixtureVars, driverVars, touches, execVars>>

\* The parts of a FixtureSet, in the order prefetch_for fetches them.
Parts == <<"source", "sink", "weth", "usdc_proxy", "usdc_impl", "v2_factory">>

\* FixtureKey.
Key(hash, source, sink) == [hash |-> hash, source |-> source, sink |-> sink]
OppKey(opp) == Key(opp.hash, opp.source, opp.sink)

\* A fixture set: its key, the hash each part was read at, the pools' slots.
Fixture(key, hashes, slots) == [key |-> key, hashes |-> hashes, slots |-> slots]
NoFixture == Fixture(Key(NoHash, None, None), <<>>, <<>>)

\* The opportunity simulator_driver works on.
Current == opps[checked[simRead].opp]

Init ==
  /\ engine \in Engines /\ budget \in Budgets
  /\ opps = <<>> /\ checked = <<>> /\ outcomes = <<>> /\ candidates = <<>>
  /\ risk = "recv" /\ riskRead = 0
  /\ sim = "recv" /\ simRead = 0 /\ fetched = <<>> /\ local = None
  /\ active = NoFixture /\ cache = <<>> /\ lastBlock = None
  /\ touches = 0
  /\ execution = "recv" /\ execRead = 0

-----------------------------------------------------------------------------
(* opportunity_driver *)

\* seal_envelope stamps block number 0 and the zero hash on every envelope of the wired
\* engine, and check() copies the stamp of the first pool's update into the event; what
\* the pools' states were read at (readAt) is in the payload.  A host that drives
\* simulator_driver itself fills in the block.
Stamp(hash) ==
  IF engine.wired THEN [number |-> 0, hash |-> NoHash]
  ELSE [number |-> NumberOf(hash), hash |-> hash]

PublishOpportunity ==
  /\ Len(opps) < MaxOpps
  /\ \E h \in Hashes, source, sink \in Pools, amount \in Amounts :
       /\ source # sink
       /\ opps' = Append(opps, [number |-> Stamp(h).number, hash |-> Stamp(h).hash,
                                readAt |-> h, source |-> source, sink |-> sink,
                                amount |-> amount])
  /\ UNCHANGED <<engine, budget, riskVars, fixtureVars, driverVars, touches, execVars>>

-----------------------------------------------------------------------------
(* risk_driver *)

RiskTake ==
  /\ risk = "recv" /\ HasNext(opps, riskRead, Capacity)
  /\ riskRead' = riskRead + 1
  /\ LET verdict == Evaluate(opps[riskRead'], budget)
     IN checked' = IF ~verdict.ok THEN checked
                   ELSE Append(checked, [opp |-> riskRead', size |-> verdict.size,
                                         under |-> budget])
  /\ UNCHANGED <<engine, opps, budget, risk, fixtureVars, driverVars, touches, execVars>>

RiskLagged ==
  /\ risk = "recv" /\ Lagged(opps, riskRead, Capacity)
  /\ riskRead' = OldestKept(opps, Capacity)
  /\ risk' = "lagged"
  /\ UNCHANGED <<engine, opps, budget, checked, fixtureVars, driverVars, touches, execVars>>

\* RiskGate::state() hands out the lock; a holder writes another budget.
SetBudget ==
  /\ touches < MaxTouches /\ touches' = touches + 1
  /\ budget' \in Budgets \ {budget}
  /\ UNCHANGED <<engine, opps, riskVars, fixtureVars, driverVars, execVars>>

-----------------------------------------------------------------------------
(* LocalSimulator's fixture *)

\* LruCache::put: the entry of the same key goes, or else the oldest if the cache is full.
Put(fixture) ==
  LET same == {k \in DOMAIN cache : cache[k].key = fixture.key}
  IN Append(IF same # {} THEN RemoveAt(cache, CHOOSE k \in same : TRUE)
            ELSE IF Len(cache) = CacheCapacity THEN Tail(cache) ELSE cache, fixture)

\* load_fixture, called by another holder of the simulator with the states of two pools
\* and four accounts that it fetched, one of them perhaps at another block; they must all
\* be of one block.
OneBlock(hashes) == \A k \in DOMAIN hashes : hashes[k] = hashes[1]
LoadFixture ==
  /\ touches < MaxTouches /\ touches' = touches + 1
  /\ \E h, odd \in Hashes, part \in DOMAIN Parts, source, sink \in Pools :
       LET hashes == [k \in DOMAIN Parts |-> IF k = part THEN odd ELSE h]
           slots == << fetch_pool(source, hashes[1]).slots, fetch_pool(sink, hashes[2]).slots >>
           fixture == Fixture(Key(hashes[1], source, sink), hashes, slots)
       IN /\ source # sink /\ OneBlock(hashes)
          /\ active' = fixture /\ cache' = Put(fixture)
  /\ UNCHANGED <<engine, opps, budget, riskVars, lastBlock, sim, simRead, fetched, local,
                 outcomes, execVars>>

-----------------------------------------------------------------------------
(* simulator_driver: recv, prefetch_for *)

NextTaken == opps[checked[simRead + 1].opp]

\* Phase 1 of prefetch_for begins by forgetting everything when the block number ran ahead.
Retained(number) ==
  IF lastBlock # None /\ number > lastBlock /\ number - lastBlock >= Window
  THEN <<>> ELSE cache
Seen(number) == IF lastBlock = None \/ number > lastBlock THEN number ELSE lastBlock

\* Without a fetcher the driver goes on to simulate with whatever is active.
TakeChecked ==
  /\ sim = "recv" /\ HasNext(checked, simRead, Capacity) /\ ~engine.prefetch
  /\ simRead' = simRead + 1
  /\ sim' = "simulating"
  /\ UNCHANGED <<engine, opps, budget, riskVars, fixtureVars, fetched, local, outcomes,
                 touches, execVars>>

\* A hit under the lock: the entry becomes the most recent, and the active fixture if
\* another is.
HitKeepsActive ==
  /\ sim = "recv" /\ HasNext(checked, simRead, Capacity) /\ engine.prefetch
  /\ simRead' = simRead + 1
  /\ LET key == OppKey(NextTaken)
         kept == Retained(NextTaken.number)
     IN \E k \in DOMAIN kept :
          /\ kept[k].key = key
          /\ cache' = Append(RemoveAt(kept, k), kept[k])
          /\ active' = active
  /\ lastBlock' = Seen(NextTaken.number)
  /\ sim' = "simulating"
  /\ UNCHANGED <<engine, opps, budget, riskVars, fetched, local, outcomes, touches, execVars>>
Hit ==
  /\ sim = "recv" /\ HasNext(checked, simRead, Capacity) /\ engine.prefetch
  /\ simRead' = simRead + 1
  /\ LET key == OppKey(NextTaken)
         kept == Retained(NextTaken.number)
     IN \E k \in DOMAIN kept :
          /\ kept[k].key = key
          /\ cache' = Append(RemoveAt(kept, k), kept[k])
          /\ active' = IF active # NoFixture /\ active.key = key THEN active ELSE kept[k]
  /\ lastBlock' = Seen(NextTaken.number)
  /\ sim' = "simulating"
  /\ UNCHANGED <<engine, opps, budget, riskVars, fetched, local, outcomes, touches, execVars>>

Miss ==
  /\ sim = "recv" /\ HasNext(checked, simRead, Capacity) /\ engine.prefetch
  /\ simRead' = simRead + 1
  /\ LET kept == Retained(NextTaken.number)
     IN /\ \A k \in DOMAIN kept : kept[k].key # OppKey(NextTaken)
        /\ cache' = kept
  /\ lastBlock' = Seen(NextTaken.number)
  /\ sim' = "fetching" /\ fetched' = <<>>
  /\ UNCHANGED <<engine, opps, budget, riskVars, active, local, outcomes, touches, execVars>>

SimLagged ==
  /\ sim = "recv" /\ Lagged(checked, simRead, Capacity)
  /\ simRead' = OldestKept(checked, Capacity)
  /\ sim' = "lagged"
  /\ UNCHANGED <<engine, opps, budget, riskVars, fixtureVars, fetched, local,
                 outcomes, touches, execVars>>

\* Phase 2, without the lock: the next part is fetched at the opportunity's hash.
NextPart == Parts[Len(fetched) + 1]
Fetchable ==
  CASE NextPart = "source" -> fetch_pool(Current.source, Current.hash).ok
    [] NextPart = "sink" -> fetch_pool(Current.sink, Current.hash).ok
    [] OTHER -> Current.hash # NoHash
Fetch ==
  /\ sim = "fetching" /\ Len(fetched) < Len(Parts) /\ Fetchable
  /\ fetched' = Append(fetched, Current.hash)
  /\ UNCHANGED <<engine, opps, budget, riskVars, fixtureVars, sim, simRead, local,
                 outcomes, touches, execVars>>

\* The node fails, the proxy names no implementation, or fetch_pool refuses: the event is
\* dropped and nothing is kept.
FetchFails ==
  /\ sim = "fetching" /\ Len(fetched) < Len(Parts)
  /\ sim' = "recv" /\ fetched' = <<>>
  /\ UNCHANGED <<engine, opps, budget, riskVars, fixtureVars, simRead, local,
                 outcomes, touches, execVars>>

\* Phase 3, under the lock again.
Install ==
  /\ sim = "fetching" /\ Len(fetched) = Len(Parts)
  /\ LET slots == << fetch_pool(Current.source, Current.hash).slots,
                     fetch_pool(Current.sink, Current.hash).slots >>
         fixture == Fixture(OppKey(Current), fetched, slots)
     IN active' = fixture /\ cache' = Put(fixture)
  /\ sim' = "simulating" /\ fetched' = <<>>
  /\ UNCHANGED <<engine, opps, budget, riskVars, lastBlock, simRead, local,
                 outcomes, touches, execVars>>

-----------------------------------------------------------------------------
(* simulator_driver: simulate_with_fingerprint, sign_for_outcome *)

\* The checks on the fixture cloned out of the lock.
MatchesAnyBlock(fixture, opp) ==
  /\ fixture # NoFixture
  /\ fixture.key.source = opp.source /\ fixture.key.sink = opp.sink
Matches(fixture, opp) ==
  /\ fixture # NoFixture
  /\ fixture.key.hash = opp.hash
  /\ fixture.key.source = opp.source /\ fixture.key.sink = opp.sink

Simulate ==
  /\ sim = "simulating" /\ Matches(active, Current)
  /\ \E run \in EvmRuns(Current.amount) :
       local' = [opp |-> checked[simRead].opp, checked |-> simRead, fixture |-> active,
                 run |-> run]
  /\ sim' = "signing"
  /\ UNCHANGED <<engine, opps, budget, riskVars, fixtureVars, simRead, fetched,
                 outcomes, touches, execVars>>

\* Err: no fixture, another block's or another pair's, or the run cannot be set up.
SimulateFails ==
  /\ sim = "simulating"
  /\ sim' = "recv"
  /\ UNCHANGED <<engine, opps, budget, riskVars, fixtureVars, simRead, fetched,
                 local, outcomes, touches, execVars>>

\* DisabledSigner always refuses; a KMS signer refuses the placeholder's zero sender.
Signed ==
  /\ sim = "signing" /\ engine.signer = "injected"
  /\ outcomes' = Append(outcomes, local)
  /\ sim' = "recv" /\ local' = None
  /\ UNCHANGED <<engine, opps, budget, riskVars, fixtureVars, simRead, fetched,
                 touches, execVars>>

SigningFails ==
  /\ sim = "signing"
  /\ sim' = "recv" /\ local' = None
  /\ UNCHANGED <<engine, opps, budget, riskVars, fixtureVars, simRead, fetched,
                 outcomes, touches, execVars>>

-----------------------------------------------------------------------------
(* execution_driver, and what comparator_driver compares *)

\* The local side of the comparison: the bundle is expected first in its block and pays
\* the coinbase nothing.
LocalRun(run) ==
  [success |-> run.success, index |-> 0, coinbase |-> 0, reads |-> run.reads,
   profit |-> run.profit, gas |-> run.gas]

\* construct: a success, with a profit, whose bid does not round to zero.
Constructible(run) == run.success /\ run.profit # 0 /\ Bid(run.profit) # 0

ExecutionTake ==
  /\ execution = "recv" /\ HasNext(outcomes, execRead, Capacity)
  /\ execRead' = execRead + 1
  /\ LET outcome == outcomes[execRead']
         number == opps[outcome.opp].number
     IN candidates' = IF ~Constructible(outcome.run) THEN candidates
                      ELSE Append(candidates,
                             [outcome |-> execRead', bid |-> Bid(outcome.run.profit),
                              validity |-> <<number, number + Validity - 1>>])
  /\ UNCHANGED <<engine, opps, budget, riskVars, fixtureVars, driverVars, touches, execution>>

ExecutionLagged ==
  /\ execution = "recv" /\ Lagged(outcomes, execRead, Capacity)
  /\ execRead' = OldestKept(outcomes, Capacity)
  /\ execution' = "lagged"
  /\ UNCHANGED <<engine, opps, budget, riskVars, fixtureVars, driverVars, touches, candidates>>

-----------------------------------------------------------------------------
(* AppHandle4::shutdown: abort and await, against the flow.  The handle drops its sender   *)
(* of a driver's channel only after it awaited that driver, so none of them sees Closed.   *)

Ended(task) == task \in {"lagged", "cancelled"}

CancelExecution ==
  /\ execution = "recv" /\ execution' = "cancelled"
  /\ UNCHANGED <<engine, opps, budget, riskVars, fixtureVars, driverVars, touches, execRead,
                 candidates>>

\* The simulator is cancelled at recv, in a fetch or while its signature is awaited.
CancelSimulator ==
  /\ Ended(execution) /\ sim \in {"recv", "fetching", "signing"} /\ sim' = "cancelled"
  /\ UNCHANGED <<engine, opps, budget, riskVars, fixtureVars, simRead, fetched,
                 local, outcomes, touches, execVars>>

CancelRisk ==
  /\ Ended(sim) /\ risk = "recv" /\ risk' = "cancelled"
  /\ UNCHANGED <<engine, opps, budget, riskRead, checked, fixtureVars, driverVars, touches,
                 execVars>>

Risk == RiskTake \/ RiskLagged
Prefetch == Hit \/ Miss \/ Fetch \/ FetchFails \/ Install
Simulator ==
  TakeChecked \/ Prefetch \/ SimLagged \/ Simulate \/ SimulateFails \/ Signed \/ SigningFails
Execution == ExecutionTake \/ ExecutionLagged
Others == SetBudget \/ LoadFixture
Shutdown == CancelExecution \/ CancelSimulator \/ CancelRisk

Next == PublishOpportunity \/ Risk \/ Simulator \/ Execution \/ Others \/ Shutdown

Spec == Init /\ [][Next]_vars

-----------------------------------------------------------------------------
(* Properties *)

\* Whoever loads fixtures meanwhile, whatever the cache holds or evicts: every outcome
\* that leaves simulator_driver was run on a fixture whose six parts are all of the
\* opportunity's own block, of its own two pools in their roles, and which holds every
\* slot a swap inside the active tick words may read.
SimulatedOnWholeFixture ==
  \A k \in DOMAIN outcomes :
    LET opp == opps[outcomes[k].opp]
        fixture == outcomes[k].fixture
    IN /\ \A part \in DOMAIN Parts : fixture.hashes[part] = opp.hash
       /\ fixture.key.source = opp.source /\ fixture.key.sink = opp.sink
       /\ SwapSlots(opp.source, opp.hash) \subseteq fixture.slots[1]
       /\ SwapSlots(opp.sink, opp.hash) \subseteq fixture.slots[2]

\* When prefetch_for has returned Ok the simulator can simulate the opportunity it was
\* called for, whether by a hit, a hit on another fixture than the active one, or a fetch
\* during which someone else loaded a fixture.
PrefetchedIsSimulable ==
  [][(sim' = "simulating" /\ sim # "simulating" /\ engine.prefetch)
       => Matches(active', Current')]_vars

StrictlyIncreasing(seq, Origin(_)) ==
  \A j, k \in DOMAIN seq : j < k => Origin(seq[j]) < Origin(seq[k])

\* A bundle candidate descends from one opportunity that the gate let pass within the
\* budget of that moment, at no more than the size cap, from a run whose two swaps brought
\* back more than its amount, and bids no more than that gain; no opportunity gives two
\* candidates and none overtakes another, though drivers lag and the budget changes.
CandidatesWereApproved ==
  /\ StrictlyIncreasing(checked, LAMBDA c : c.opp)
  /\ StrictlyIncreasing(outcomes, LAMBDA o : o.checked)
  /\ StrictlyIncreasing(candidates, LAMBDA c : c.outcome)
  /\ \A k \in DOMAIN candidates :
       LET outcome == outcomes[candidates[k].outcome]
           approval == checked[outcome.checked]
           opp == opps[approval.opp]
       IN /\ outcome.opp = approval.opp
          /\ outcome.run.success
          /\ \E buy \in Succeeding(Buys) :
               candidates[k].bid \in 1 .. buy.balance - opp.amount
          /\ approval.size <= RiskConfig.max_notional /\ approval.size <= opp.amount
          /\ approval.size <= approval.under.canary
          /\ approval.under.live < RiskConfig.max_live
          /\ approval.under.loss < RiskConfig.loss_cap
          /\ approval.under.gas + RiskConfig.gas_per_bundle <= RiskConfig.gas_cap

\* The observations of some slots only.
ReadsOf(reads, slots) ==
  LET kept[i \in 0 .. Len(reads)] ==
        IF i = 0 THEN <<>>
        ELSE IF reads[i].slot \in slots THEN Append(kept[i - 1], reads[i])
        ELSE kept[i - 1]
  IN kept[Len(reads)]

Sparser(relay, slots) == [relay EXCEPT !.reads = ReadsOf(relay.reads, slots)]

\* The relay's first observation of a slot has another value than one of the run.
Contradicted(run, relay) ==
  \E i \in DOMAIN run.reads, j \in DOMAIN relay.reads :
    /\ relay.reads[j].slot = run.reads[i].slot
    /\ \A before \in 1 .. j - 1 : relay.reads[before].slot # run.reads[i].slot
    /\ relay.reads[j].value # run.reads[i].value

VerdictIsSound(run, answer) ==
  LET verdict == compare_result(run, answer)
      relay == answer.outcome
  IN /\ (verdict = "Unknown") <=> ~answer.ok
     /\ verdict = "Ok" =>
          /\ \A field \in {"success", "index", "coinbase", "profit", "gas"} :
               run[field] = relay[field]
          /\ ~Contradicted(run, relay)
          /\ \A slots \in SUBSET {relay.reads[j].slot : j \in DOMAIN relay.reads} :
               compare(run, Sparser(relay, slots)) = "Ok"
     /\ verdict \in {"Profitability", "Gas"} => ~Contradicted(run, relay)
     /\ verdict = "Gas" => run.profit = relay.profit
     /\ verdict \notin {"Revert", "Unknown"} => run.success = relay.success

\* What the comparator will make of a run and any answer of the relay.  A match means that
\* every figure agrees and no slot both sides saw differs, and survives a relay that leaves
\* whole slots out; a downstream symptom is never reported where its cause is there, and
\* an error never passes for a comparison.
MatchMeansAgreement ==
  local # None => \A answer \in RelayAnswers : VerdictIsSound(LocalRun(local.run), answer)

\* chain_context is the block-level context at the time of publish (event-model.md): a
\* fixture is fetched at the block the opportunity's prices were read at.
FetchedAtTheReadBlock == sim = "fetching" => Current.hash = Current.readAt
=============================================================================
