-------------------------- MODULE SubmissionPipeline --------------------------
(***************************************************************************)
(* The end of the Phase 4 pipeline of crates/app/src/lib.rs, as            *)
(* wire_phase4 builds it and AppHandle4::shutdown takes it down:           *)
(* comparator_driver (simulation outcome, relay simulation, comparison,    *)
(* abort journal or SubmissionAttempt), submission_driver (attempt, gates, *)
(* eth_sendBundle, receipt journal), the process-wide kill switch and the  *)
(* two broadcast channels, which lose what a slow receiver left behind.    *)
(*                                                                         *)
(* A simulation outcome is named by its position on sim_tx.  What the two  *)
(* relay calls answer is chosen when they answer; a POST reaches the relay *)
(* whether or not its answer comes back.                                   *)
(***************************************************************************)
EXTENDS Broadcast

CONSTANTS
  Outcomes,    \* what simulator_driver may publish: [profitable, txs]
  Capacity,    \* broadcast::channel(bus.capacity.max(8)), scaled down
  MaxSims,     \* bound: outcomes published
  MaxFlips,    \* bound: operator toggles of the kill switch
  MaxFaults    \* bound: failing seal, append and flush calls

ASSUME PipelineAssumption ==
  /\ Outcomes \subseteq [profitable : BOOLEAN, txs : {"none", "short", "full"}]
  /\ Capacity \in Nat \ {0}
  /\ MaxSims \in Nat /\ MaxFlips \in Nat /\ MaxFaults \in Nat

VARIABLES
  config,      \* validated Config: is a relay enabled, does SubmissionGate permit
  killed,      \* KillSwitch: one atomic shared by every clone
  app,         \* where AppHandle4::shutdown is
  sims,        \* sim_tx: every outcome sent
  simsRead,    \* comparator_driver's receiver
  cmp,         \* where comparator_driver is
  verdict,     \* verdict[i]: what compare_result said of outcome i
  abortLog,    \* FileJournal<MismatchAbort>: appended outcomes, in order
  abortSafe,   \* ... how many of them a flush covers
  seen,        \* outcomes whose abort went out on mismatch_tx
  attempts,    \* submission_tx: the outcome each SubmissionAttempt came from
  attemptsRead,\* submission_driver's receiver
  sub,         \* where submission_driver is
  posts,       \* eth_sendBundle requests that left the process, in order
  accepted,    \* outcomes for which submit_bundle returned Ok
  receiptLog,  \* FileJournal<SubmissionReceipt>: appended outcomes, in order
  receiptSafe, \* ... how many of them a flush covers
  flips, faults,
  simsSince,   \* relay simulations started since the switch was last activated
  postsSince   \* POSTs sent since the switch was last activated

comparator == <<simsRead, cmp, verdict, abortLog, abortSafe, seen>>
submission == <<attemptsRead, sub, posts, accepted, receiptLog, receiptSafe>>
history == <<simsSince, postsSince>>
vars == <<config, killed, app, sims, comparator, attempts, submission,
          flips, faults, history>>

Sims == 1 .. MaxSims
Verdicts == {"none", "match", "mismatch"}   \* Unknown, from a relay error, is a mismatch

\* Tasks that can be cancelled: abort() takes effect where a task awaits.
Awaiting(pc) == pc \in {"recv", "simulating", "posting"}
Ended(pc) == pc \in {"closed", "lagged", "inert", "cancelled"}

\* The outcome in each driver's hands; its receiver already moved past it.
Comparing == simsRead
Taken == 1 .. simsRead
Submitting == attempts[attemptsRead]

\* Without a relay, comparator_driver returns at once and submission_driver only drains.
Init ==
  /\ config \in [relay : BOOLEAN, gate : BOOLEAN]
  /\ killed \in BOOLEAN /\ app = "running"
  /\ sims = <<>> /\ simsRead = 0
  /\ cmp = IF config.relay THEN "recv" ELSE "inert"
  /\ verdict = [i \in Sims |-> "none"]
  /\ abortLog = <<>> /\ abortSafe = 0 /\ seen = {}
  /\ attempts = <<>> /\ attemptsRead = 0 /\ sub = "recv"
  /\ posts = <<>> /\ accepted = {}
  /\ receiptLog = <<>> /\ receiptSafe = 0
  /\ flips = 0 /\ faults = 0
  /\ simsSince = 0 /\ postsSince = 0

-----------------------------------------------------------------------------
(* The environment *)

\* simulator_driver sends an outcome; it runs until shutdown reaches it.
PublishSim ==
  /\ app # "stopped" /\ Len(sims) < MaxSims
  /\ \E o \in Outcomes : sims' = Append(sims, o)
  /\ UNCHANGED <<config, killed, app, comparator, attempts, submission,
                 flips, faults, history>>

\* AppHandle4::set_execution_disabled, from any thread, while the handle exists.
SetExecutionDisabled ==
  /\ app = "running" /\ flips < MaxFlips
  /\ killed' = ~ killed /\ flips' = flips + 1
  /\ simsSince' = 0 /\ postsSince' = 0
  /\ UNCHANGED <<config, app, sims, comparator, attempts, submission, faults>>

-----------------------------------------------------------------------------
(* comparator_driver *)

\* Lagged: the driver stops for good, dropping its senders; its last flush may fail.
\* (Closed cannot reach it here: the handle keeps sim_tx until this task is joined.)
ComparatorLagged ==
  /\ cmp = "recv" /\ Lagged(sims, simsRead, Capacity)
  /\ simsRead' = OldestKept(sims, Capacity)
  /\ cmp' = "lagged" /\ abortSafe' \in {abortSafe, Len(abortLog)}
  /\ UNCHANGED <<config, killed, app, sims, verdict, abortLog, seen, attempts,
                 submission, flips, faults, history>>

\* The kill switch, then construct(): either may end the iteration.
ComparatorTakeUnguarded ==
  /\ cmp = "recv" /\ HasNext(sims, simsRead, Capacity)
  /\ simsRead' = simsRead + 1
  /\ cmp' = IF sims[simsRead'].profitable THEN "request" ELSE "recv"
  /\ UNCHANGED <<config, killed, app, sims, verdict, abortLog, abortSafe, seen,
                 attempts, submission, flips, faults, history>>
ComparatorTake ==
  /\ cmp = "recv" /\ HasNext(sims, simsRead, Capacity)
  /\ simsRead' = simsRead + 1
  /\ cmp' = IF ~ killed /\ sims[simsRead'].profitable THEN "request" ELSE "recv"
  /\ UNCHANGED <<config, killed, app, sims, verdict, abortLog, abortSafe, seen,
                 attempts, submission, flips, faults, history>>

SimulateBundle ==
  /\ cmp = "request"
  /\ cmp' = "simulating"
  /\ simsSince' = IF killed THEN simsSince + 1 ELSE simsSince
  /\ UNCHANGED <<config, killed, app, sims, simsRead, verdict, abortLog, abortSafe,
                 seen, attempts, submission, flips, faults, postsSince>>

\* Match: the attempt is sent if the outcome carries a signed bundle; a send that finds
\* no receiver is ignored.
Attempt(i) ==
  attempts' = IF sims[Comparing].txs = "none" \/ Ended(sub) THEN attempts
              ELSE Append(attempts, i)

CompareMatchNext ==
  /\ cmp = "simulating"
  /\ verdict' = [verdict EXCEPT ![Comparing] = "match"]
  /\ Attempt(Comparing + 1)
  /\ cmp' = "recv"
  /\ UNCHANGED <<config, killed, app, sims, simsRead, abortLog, abortSafe, seen,
                 submission, flips, faults, history>>
CompareMatch ==
  /\ cmp = "simulating"
  /\ verdict' = [verdict EXCEPT ![Comparing] = "match"]
  /\ Attempt(Comparing)
  /\ cmp' = "recv"
  /\ UNCHANGED <<config, killed, app, sims, simsRead, abortLog, abortSafe, seen,
                 submission, flips, faults, history>>

CompareMismatchSubmits ==
  /\ cmp = "simulating"
  /\ verdict' = [verdict EXCEPT ![Comparing] = "mismatch"]
  /\ Attempt(Comparing)
  /\ cmp' = "append"
  /\ UNCHANGED <<config, killed, app, sims, simsRead, abortLog, abortSafe, seen,
                 submission, flips, faults, history>>
CompareMismatch ==
  /\ cmp = "simulating"
  /\ verdict' = [verdict EXCEPT ![Comparing] = "mismatch"]
  /\ cmp' = "append"
  /\ UNCHANGED <<config, killed, app, sims, simsRead, abortLog, abortSafe, seen,
                 attempts, submission, flips, faults, history>>

AppendAbort ==
  /\ cmp = "append"
  /\ abortLog' = Append(abortLog, Comparing)
  /\ cmp' = "flush"
  /\ UNCHANGED <<config, killed, app, sims, simsRead, verdict, abortSafe, seen,
                 attempts, submission, flips, faults, history>>

FlushAbort ==
  /\ cmp = "flush"
  /\ abortSafe' = Len(abortLog)
  /\ cmp' = "send"
  /\ UNCHANGED <<config, killed, app, sims, simsRead, verdict, abortLog, seen,
                 attempts, submission, flips, faults, history>>

\* seal, append or flush failed: no broadcast for this outcome.
AbortNotJournaledSends ==
  /\ cmp \in {"append", "flush"} /\ faults < MaxFaults
  /\ faults' = faults + 1 /\ cmp' = "send"
  /\ UNCHANGED <<config, killed, app, sims, simsRead, verdict, abortLog, abortSafe,
                 seen, attempts, submission, flips, history>>
AbortNotJournaled ==
  /\ cmp \in {"append", "flush"} /\ faults < MaxFaults
  /\ faults' = faults + 1 /\ cmp' = "recv"
  /\ UNCHANGED <<config, killed, app, sims, simsRead, verdict, abortLog, abortSafe,
                 seen, attempts, submission, flips, history>>

SendAbort ==
  /\ cmp = "send"
  /\ seen' = seen \cup {Comparing}
  /\ cmp' = "recv"
  /\ UNCHANGED <<config, killed, app, sims, simsRead, verdict, abortLog, abortSafe,
                 attempts, submission, flips, faults, history>>

-----------------------------------------------------------------------------
(* submission_driver and the adapter's submit_bundle *)

SubmissionLagged ==
  /\ sub = "recv" /\ Lagged(attempts, attemptsRead, Capacity)
  /\ attemptsRead' = OldestKept(attempts, Capacity)
  /\ UNCHANGED <<config, killed, app, sims, comparator, attempts, sub, posts,
                 accepted, receiptLog, receiptSafe, flips, faults, history>>

\* Closed only once both senders are gone: the handle's and the comparator's clone.
SubmissionClosed ==
  /\ sub = "recv" /\ Drained(attempts, attemptsRead)
  /\ app # "running" /\ Ended(cmp)
  /\ sub' = "closed"
  /\ UNCHANGED <<config, killed, app, sims, comparator, attempts, attemptsRead,
                 posts, accepted, receiptLog, receiptSafe, flips, faults, history>>

\* Kill switch, SubmissionGate, byte lengths: every refusal drops the attempt.
TakeAttempt ==
  /\ sub = "recv" /\ HasNext(attempts, attemptsRead, Capacity)
  /\ attemptsRead' = attemptsRead + 1
  /\ sub' = IF /\ ~ killed
               /\ config.gate
               /\ sims[attempts[attemptsRead']].txs = "full"
            THEN "submit" ELSE "recv"
  /\ UNCHANGED <<config, killed, app, sims, comparator, attempts, posts, accepted,
                 receiptLog, receiptSafe, flips, faults, history>>

\* submit_bundle reads the switch again before any I/O.
AdapterGuard ==
  /\ sub = "submit"
  /\ sub' = IF killed THEN "recv" ELSE "post"
  /\ UNCHANGED <<config, killed, app, sims, comparator, attempts, attemptsRead, posts,
                 accepted, receiptLog, receiptSafe, flips, faults, history>>

Post ==
  /\ sub = "post"
  /\ posts' = Append(posts, Submitting)
  /\ sub' = "posting"
  /\ postsSince' = IF killed THEN postsSince + 1 ELSE postsSince
  /\ UNCHANGED <<config, killed, app, sims, comparator, attempts, attemptsRead,
                 accepted, receiptLog, receiptSafe, flips, faults, simsSince>>

\* Ok, with the relay's bundle hash equal to the local one or not.
SubmitOk ==
  /\ sub = "posting"
  /\ accepted' = accepted \cup {Submitting}
  /\ sub' = "append"
  /\ UNCHANGED <<config, killed, app, sims, comparator, attempts, attemptsRead, posts,
                 receiptLog, receiptSafe, flips, faults, history>>

\* Timeout, transport, status or JSON-RPC error: logged, never retried.
SubmitErr ==
  /\ sub = "posting"
  /\ sub' = "recv"
  /\ UNCHANGED <<config, killed, app, sims, comparator, attempts, attemptsRead, posts,
                 accepted, receiptLog, receiptSafe, flips, faults, history>>

AppendReceipt ==
  /\ sub = "append"
  /\ receiptLog' = Append(receiptLog, Submitting)
  /\ sub' = "flush"
  /\ UNCHANGED <<config, killed, app, sims, comparator, attempts, attemptsRead, posts,
                 accepted, receiptSafe, flips, faults, history>>

FlushReceiptLater ==
  /\ sub = "flush"
  /\ sub' = "recv"
  /\ UNCHANGED <<config, killed, app, sims, comparator, attempts, attemptsRead, posts,
                 accepted, receiptLog, receiptSafe, flips, faults, history>>
FlushReceipt ==
  /\ sub = "flush"
  /\ receiptSafe' = Len(receiptLog)
  /\ sub' = "recv"
  /\ UNCHANGED <<config, killed, app, sims, comparator, attempts, attemptsRead, posts,
                 accepted, receiptLog, flips, faults, history>>

\* seal, append or flush failed: "receipt NOT durably recorded".
ReceiptNotJournaled ==
  /\ sub \in {"append", "flush"} /\ faults < MaxFaults
  /\ faults' = faults + 1 /\ sub' = "recv"
  /\ UNCHANGED <<config, killed, app, sims, comparator, attempts, attemptsRead, posts,
                 accepted, receiptLog, receiptSafe, flips, history>>

-----------------------------------------------------------------------------
(* AppHandle4::shutdown *)

\* producer stopped, submission_tx dropped, submission_driver_task.abort().
Shutdown ==
  /\ app = "running"
  /\ app' = "submission"
  /\ UNCHANGED <<config, killed, sims, comparator, attempts, submission, flips,
                 faults, history>>

CancelSubmissionByDropOnly == FALSE
CancelSubmission ==
  /\ app = "submission" /\ Awaiting(sub)
  /\ sub' = "cancelled"
  /\ UNCHANGED <<config, killed, app, sims, comparator, attempts, attemptsRead, posts,
                 accepted, receiptLog, receiptSafe, flips, faults, history>>

JoinSubmission ==
  /\ app = "submission" /\ Ended(sub)
  /\ app' = "comparator"
  /\ UNCHANGED <<config, killed, sims, comparator, attempts, submission, flips,
                 faults, history>>

CancelComparator ==
  /\ app = "comparator" /\ Awaiting(cmp)
  /\ cmp' = "cancelled"
  /\ UNCHANGED <<config, killed, app, sims, simsRead, verdict, abortLog, abortSafe,
                 seen, attempts, submission, flips, faults, history>>

JoinComparator ==
  /\ app = "comparator" /\ Ended(cmp)
  /\ app' = "stopped"
  /\ UNCHANGED <<config, killed, sims, comparator, attempts, submission, flips,
                 faults, history>>

-----------------------------------------------------------------------------
Comparator ==
  \/ ComparatorLagged \/ ComparatorTake \/ SimulateBundle \/ CompareMatch
  \/ CompareMismatch \/ AppendAbort \/ FlushAbort \/ AbortNotJournaled \/ SendAbort
  \/ CancelComparator

Submission ==
  \/ SubmissionLagged \/ SubmissionClosed \/ TakeAttempt \/ AdapterGuard \/ Post
  \/ SubmitOk \/ SubmitErr \/ AppendReceipt \/ FlushReceipt \/ ReceiptNotJournaled
  \/ CancelSubmission

Join == JoinSubmission \/ JoinComparator

Next ==
  \/ PublishSim \/ SetExecutionDisabled
  \/ Comparator \/ Submission \/ Shutdown \/ Join

Spec == Init /\ [][Next]_vars

\* The runtime polls every task that is ready, and a relay call answers or times out.
FairSpec ==
  Spec /\ WF_vars(Comparator) /\ WF_vars(Submission) /\ WF_vars(Join)

-----------------------------------------------------------------------------
(* Properties *)

InOrder(s) == \A i, j \in DOMAIN s : i < j => s[i] < s[j]
Members(s) == {s[i] : i \in DOMAIN s}
Durable(s, n) == {s[i] : i \in 1 .. n}

\* The types of the configuration, of both drivers and of what crosses the channels.
TypeOK ==
  /\ config \in [relay : BOOLEAN, gate : BOOLEAN] /\ killed \in BOOLEAN
  /\ app \in {"running", "submission", "comparator", "stopped"}
  /\ sims \in Seq(Outcomes) /\ Len(sims) <= MaxSims
  /\ simsRead \in 0 .. Len(sims)
  /\ cmp \in {"inert", "recv", "request", "simulating", "append", "flush", "send",
              "lagged", "cancelled"}
  /\ cmp \in {"request", "simulating", "append", "flush", "send"} => simsRead > 0
  /\ verdict \in [Sims -> Verdicts]
  /\ abortLog \in Seq(Taken) /\ abortSafe \in 0 .. Len(abortLog)
  /\ seen \subseteq Taken
  /\ attempts \in Seq(Taken) /\ attemptsRead \in 0 .. Len(attempts)
  /\ sub \in {"recv", "submit", "post", "posting", "append", "flush", "closed",
              "cancelled"}
  /\ sub \in {"submit", "post", "posting", "append", "flush"} => attemptsRead > 0
  /\ posts \in Seq(Taken) /\ accepted \subseteq Taken
  /\ receiptLog \in Seq(Taken) /\ receiptSafe \in 0 .. Len(receiptLog)
  /\ flips \in 0 .. MaxFlips /\ faults \in 0 .. MaxFaults
  /\ simsSince \in Nat /\ postsSince \in Nat

\* The submission chain: whatever left the process was simulated profitable, signed in
\* full, compared as a match by the relay simulation of the same outcome, permitted by
\* the gate, and left once: attempts are neither reordered, repeated nor retried.
SubmittedWasMatched ==
  /\ InOrder(posts)
  /\ \A i \in Members(posts) :
       /\ config.gate /\ verdict[i] = "match"
       /\ sims[i].profitable /\ sims[i].txs = "full"

\* "an unjournaled abort must never be observable downstream": what mismatch_tx carried
\* is already covered by a flush, whichever journal call failed before or since.
SeenAbortsAreDurable == seen \subseteq Durable(abortLog, abortSafe)

\* The switch is read between two awaits of each driver, so after its activation at most
\* one relay simulation and one POST still start, however many outcomes and attempts wait.
KillSwitchQuiets == killed => simsSince <= 1 /\ postsSince <= 1

\* The receipt journal is the accepted POSTs in POST order; back at recv, a receipt is
\* missing from the durable part only after a journal fault.
ReceiptsMirrorPosts ==
  /\ InOrder(receiptLog)
  /\ Members(receiptLog) \subseteq accepted /\ accepted \subseteq Members(posts)
  /\ sub = "recv" /\ faults = 0 => accepted = Durable(receiptLog, receiptSafe)

\* shutdown returns although submission_driver's receiver is not closed by it: the
\* comparator, joined later, still holds a sender.
ShutdownReturns == app # "running" ~> app = "stopped"

\* The comment in shutdown: submission_driver "observes Closed on its receiver and exits
\* the loop", which a receiver does after it took every attempt sent.
ShutdownDrainsAttempts == app = "stopped" => attemptsRead = Len(attempts)
=============================================================================
