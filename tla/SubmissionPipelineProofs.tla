----------------------- MODULE SubmissionPipelineProofs -----------------------
(***************************************************************************)
(* Proofs about SubmissionPipeline for every set of outcomes, capacity and *)
(* bound.  One inductive invariant in six parts: types; what the kill      *)
(* switch still lets through; the abort journal ahead of the broadcast;    *)
(* where attempts come from; where POSTs come from; and how receipts       *)
(* follow the accepted POSTs.                                              *)
(***************************************************************************)
EXTENDS SubmissionPipeline, TLAPS

\* A driver past its guard has not used it since the switch was activated.
SwitchInv ==
  killed => /\ simsSince <= 1 /\ postsSince <= 1
            /\ cmp = "request" => simsSince = 0
            /\ sub = "post" => postsSince = 0

\* An abort is appended, then flushed, then sent.
AbortInv ==
  /\ cmp = "flush" => Len(abortLog) > 0 /\ abortLog[Len(abortLog)] = simsRead
  /\ cmp = "send" => simsRead \in Durable(abortLog, abortSafe)
  /\ SeenAbortsAreDurable

\* Attempts name matched outcomes, each older than the one still being compared.
AttemptInv ==
  /\ InOrder(attempts)
  /\ \A k \in DOMAIN attempts :
       /\ verdict[attempts[k]] = "match" /\ sims[attempts[k]].profitable
       /\ cmp \in {"request", "simulating"} => attempts[k] < simsRead
  /\ cmp \in {"request", "simulating"} => sims[simsRead].profitable

\* POSTs are attempts already read, the current one last once it was sent.
PostInv ==
  /\ InOrder(posts)
  /\ \A k \in DOMAIN posts :
       /\ config.gate /\ sims[posts[k]].txs = "full"
       /\ \E j \in 1 .. attemptsRead :
            posts[k] = attempts[j] /\ (sub \in {"submit", "post"} => j < attemptsRead)
  /\ sub \in {"submit", "post", "posting", "append", "flush"} =>
       config.gate /\ sims[Submitting].txs = "full"
  /\ sub \in {"posting", "append", "flush"} => Submitting \in Members(posts)

\* Receipts follow the accepted POSTs; without a fault the flushed part is all of them,
\* but for the receipt still in the driver's hands.
ReceiptInv ==
  /\ InOrder(receiptLog)
  /\ Members(receiptLog) \subseteq accepted /\ accepted \subseteq Members(posts)
  /\ sub \in {"submit", "post", "posting"} => \A i \in accepted : i < Submitting
  /\ sub = "append" => /\ Submitting \in accepted
                       /\ \A i \in Members(receiptLog) : i < Submitting
  /\ faults = 0 =>
       CASE sub = "append" -> accepted = Durable(receiptLog, receiptSafe) \cup {Submitting}
         [] sub = "flush" -> accepted = Members(receiptLog)
         [] OTHER -> accepted = Durable(receiptLog, receiptSafe)

IInv == TypeOK /\ SwitchInv /\ AbortInv /\ AttemptInv /\ PostInv /\ ReceiptInv

\* A sequence over a set is one over any larger set.
LEMMA WiderSeq ==
  ASSUME NEW S, NEW T, S \subseteq T, NEW s \in Seq(S)
  PROVE  s \in Seq(T)
OBVIOUS

\* What appending does to the elements, the durable part and the order of a journal.
LEMMA JournalAppend ==
  ASSUME NEW S, NEW s \in Seq(S), NEW e \in S
  PROVE  /\ Append(s, e) \in Seq(S)
         /\ Len(Append(s, e)) = Len(s) + 1
         /\ \A i \in 1 .. Len(s) : Append(s, e)[i] = s[i]
         /\ Append(s, e)[Len(s) + 1] = e
         /\ Members(Append(s, e)) = Members(s) \cup {e}
         /\ \A n \in 0 .. Len(s) : Durable(Append(s, e), n) = Durable(s, n)
<1>1. /\ Append(s, e) \in Seq(S) /\ Len(Append(s, e)) = Len(s) + 1
      /\ \A i \in 1 .. Len(s) : Append(s, e)[i] = s[i]
      /\ Append(s, e)[Len(s) + 1] = e
  OBVIOUS
<1>2. Len(s) \in Nat /\ DOMAIN s = 1 .. Len(s)
      /\ DOMAIN Append(s, e) = 1 .. (Len(s) + 1)
  BY <1>1
<1>3. 1 .. (Len(s) + 1) = (1 .. Len(s)) \cup {Len(s) + 1}
  BY <1>2
<1>4. Members(Append(s, e)) = Members(s) \cup {e}
  BY <1>1, <1>2, <1>3 DEF Members
<1>5. \A n \in 0 .. Len(s) : Durable(Append(s, e), n) = Durable(s, n)
  <2> TAKE n \in 0 .. Len(s)
  <2>1. 1 .. n \subseteq 1 .. Len(s)
    BY <1>2
  <2>2. QED  BY <1>1, <2>1 DEF Durable
<1>6. QED  BY <1>1, <1>4, <1>5

\* Appending something larger keeps a sequence of numbers increasing.
LEMMA OrderAppend ==
  ASSUME NEW s \in Seq(Nat), NEW e \in Nat, InOrder(s),
         \A i \in Members(s) : i < e
  PROVE  InOrder(Append(s, e))
<1>1. /\ Len(s) \in Nat /\ DOMAIN s = 1 .. Len(s)
      /\ DOMAIN Append(s, e) = 1 .. (Len(s) + 1)
      /\ \A i \in 1 .. Len(s) : Append(s, e)[i] = s[i]
      /\ Append(s, e)[Len(s) + 1] = e
  OBVIOUS
<1> SUFFICES ASSUME NEW i \in 1 .. (Len(s) + 1), NEW j \in 1 .. (Len(s) + 1), i < j
             PROVE  Append(s, e)[i] < Append(s, e)[j]
  BY <1>1 DEF InOrder
<1>2. i \in 1 .. Len(s)
  BY <1>1
<1>3. CASE j = Len(s) + 1
  BY <1>1, <1>2, <1>3 DEF Members
<1>4. CASE j \in 1 .. Len(s)
  BY <1>1, <1>2, <1>4 DEF InOrder
<1>5. QED  BY <1>1, <1>3, <1>4

\* Every initial state satisfies the invariant.
LEMMA InitIInv == Init => IInv
<1> SUFFICES ASSUME Init PROVE IInv
  OBVIOUS
<1> USE PipelineAssumption DEF Init
<1>1. TypeOK
  <2>1. /\ sims \in Seq(Outcomes) /\ abortLog \in Seq(Taken)
        /\ attempts \in Seq(Taken) /\ posts \in Seq(Taken)
        /\ receiptLog \in Seq(Taken)
    OBVIOUS
  <2>2. cmp \in {"inert", "recv"}
    OBVIOUS
  <2>3. /\ Len(sims) = 0 /\ Len(abortLog) = 0 /\ Len(attempts) = 0
        /\ Len(receiptLog) = 0
    OBVIOUS
  <2>4. verdict \in [Sims -> Verdicts]
    BY DEF Verdicts
  <2> HIDE DEF Init
  <2>5. /\ config \in [relay : BOOLEAN, gate : BOOLEAN] /\ killed \in BOOLEAN
        /\ app = "running" /\ sub = "recv" /\ simsRead = 0 /\ abortSafe = 0
        /\ seen = {} /\ attemptsRead = 0 /\ accepted = {} /\ receiptSafe = 0
        /\ flips = 0 /\ faults = 0 /\ simsSince = 0 /\ postsSince = 0
    BY DEF Init
  <2>6. /\ config \in [relay : BOOLEAN, gate : BOOLEAN] /\ killed \in BOOLEAN
    BY <2>5
  <2>7. Len(sims) <= MaxSims /\ simsRead \in 0 .. Len(sims)
    BY <2>3, <2>5
  <2>8. /\ abortSafe \in 0 .. Len(abortLog) /\ attemptsRead \in 0 .. Len(attempts)
        /\ receiptSafe \in 0 .. Len(receiptLog)
    BY <2>3, <2>5
  <2>9. /\ flips \in 0 .. MaxFlips /\ faults \in 0 .. MaxFaults
        /\ simsSince \in Nat /\ postsSince \in Nat
    BY <2>5
  <2>10. QED  BY <2>1, <2>2, <2>4, <2>5, <2>6, <2>7, <2>8, <2>9, Zenon DEF TypeOK
<1>2. SwitchInv  BY DEF SwitchInv
<1>3. AbortInv  BY DEF AbortInv, SeenAbortsAreDurable
<1>4. AttemptInv  BY DEF AttemptInv, InOrder
<1>5. PostInv  BY DEF PostInv, InOrder
<1>6. ReceiptInv  BY DEF ReceiptInv, InOrder, Members, Durable
<1>7. QED  BY <1>1, <1>2, <1>3, <1>4, <1>5, <1>6 DEF IInv

\* The kill-switch part: guards read the switch before they let a driver on.
LEMMA NextSwitch ==
  ASSUME IInv, [Next]_vars PROVE SwitchInv'
<1>0. SwitchInv /\ simsSince \in Nat /\ postsSince \in Nat
  BY DEF IInv, TypeOK
<1> USE <1>0 DEF SwitchInv
<1>1. CASE ComparatorTake
  BY <1>1 DEF ComparatorTake, submission, history
<1>2. CASE SimulateBundle
  BY <1>2 DEF SimulateBundle, submission
<1>3. CASE ComparatorLagged \/ CompareMatch \/ CompareMismatch \/ AppendAbort
           \/ FlushAbort \/ AbortNotJournaled \/ SendAbort \/ CancelComparator
  BY <1>3 DEF ComparatorLagged, CompareMatch, CompareMismatch, AppendAbort, FlushAbort,
     AbortNotJournaled, SendAbort, CancelComparator, submission, history
<1>4. CASE AdapterGuard
  BY <1>4 DEF AdapterGuard, comparator, history
<1>5. CASE Post
  BY <1>5 DEF Post, comparator
<1>6. CASE SubmissionLagged \/ SubmissionClosed \/ TakeAttempt \/ SubmitOk \/ SubmitErr
           \/ AppendReceipt \/ FlushReceipt \/ ReceiptNotJournaled \/ CancelSubmission
  BY <1>6 DEF SubmissionLagged, SubmissionClosed, TakeAttempt, SubmitOk, SubmitErr,
     AppendReceipt, FlushReceipt, ReceiptNotJournaled, CancelSubmission, comparator,
     history
<1>7. CASE SetExecutionDisabled
  BY <1>7 DEF SetExecutionDisabled, comparator, submission
<1>8. CASE PublishSim \/ Shutdown \/ Join \/ UNCHANGED vars
  BY <1>8 DEF PublishSim, Shutdown, Join, JoinSubmission, JoinComparator, vars,
     submission, comparator, history
<1>9. QED
  BY <1>1, <1>2, <1>3, <1>4, <1>5, <1>6, <1>7, <1>8 DEF Next, Comparator, Submission

\* The abort journal part.
LEMMA NextAbort ==
  ASSUME IInv, [Next]_vars PROVE AbortInv'
<1> USE DEF IInv, AbortInv, SeenAbortsAreDurable
<1>1. CASE AppendAbort
  <2>1. simsRead \in Taken /\ abortLog \in Seq(Taken)
        /\ abortSafe \in 0 .. Len(abortLog)
    BY <1>1 DEF AppendAbort, TypeOK, Taken
  <2>2. /\ abortLog' = Append(abortLog, simsRead) /\ cmp' = "flush"
        /\ UNCHANGED <<simsRead, abortSafe, seen>>
    BY <1>1 DEF AppendAbort, Comparing
  <2>3. /\ Len(abortLog') = Len(abortLog) + 1
        /\ abortLog'[Len(abortLog) + 1] = simsRead
        /\ Durable(abortLog', abortSafe) = Durable(abortLog, abortSafe)
    BY <2>1, <2>2, JournalAppend
  <2>4. Len(abortLog) \in Nat
    BY <2>1
  <2>5. QED  BY <2>2, <2>3, <2>4
<1>2. CASE FlushAbort
  <2>1. /\ abortLog \in Seq(Taken) /\ abortSafe \in 0 .. Len(abortLog)
        /\ Len(abortLog) \in Nat
    BY DEF TypeOK
  <2>2. /\ abortSafe' = Len(abortLog) /\ cmp' = "send" /\ cmp = "flush"
        /\ UNCHANGED <<simsRead, abortLog, seen>>
    BY <1>2 DEF FlushAbort
  <2>3. Durable(abortLog, abortSafe) \subseteq Durable(abortLog, Len(abortLog))
    BY <2>1 DEF Durable
  <2>4. abortLog[Len(abortLog)] \in Durable(abortLog, Len(abortLog))
    BY <2>1, <2>2 DEF Durable
  <2>5. QED  BY <2>2, <2>3, <2>4
<1>3. CASE SendAbort
  BY <1>3 DEF SendAbort, Comparing
<1>4. CASE ComparatorLagged
  <2>1. /\ abortLog \in Seq(Taken) /\ abortSafe \in 0 .. Len(abortLog)
        /\ Len(abortLog) \in Nat
    BY DEF TypeOK
  <2>2. /\ abortSafe' \in {abortSafe, Len(abortLog)} /\ cmp' = "lagged"
        /\ UNCHANGED <<abortLog, seen>>
    BY <1>4 DEF ComparatorLagged
  <2>3. Durable(abortLog, abortSafe) \subseteq Durable(abortLog, abortSafe')
    BY <2>1, <2>2 DEF Durable
  <2>4. QED  BY <2>2, <2>3
<1>5. CASE ComparatorTake \/ SimulateBundle \/ CompareMatch \/ CompareMismatch
           \/ AbortNotJournaled \/ CancelComparator
  BY <1>5 DEF ComparatorTake, SimulateBundle, CompareMatch, CompareMismatch,
     AbortNotJournaled, CancelComparator, Durable
<1>6. CASE Submission
  BY <1>6 DEF Submission, SubmissionLagged, SubmissionClosed, TakeAttempt, AdapterGuard,
     Post, SubmitOk, SubmitErr, AppendReceipt, FlushReceipt, ReceiptNotJournaled,
     CancelSubmission, comparator
<1>7. CASE PublishSim \/ SetExecutionDisabled \/ Shutdown \/ Join \/ UNCHANGED vars
  BY <1>7 DEF PublishSim, SetExecutionDisabled, Shutdown, Join, JoinSubmission,
     JoinComparator, vars, comparator
<1>8. QED  BY <1>1, <1>2, <1>3, <1>4, <1>5, <1>6, <1>7 DEF Next, Comparator
\* comparator_driver only moves forward on its receiver, and never past what was sent.
LEMMA NextRead ==
  ASSUME TypeOK, [Next]_vars
  PROVE  /\ sims' \in Seq(Outcomes) /\ Len(sims') <= MaxSims
         /\ simsRead' \in 0 .. Len(sims') /\ simsRead <= simsRead'
<1>0. /\ sims \in Seq(Outcomes) /\ Len(sims) \in Nat /\ Len(sims) <= MaxSims
      /\ simsRead \in 0 .. Len(sims)
  BY DEF TypeOK
<1> USE <1>0, PipelineAssumption
<1>1. CASE PublishSim
  BY <1>1 DEF PublishSim, comparator
<1>2. CASE ComparatorTake
  BY <1>2 DEF ComparatorTake, HasNext
<1>3. CASE ComparatorLagged
  BY <1>3 DEF ComparatorLagged, Lagged, OldestKept
<1>4. CASE SimulateBundle \/ CompareMatch \/ CompareMismatch \/ AppendAbort
           \/ FlushAbort \/ AbortNotJournaled \/ SendAbort \/ CancelComparator
  BY <1>4 DEF SimulateBundle, CompareMatch, CompareMismatch, AppendAbort, FlushAbort,
     AbortNotJournaled, SendAbort, CancelComparator
<1>5. CASE Submission
  BY <1>5 DEF Submission, SubmissionLagged, SubmissionClosed, TakeAttempt, AdapterGuard,
     Post, SubmitOk, SubmitErr, AppendReceipt, FlushReceipt, ReceiptNotJournaled,
     CancelSubmission, comparator
<1>6. CASE SetExecutionDisabled \/ Shutdown \/ Join \/ UNCHANGED vars
  BY <1>6 DEF SetExecutionDisabled, Shutdown, Join, JoinSubmission, JoinComparator, vars,
     comparator
<1>7. QED  BY <1>1, <1>2, <1>3, <1>4, <1>5, <1>6 DEF Next, Comparator

\* Types: the switch, the program counters and the counters.
LEMMA NextControl ==
  ASSUME TypeOK, [Next]_vars
  PROVE  /\ config' \in [relay : BOOLEAN, gate : BOOLEAN]
         /\ killed' \in BOOLEAN
         /\ app' \in {"running", "submission", "comparator", "stopped"}
         /\ cmp' \in {"inert", "recv", "request", "simulating", "append", "flush", "send",
                      "lagged", "cancelled"}
         /\ cmp' \in {"request", "simulating", "append", "flush", "send"} => simsRead' > 0
         /\ sub' \in {"recv", "submit", "post", "posting", "append", "flush", "closed",
                      "cancelled"}
         /\ flips' \in 0 .. MaxFlips /\ faults' \in 0 .. MaxFaults
         /\ simsSince' \in Nat /\ postsSince' \in Nat
<1>0. /\ config \in [relay : BOOLEAN, gate : BOOLEAN] /\ killed \in BOOLEAN
      /\ app \in {"running", "submission", "comparator", "stopped"}
      /\ simsRead \in Nat
      /\ cmp \in {"inert", "recv", "request", "simulating", "append", "flush", "send",
                  "lagged", "cancelled"}
      /\ cmp \in {"request", "simulating", "append", "flush", "send"} => simsRead > 0
      /\ sub \in {"recv", "submit", "post", "posting", "append", "flush", "closed",
                  "cancelled"}
      /\ flips \in 0 .. MaxFlips /\ faults \in 0 .. MaxFaults
      /\ simsSince \in Nat /\ postsSince \in Nat
  BY DEF TypeOK
<1> USE <1>0, PipelineAssumption
<1>1. CASE PublishSim \/ Shutdown \/ Join \/ UNCHANGED vars
  BY <1>1 DEF PublishSim, Shutdown, Join, JoinSubmission, JoinComparator, vars,
     comparator, submission, history
<1>2. CASE SetExecutionDisabled
  BY <1>2 DEF SetExecutionDisabled, comparator, submission
<1>3. CASE ComparatorLagged \/ ComparatorTake \/ SimulateBundle \/ CompareMatch
           \/ CompareMismatch
  BY <1>3 DEF ComparatorLagged, ComparatorTake, SimulateBundle, CompareMatch,
     CompareMismatch, submission, history
<1>4. CASE AppendAbort \/ FlushAbort \/ AbortNotJournaled \/ SendAbort
           \/ CancelComparator
  BY <1>4 DEF AppendAbort, FlushAbort, AbortNotJournaled, SendAbort, CancelComparator,
     submission, history
<1>5. CASE SubmissionLagged \/ SubmissionClosed \/ TakeAttempt \/ AdapterGuard \/ Post
  BY <1>5 DEF SubmissionLagged, SubmissionClosed, TakeAttempt, AdapterGuard, Post,
     comparator, history
<1>6. CASE SubmitOk \/ SubmitErr \/ AppendReceipt \/ FlushReceipt \/ ReceiptNotJournaled
           \/ CancelSubmission
  BY <1>6 DEF SubmitOk, SubmitErr, AppendReceipt, FlushReceipt, ReceiptNotJournaled,
     CancelSubmission, comparator, history
<1>7. QED
  BY <1>1, <1>2, <1>3, <1>4, <1>5, <1>6 DEF Next, Comparator, Submission

\* Types: what comparator_driver writes.
LEMMA NextComparatorData ==
  ASSUME TypeOK, [Next]_vars
  PROVE  /\ verdict' \in [Sims -> Verdicts]
         /\ abortLog' \in Seq(Taken') /\ abortSafe' \in 0 .. Len(abortLog')
         /\ seen' \subseteq Taken'
         /\ attempts' \in Seq(Taken') /\ Len(attempts) <= Len(attempts')
<1>0. /\ verdict \in [Sims -> Verdicts] /\ simsRead \in Nat
      /\ abortLog \in Seq(Taken) /\ abortSafe \in 0 .. Len(abortLog)
      /\ attempts \in Seq(Taken) /\ seen \subseteq Taken
      /\ Len(attempts) \in Nat /\ Len(abortLog) \in Nat
      /\ cmp \in {"request", "simulating", "append", "flush", "send"} => simsRead > 0
  BY DEF TypeOK
<1>1. simsRead' \in Nat /\ Taken \subseteq Taken'
  BY NextRead, <1>0 DEF Taken
<1>2. /\ abortLog \in Seq(Taken') /\ attempts \in Seq(Taken')
      /\ seen \subseteq Taken'
  BY <1>0, <1>1, WiderSeq
<1>3. CASE CompareMatch
  <2>1. simsRead \in Taken'
    BY <1>0, <1>3 DEF CompareMatch, Taken
  <2>2. attempts' = attempts \/ attempts' = Append(attempts, simsRead)
    BY <1>3 DEF CompareMatch, Attempt, Comparing
  <2>3. attempts' \in Seq(Taken') /\ Len(attempts) <= Len(attempts')
    BY <2>1, <2>2, <1>0, <1>2, JournalAppend
  <2>4. verdict' \in [Sims -> Verdicts] /\ UNCHANGED <<abortLog, abortSafe, seen>>
    BY <1>0, <1>3 DEF CompareMatch, Verdicts
  <2>5. QED  BY <1>0, <1>2, <2>3, <2>4
<1>4. CASE CompareMismatch
  <2>1. verdict' \in [Sims -> Verdicts]
    BY <1>0, <1>4 DEF CompareMismatch, Verdicts
  <2>2. UNCHANGED <<abortLog, abortSafe, seen, attempts>>
    BY <1>4 DEF CompareMismatch
  <2>3. QED  BY <1>0, <1>2, <2>1, <2>2
<1>5. CASE AppendAbort
  <2>1. simsRead \in Taken'
    BY <1>0, <1>5 DEF AppendAbort, Taken
  <2>2. abortLog' = Append(abortLog, simsRead)
    BY <1>5 DEF AppendAbort, Comparing
  <2>3. abortLog' \in Seq(Taken') /\ Len(abortLog') = Len(abortLog) + 1
    BY <2>1, <2>2, <1>0, <1>2, JournalAppend
  <2>4. UNCHANGED <<verdict, abortSafe, seen, attempts>>
    BY <1>5 DEF AppendAbort
  <2>5. QED  BY <1>0, <1>2, <2>3, <2>4
<1>6. CASE ComparatorLagged \/ FlushAbort
  BY <1>0, <1>2, <1>6 DEF ComparatorLagged, FlushAbort
<1>7. CASE SendAbort
  BY <1>0, <1>2, <1>7 DEF SendAbort, Comparing, Taken
<1>8. CASE ComparatorTake \/ SimulateBundle \/ AbortNotJournaled \/ CancelComparator
  BY <1>0, <1>2, <1>8 DEF ComparatorTake, SimulateBundle, AbortNotJournaled,
     CancelComparator
<1>9. CASE Submission
  BY <1>0, <1>2, <1>9 DEF Submission, SubmissionLagged, SubmissionClosed, TakeAttempt,
     AdapterGuard, Post, SubmitOk, SubmitErr, AppendReceipt, FlushReceipt,
     ReceiptNotJournaled, CancelSubmission, comparator
<1>10. CASE PublishSim \/ SetExecutionDisabled \/ Shutdown \/ Join \/ UNCHANGED vars
  BY <1>0, <1>2, <1>10 DEF PublishSim, SetExecutionDisabled, Shutdown, Join,
     JoinSubmission, JoinComparator, vars, comparator
<1>11. QED
  BY <1>3, <1>4, <1>5, <1>6, <1>7, <1>8, <1>9, <1>10 DEF Next, Comparator

\* Types: what submission_driver writes.
LEMMA NextSubmissionData ==
  ASSUME TypeOK, [Next]_vars
  PROVE  /\ attemptsRead' \in 0 .. Len(attempts')
         /\ sub' \in {"submit", "post", "posting", "append", "flush"} => attemptsRead' > 0
         /\ posts' \in Seq(Taken') /\ accepted' \subseteq Taken'
         /\ receiptLog' \in Seq(Taken') /\ receiptSafe' \in 0 .. Len(receiptLog')
<1>0. /\ simsRead \in Nat /\ attempts \in Seq(Taken)
      /\ Len(attempts) \in Nat /\ attemptsRead \in 0 .. Len(attempts)
      /\ posts \in Seq(Taken) /\ accepted \subseteq Taken
      /\ receiptLog \in Seq(Taken) /\ receiptSafe \in 0 .. Len(receiptLog)
      /\ Len(receiptLog) \in Nat
      /\ sub \in {"submit", "post", "posting", "append", "flush"} => attemptsRead > 0
  BY DEF TypeOK
<1>1. simsRead' \in Nat /\ Taken \subseteq Taken'
  BY NextRead, <1>0 DEF Taken
<1>2. /\ posts \in Seq(Taken') /\ receiptLog \in Seq(Taken')
      /\ accepted \subseteq Taken'
  BY <1>0, <1>1, WiderSeq
<1>3. attempts' \in Seq(Taken') /\ Len(attempts) <= Len(attempts')
      /\ Len(attempts') \in Nat
  BY NextComparatorData
<1>4. sub \in {"submit", "post", "posting", "append", "flush"} =>
        Submitting \in Taken'
  BY <1>0, <1>1 DEF Submitting
<1>5. CASE Post
  <2>1. posts' = Append(posts, Submitting) /\ Submitting \in Taken'
    BY <1>4, <1>5 DEF Post
  <2>2. posts' \in Seq(Taken')
    BY <2>1, <1>2, JournalAppend
  <2>3. QED  BY <1>0, <1>2, <1>3, <1>5, <2>2 DEF Post
<1>6. CASE SubmitOk
  BY <1>0, <1>2, <1>3, <1>4, <1>6 DEF SubmitOk
<1>7. CASE AppendReceipt
  <2>1. receiptLog' = Append(receiptLog, Submitting) /\ Submitting \in Taken'
    BY <1>4, <1>7 DEF AppendReceipt
  <2>2. receiptLog' \in Seq(Taken') /\ Len(receiptLog') = Len(receiptLog) + 1
    BY <2>1, <1>2, JournalAppend
  <2>3. QED  BY <1>0, <1>2, <1>3, <1>7, <2>2 DEF AppendReceipt
<1>8. CASE SubmissionLagged \/ TakeAttempt
  BY <1>0, <1>2, <1>3, <1>8, PipelineAssumption
  DEF SubmissionLagged, TakeAttempt, Lagged, OldestKept, HasNext
<1>9. CASE SubmissionClosed \/ AdapterGuard \/ SubmitErr \/ FlushReceipt
           \/ ReceiptNotJournaled \/ CancelSubmission
  BY <1>0, <1>2, <1>3, <1>9 DEF SubmissionClosed, AdapterGuard, SubmitErr, FlushReceipt,
     ReceiptNotJournaled, CancelSubmission
<1>10. CASE Comparator
  BY <1>0, <1>2, <1>3, <1>10 DEF Comparator, ComparatorLagged, ComparatorTake,
     SimulateBundle, CompareMatch, CompareMismatch, AppendAbort, FlushAbort,
     AbortNotJournaled, SendAbort, CancelComparator, submission
<1>11. CASE PublishSim \/ SetExecutionDisabled \/ Shutdown \/ Join \/ UNCHANGED vars
  BY <1>0, <1>2, <1>3, <1>11 DEF PublishSim, SetExecutionDisabled, Shutdown, Join,
     JoinSubmission, JoinComparator, vars, submission
<1>12. QED
  BY <1>5, <1>6, <1>7, <1>8, <1>9, <1>10, <1>11 DEF Next, Submission

\* Every step preserves the types.
LEMMA NextType ==
  ASSUME TypeOK, [Next]_vars PROVE TypeOK'
BY NextRead, NextControl, NextComparatorData, NextSubmissionData, Zenon DEF TypeOK
\* The verdict on an outcome that an attempt already names does not change.
LEMMA NextAttempt ==
  ASSUME IInv, [Next]_vars PROVE AttemptInv'
<1>0. /\ AttemptInv /\ simsRead \in Nat /\ attempts \in Seq(Taken)
      /\ Len(attempts) \in Nat /\ DOMAIN attempts = 1 .. Len(attempts)
      /\ \A k \in DOMAIN attempts : attempts[k] \in Nat /\ attempts[k] <= simsRead
      /\ sims \in Seq(Outcomes) /\ simsRead <= Len(sims) /\ Len(sims) \in Nat
      /\ verdict \in [Sims -> Verdicts]
      /\ Len(sims) <= MaxSims
  <2>1. attempts \in Seq(1 .. simsRead) /\ sims \in Seq(Outcomes) /\ simsRead \in 0 .. Len(sims)
    BY DEF IInv, TypeOK, Taken
  <2>2. AttemptInv /\ verdict \in [Sims -> Verdicts] /\ Len(sims) <= MaxSims
    BY DEF IInv, TypeOK
  <2>3. /\ simsRead \in Nat /\ simsRead <= Len(sims) /\ Len(sims) \in Nat
        /\ Len(attempts) \in Nat /\ DOMAIN attempts = 1 .. Len(attempts)
        /\ \A k \in DOMAIN attempts : attempts[k] \in Nat /\ attempts[k] <= simsRead
    BY ONLY <2>1
  <2>4. QED  BY <2>1, <2>2, <2>3 DEF Taken
<1>1. CASE CompareMatch
  <2>1. simsRead \in Sims /\ simsRead \in Taken
    BY <1>0, <1>1, PipelineAssumption DEF CompareMatch, IInv, TypeOK, Sims, Taken
  <2>2. \A k \in DOMAIN attempts : attempts[k] < simsRead
    BY <1>0, <1>1 DEF AttemptInv, CompareMatch
  <2>3. verdict'[simsRead] = "match" /\ sims[simsRead].profitable
    BY <1>0, <1>1, <2>1 DEF AttemptInv, CompareMatch, Comparing
  <2>4. \A k \in DOMAIN attempts : verdict'[attempts[k]] = verdict[attempts[k]]
    BY <1>0, <1>1, <2>2 DEF CompareMatch, Comparing
  <2>5. CASE attempts' = attempts
    BY <1>0, <1>1, <2>4, <2>5 DEF AttemptInv, CompareMatch, InOrder
  <2>6. CASE attempts' = Append(attempts, simsRead)
    <3>1. /\ Len(attempts') = Len(attempts) + 1
          /\ \A k \in 1 .. Len(attempts) : attempts'[k] = attempts[k]
          /\ attempts'[Len(attempts) + 1] = simsRead
          /\ DOMAIN attempts' = 1 .. (Len(attempts) + 1)
      BY <1>0, <2>1, <2>6
    <3>2. InOrder(attempts')
      BY <1>0, <2>2, <3>1 DEF AttemptInv, InOrder
    <3>3. \A k \in DOMAIN attempts' :
            verdict'[attempts'[k]] = "match" /\ sims[attempts'[k]].profitable
      <4> TAKE k \in DOMAIN attempts'
      <4>1. CASE k = Len(attempts) + 1
        BY <2>3, <3>1, <4>1
      <4>2. CASE k \in DOMAIN attempts
        BY <1>0, <2>4, <3>1, <4>2 DEF AttemptInv
      <4>3. QED  BY <1>0, <3>1, <4>1, <4>2
    <3>4. UNCHANGED <<sims, simsRead>> /\ cmp' = "recv"
      BY <1>1 DEF CompareMatch
    <3>5. QED  BY <3>2, <3>3, <3>4 DEF AttemptInv
  <2>7. QED  BY <1>1, <2>5, <2>6 DEF CompareMatch, Attempt, Comparing
<1>2. CASE CompareMismatch
  <2>1. \A k \in DOMAIN attempts : attempts[k] < simsRead
    BY <1>0, <1>2 DEF AttemptInv, CompareMismatch
  <2>2. \A k \in DOMAIN attempts : verdict'[attempts[k]] = verdict[attempts[k]]
    BY <1>0, <1>2, <2>1 DEF CompareMismatch, Comparing
  <2>3. UNCHANGED <<attempts, sims, simsRead>> /\ cmp' = "append"
    BY <1>2 DEF CompareMismatch
  <2>4. QED  BY <1>0, <2>2, <2>3 DEF AttemptInv, InOrder
<1>3. CASE PublishSim
  <2>1. PICK o \in Outcomes : sims' = Append(sims, o)
    BY <1>3 DEF PublishSim
  <2>2. UNCHANGED <<attempts, verdict, cmp, simsRead>>
    BY <1>3 DEF PublishSim, comparator
  <2>3. \A i \in 1 .. Len(sims) : sims'[i] = sims[i]
    BY <1>0, <2>1
  <2>4. \A k \in DOMAIN attempts : attempts[k] \in 1 .. Len(sims)
    <3>1. attempts \in Seq(1 .. simsRead) /\ simsRead \in 0 .. Len(sims)
      BY DEF IInv, TypeOK, Taken
    <3>2. QED  BY ONLY <3>1
  <2>5. cmp \in {"request", "simulating"} => simsRead \in 1 .. Len(sims)
    BY <1>0 DEF IInv, TypeOK
  <2>6. QED  BY <1>0, <2>2, <2>3, <2>4, <2>5 DEF AttemptInv, InOrder
<1>4. CASE ComparatorTake
  <2>1. simsRead' = simsRead + 1 /\ UNCHANGED <<attempts, verdict, sims>>
    BY <1>4 DEF ComparatorTake
  <2>2. cmp' \in {"request", "simulating"} => sims[simsRead'].profitable
    BY <1>4 DEF ComparatorTake
  <2>3. \A k \in DOMAIN attempts : attempts[k] < simsRead'
    BY <1>0, <2>1
  <2>4. QED  BY <1>0, <2>1, <2>2, <2>3 DEF AttemptInv, InOrder
<1>5. CASE SimulateBundle
  BY <1>0, <1>5 DEF SimulateBundle, AttemptInv, InOrder
<1>6. CASE ComparatorLagged \/ AppendAbort \/ FlushAbort \/ AbortNotJournaled
           \/ SendAbort \/ CancelComparator
  BY <1>0, <1>6 DEF ComparatorLagged, AppendAbort, FlushAbort, AbortNotJournaled,
     SendAbort, CancelComparator, AttemptInv, InOrder
<1>7. CASE Submission
  BY <1>0, <1>7 DEF Submission, SubmissionLagged, SubmissionClosed, TakeAttempt,
     AdapterGuard, Post, SubmitOk, SubmitErr, AppendReceipt, FlushReceipt,
     ReceiptNotJournaled, CancelSubmission, comparator, AttemptInv, InOrder
<1>8. CASE SetExecutionDisabled \/ Shutdown \/ Join \/ UNCHANGED vars
  BY <1>0, <1>8 DEF SetExecutionDisabled, Shutdown, Join, JoinSubmission,
     JoinComparator, vars, comparator, AttemptInv, InOrder
<1>9. QED
  BY <1>1, <1>2, <1>3, <1>4, <1>5, <1>6, <1>7, <1>8 DEF Next, Comparator
\* What an attempt that is in submission_driver's hands is, and what stays of it in the
\* next state: attempts and outcomes only grow.
LEMMA AttemptsGrow ==
  ASSUME IInv, [Next]_vars
  PROVE  /\ Len(attempts) \in Nat /\ attemptsRead \in 0 .. Len(attempts)
         /\ Len(attempts) <= Len(attempts') /\ Len(attempts') \in Nat
         /\ \A k \in 1 .. Len(attempts) :
              /\ attempts[k] \in Nat /\ attempts'[k] = attempts[k]
              /\ attempts[k] \in 1 .. Len(sims)
         /\ \A i \in 1 .. Len(sims) : sims'[i] = sims[i]
         /\ \A k \in DOMAIN posts : posts[k] \in 1 .. Len(sims)
         /\ config' = config
<1>0. /\ simsRead \in Nat /\ attempts \in Seq(Taken) /\ posts \in Seq(Taken)
      /\ attemptsRead \in 0 .. Len(attempts) /\ Len(attempts) \in Nat
      /\ Taken \subseteq 1 .. Len(sims) /\ Taken \subseteq Nat
      /\ sims \in Seq(Outcomes) /\ Len(sims) \in Nat
  BY DEF IInv, TypeOK, Taken
<1>1. /\ \A k \in 1 .. Len(attempts) : attempts[k] \in Taken
      /\ \A k \in DOMAIN posts : posts[k] \in Taken
  BY <1>0
<1>2. Len(attempts) <= Len(attempts') /\ Len(attempts') \in Nat
  <2>1. Len(attempts) <= Len(attempts') /\ attempts' \in Seq(Taken')
    BY NextComparatorData DEF IInv
  <2>2. QED  BY <2>1
<1>10. /\ \A k \in 1 .. Len(attempts) : attempts[k] \in Nat /\ attempts[k] \in 1 .. Len(sims)
      /\ \A k \in DOMAIN posts : posts[k] \in 1 .. Len(sims)
  BY <1>0, <1>1
<1>3. CASE CompareMatch
  <2>1. simsRead \in Taken
    BY <1>0, <1>3 DEF CompareMatch, IInv, TypeOK, Taken
  <2>2. \A k \in 1 .. Len(attempts) : attempts'[k] = attempts[k]
    BY <1>0, <1>3, <2>1, JournalAppend DEF CompareMatch, Attempt, Comparing
  <2>3. config' = config /\ sims' = sims
    BY <1>3 DEF CompareMatch
  <2>4. QED  BY <1>0, <1>10, <1>2, <2>2, <2>3
<1>4. CASE PublishSim
  <2>1. PICK o \in Outcomes : sims' = Append(sims, o)
    BY <1>4 DEF PublishSim
  <2>2. attempts' = attempts /\ config' = config
    BY <1>4 DEF PublishSim
  <2>3. \A i \in 1 .. Len(sims) : sims'[i] = sims[i]
    BY <1>0, <2>1
  <2>4. QED  BY <1>0, <1>10, <1>2, <2>2, <2>3
<1>5. CASE UNCHANGED <<attempts, sims, config>>
  BY <1>0, <1>10, <1>2, <1>5
<1>6. ASSUME Comparator PROVE CompareMatch \/ UNCHANGED <<attempts, sims, config>>
  BY <1>6 DEF Comparator, ComparatorLagged, ComparatorTake, SimulateBundle,
     CompareMismatch, AppendAbort, FlushAbort, AbortNotJournaled, SendAbort,
     CancelComparator
<1>7. ASSUME Submission PROVE UNCHANGED <<attempts, sims, config>>
  BY <1>7 DEF Submission, SubmissionLagged, SubmissionClosed, TakeAttempt, AdapterGuard,
     Post, SubmitOk, SubmitErr, AppendReceipt, FlushReceipt, ReceiptNotJournaled,
     CancelSubmission
<1>8. ASSUME SetExecutionDisabled \/ Shutdown \/ Join \/ UNCHANGED vars
      PROVE  UNCHANGED <<attempts, sims, config>>
  BY <1>8 DEF SetExecutionDisabled, Shutdown, Join, JoinSubmission, JoinComparator, vars
<1>9. QED  BY <1>3, <1>4, <1>5, <1>6, <1>7, <1>8 DEF Next

\* POSTs are attempts in the order they were read.
LEMMA NextPost ==
  ASSUME IInv, [Next]_vars PROVE PostInv'
<1>0. /\ PostInv /\ InOrder(attempts) /\ posts \in Seq(Taken) /\ Len(posts) \in Nat
      /\ DOMAIN posts = 1 .. Len(posts) /\ DOMAIN attempts = 1 .. Len(attempts)
      /\ sub \in {"submit", "post", "posting", "append", "flush"} =>
           attemptsRead \in 1 .. Len(attempts)
  BY DEF IInv, AttemptInv, TypeOK
<1>1. /\ Len(attempts) \in Nat /\ attemptsRead \in 0 .. Len(attempts)
      /\ Len(attempts) <= Len(attempts') /\ Len(attempts') \in Nat
      /\ \A k \in 1 .. Len(attempts) :
           /\ attempts[k] \in Nat /\ attempts'[k] = attempts[k]
           /\ attempts[k] \in 1 .. Len(sims)
      /\ \A i \in 1 .. Len(sims) : sims'[i] = sims[i]
      /\ \A k \in DOMAIN posts : posts[k] \in 1 .. Len(sims)
      /\ config' = config
  BY AttemptsGrow
<1>2. CASE UNCHANGED <<attemptsRead, sub, posts>>
  <2>1. sub \in {"submit", "post", "posting", "append", "flush"} =>
          Submitting' = Submitting /\ Submitting \in 1 .. Len(sims)
    BY <1>0, <1>1, <1>2 DEF Submitting
  <2>2. InOrder(posts') /\ Members(posts') = Members(posts)
    BY <1>0, <1>2 DEF PostInv
  <2>3. \A k \in DOMAIN posts :
          /\ config'.gate /\ sims'[posts[k]].txs = "full"
          /\ \E j \in 1 .. attemptsRead :
               posts[k] = attempts'[j] /\ (sub \in {"submit", "post"} => j < attemptsRead)
    <3> TAKE k \in DOMAIN posts
    <3>1. PICK j \in 1 .. attemptsRead :
            posts[k] = attempts[j] /\ (sub \in {"submit", "post"} => j < attemptsRead)
      BY <1>0 DEF PostInv
    <3>2. attempts'[j] = attempts[j]
      BY <1>1
    <3>3. config'.gate /\ sims'[posts[k]].txs = "full"
      BY <1>0, <1>1 DEF PostInv
    <3>4. QED  BY <3>1, <3>2, <3>3
  <2>4. /\ sub \in {"submit", "post", "posting", "append", "flush"} =>
             config'.gate /\ sims'[Submitting].txs = "full"
        /\ sub \in {"posting", "append", "flush"} => Submitting \in Members(posts)
    BY <1>0, <1>1, <2>1 DEF PostInv
  <2>5. QED  BY <1>2, <2>1, <2>2, <2>3, <2>4 DEF PostInv
<1>3. CASE TakeAttempt
  <2>1. /\ attemptsRead' = attemptsRead + 1 /\ UNCHANGED <<posts, sims, attempts>>
        /\ sub' \in {"recv", "submit"}
        /\ sub' = "submit" => config.gate /\ sims[attempts[attemptsRead']].txs = "full"
    BY <1>3 DEF TakeAttempt
  <2>2. InOrder(posts')
    BY <1>0, <2>1 DEF PostInv
  <2>3. \A k \in DOMAIN posts :
          /\ config.gate /\ sims[posts[k]].txs = "full"
          /\ \E j \in 1 .. attemptsRead : posts[k] = attempts[j] /\ j < attemptsRead'
    BY <1>0, <1>1, <2>1 DEF PostInv
  <2>4. 1 .. attemptsRead \subseteq 1 .. attemptsRead'
    BY <1>1, <2>1
  <2>5. sub' = "submit" => config'.gate /\ sims'[Submitting'].txs = "full"
    BY <1>1, <2>1 DEF Submitting
  <2>6. QED  BY <1>1, <2>1, <2>2, <2>3, <2>4, <2>5 DEF PostInv
<1>4. CASE SubmissionLagged
  <2>1. /\ attemptsRead <= attemptsRead' /\ attemptsRead' \in Nat
        /\ UNCHANGED <<posts, sims, attempts, sub>>
        /\ sub = "recv"
    BY <1>1, <1>4, PipelineAssumption DEF SubmissionLagged, Lagged, OldestKept
  <2>2. InOrder(posts')
    BY <1>0, <2>1 DEF PostInv
  <2>3. \A k \in DOMAIN posts :
          /\ config.gate /\ sims[posts[k]].txs = "full"
          /\ \E j \in 1 .. attemptsRead : posts[k] = attempts[j]
    BY <1>0, <2>1 DEF PostInv
  <2>4. 1 .. attemptsRead \subseteq 1 .. attemptsRead'
    BY <1>1, <2>1
  <2>5. QED  BY <1>1, <2>1, <2>2, <2>3, <2>4 DEF PostInv
<1>5. CASE Post
  <2>1. /\ posts' = Append(posts, Submitting) /\ sub' = "posting" /\ sub = "post"
        /\ UNCHANGED <<attempts, attemptsRead, sims>>
    BY <1>5 DEF Post
  <2>2. Submitting \in Taken /\ Submitting \in Nat /\ Submitting = attempts[attemptsRead]
    BY <1>0, <1>1, <2>1 DEF Submitting, IInv, TypeOK
  <2>3. /\ Len(posts') = Len(posts) + 1 /\ DOMAIN posts' = 1 .. (Len(posts) + 1)
        /\ \A k \in 1 .. Len(posts) : posts'[k] = posts[k]
        /\ posts'[Len(posts) + 1] = Submitting
    BY <1>0, <2>1, <2>2
  <2>4. \A k \in DOMAIN posts : posts[k] < Submitting
    <3> TAKE k \in DOMAIN posts
    <3>1. PICK j \in 1 .. attemptsRead : posts[k] = attempts[j] /\ j < attemptsRead
      BY <1>0, <2>1 DEF PostInv
    <3>2. j \in DOMAIN attempts /\ attemptsRead \in DOMAIN attempts
      BY <1>0, <1>1, <2>1
    <3>3. QED  BY <1>0, <2>2, <3>1, <3>2 DEF InOrder
  <2>5. InOrder(posts')
    BY <1>0, <2>3, <2>4 DEF PostInv, InOrder
  <2>6. config.gate /\ sims[Submitting].txs = "full"
    BY <1>0, <2>1 DEF PostInv
  <2>7. \A k \in DOMAIN posts' :
          /\ config.gate /\ sims[posts'[k]].txs = "full"
          /\ \E j \in 1 .. attemptsRead : posts'[k] = attempts[j]
    <3> TAKE k \in DOMAIN posts'
    <3>1. CASE k = Len(posts) + 1
      BY <1>0, <2>1, <2>2, <2>3, <2>6, <3>1
    <3>2. CASE k \in DOMAIN posts
      BY <1>0, <2>3, <3>2 DEF PostInv
    <3>3. QED  BY <1>0, <2>3, <3>1, <3>2
  <2>8. Submitting \in Members(posts') /\ Submitting' = Submitting
    BY <1>0, <2>1, <2>3 DEF Members, Submitting
  <2>9. QED  BY <1>1, <2>1, <2>5, <2>6, <2>7, <2>8 DEF PostInv
<1>6. CASE AdapterGuard \/ SubmitOk \/ SubmitErr \/ AppendReceipt \/ FlushReceipt
           \/ ReceiptNotJournaled \/ SubmissionClosed \/ CancelSubmission
  <2>1. /\ UNCHANGED <<attempts, attemptsRead, posts, sims>>
        /\ \/ sub' \in {"recv", "closed", "cancelled"}
           \/ sub = "submit" /\ sub' = "post"
           \/ sub = "posting" /\ sub' = "append"
           \/ sub = "append" /\ sub' = "flush"
    BY <1>6 DEF AdapterGuard, SubmitOk, SubmitErr, AppendReceipt, FlushReceipt,
       ReceiptNotJournaled, SubmissionClosed, CancelSubmission
  <2>2. Submitting' = Submitting
    BY <2>1 DEF Submitting
  <2>3. InOrder(posts') /\ Members(posts') = Members(posts)
    BY <1>0, <2>1 DEF PostInv
  <2>4. \A k \in DOMAIN posts :
          /\ config.gate /\ sims[posts[k]].txs = "full"
          /\ \E j \in 1 .. attemptsRead :
               posts[k] = attempts[j] /\ (sub' \in {"submit", "post"} => j < attemptsRead)
    BY <1>0, <2>1 DEF PostInv
  <2>5. /\ sub' \in {"submit", "post", "posting", "append", "flush"} =>
             config.gate /\ sims[Submitting].txs = "full"
        /\ sub' \in {"posting", "append", "flush"} => Submitting \in Members(posts)
    BY <1>0, <2>1 DEF PostInv
  <2>6. QED  BY <1>1, <2>1, <2>2, <2>3, <2>4, <2>5 DEF PostInv
<1>7. ASSUME Comparator PROVE UNCHANGED <<attemptsRead, sub, posts>>
  BY <1>7 DEF Comparator, ComparatorLagged, ComparatorTake, SimulateBundle, CompareMatch,
     CompareMismatch, AppendAbort, FlushAbort, AbortNotJournaled, SendAbort,
     CancelComparator, submission
<1>8. ASSUME PublishSim \/ SetExecutionDisabled \/ Shutdown \/ Join \/ UNCHANGED vars
      PROVE  UNCHANGED <<attemptsRead, sub, posts>>
  BY <1>8 DEF PublishSim, SetExecutionDisabled, Shutdown, Join, JoinSubmission,
     JoinComparator, vars, submission
<1>9. QED
  BY <1>2, <1>3, <1>4, <1>5, <1>6, <1>7, <1>8 DEF Next, Submission
\* Receipts: the driver appends each accepted POST once, and flushes before it goes on.
LEMMA NextReceipt ==
  ASSUME IInv, [Next]_vars PROVE ReceiptInv'
<1>0. /\ ReceiptInv /\ receiptLog \in Seq(Taken) /\ Len(receiptLog) \in Nat
      /\ receiptSafe \in 0 .. Len(receiptLog) /\ Taken \subseteq Nat
      /\ posts \in Seq(Taken) /\ accepted \subseteq Taken
      /\ sub \in {"recv", "submit", "post", "posting", "append", "flush", "closed",
                  "cancelled"}
      /\ sub \in {"submit", "post", "posting", "append", "flush"} =>
           attemptsRead \in 1 .. Len(attempts)
      /\ faults \in 0 .. MaxFaults
  BY DEF IInv, TypeOK, Taken
<1>1. /\ Len(attempts) \in Nat /\ attemptsRead \in 0 .. Len(attempts)
      /\ \A k \in 1 .. Len(attempts) : attempts'[k] = attempts[k] /\ attempts[k] \in Nat
      /\ DOMAIN attempts = 1 .. Len(attempts)
  <2>1. attempts \in Seq(Taken)
    BY DEF IInv, TypeOK
  <2>2. QED  BY <2>1, AttemptsGrow
<1>2. Durable(receiptLog, Len(receiptLog)) = Members(receiptLog)
  BY <1>0 DEF Durable, Members
<1> USE <1>0
<1>3. CASE UNCHANGED <<attemptsRead, sub, posts, accepted, receiptLog, receiptSafe>>
           /\ (faults' = 0 => faults = 0)
  <2>1. sub \in {"submit", "post", "posting", "append", "flush"} => Submitting' = Submitting
    BY <1>1, <1>3 DEF Submitting
  <2>2. QED  BY <1>3, <2>1 DEF ReceiptInv
<1>4. CASE TakeAttempt
  <2>1. /\ sub = "recv" /\ attemptsRead' = attemptsRead + 1 /\ sub' \in {"recv", "submit"}
        /\ attemptsRead' \in 1 .. Len(attempts)
        /\ UNCHANGED <<attempts, posts, accepted, receiptLog, receiptSafe, faults>>
    BY <1>1, <1>4 DEF TakeAttempt, HasNext
  <2>2. \A i \in accepted : i < Submitting'
    <3> TAKE i \in accepted
    <3>1. PICK k \in DOMAIN posts : i = posts[k]
      BY DEF ReceiptInv, Members
    <3>2. PICK j \in 1 .. attemptsRead : posts[k] = attempts[j]
      BY DEF IInv, PostInv
    <3>3. j \in DOMAIN attempts /\ attemptsRead' \in DOMAIN attempts /\ j < attemptsRead'
      BY <1>1, <2>1
    <3>4. Submitting' = attempts[attemptsRead'] /\ InOrder(attempts)
      BY <2>1 DEF Submitting, IInv, AttemptInv
    <3>5. QED  BY <3>1, <3>2, <3>3, <3>4 DEF InOrder
  <2>3. QED  BY <2>1, <2>2 DEF ReceiptInv
<1>5. CASE SubmissionLagged
  <2>1. sub = "recv" /\ UNCHANGED <<sub, posts, accepted, receiptLog, receiptSafe, faults>>
    BY <1>5 DEF SubmissionLagged
  <2>2. QED  BY <2>1 DEF ReceiptInv
<1>6. CASE AdapterGuard \/ SubmitErr \/ SubmissionClosed \/ CancelSubmission
  <2>1. /\ sub \in {"recv", "submit", "posting"}
        /\ sub' \in {"recv", "closed", "cancelled"} \/ (sub = "submit" /\ sub' = "post")
        /\ UNCHANGED <<attempts, attemptsRead, posts, accepted, receiptLog, receiptSafe,
                       faults>>
    BY <1>6 DEF AdapterGuard, SubmitErr, SubmissionClosed, CancelSubmission, Awaiting
  <2>2. Submitting' = Submitting
    BY <2>1 DEF Submitting
  <2>3. QED  BY <2>1, <2>2 DEF ReceiptInv
<1>7. CASE Post
  <2>1. /\ sub = "post" /\ sub' = "posting" /\ posts' = Append(posts, Submitting)
        /\ UNCHANGED <<attempts, attemptsRead, accepted, receiptLog, receiptSafe, faults>>
    BY <1>7 DEF Post
  <2>2. Submitting' = Submitting /\ Submitting \in Taken
    BY <1>1, <2>1 DEF Submitting, IInv, TypeOK
  <2>3. Members(posts') = Members(posts) \cup {Submitting}
    BY <2>1, <2>2, JournalAppend
  <2>4. QED  BY <2>1, <2>2, <2>3 DEF ReceiptInv
<1>8. CASE SubmitOk
  <2>1. /\ sub = "posting" /\ sub' = "append" /\ accepted' = accepted \cup {Submitting}
        /\ UNCHANGED <<attempts, attemptsRead, posts, receiptLog, receiptSafe, faults>>
    BY <1>8 DEF SubmitOk
  <2>2. Submitting' = Submitting
    BY <2>1 DEF Submitting
  <2>3. Submitting \in Members(posts)
    BY <2>1 DEF IInv, PostInv
  <2>4. QED  BY <2>1, <2>2, <2>3 DEF ReceiptInv
<1>9. CASE AppendReceipt
  <2>1. /\ sub = "append" /\ sub' = "flush" /\ receiptLog' = Append(receiptLog, Submitting)
        /\ UNCHANGED <<attempts, attemptsRead, posts, accepted, receiptSafe, faults>>
    BY <1>9 DEF AppendReceipt
  <2>2. Submitting \in accepted /\ Submitting \in Taken
    BY <2>1 DEF ReceiptInv
  <2>3. /\ Members(receiptLog') = Members(receiptLog) \cup {Submitting}
        /\ Durable(receiptLog', receiptSafe) = Durable(receiptLog, receiptSafe)
    BY <2>1, <2>2, JournalAppend
  <2>4. receiptLog \in Seq(Nat) /\ Submitting \in Nat
    BY <2>2, WiderSeq
  <2>5. InOrder(receiptLog')
    BY <2>1, <2>4, OrderAppend DEF ReceiptInv
  <2>6. faults = 0 => accepted = Members(receiptLog')
    <3>1. faults = 0 => accepted = Durable(receiptLog, receiptSafe) \cup {Submitting}
      BY <2>1 DEF ReceiptInv
    <3>2. Durable(receiptLog, receiptSafe) \subseteq Members(receiptLog)
      BY DEF Durable, Members
    <3>3. QED  BY <2>2, <2>3, <3>1, <3>2 DEF ReceiptInv
  <2>7. QED  BY <2>1, <2>2, <2>3, <2>5, <2>6 DEF ReceiptInv
<1>10. CASE FlushReceipt
  <2>1. /\ sub = "flush" /\ sub' = "recv" /\ receiptSafe' = Len(receiptLog)
        /\ UNCHANGED <<posts, accepted, receiptLog, faults>>
    BY <1>10 DEF FlushReceipt
  <2>2. QED  BY <1>2, <2>1 DEF ReceiptInv
<1>11. CASE ReceiptNotJournaled
  <2>1. /\ sub' = "recv" /\ faults' = faults + 1 /\ faults' # 0
        /\ UNCHANGED <<posts, accepted, receiptLog>>
    BY <1>11, PipelineAssumption DEF ReceiptNotJournaled
  <2>2. QED  BY <2>1 DEF ReceiptInv
<1>12. ASSUME Comparator
       PROVE  /\ UNCHANGED <<attemptsRead, sub, posts, accepted, receiptLog, receiptSafe>>
              /\ faults' = 0 => faults = 0
  BY <1>12, PipelineAssumption DEF Comparator, ComparatorLagged, ComparatorTake,
     SimulateBundle, CompareMatch, CompareMismatch, AppendAbort, FlushAbort,
     AbortNotJournaled, SendAbort, CancelComparator, submission
<1>13. ASSUME PublishSim \/ SetExecutionDisabled \/ Shutdown \/ Join \/ UNCHANGED vars
       PROVE  UNCHANGED <<attemptsRead, sub, posts, accepted, receiptLog, receiptSafe,
                          faults>>
  BY <1>13 DEF PublishSim, SetExecutionDisabled, Shutdown, Join, JoinSubmission,
     JoinComparator, vars, submission
<1>14. QED
  BY <1>3, <1>4, <1>5, <1>6, <1>7, <1>8, <1>9, <1>10, <1>11, <1>12, <1>13
  DEF Next, Submission

\* The six parts hold in every reachable state.
LEMMA Inductive == Spec => []IInv
<1>1. Init => IInv  BY InitIInv
<1>2. IInv /\ [Next]_vars => IInv'
  BY NextType, NextSwitch, NextAbort, NextAttempt, NextPost, NextReceipt DEF IInv
<1>3. QED  BY <1>1, <1>2, PTL DEF Spec

-----------------------------------------------------------------------------
\* Type correctness of the pipeline's state, for every bound.
THEOREM TypeCorrect == Spec => []TypeOK
<1>1. IInv => TypeOK  BY DEF IInv
<1>2. QED  BY <1>1, Inductive, PTL

\* No outcome leaves the process without its gate, signature and relay match, or twice.
THEOREM ChainRespected == Spec => []SubmittedWasMatched
<1>1. IInv => SubmittedWasMatched
  <2> SUFFICES ASSUME IInv PROVE SubmittedWasMatched
    OBVIOUS
  <2>1. \A k \in DOMAIN posts :
          /\ config.gate /\ sims[posts[k]].txs = "full"
          /\ verdict[posts[k]] = "match" /\ sims[posts[k]].profitable
    <3> TAKE k \in DOMAIN posts
    <3>1. PICK j \in 1 .. attemptsRead : posts[k] = attempts[j]
      BY DEF IInv, PostInv
    <3>2. j \in DOMAIN attempts
      BY DEF IInv, TypeOK
    <3>3. QED  BY <3>1, <3>2 DEF IInv, PostInv, AttemptInv
  <2>2. QED  BY <2>1 DEF SubmittedWasMatched, Members, IInv, PostInv
<1>2. QED  BY <1>1, Inductive, PTL

\* No abort is observable downstream before the journal holds it.
THEOREM AbortsJournaledFirst == Spec => []SeenAbortsAreDurable
<1>1. IInv => SeenAbortsAreDurable  BY DEF IInv, AbortInv
<1>2. QED  BY <1>1, Inductive, PTL

\* The kill switch lets at most one started step of each driver through.
THEOREM SwitchBound == Spec => []KillSwitchQuiets
<1>1. IInv => KillSwitchQuiets  BY DEF IInv, SwitchInv, KillSwitchQuiets
<1>2. QED  BY <1>1, Inductive, PTL

\* The receipt journal is the accepted POSTs, in order, and complete but for faults.
THEOREM ReceiptsComplete == Spec => []ReceiptsMirrorPosts
<1>1. IInv => ReceiptsMirrorPosts
  BY DEF IInv, ReceiptInv, ReceiptsMirrorPosts
<1>2. QED  BY <1>1, Inductive, PTL
=============================================================================
