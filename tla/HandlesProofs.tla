----------------------------- MODULE HandlesProofs -----------------------------
(***************************************************************************)
(* Proofs about the bus and about the engines of Handles, for every set of *)
(* publishers, capacity, sequence limit and bound.                         *)
(*                                                                         *)
(* The bus rests on one inductive invariant: the mutex is held exactly by  *)
(* the thread between Acquire and its return, and while it is held nobody  *)
(* else moves next_sequence, so the number read at the start is still the  *)
(* length of the log when the envelope is appended.                        *)
(*                                                                         *)
(* Each engine is a bus and each is a journal task, so what is proved of   *)
(* the one holds of all of them.  What the Phase 1 and Phase 3 engines add *)
(* is a thread that moves events from the bus to a journal: the invariant  *)
(* says that it has handed over exactly the events before the one in its   *)
(* hands, and that once it left its loop nobody can publish any more.      *)
(*                                                                         *)
(* The last part is about journal_drain_loop: what it tried to append is   *)
(* exactly what its receiver is past; a lag moves the receiver on but ends *)
(* the loop, so what was tried stays a prefix.                             *)
(***************************************************************************)
EXTENDS Handles, SequenceTheorems, TLAPS

-----------------------------------------------------------------------------
(* The bus *)

Inside == {"locked", "blocked", "sent"}

LockInv == \A p \in Publishers : pc[p] \in Inside <=> lock = p

\* The number a thread inside publish works with.
NumberInv ==
  \A p \in Publishers :
    /\ pc[p] \in Inside => sequence[p] = next_sequence
    /\ pc[p] \in {"blocked", "sent"} => sequence[p] # SeqLimit

\* next_sequence counts the log, but for an event whose publisher is yet to return.
LengthInv ==
  /\ published_total = next_sequence
  /\ \A p \in Publishers : pc[p] = "sent" => Len(log) = next_sequence + 1
  /\ (\A p \in Publishers : pc[p] # "sent") => Len(log) = next_sequence

ConsumerInv ==
  /\ consumer = "counting" => consumed_total = taken - 1
  /\ consumer # "counting" => consumed_total = taken
  /\ consumer = "closed" => BusDropped /\ taken = Len(log)

IInv == TypeOK /\ LockInv /\ NumberInv /\ LengthInv /\ ConsumerInv

\* What appending an envelope does to a log.
LEMMA LogAppend ==
  ASSUME NEW S, NEW s \in Seq(S), NEW e \in S
  PROVE  /\ Append(s, e) \in Seq(S)
         /\ Len(Append(s, e)) = Len(s) + 1
         /\ \A i \in 1 .. Len(s) : Append(s, e)[i] = s[i]
         /\ Append(s, e)[Len(s) + 1] = e
         /\ {Append(s, e)[i] : i \in 1 .. Len(Append(s, e))}
              = {s[i] : i \in 1 .. Len(s)} \cup {e}
<1>1. /\ Append(s, e) \in Seq(S) /\ Len(Append(s, e)) = Len(s) + 1
      /\ \A i \in 1 .. Len(s) : Append(s, e)[i] = s[i]
      /\ Append(s, e)[Len(s) + 1] = e
  OBVIOUS
<1>2. 1 .. (Len(s) + 1) = (1 .. Len(s)) \cup {Len(s) + 1}
  <2>1. Len(s) \in Nat
    OBVIOUS
  <2>2. QED  BY <2>1
<1>3. QED  BY <1>1, <1>2

\* The strengthened invariant holds initially.
LEMMA InitIInv == Init => IInv
<1> SUFFICES ASSUME Init PROVE IInv
  OBVIOUS
<1> USE EventBusAssumption DEF Init
<1>1. TypeOK  BY DEF TypeOK, Envelope
<1>2. LockInv  BY DEF LockInv, Inside
<1>3. NumberInv  BY DEF NumberInv, Inside
<1>4. LengthInv  BY DEF LengthInv
<1>5. ConsumerInv  BY DEF ConsumerInv
<1>6. QED  BY <1>1, <1>2, <1>3, <1>4, <1>5 DEF IInv

\* An early return releases the mutex and changes no counter.
LEMMA ReturnErrIInv ==
  ASSUME IInv, NEW p \in Publishers, pc[p] \in {"locked", "blocked"}, ReturnErr(p)
  PROVE  IInv'
<1> USE EventBusAssumption DEF IInv, ReturnErr, channel, counters
<1>1. TypeOK'  BY DEF TypeOK
<1>2. LockInv'  BY DEF TypeOK, LockInv, Inside
<1>3. NumberInv'  BY DEF TypeOK, NumberInv, Inside
<1>4. LengthInv'  BY DEF TypeOK, LengthInv
<1>5. ConsumerInv'  BY DEF TypeOK, ConsumerInv, BusDropped
<1>6. QED  BY <1>1, <1>2, <1>3, <1>4, <1>5

\* Both sends append the sealed envelope and leave the bookkeeping to Finish.
LEMMA SendIInv ==
  ASSUME IInv, NEW p \in Publishers, pc[p] \in {"locked", "blocked"},
         sequence[p] # SeqLimit, consumer # "dropped",
         log' = Append(log, Sealed(p)), pc' = [pc EXCEPT ![p] = "sent"],
         UNCHANGED <<taken, consumer, lock, next_sequence, counters, sequence, calls, acked>>
  PROVE  IInv' /\ sequence[p] = Len(log)
<1> USE EventBusAssumption DEF IInv, counters
<1>1. Sealed(p) \in Envelope
  BY DEF TypeOK, Sealed, Envelope, Payload
<1>2. log' \in Seq(Envelope) /\ Len(log') = Len(log) + 1 /\ Len(log) \in Nat
  BY <1>1, LogAppend DEF TypeOK
<1>3. \A q \in Publishers : pc[q] # "sent"
  BY DEF LockInv, Inside
<1>4. Len(log) = next_sequence /\ sequence[p] = next_sequence
  BY <1>3 DEF LengthInv, NumberInv, Inside
<1>5. TypeOK'  BY <1>2 DEF TypeOK
<1>6. LockInv'  BY DEF TypeOK, LockInv, Inside
<1>7. NumberInv'  BY DEF TypeOK, NumberInv, Inside
<1>8. LengthInv'  BY <1>2, <1>3, <1>4 DEF TypeOK, LengthInv
<1>9. ConsumerInv'
  <2>1. consumer # "closed"  BY DEF ConsumerInv, BusDropped
  <2>2. QED  BY <2>1 DEF ConsumerInv
<1>10. QED  BY <1>4, <1>5, <1>6, <1>7, <1>8, <1>9

\* Counting an acknowledged event and releasing the mutex preserves the invariant.
LEMMA FinishIInv ==
  ASSUME IInv, NEW p \in Publishers, Finish(p)
  PROVE  IInv'
<1> USE EventBusAssumption DEF IInv, Finish, channel
<1>1. sequence[p] = next_sequence /\ sequence[p] # SeqLimit
  BY DEF NumberInv, Inside
<1>2. Len(log) = next_sequence + 1 /\ \A q \in Publishers \ {p} : pc[q] # "sent"
  BY DEF LengthInv, LockInv, Inside
<1>3. Sealed(p) \in Envelope
  BY DEF TypeOK, Sealed, Envelope, Payload
<1>4. TypeOK'  BY <1>1, <1>3 DEF TypeOK
<1>5. LockInv'  BY DEF TypeOK, LockInv, Inside
<1>6. NumberInv'  BY <1>1, <1>2 DEF TypeOK, NumberInv, LockInv, Inside
<1>7. LengthInv'  BY <1>1, <1>2 DEF TypeOK, LengthInv
<1>8. ConsumerInv'
  <2>1. consumer # "closed"  BY DEF ConsumerInv, BusDropped
  <2>2. QED  BY <2>1 DEF ConsumerInv
<1>9. QED  BY <1>4, <1>5, <1>6, <1>7, <1>8

\* A publish call that starts, takes the mutex or ends preserves the invariant.
LEMMA CallIInv ==
  ASSUME IInv, NEW p \in Publishers, Call(p) \/ Acquire(p) \/ DropHandle(p)
  PROVE  IInv'
<1> USE EventBusAssumption DEF IInv, Call, Acquire, DropHandle, channel, counters
<1>1. TypeOK'
  <2>1. calls' \in [Publishers -> 0 .. MaxCalls]
    <3>1. Call(p) => calls[p] + 1 \in 0 .. MaxCalls  BY DEF TypeOK
    <3>2. QED  BY <3>1 DEF TypeOK
  <2>2. sequence' \in [Publishers -> 0 .. SeqLimit]  BY DEF TypeOK
  <2>3. QED  BY <2>1, <2>2 DEF TypeOK
<1>2. LockInv'  BY DEF TypeOK, LockInv, Inside
<1>3. NumberInv'  BY DEF TypeOK, NumberInv, LockInv, Inside
<1>4. LengthInv'  BY DEF TypeOK, LengthInv
<1>5. ConsumerInv'  BY DEF TypeOK, ConsumerInv, BusDropped
<1>6. QED  BY <1>1, <1>2, <1>3, <1>4, <1>5

\* So does every step of the consumer.
LEMMA ConsumerIInv ==
  ASSUME IInv, Consume \/ DropConsumer
  PROVE  IInv'
<1> USE EventBusAssumption
      DEF IInv, Consume, Take, CountTaken, RecvClosed, DropConsumer, Depth, callers, counters
<1>1. Len(log) \in Nat  BY DEF TypeOK
<1>2. TypeOK'
  <2>1. /\ taken' \in 0 .. Len(log) /\ consumed_total' \in Nat
        /\ consumer' \in {"idle", "counting", "closed", "dropped"}
    <3>1. taken \in 0 .. Len(log) /\ consumed_total \in Nat  BY DEF TypeOK
    <3>2. CASE Take  BY ONLY <1>1, <3>1, <3>2 DEF Take, Depth, counters
    <3>3. CASE CountTaken  BY ONLY <3>1, <3>3 DEF CountTaken
    <3>4. CASE RecvClosed \/ DropConsumer
      BY ONLY <3>1, <3>4 DEF RecvClosed, DropConsumer, counters
    <3>5. QED  BY <3>2, <3>3, <3>4
  <2>2. UNCHANGED <<log, lock, next_sequence, published_total, backpressure_total,
                    callers, acked>>
    OBVIOUS
  <2>3. QED  BY <2>1, <2>2 DEF TypeOK
<1>3. LockInv'  BY DEF LockInv
<1>4. NumberInv'  BY DEF NumberInv
<1>5. LengthInv'  BY DEF LengthInv
<1>6. ConsumerInv'  BY <1>1 DEF TypeOK, ConsumerInv, BusDropped
<1>7. QED  BY <1>2, <1>3, <1>4, <1>5, <1>6

\* Every step of the bus preserves the strengthened invariant.
LEMMA NextIInv == IInv /\ [Next]_vars => IInv'
<1> SUFFICES ASSUME IInv, [Next]_vars PROVE IInv'
  OBVIOUS
<1>1. ASSUME NEW p \in Publishers, Return(p) PROVE IInv'
  <2>1. CASE ClockUnavailable(p) \/ Exhausted(p) \/ EnvelopeRejected(p)
             \/ TrySendDisconnected(p) \/ BlockingSendClosed(p)
    BY <2>1, ReturnErrIInv
       DEF ClockUnavailable, Exhausted, EnvelopeRejected, TrySendDisconnected, BlockingSendClosed
  <2>2. CASE TrySend(p)
    BY <2>2, SendIInv DEF TrySend
  <2>3. CASE BlockingSend(p)
    <3>1. sequence[p] # SeqLimit  BY <2>3 DEF IInv, NumberInv, BlockingSend
    <3>2. QED  BY <2>3, <3>1, SendIInv DEF BlockingSend
  <2>4. CASE TrySendFull(p)
    <3> USE <2>4 DEF IInv, TrySendFull, channel
    <3>1. TypeOK'  BY DEF TypeOK
    <3>2. LockInv'  BY DEF TypeOK, LockInv, Inside
    <3>3. NumberInv'  BY DEF TypeOK, NumberInv, Inside
    <3>4. LengthInv'  BY DEF TypeOK, LengthInv
    <3>5. ConsumerInv'  BY DEF TypeOK, ConsumerInv, BusDropped
    <3>6. QED  BY <3>1, <3>2, <3>3, <3>4, <3>5
  <2>5. CASE Finish(p)
    BY <2>5, FinishIInv
  <2>6. QED  BY <1>1, <2>1, <2>2, <2>3, <2>4, <2>5 DEF Return
<1>2. CASE UNCHANGED vars
  <2> USE <1>2 DEF IInv, vars, channel, counters, callers
  <2>1. TypeOK'  BY DEF TypeOK
  <2>2. LockInv' /\ NumberInv'  BY DEF LockInv, NumberInv
  <2>3. LengthInv' /\ ConsumerInv'  BY DEF LengthInv, ConsumerInv, BusDropped
  <2>4. QED  BY <2>1, <2>2, <2>3
<1>3. QED  BY <1>1, <1>2, CallIInv, ConsumerIInv DEF Next

\* The strengthened invariant holds in every reachable state.
LEMMA Inductive == Spec => []IInv
<1>1. QED  BY InitIInv, NextIInv, PTL DEF Spec

\* Types; no sequence number ever passes the sentinel.
THEOREM TypeCorrect == Spec => []TypeOK
<1>1. IInv => TypeOK  BY DEF IInv
<1>2. QED  BY <1>1, Inductive, PTL

\* The lock-free statistics are never more than one event behind.
THEOREM StatsLag == Spec => []StatsLagByAtMostOne
<1>1. IInv => StatsLagByAtMostOne
  <2> SUFFICES ASSUME IInv PROVE StatsLagByAtMostOne
    OBVIOUS
  <2>1. published_total \in {Len(log), Len(log) - 1}
    <3>1. next_sequence \in Nat  BY EventBusAssumption DEF IInv, TypeOK
    <3>2. CASE \E p \in Publishers : pc[p] = "sent"
      BY <3>1, <3>2 DEF IInv, LengthInv
    <3>3. CASE \A p \in Publishers : pc[p] # "sent"
      BY <3>3 DEF IInv, LengthInv
    <3>4. QED  BY <3>2, <3>3
  <2>2. consumed_total \in {taken, taken - 1}
    BY DEF IInv, ConsumerInv
  <2>3. QED  BY <2>1, <2>2 DEF StatsLagByAtMostOne
<1>2. QED  BY <1>1, Inductive, PTL

\* The end of the stream is only reported once everything accepted was taken.
THEOREM ClosedDrained == Spec => []ClosedMeansDrained
<1>1. IInv => ClosedMeansDrained  BY DEF IInv, ConsumerInv, ClosedMeansDrained
<1>2. QED  BY <1>1, Inductive, PTL

\* The channel holds the acknowledged events and the one being acknowledged.
THEOREM AckedEvents == Spec => []EventsMatchAcks
<1> DEFINE Sent == {q \in Publishers : pc[q] = "sent"}
           Logged == {log[i] : i \in 1 .. Len(log)}
<1>1. Init => EventsMatchAcks
  BY DEF Init, EventsMatchAcks
<1>2. IInv /\ EventsMatchAcks /\ [Next]_vars => EventsMatchAcks'
  <2> SUFFICES ASSUME IInv, EventsMatchAcks, [Next]_vars PROVE EventsMatchAcks'
    OBVIOUS
  <2>1. ASSUME UNCHANGED <<log, acked>>, Sent' = Sent,
               \A q \in Sent : Sealed(q)' = Sealed(q)
        PROVE  EventsMatchAcks'
    BY <2>1 DEF EventsMatchAcks
  <2>2. ASSUME NEW p \in Publishers, pc[p] \in {"locked", "blocked"},
               log' = Append(log, Sealed(p)), pc' = [pc EXCEPT ![p] = "sent"],
               UNCHANGED <<sequence, calls, acked>>
        PROVE  EventsMatchAcks'
    <3>1. Sealed(p) \in Envelope
      BY <2>2 DEF IInv, TypeOK, Sealed, Envelope, Payload
    <3>2. Logged' = Logged \cup {Sealed(p)}
      BY <2>2, <3>1, LogAppend DEF IInv, TypeOK
    <3>3. Sent = {} /\ Sent' = {p}
      BY <2>2 DEF IInv, TypeOK, LockInv, Inside
    <3>4. Sealed(p)' = Sealed(p)
      BY <2>2 DEF Sealed
    <3>5. QED  BY <2>2, <3>2, <3>3, <3>4 DEF EventsMatchAcks
  <2>3. ASSUME NEW p \in Publishers, Finish(p) PROVE EventsMatchAcks'
    <3> USE <2>3 DEF Finish, channel
    <3>1. Sent = {p} /\ Sent' = {}
      BY DEF IInv, TypeOK, LockInv, Inside
    <3>2. QED  BY <3>1 DEF EventsMatchAcks
  <2>4. ASSUME NEW p \in Publishers,
               Call(p) \/ Acquire(p) \/ DropHandle(p) \/ TrySendFull(p)
        PROVE  EventsMatchAcks'
    <3> USE <2>4 DEF Call, Acquire, DropHandle, TrySendFull, channel, counters
    <3>1. Sent' = Sent /\ UNCHANGED <<log, acked>>
      BY DEF IInv, TypeOK
    <3>2. \A q \in Sent : Sealed(q)' = Sealed(q)
      BY DEF IInv, TypeOK, Sealed
    <3>3. QED  BY <3>1, <3>2, <2>1
  <2>5. ASSUME NEW p \in Publishers, pc[p] \in {"locked", "blocked"}, ReturnErr(p)
        PROVE  EventsMatchAcks'
    <3> USE <2>5 DEF ReturnErr, channel
    <3>1. Sent' = Sent /\ UNCHANGED <<log, acked>>
      BY DEF IInv, TypeOK
    <3>2. \A q \in Sent : Sealed(q)' = Sealed(q)
      BY DEF Sealed
    <3>3. QED  BY <3>1, <3>2, <2>1
  <2>6. ASSUME Consume \/ DropConsumer \/ UNCHANGED vars PROVE EventsMatchAcks'
    BY <2>6, <2>1 DEF Consume, Take, CountTaken, RecvClosed, DropConsumer,
                      vars, channel, callers, Sealed
  <2>7. ASSUME NEW p \in Publishers, Return(p) PROVE EventsMatchAcks'
    <3>1. CASE TrySend(p) \/ BlockingSend(p)
      BY <3>1, <2>2 DEF TrySend, BlockingSend
    <3>2. CASE TrySendFull(p) \/ Finish(p)
      BY <3>2, <2>3, <2>4
    <3>3. CASE ClockUnavailable(p) \/ Exhausted(p) \/ EnvelopeRejected(p)
               \/ TrySendDisconnected(p) \/ BlockingSendClosed(p)
      BY <3>3, <2>5
         DEF ClockUnavailable, Exhausted, EnvelopeRejected, TrySendDisconnected,
             BlockingSendClosed
    <3>4. QED  BY <2>7, <3>1, <3>2, <3>3 DEF Return
  <2>8. QED  BY <2>4, <2>6, <2>7 DEF Next
<1>3. QED  BY <1>1, <1>2, Inductive, PTL DEF Spec

\* The numbers on the channel are 0, 1, 2, ... in the order of arrival.
Numbered == \A i \in 1 .. Len(log) : log[i].sequence = i - 1

\* No number is skipped, given twice or overtaken, whichever publishes fail between.
LEMMA LogIsNumbered == Spec => []Numbered
<1>1. Init => Numbered
  BY DEF Init, Numbered
<1>2. IInv /\ Numbered /\ [Next]_vars => Numbered'
  <2> SUFFICES ASSUME IInv, Numbered, [Next]_vars PROVE Numbered'
    OBVIOUS
  <2>1. ASSUME NEW p \in Publishers, TrySend(p) \/ BlockingSend(p) PROVE Numbered'
    <3>1. sequence[p] # SeqLimit /\ pc[p] \in {"locked", "blocked"}
      BY <2>1 DEF TrySend, BlockingSend, IInv, NumberInv
    <3>2. sequence[p] = Len(log)
      BY <2>1, <3>1, SendIInv DEF TrySend, BlockingSend
    <3>3. log' = Append(log, Sealed(p)) /\ Sealed(p) \in Envelope /\ log \in Seq(Envelope)
      BY <2>1 DEF TrySend, BlockingSend, IInv, TypeOK, Sealed, Envelope, Payload
    <3>4. /\ Len(log') = Len(log) + 1 /\ log'[Len(log) + 1] = Sealed(p)
          /\ \A i \in 1 .. Len(log) : log'[i] = log[i]
      BY <3>3, LogAppend
    <3>5. Sealed(p).sequence = Len(log) /\ Len(log) \in Nat
      BY <3>2, <3>3 DEF Sealed
    <3>. QED  BY <3>4, <3>5 DEF Numbered
  <2>2. ASSUME UNCHANGED log PROVE Numbered'
    BY <2>2 DEF Numbered
  <2>3. ASSUME NEW p \in Publishers, Return(p) PROVE Numbered'
    BY <2>1, <2>2, <2>3
       DEF Return, ClockUnavailable, Exhausted, EnvelopeRejected, TrySendFull,
           TrySendDisconnected, BlockingSendClosed, Finish, ReturnErr, channel
  <2>. QED
    BY <2>2, <2>3 DEF Next, Call, Acquire, DropHandle, Consume, Take, CountTaken, RecvClosed,
                      DropConsumer, vars, channel
<1>. QED  BY <1>1, <1>2, Inductive, PTL DEF Spec

\* Every behaviour of the bus is a behaviour of the ordered stream: sends are the
\* stream's accepts, receptions its deliveries, and all else stutters.
THEOREM BusImplementsStream == Spec => ImplementsStream
<1>1. Init => Stream!Init
  BY DEF Init, Stream!Init
<1>2. IInv /\ IInv' /\ [Next]_vars
        => [Stream!Next]_<<log, taken, consumer # "dropped">>
  <2> DEFINE SVars == <<log, taken, consumer # "dropped">>
  <2> SUFFICES ASSUME IInv, IInv', [Next]_vars
               PROVE  [Stream!Next]_SVars
    OBVIOUS
  <2>1. ASSUME NEW p \in Publishers, TrySend(p) \/ BlockingSend(p)
        PROVE  Stream!Next
    <3>1. sequence[p] # SeqLimit /\ pc[p] \in {"locked", "blocked"}
      BY <2>1 DEF TrySend, BlockingSend, IInv, NumberInv
    <3>2. sequence[p] = Len(log)
      BY <2>1, <3>1, SendIInv DEF TrySend, BlockingSend
    <3>3. Len(log) < SeqLimit
      BY <3>1, <3>2, EventBusAssumption DEF IInv, TypeOK
    <3>4. <<p, calls[p]>> \in Payload
      BY DEF IInv, TypeOK, Payload
    <3>5. Stream!Accept(<<p, calls[p]>>)
      BY <2>1, <3>2, <3>3 DEF TrySend, BlockingSend, Stream!Accept, Sealed, Depth
    <3>6. QED  BY <3>4, <3>5 DEF Stream!Next
  <2>2. CASE Take
    BY <2>2 DEF Take, Stream!Next, Stream!Deliver, Depth, IInv, TypeOK
  <2>3. CASE DropConsumer
    BY <2>3 DEF DropConsumer, Stream!Next, Stream!Close
  <2>4. CASE CountTaken \/ RecvClosed \/ UNCHANGED vars
    BY <2>4 DEF CountTaken, RecvClosed, vars, channel
  <2>5. ASSUME NEW p \in Publishers,
               Call(p) \/ Acquire(p) \/ DropHandle(p) \/ TrySendFull(p) \/ Finish(p)
                 \/ ReturnErr(p)
        PROVE  UNCHANGED SVars
    BY <2>5 DEF Call, Acquire, DropHandle, TrySendFull, Finish, ReturnErr, channel
  <2>6. ASSUME NEW p \in Publishers, Return(p)
        PROVE  [Stream!Next]_SVars
    BY <2>6, <2>1, <2>5
       DEF Return, ClockUnavailable, Exhausted, EnvelopeRejected, TrySendDisconnected,
           BlockingSendClosed
  <2>7. QED  BY <2>2, <2>3, <2>4, <2>5, <2>6 DEF Next, Consume
<1>3. QED  BY <1>1, <1>2, Inductive, PTL DEF Spec, ImplementsStream, Stream!Spec

-----------------------------------------------------------------------------
(* The engines contain a bus and a journal task *)

\* Whatever was built, its bus goes through steps of EventBus only.
LEMMA StepsAreBusSteps == [HandlesNext]_handleVars => [Next]_vars
<1> SUFFICES ASSUME [HandlesNext]_handleVars PROVE [Next]_vars
  OBVIOUS
<1>1. CASE UNCHANGED handleVars
  BY <1>1 DEF handleVars, phase3Vars, allVars
<1>2. CASE OnBus(Next) \/ OnPhase4(DrainNext)
  BY <1>2 DEF OnBus, OnPhase4, phase3Vars, allVars
<1>3. Loop => [Next]_vars
  BY DEF Loop, LoopRecv, LoopAppend, LoopAppendFailed, LoopClosed, LoopFlush, Next, Consume
<1>4. CASE OnPhase1(AppNext)
  BY <1>3, <1>4 DEF OnPhase1, AppNext, Publish, Shutdown, Join, Next
<1>5. CASE OnPhase3(Next3)
  <2>1. Publish3 => Next
    BY DEF Publish3, Next
  <2>2. ProducerAborted => Next
    BY Phase3Assumption DEF ProducerAborted, Next
  <2>3. Second \/ Shutdown3 \/ DropIngressBus \/ DropStateBus \/ Join3 => UNCHANGED vars
    BY DEF Second, SecondClosed, SecondFlush, Shutdown3, DropIngressBus, DropStateBus, Join3, allVars
  <2>. QED
    BY <1>3, <1>5, <2>1, <2>2, <2>3 DEF OnPhase3, Next3, Loop3, Teardown
<1>. QED
  BY <1>1, <1>2, <1>4, <1>5 DEF HandlesNext

LEMMA EnginesAreBuses == HandlesSpec => Spec
<1>1. HandlesInit => Init
  BY DEF HandlesInit, Init3, AppInit
<1>. QED
  BY <1>1, StepsAreBusSteps, PTL DEF HandlesSpec, Spec

\* No engine, by no order of its shutdown, makes the bus anything but the gap-free stream,
\* delivers an event without an ack, or lets recv report an end that is none.
THEOREM EnginesKeepTheBus ==
  HandlesSpec =>
    /\ ImplementsStream
    /\ [](TypeOK /\ EventsMatchAcks /\ StatsLagByAtMostOne /\ ClosedMeansDrained)
BY EnginesAreBuses, BusImplementsStream, TypeCorrect, AckedEvents, StatsLag, ClosedDrained, PTL

-----------------------------------------------------------------------------
(* consume_loop between the bus and its journal *)

\* How many events are past consume_loop, one way or the other.
Handed == IF loop = "append" \/ consumer = "counting" THEN taken - 1 ELSE taken
Journaled == {journal[i] : i \in 1 .. Len(journal)}
Logged(n) == {log[i] : i \in 1 .. n}

LoopInv ==
  /\ journal \in Seq(Envelope) /\ refused \subseteq Envelope
  /\ loop \in {"recv", "append", "flush", "done"}
  /\ loop = "append" => taken > 0 /\ consumer = "idle"
  /\ Journaled \cup refused = Logged(Handed)
  /\ \A i, j \in 1 .. Len(journal) : i < j => journal[i].sequence < journal[j].sequence

\* The thread only leaves its loop when nobody is left to publish.
StopInv ==
  /\ loop \in {"flush", "done"} =>
       BusDropped /\ taken = Len(log) /\ consumer \in {"closed", "dropped"}
  /\ app \in {"closing", "stopped"} => loop = "done"

EngineInv ==
  IF built \in {"phase1", "phase3"} THEN LoopInv /\ StopInv
  ELSE journal = <<>> /\ app = "running"

\* What one step of a publisher does to the channel.
PublisherStep(p) == Call(p) \/ Acquire(p) \/ Return(p) \/ DropHandle(p)
LEMMA PublishersOnlyAppend ==
  ASSUME IInv, NEW p \in Publishers, PublisherStep(p)
  PROVE  /\ pc[p] # "gone" /\ UNCHANGED <<taken, consumer>>
         /\ log' = log \/ \E e \in Envelope : log' = Append(log, e)
<1>1. Sealed(p) \in Envelope
  BY DEF IInv, TypeOK, Sealed, Envelope, Payload
<1>. QED
  BY <1>1 DEF PublisherStep, Call, Acquire, DropHandle, Return, ClockUnavailable, Exhausted,
    EnvelopeRejected, TrySend, TrySendFull, TrySendDisconnected, BlockingSend,
    BlockingSendClosed, Finish, ReturnErr, channel

\* An event published meanwhile does not change what is already past.
LEMMA PublishKeepsEngine ==
  ASSUME IInv, EngineInv, built \in {"phase1", "phase3"},
         NEW p \in Publishers, PublisherStep(p), UNCHANGED <<appVars, built>>
  PROVE  EngineInv'
<1>1. /\ pc[p] # "gone" /\ UNCHANGED <<taken, consumer, loop, journal, refused, app>>
      /\ log' = log \/ \E e \in Envelope : log' = Append(log, e)
  BY PublishersOnlyAppend DEF appVars
<1>2. loop \notin {"flush", "done"}
  BY <1>1 DEF EngineInv, StopInv, BusDropped
<1>3. Handed' = Handed /\ Handed \in 0 .. Len(log) /\ log \in Seq(Envelope)
  BY <1>1 DEF Handed, EngineInv, LoopInv, IInv, TypeOK, ConsumerInv
<1>4. \A i \in 1 .. Len(log) : log'[i] = log[i]
  BY <1>1, <1>3, AppendProperties
<1>5. Logged(Handed)' = Logged(Handed)
  BY <1>3, <1>4 DEF Logged
<1>. QED
  BY <1>1, <1>2, <1>5 DEF EngineInv, LoopInv, StopInv, Journaled

\* One event more is past the loop: it is in the journal's last place, or refused.
LEMMA AppendKeepsEngine ==
  ASSUME IInv, Numbered, EngineInv, built \in {"phase1", "phase3"},
         LoopAppend \/ LoopAppendFailed, UNCHANGED built
  PROVE  EngineInv'
<1>1. /\ loop = "append" /\ loop' = "recv" /\ UNCHANGED <<log, taken, consumer, pc, app>>
      /\ \/ journal' = Append(journal, log[taken]) /\ refused' = refused
         \/ refused' = refused \cup {log[taken]} /\ journal' = journal
  BY DEF LoopAppend, LoopAppendFailed, vars, channel, callers
<1>2. /\ taken \in 1 .. Len(log) /\ consumer = "idle" /\ log \in Seq(Envelope)
      /\ journal \in Seq(Envelope) /\ refused \subseteq Envelope
  BY <1>1 DEF EngineInv, LoopInv, IInv, TypeOK
<1>3. log[taken] \in Envelope
  BY <1>2, ElementOfSeq
<1>4. Handed = taken - 1 /\ Handed' = taken
  BY <1>1, <1>2 DEF Handed
<1>5. Logged(Handed)' = Logged(Handed) \cup {log[taken]}
  <2>1. 1 .. taken = 1 .. (taken - 1) \cup {taken}
    BY <1>2
  <2>. QED
    BY <1>1, <1>4, <2>1 DEF Logged
<1>6. Journaled \cup refused = Logged(taken - 1)
  BY <1>4 DEF EngineInv, LoopInv
<1>7. StopInv'
  BY <1>1 DEF EngineInv, StopInv, BusDropped
<1>8. CASE refused' = refused \cup {log[taken]} /\ journal' = journal
  BY <1>1, <1>2, <1>3, <1>4, <1>5, <1>6, <1>7, <1>8 DEF EngineInv, LoopInv, Journaled
<1>9. CASE journal' = Append(journal, log[taken]) /\ refused' = refused
  <2>1. /\ journal' \in Seq(Envelope) /\ Len(journal') = Len(journal) + 1
        /\ \A i \in 1 .. Len(journal) : journal'[i] = journal[i]
        /\ journal'[Len(journal) + 1] = log[taken]
        /\ Journaled' = Journaled \cup {log[taken]}
    BY <1>2, <1>3, <1>9, LogAppend DEF Journaled
  <2>2. \A i \in 1 .. Len(journal) : journal[i].sequence < log[taken].sequence
    <3> TAKE i \in 1 .. Len(journal)
    <3>1. journal[i] \in Logged(taken - 1)
      BY <1>6 DEF Journaled
    <3>2. PICK m \in 1 .. taken - 1 : journal[i] = log[m]
      BY <3>1 DEF Logged
    <3>3. log[m].sequence = m - 1 /\ log[taken].sequence = taken - 1
      BY <1>2, <3>2 DEF Numbered
    <3>. QED
      BY <1>2, <3>2, <3>3
  <2>3. \A i, j \in 1 .. Len(journal') : i < j => journal'[i].sequence < journal'[j].sequence
    <3> SUFFICES ASSUME NEW i \in 1 .. Len(journal'), NEW j \in 1 .. Len(journal'), i < j
                 PROVE  journal'[i].sequence < journal'[j].sequence
      OBVIOUS
    <3>1. Len(journal) \in Nat /\ i \in 1 .. Len(journal)
          /\ (j \in 1 .. Len(journal) \/ j = Len(journal) + 1)
      BY <1>2, <2>1, LenProperties
    <3>2. CASE j \in 1 .. Len(journal)
      BY <2>1, <3>1, <3>2 DEF EngineInv, LoopInv
    <3>3. CASE j = Len(journal) + 1
      BY <2>1, <2>2, <3>1, <3>3
    <3>. QED
      BY <3>1, <3>2, <3>3
  <2>. QED
    BY <1>1, <1>4, <1>5, <1>6, <1>7, <1>9, <2>1, <2>3 DEF EngineInv, LoopInv
<1>. QED
  BY <1>1, <1>8, <1>9

\* Receiving moves the event into the thread's hands; the end of the bus ends the loop.
LEMMA LoopKeepsEngine ==
  ASSUME IInv, EngineInv, built \in {"phase1", "phase3"},
         LoopRecv \/ LoopClosed \/ LoopFlush, UNCHANGED built
  PROVE  EngineInv'
<1>1. UNCHANGED <<log, journal, refused, app, pc>>
  BY DEF LoopRecv, LoopClosed, LoopFlush, Take, CountTaken, RecvClosed, DropConsumer, callers
<1>2. taken \in Nat /\ (consumer = "counting" => taken > 0)
  BY DEF IInv, TypeOK, ConsumerInv
<1>3. Handed' = Handed
  <2>1. CASE LoopRecv /\ Take
    BY <1>2, <2>1 DEF LoopRecv, Take, Handed
  <2>2. CASE LoopRecv /\ CountTaken
    BY <1>2, <2>2 DEF LoopRecv, CountTaken, Handed
  <2>3. CASE LoopClosed \/ LoopFlush
    BY <1>2, <2>3 DEF LoopClosed, LoopFlush, RecvClosed, DropConsumer, Handed
  <2>. QED
    BY <2>1, <2>2, <2>3 DEF LoopRecv
<1>4. Logged(Handed)' = Logged(Handed) /\ Journaled' = Journaled
  BY <1>1, <1>3 DEF Logged, Journaled
<1>5. /\ loop' \in {"recv", "append", "flush", "done"}
      /\ loop' = "append" => taken' > 0 /\ consumer' = "idle"
  BY <1>2 DEF LoopRecv, LoopClosed, LoopFlush, Take, CountTaken
<1>6. StopInv'
  <2>1. CASE LoopRecv
    BY <1>1, <2>1 DEF EngineInv, StopInv, LoopRecv
  <2>2. CASE LoopClosed
    BY <1>1, <2>2 DEF EngineInv, StopInv, LoopClosed, RecvClosed, Depth, BusDropped, IInv, TypeOK
  <2>3. CASE LoopFlush
    BY <1>1, <2>3 DEF EngineInv, StopInv, LoopFlush, DropConsumer, BusDropped
  <2>. QED
    BY <2>1, <2>2, <2>3
<1>. QED
  BY <1>1, <1>4, <1>5, <1>6 DEF EngineInv, LoopInv

\* The steps of shutdown wait for the thread before they report an end.
LEMMA ShutdownKeepsEngine ==
  ASSUME EngineInv, built \in {"phase1", "phase3"},
         UNCHANGED <<vars, loop, journal, refused, built>>,
         app' \in {"running", "aborting", "joining"} \/ loop = "done" \/ app' = app
  PROVE  EngineInv'
BY DEF EngineInv, LoopInv, StopInv, Handed, Journaled, Logged, BusDropped, vars, channel, callers

\* Every step of every engine keeps the invariant.
LEMMA EngineInductive == HandlesSpec => []EngineInv
<1>1. HandlesInit => EngineInv
  <2> SUFFICES ASSUME HandlesInit PROVE EngineInv
    OBVIOUS
  <2>1. /\ loop = "recv" /\ journal = <<>> /\ refused = {} /\ app = "running"
        /\ log = <<>> /\ taken = 0 /\ consumer = "idle"
    BY DEF HandlesInit, Init3, AppInit, Init
  <2>2. Handed = 0 /\ Logged(0) = {} /\ Journaled = {}
    BY <2>1 DEF Handed, Logged, Journaled
  <2>. QED
    BY <2>1, <2>2 DEF EngineInv, LoopInv, StopInv
<1>2. IInv /\ Numbered /\ EngineInv /\ [HandlesNext]_handleVars => EngineInv'
  <2> SUFFICES ASSUME IInv, Numbered, EngineInv, [HandlesNext]_handleVars PROVE EngineInv'
    OBVIOUS
  <2>1. CASE UNCHANGED handleVars
    BY <2>1 DEF handleVars, phase3Vars, allVars, appVars, vars, channel, callers, EngineInv, LoopInv,
      StopInv, Handed, Journaled, Logged, BusDropped
  <2>2. CASE OnBus(Next) \/ OnPhase4(DrainNext)
    BY <2>2 DEF OnBus, OnPhase4, phase3Vars, allVars, appVars, EngineInv
  <2>3. CASE Loop /\ built \in {"phase1", "phase3"} /\ UNCHANGED built
    BY <2>3, AppendKeepsEngine, LoopKeepsEngine DEF Loop
  <2>4. CASE OnPhase1(AppNext)
    <3>1. built \in {"phase1", "phase3"} /\ UNCHANGED built /\ AppNext
      BY <2>4 DEF OnPhase1
    <3>2. CASE Publish
      BY <3>1, <3>2, PublishKeepsEngine DEF Publish, PublisherStep
    <3>3. CASE Shutdown \/ Join
      BY <3>1, <3>3, ShutdownKeepsEngine DEF Shutdown, Join
    <3>. QED
      BY <2>3, <3>1, <3>2, <3>3 DEF AppNext
  <2>5. CASE OnPhase3(Next3)
    <3>1. built \in {"phase1", "phase3"} /\ UNCHANGED built /\ Next3
      BY <2>5 DEF OnPhase3
    <3>2. CASE Publish3
      BY <3>1, <3>2, PublishKeepsEngine DEF Publish3, PublisherStep
    <3>3. CASE ProducerAborted
      BY <3>1, <3>3, PublishKeepsEngine, Phase3Assumption DEF ProducerAborted, PublisherStep
    <3>4. CASE Second
      BY <3>1, <3>4, ShutdownKeepsEngine DEF Second, SecondClosed, SecondFlush, allVars, appVars
    <3>5. CASE Shutdown3 \/ DropIngressBus \/ DropStateBus
      BY <3>1, <3>5, ShutdownKeepsEngine DEF Shutdown3, DropIngressBus, DropStateBus
    <3>6. CASE Join3
      <4>1. loop = "done"
        BY <3>1, <3>6 DEF Join3, EngineInv, StopInv
      <4>. QED
        BY <3>1, <3>6, <4>1, ShutdownKeepsEngine DEF Join3
    <3>. QED
      BY <2>3, <3>1, <3>2, <3>3, <3>4, <3>5, <3>6 DEF Next3, Loop3, Teardown
  <2>. QED
    BY <2>1, <2>2, <2>4, <2>5 DEF HandlesNext
<1>. QED
  BY <1>1, <1>2, EnginesAreBuses, Inductive, LogIsNumbered, PTL DEF HandlesSpec

\* The journal of every engine is the bus's stream without the records it refused.
THEOREM JournalsFollowTheBus == HandlesSpec => []JournalFollowsBus
<1>1. IInv /\ EventsMatchAcks /\ EngineInv => JournalFollowsBus
  <2> SUFFICES ASSUME IInv, EventsMatchAcks, EngineInv PROVE JournalFollowsBus
    OBVIOUS
  <2>1. CASE journal = <<>>
    BY <2>1 DEF JournalFollowsBus
  <2>2. CASE LoopInv
    <3>1. Handed \in 0 .. Len(log)
      BY <2>2 DEF Handed, LoopInv, IInv, TypeOK, ConsumerInv
    <3>2. Journaled \subseteq Logged(Len(log))
      BY <2>2, <3>1 DEF LoopInv, Logged
    <3>3. \A i \in 1 .. Len(journal) : journal[i] \in Logged(Len(log))
      BY <3>2 DEF Journaled
    <3>. QED
      BY <2>2, <3>3 DEF LoopInv, Logged, EventsMatchAcks, JournalFollowsBus
  <2>. QED
    BY <2>1, <2>2 DEF EngineInv
<1>. QED
  BY <1>1, EnginesAreBuses, Inductive, AckedEvents, EngineInductive, PTL

\* When shutdown has returned, of either handle, every acknowledged event is in the journal
\* or was refused by it: none was left on the bus.
THEOREM EnginesLoseNothing == HandlesSpec => []ShutdownLosesNothing
<1>1. IInv /\ EventsMatchAcks /\ EngineInv => ShutdownLosesNothing
  <2> SUFFICES ASSUME IInv, EventsMatchAcks, EngineInv, app = "stopped"
               PROVE  acked = Journaled \cup refused
    BY DEF ShutdownLosesNothing, Journaled
  <2>1. LoopInv /\ loop = "done" /\ BusDropped /\ taken = Len(log) /\ consumer # "counting"
    BY DEF EngineInv, StopInv
  <2>2. Journaled \cup refused = Logged(Len(log))
    BY <2>1 DEF LoopInv, Handed
  <2>3. \A p \in Publishers : pc[p] # "sent"
    BY <2>1 DEF BusDropped
  <2>. QED
    BY <2>2, <2>3 DEF EventsMatchAcks, Logged
<1>. QED
  BY <1>1, EnginesAreBuses, Inductive, AckedEvents, EngineInductive, PTL

-----------------------------------------------------------------------------
(* journal_drain_loop *)

DrainTyped ==
  /\ sent \in Seq(Nat) /\ \A i \in DOMAIN sent : sent[i] = i
  /\ senders \in BOOLEAN /\ drainRead \in Nat /\ drainRead <= Len(sent)
  /\ drain \in {"recv", "lagged", "closed", "aborted"}
  /\ drained \in Seq(Nat) /\ failed \subseteq Nat

InOrder == \A i, j \in DOMAIN drained : i < j => drained[i] < drained[j]

\* What was tried is a prefix: all the receiver is past, unless that lagged.
TriedIsAPrefix ==
  /\ drain # "lagged" => Attempted = 1 .. drainRead
  /\ \E n \in Nat : Attempted = 1 .. n

ClosedAtTheEnd == drain = "closed" => drainRead = Len(sent) /\ ~senders

DrainInv == DrainTyped /\ InOrder /\ TriedIsAPrefix /\ ClosedAtTheEnd

\* Nothing was tried before the first message.
LEMMA DrainInitInvariant == DrainInit => DrainInv
<1> SUFFICES ASSUME DrainInit PROVE DrainInv
  OBVIOUS
<1>1. Attempted = {}
  BY DEF DrainInit, Attempted
<1>. QED
  BY <1>1 DEF DrainInit, DrainInv, DrainTyped, InOrder, TriedIsAPrefix, ClosedAtTheEnd

\* Receiving one message appends it or notes its failure: the prefix grows by one.
LEMMA DrainOneKeepsInvariant ==
  ASSUME DrainInv, DrainOne
  PROVE  DrainInv'
<1> DEFINE next == drainRead + 1
<1>1. /\ drain = "recv" /\ drain' = "recv" /\ drainRead' = next /\ next <= Len(sent)
      /\ sent[next] = next /\ UNCHANGED <<sent, senders>>
  BY DrainAssumption DEF DrainOne, HasNext, DrainInv, DrainTyped
<1>2. Attempted = 1 .. drainRead
  BY <1>1 DEF DrainInv, TriedIsAPrefix
<1>3. CASE drained' = Append(drained, next) /\ UNCHANGED failed
  <2>1. Len(drained) \in Nat /\ DOMAIN drained = 1 .. Len(drained)
    BY LenProperties DEF DrainInv, DrainTyped
  <2>2. /\ drained' \in Seq(Nat) /\ DOMAIN drained' = 1 .. Len(drained) + 1
        /\ \A i \in 1 .. Len(drained) : drained'[i] = drained[i]
        /\ drained'[Len(drained) + 1] = next
    BY <1>3, AppendProperties, LenProperties DEF DrainInv, DrainTyped
  <2>3. Attempted' = Attempted \cup {next}
    BY <1>3, <2>1, <2>2 DEF Attempted
  <2>4. \A i \in DOMAIN drained : drained[i] < next
    <3>1. \A i \in DOMAIN drained : drained[i] \in 1 .. drainRead
      BY <1>2 DEF Attempted
    <3>. QED
      BY <3>1 DEF DrainInv, DrainTyped
  <2>5. InOrder'
    BY <2>1, <2>2, <2>4 DEF DrainInv, InOrder
  <2>6. Attempted' = 1 .. next
    BY <1>2, <2>3 DEF DrainInv, DrainTyped
  <2>. QED
    BY <1>1, <1>3, <2>2, <2>5, <2>6
    DEF DrainInv, DrainTyped, TriedIsAPrefix, ClosedAtTheEnd
<1>4. CASE failed' = failed \cup {next} /\ UNCHANGED drained
  <2>1. Attempted' = Attempted \cup {next}
    BY <1>4 DEF Attempted
  <2>2. Attempted' = 1 .. next
    BY <1>2, <2>1 DEF DrainInv, DrainTyped
  <2>. QED
    BY <1>1, <1>4, <2>2
    DEF DrainInv, DrainTyped, InOrder, TriedIsAPrefix, ClosedAtTheEnd
<1>. QED
  BY <1>1, <1>3, <1>4 DEF DrainOne

\* Every other step appends nothing.
LEMMA OtherDrainStepsKeepInvariant ==
  ASSUME DrainInv,
         Send \/ DropSenders \/ DrainLagged \/ DrainClosed \/ DrainAborted \/ UNCHANGED drainVars
  PROVE  DrainInv'
<1>1. UNCHANGED <<drained, failed>>
  BY DEF Send, DropSenders, DrainLagged, DrainClosed, DrainAborted, drainVars
<1>2. Attempted' = Attempted /\ InOrder'
  BY <1>1 DEF Attempted, DrainInv, InOrder
<1>3. CASE Send
  <2>1. /\ sent' \in Seq(Nat) /\ Len(sent') = Len(sent) + 1
        /\ \A i \in DOMAIN sent' : sent'[i] = i
    BY <1>3, AppendProperties DEF Send, DrainInv, DrainTyped
  <2>2. UNCHANGED <<senders, drainRead, drain>> /\ senders
    BY <1>3 DEF Send
  <2>3. DrainTyped' /\ ClosedAtTheEnd'
    BY <1>1, <2>1, <2>2 DEF DrainInv, DrainTyped, ClosedAtTheEnd
  <2>4. TriedIsAPrefix'
    BY <1>2, <2>2 DEF DrainInv, TriedIsAPrefix
  <2>. QED
    BY <1>2, <2>3, <2>4 DEF DrainInv
<1>4. CASE DrainLagged
  <2>1. drain' = "lagged" /\ drainRead' \in Nat /\ drainRead' <= Len(sent)
        /\ UNCHANGED <<sent, senders>>
    BY <1>4, DrainAssumption DEF DrainLagged, Lagged, OldestKept, DrainInv, DrainTyped
  <2>2. DrainTyped' /\ ClosedAtTheEnd'
    BY <1>1, <2>1 DEF DrainInv, DrainTyped, ClosedAtTheEnd
  <2>3. TriedIsAPrefix'
    BY <1>2, <2>1 DEF DrainInv, TriedIsAPrefix
  <2>. QED
    BY <1>2, <2>2, <2>3 DEF DrainInv
<1>5. CASE DropSenders \/ DrainClosed \/ DrainAborted \/ UNCHANGED drainVars
  <2>1. UNCHANGED <<sent, drainRead>> /\ (drain = "lagged" => drain' = "lagged")
    BY <1>5 DEF DropSenders, DrainClosed, DrainAborted, drainVars
  <2>2. senders' \in {senders, FALSE} /\ drain' \in {drain, "closed", "aborted"}
    BY <1>5 DEF DropSenders, DrainClosed, DrainAborted, drainVars
  <2>3. drain' = "closed" => drain = "closed" \/ DrainClosed
    BY <1>5 DEF DropSenders, DrainAborted, drainVars
  <2>4. ClosedAtTheEnd'
    BY <2>1, <2>2, <2>3 DEF DrainClosed, Drained, DrainInv, DrainTyped, ClosedAtTheEnd
  <2>5. DrainTyped' /\ TriedIsAPrefix'
    BY <1>1, <1>2, <2>1, <2>2 DEF DrainInv, DrainTyped, TriedIsAPrefix
  <2>. QED
    BY <1>2, <2>4, <2>5 DEF DrainInv
<1>. QED
  BY <1>3, <1>4, <1>5

\* The journal of a broadcast channel has no hole, whatever lags, fails or is aborted.
THEOREM JournalHasNoGaps == DrainSpec => []DrainHasNoGaps
<1>1. DrainInv /\ [DrainNext]_drainVars => DrainInv'
  BY DrainOneKeepsInvariant, OtherDrainStepsKeepInvariant DEF DrainNext, Drain
<1>2. DrainInv => DrainHasNoGaps
  BY DEF DrainInv, DrainTyped, InOrder, TriedIsAPrefix, ClosedAtTheEnd, DrainHasNoGaps
<1>. QED
  BY <1>1, <1>2, DrainInitInvariant, PTL DEF DrainSpec

\* A process that built something else leaves the journal task as it was.
LEMMA TasksAreDrains == HandlesSpec => DrainSpec
<1>1. HandlesInit => DrainInit
  BY DEF HandlesInit
<1>2. [HandlesNext]_handleVars => [DrainNext]_drainVars
  BY DEF HandlesNext, handleVars, OnBus, OnPhase1, OnPhase3, OnPhase4
<1>. QED
  BY <1>1, <1>2, PTL DEF HandlesSpec, DrainSpec

\* The journal task of the handles, too, leaves no hole.
THEOREM TasksLeaveNoGaps == HandlesSpec => []DrainHasNoGaps
BY TasksAreDrains, JournalHasNoGaps, PTL
=============================================================================
