------------------------------- MODULE EventBus -------------------------------
(***************************************************************************)
(* CrossbeamBoundedBus<T> and its CrossbeamConsumer<T>                     *)
(* (crates/event-bus/src/lib.rs): publisher threads sharing one producer   *)
(* handle, one mutex around the whole publish path, a bounded channel and  *)
(* a single consumer that may be dropped at any moment between two calls.  *)
(*                                                                         *)
(* The channel is a log of every envelope it accepted and a cursor:        *)
(* log[taken + 1] .. log[Len(log)] is its content.  A payload is the pair  *)
(* <<publisher, number of the call>>: nothing reads more of it.            *)
(***************************************************************************)
EXTENDS Naturals, Sequences

CONSTANTS
  Publishers,  \* the threads that share the producer handle
  Capacity,    \* bounded(capacity)
  SeqLimit,    \* u64::MAX, the exhaustion sentinel, scaled down
  MaxCalls,    \* bound: calls of publish by each thread
  Nobody       \* the mutex is free

ASSUME EventBusAssumption ==
  /\ Capacity \in Nat \ {0}      \* new(0) is refused with InvalidCapacity
  /\ SeqLimit \in Nat
  /\ MaxCalls \in Nat
  /\ Nobody \notin Publishers

VARIABLES
  log,                 \* every envelope the channel accepted, in order
  taken,               \* how many of them the consumer took
  consumer,            \* where the consumer thread is
  lock,                \* the holder of the publish-state mutex
  next_sequence,       \* PublishState::next_sequence
  published_total, consumed_total, backpressure_total,
  pc,                  \* pc[p]: where publisher p is in publish()
  sequence,            \* sequence[p]: the local of that name
  calls,               \* calls[p]: how often p called publish
  acked                \* the envelopes whose PublishAck was returned

channel == <<log, taken, consumer>>
counters == <<published_total, consumed_total, backpressure_total>>
callers == <<pc, sequence, calls>>
vars == <<channel, lock, next_sequence, counters, callers, acked>>

Payload == Publishers \X (0 .. MaxCalls)
Envelope == [sequence : 0 .. SeqLimit, payload : Payload]

Depth == Len(log) - taken

\* The producer handle is gone once no thread holds it any more.
BusDropped == \A p \in Publishers : pc[p] = "gone"

Sealed(p) == [sequence |-> sequence[p], payload |-> <<p, calls[p]>>]

Init ==
  /\ log = <<>> /\ taken = 0 /\ consumer = "idle"
  /\ lock = Nobody /\ next_sequence = 0
  /\ published_total = 0 /\ consumed_total = 0 /\ backpressure_total = 0
  /\ pc = [p \in Publishers |-> "idle"]
  /\ sequence = [p \in Publishers |-> 0]
  /\ calls = [p \in Publishers |-> 0]
  /\ acked = {}

-----------------------------------------------------------------------------
(* publish() *)

\* A thread calls publish and waits for the mutex.
Call(p) ==
  /\ pc[p] = "idle" /\ calls[p] < MaxCalls
  /\ pc' = [pc EXCEPT ![p] = "waiting"]
  /\ calls' = [calls EXCEPT ![p] = @ + 1]
  /\ UNCHANGED <<channel, lock, next_sequence, counters, sequence, acked>>

Acquire(p) ==
  /\ pc[p] = "waiting" /\ lock = Nobody
  /\ lock' = p
  /\ sequence' = [sequence EXCEPT ![p] = next_sequence]
  /\ pc' = [pc EXCEPT ![p] = "locked"]
  /\ UNCHANGED <<channel, next_sequence, counters, calls, acked>>

\* Every early return drops the guard and leaves next_sequence alone.
ReturnErr(p) ==
  /\ pc' = [pc EXCEPT ![p] = "idle"]
  /\ lock' = Nobody
  /\ UNCHANGED <<channel, next_sequence, counters, sequence, calls, acked>>

\* A mutated early return that gives the sequence number away.
ReturnErrBurns(p) ==
  /\ pc' = [pc EXCEPT ![p] = "idle"]
  /\ lock' = Nobody
  /\ next_sequence' = next_sequence + 1
  /\ UNCHANGED <<channel, counters, sequence, calls, acked>>

ClockUnavailable(p) == pc[p] = "locked" /\ ReturnErr(p)

Exhausted(p) ==
  /\ pc[p] = "locked" /\ sequence[p] = SeqLimit
  /\ ReturnErr(p)

\* seal() rejects the caller's metadata.
EnvelopeRejectedBurns(p) ==
  pc[p] = "locked" /\ sequence[p] # SeqLimit /\ ReturnErrBurns(p)
EnvelopeRejected(p) ==
  pc[p] = "locked" /\ sequence[p] # SeqLimit /\ ReturnErr(p)

\* try_send into a channel with room.
TrySendNoSentinel(p) ==
  /\ pc[p] = "locked" /\ consumer # "dropped" /\ Depth < Capacity
  /\ log' = Append(log, Sealed(p))
  /\ pc' = [pc EXCEPT ![p] = "sent"]
  /\ UNCHANGED <<taken, consumer, lock, next_sequence, counters, sequence, calls, acked>>
TrySend(p) ==
  /\ pc[p] = "locked" /\ sequence[p] # SeqLimit
  /\ consumer # "dropped" /\ Depth < Capacity
  /\ log' = Append(log, Sealed(p))
  /\ pc' = [pc EXCEPT ![p] = "sent"]
  /\ UNCHANGED <<taken, consumer, lock, next_sequence, counters, sequence, calls, acked>>

\* try_send finds the channel full: count it, go into the blocking send with the mutex held.
TrySendFullUnlocks(p) ==
  /\ pc[p] = "locked" /\ sequence[p] # SeqLimit
  /\ consumer # "dropped" /\ Depth = Capacity
  /\ backpressure_total' = backpressure_total + 1
  /\ pc' = [pc EXCEPT ![p] = "blocked"]
  /\ lock' = Nobody
  /\ UNCHANGED <<channel, next_sequence, published_total, consumed_total,
                 sequence, calls, acked>>
TrySendFull(p) ==
  /\ pc[p] = "locked" /\ sequence[p] # SeqLimit
  /\ consumer # "dropped" /\ Depth = Capacity
  /\ backpressure_total' = backpressure_total + 1
  /\ pc' = [pc EXCEPT ![p] = "blocked"]
  /\ UNCHANGED <<channel, lock, next_sequence, published_total, consumed_total,
                 sequence, calls, acked>>

TrySendDisconnected(p) ==
  /\ pc[p] = "locked" /\ sequence[p] # SeqLimit /\ consumer = "dropped"
  /\ ReturnErr(p)

BlockingSend(p) ==
  /\ pc[p] = "blocked" /\ consumer # "dropped" /\ Depth < Capacity
  /\ log' = Append(log, Sealed(p))
  /\ pc' = [pc EXCEPT ![p] = "sent"]
  /\ UNCHANGED <<taken, consumer, lock, next_sequence, counters, sequence, calls, acked>>

\* The blocked publisher is woken with an error: the event was never delivered.
BlockingSendSwallowed(p) ==
  /\ pc[p] = "blocked" /\ consumer = "dropped"
  /\ pc' = [pc EXCEPT ![p] = "sent"]
  /\ UNCHANGED <<channel, lock, next_sequence, counters, sequence, calls, acked>>
BlockingSendUnwoken(p) == FALSE
BlockingSendClosed(p) ==
  pc[p] = "blocked" /\ consumer = "dropped" /\ ReturnErr(p)

\* Bookkeeping after the send, the ack, and the end of the guard's scope.
Finish(p) ==
  /\ pc[p] = "sent"
  /\ next_sequence' = sequence[p] + 1
  /\ published_total' = published_total + 1
  /\ acked' = acked \cup {Sealed(p)}
  /\ lock' = Nobody
  /\ pc' = [pc EXCEPT ![p] = "idle"]
  /\ UNCHANGED <<channel, consumed_total, backpressure_total, sequence, calls>>

\* The thread gives up its handle; the last one to do so drops the bus.
DropHandle(p) ==
  /\ pc[p] = "idle"
  /\ pc' = [pc EXCEPT ![p] = "gone"]
  /\ UNCHANGED <<channel, lock, next_sequence, counters, sequence, calls, acked>>

-----------------------------------------------------------------------------
(* recv() and try_recv(): try_recv's empty case changes nothing. *)

Take ==
  /\ consumer = "idle" /\ Depth > 0
  /\ taken' = taken + 1
  /\ consumer' = "counting"
  /\ UNCHANGED <<log, lock, next_sequence, counters, callers, acked>>

CountTaken ==
  /\ consumer = "counting"
  /\ consumed_total' = consumed_total + 1
  /\ consumer' = "idle"
  /\ UNCHANGED <<log, taken, lock, next_sequence, published_total,
                 backpressure_total, callers, acked>>

\* Only an empty channel without a producer ends the stream.
RecvClosedEarly ==
  /\ consumer = "idle" /\ BusDropped
  /\ consumer' = "closed"
  /\ UNCHANGED <<log, taken, lock, next_sequence, counters, callers, acked>>
RecvClosed ==
  /\ consumer = "idle" /\ Depth = 0 /\ BusDropped
  /\ consumer' = "closed"
  /\ UNCHANGED <<log, taken, lock, next_sequence, counters, callers, acked>>

\* Dropping the receiver disconnects the channel; its content is lost.
DropConsumer ==
  /\ consumer \in {"idle", "closed"}
  /\ consumer' = "dropped"
  /\ UNCHANGED <<log, taken, lock, next_sequence, counters, callers, acked>>

-----------------------------------------------------------------------------
Return(p) ==
  \/ ClockUnavailable(p) \/ Exhausted(p) \/ EnvelopeRejected(p)
  \/ TrySend(p) \/ TrySendFull(p) \/ TrySendDisconnected(p)
  \/ BlockingSend(p) \/ BlockingSendClosed(p) \/ Finish(p)

Consume == Take \/ CountTaken \/ RecvClosed

Next ==
  \/ \E p \in Publishers : Call(p) \/ Acquire(p) \/ Return(p) \/ DropHandle(p)
  \/ Consume
  \/ DropConsumer

Spec == Init /\ [][Next]_vars

\* The consumer loop always calls recv again and every thread inside publish is
\* scheduled.  Nothing is assumed of callers between two calls, of drops, or of
\* the order in which the mutex is handed over.
Fairness ==
  /\ WF_vars(Consume)
  /\ \A p \in Publishers : WF_vars(Acquire(p)) /\ WF_vars(Return(p))

FairSpec == Spec /\ Fairness
-----------------------------------------------------------------------------
(* Properties *)

\* Type invariant; the counter never passes the sentinel.
TypeOK ==
  /\ log \in Seq(Envelope) /\ taken \in 0 .. Len(log)
  /\ consumer \in {"idle", "counting", "closed", "dropped"}
  /\ lock \in Publishers \cup {Nobody}
  /\ next_sequence \in 0 .. SeqLimit
  /\ published_total \in Nat /\ consumed_total \in Nat /\ backpressure_total \in Nat
  /\ pc \in [Publishers -> {"idle", "waiting", "locked", "blocked", "sent", "gone"}]
  /\ sequence \in [Publishers -> 0 .. SeqLimit]
  /\ calls \in [Publishers -> 0 .. MaxCalls]
  /\ acked \subseteq Envelope

\* The bus is the single ordered, gap-free, bounded stream its crate promises: a
\* failed publish consumes no number, two publishers never share one, and the
\* arrival order is the order of the numbers.
Stream == INSTANCE EventStream WITH
            Payloads <- Payload,
            stream <- log, delivered <- taken, open <- consumer # "dropped"
ImplementsStream == Stream!Spec

\* The channel carries exactly the events whose publisher got an ack, plus the
\* one whose publisher has yet to return: a publish that reported an error never
\* delivers its event, and an acknowledged event is never missing.
EventsMatchAcks ==
  {log[i] : i \in 1 .. Len(log)} =
    acked \cup {Sealed(p) : p \in {q \in Publishers : pc[q] = "sent"}}

\* stats() takes no lock, and still lags behind the channel by one event at most
\* on either side.
StatsLagByAtMostOne ==
  /\ published_total \in {Len(log), Len(log) - 1}
  /\ consumed_total \in {taken, taken - 1}

\* When recv reports the end of the stream, every acknowledged event was taken.
ClosedMeansDrained == consumer = "closed" => taken = Len(log)

\* A publisher blocked on a full channel or on the mutex always comes back, with
\* an ack or an error, while the consumer keeps receiving or once it is dropped.
PublishReturns == \A p \in Publishers : pc[p] = "waiting" ~> pc[p] = "idle"

\* An accepted event reaches the consumer unless the consumer is dropped.
AcceptedIsTaken ==
  \A i \in 1 .. SeqLimit : Len(log) >= i ~> (taken >= i \/ consumer = "dropped")
=============================================================================
