----------------------------- MODULE JournalDrain -----------------------------
(***************************************************************************)
(* journal_drain_loop of crates/app/src/lib.rs, which Phase 4 spawns once  *)
(* on ingress_tx and once on state_tx: a receiver of a broadcast channel   *)
(* that appends what it gets to a journal, ends for good when it lags, and *)
(* is aborted by AppHandle4::shutdown.  A message is its position.         *)
(***************************************************************************)
EXTENDS Broadcast

CONSTANTS
  DrainCapacity,  \* broadcast::channel(bus.capacity.max(8)), scaled down
  MaxSent         \* bound: messages sent on the channel

ASSUME DrainAssumption == DrainCapacity \in Nat \ {0} /\ MaxSent \in Nat

VARIABLES
  sent,       \* the channel: everything sent on it
  senders,    \* whether a sender of it is left
  drainRead,  \* the loop's receiver
  drain,      \* where the loop is
  drained,    \* messages appended to the journal, in order
  failed      \* messages whose append failed: logged

drainVars == <<sent, senders, drainRead, drain, drained, failed>>

DrainInit ==
  /\ sent = <<>> /\ senders = TRUE /\ drainRead = 0
  /\ drain = "recv" /\ drained = <<>> /\ failed = {}

\* A driver sends; it does not wait for the loop.
Send ==
  /\ senders /\ Len(sent) < MaxSent
  /\ sent' = Append(sent, Len(sent) + 1)
  /\ UNCHANGED <<senders, drainRead, drain, drained, failed>>

\* The handle drops its sender, after the tasks that held the others.
DropSenders ==
  /\ senders /\ senders' = FALSE
  /\ UNCHANGED <<sent, drainRead, drain, drained, failed>>

\* Receive and append, with no await between them; a failed append is only logged.
DrainOne ==
  /\ drain = "recv" /\ HasNext(sent, drainRead, DrainCapacity)
  /\ drainRead' = drainRead + 1
  /\ \/ drained' = Append(drained, sent[drainRead']) /\ UNCHANGED failed
     \/ failed' = failed \cup {sent[drainRead']} /\ UNCHANGED drained
  /\ UNCHANGED <<sent, senders, drain>>

\* Lagged: break out of the loop for good.
DrainLaggedGoesOn ==
  /\ drain = "recv" /\ Lagged(sent, drainRead, DrainCapacity)
  /\ drainRead' = OldestKept(sent, DrainCapacity)
  /\ UNCHANGED <<sent, senders, drain, drained, failed>>
DrainLagged ==
  /\ drain = "recv" /\ Lagged(sent, drainRead, DrainCapacity)
  /\ drainRead' = OldestKept(sent, DrainCapacity)
  /\ drain' = "lagged"
  /\ UNCHANGED <<sent, senders, drained, failed>>

\* Closed is reported once everything sent was received.  Here, as on a lag, the loop flushes
\* its journal and ends; what a flush does is FileJournal's.
DrainClosed ==
  /\ drain = "recv" /\ Drained(sent, drainRead) /\ ~senders
  /\ drain' = "closed"
  /\ UNCHANGED <<sent, senders, drainRead, drained, failed>>

\* abort() ends the task at its await.
DrainAborted ==
  /\ ~senders /\ drain = "recv"
  /\ drain' = "aborted"
  /\ UNCHANGED <<sent, senders, drainRead, drained, failed>>

Drain == DrainOne \/ DrainLagged \/ DrainClosed
DrainNext == Send \/ DropSenders \/ Drain \/ DrainAborted

DrainSpec == DrainInit /\ [][DrainNext]_drainVars

-----------------------------------------------------------------------------
(* Properties *)

\* The journal of a broadcast channel has no hole: but for appends that failed, it is
\* everything up to some message, in order, and everything at all if the loop saw the
\* end of the channel.  What a lag costs is the tail, never the middle.
Attempted == {drained[i] : i \in DOMAIN drained} \cup failed
DrainHasNoGaps ==
  /\ \A i, j \in DOMAIN drained : i < j => drained[i] < drained[j]
  /\ \A m \in Attempted : 1 .. m \subseteq Attempted
  /\ drain = "closed" => Attempted = 1 .. Len(sent)
=============================================================================
