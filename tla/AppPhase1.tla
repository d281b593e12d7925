------------------------------ MODULE AppPhase1 -------------------------------
(***************************************************************************)
(* The Phase 1 engine of crates/app/src/lib.rs: wire() starts one thread   *)
(* that runs consume_loop over the bus of EventBus and a FileJournal;      *)
(* AppHandle::shutdown drops the bus and joins that thread.                *)
(*                                                                         *)
(* The journal is here the sequence of records it accepted; FileJournal    *)
(* says what becomes of its bytes.                                         *)
(***************************************************************************)
EXTENDS EventBus

VARIABLES
  loop,       \* where consume_loop is
  journal,    \* envelopes appended, in order
  refused,    \* envelopes whose append failed: logged and skipped
  app         \* AppHandle::shutdown: "running", "joining", "stopped"

appVars == <<loop, journal, refused, app>>
allVars == <<vars, appVars>>

AppInit ==
  /\ Init
  /\ loop = "recv" /\ journal = <<>> /\ refused = {} /\ app = "running"

\* Callers of AppHandle::bus(), which borrow the handle: they are done before shutdown.
Publish ==
  /\ app = "running"
  /\ \E p \in Publishers : Call(p) \/ Acquire(p) \/ Return(p) \/ DropHandle(p)
  /\ UNCHANGED appVars

\* recv returned an envelope.
LoopRecv ==
  /\ loop = "recv" /\ (Take \/ CountTaken)
  /\ loop' = IF consumer = "counting" THEN "append" ELSE "recv"
  /\ UNCHANGED <<journal, refused, app>>

LoopAppendNewest ==
  /\ loop = "append"
  /\ journal' = Append(journal, log[Len(log)])
  /\ loop' = "recv"
  /\ UNCHANGED <<vars, refused, app>>
LoopAppend ==
  /\ loop = "append"
  /\ journal' = Append(journal, log[taken])
  /\ loop' = "recv"
  /\ UNCHANGED <<vars, refused, app>>

\* A failed append is logged; the loop goes on with the next envelope.
LoopAppendFailed ==
  /\ loop = "append"
  /\ refused' = refused \cup {log[taken]}
  /\ loop' = "recv"
  /\ UNCHANGED <<vars, journal, app>>

\* recv returned Err: the handle's own sender is gone too; leave the loop.
LoopClosedKeepsSender == FALSE
LoopClosed ==
  /\ loop = "recv" /\ app = "joining" /\ RecvClosed
  /\ loop' = "flush"
  /\ UNCHANGED <<journal, refused, app>>

\* The final flush, then the thread returns and drops its consumer.
LoopFlush ==
  /\ loop = "flush"
  /\ DropConsumer
  /\ loop' = "done"
  /\ UNCHANGED <<journal, refused, app>>

\* shutdown(self): drop the bus, then join the consumer thread.
Shutdown ==
  /\ app = "running" /\ BusDropped
  /\ app' = "joining"
  /\ UNCHANGED <<vars, loop, journal, refused>>

Join ==
  /\ app = "joining" /\ loop = "done"
  /\ app' = "stopped"
  /\ UNCHANGED <<vars, loop, journal, refused>>

Loop == LoopRecv \/ LoopAppend \/ LoopAppendFailed \/ LoopClosed \/ LoopFlush

AppNext == Publish \/ Loop \/ Shutdown \/ Join

AppSpec == AppInit /\ [][AppNext]_allVars

-----------------------------------------------------------------------------
(* Properties *)

\* The journal is the stream without the records it refused, in bus order: nothing
\* is journaled twice, ahead of its turn, or from a publish that failed.
JournalFollowsBus ==
  /\ \A i \in 1 .. Len(journal) :
       journal[i] \in acked \cup {Sealed(p) : p \in {q \in Publishers : pc[q] = "sent"}}
  /\ \A i \in 1 .. Len(journal), j \in 1 .. Len(journal) :
       i < j => journal[i].sequence < journal[j].sequence

\* shutdown returned: every acknowledged event was journaled or its append failed.
ShutdownLosesNothing ==
  app = "stopped" =>
    acked = {journal[i] : i \in 1 .. Len(journal)} \cup refused
=============================================================================
