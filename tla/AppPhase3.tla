------------------------------ MODULE AppPhase3 -------------------------------
(***************************************************************************)
(* The Phase 3 engine of crates/app/src/lib.rs.  wire_phase3() gives the   *)
(* ingress bus to two kinds of publishers: producer_loop, a tokio task     *)
(* that shutdown aborts, and whoever cloned the Arc that ingress_bus()     *)
(* lends out.  Two threads run consume_loop, one on the ingress bus (the   *)
(* loop of AppPhase1) and one on the state bus, which nobody publishes on. *)
(* AppHandle3::shutdown takes all of that down in a fixed order.           *)
(***************************************************************************)
EXTENDS AppPhase1

CONSTANT Producer  \* producer_loop, one of the publishers

ASSUME Phase3Assumption == Producer \in Publishers

VARIABLE second  \* where the state bus's consume_loop is

phase3Vars == <<allVars, second>>

Init3 == AppInit /\ second = "recv"

\* An Arc outlives the handle: its holders may publish at any time until they drop it.
\* producer_loop ends when its stream does; every publish of its own is one poll.
Publish3 ==
  /\ \E p \in Publishers : Call(p) \/ Acquire(p) \/ Return(p) \/ DropHandle(p)
  /\ UNCHANGED <<appVars, second>>

-----------------------------------------------------------------------------
(* AppHandle3::shutdown *)

\* producer_task.abort() only asks: the task ends at its next await.
Shutdown3 ==
  /\ app = "running"
  /\ app' = "aborting"
  /\ UNCHANGED <<vars, loop, journal, refused, second>>

\* The abort takes effect between two publishes, never inside one.
ProducerAborted ==
  /\ app = "aborting"
  /\ DropHandle(Producer)
  /\ UNCHANGED <<appVars, second>>

\* The task was awaited, so its Arc is dropped; the handle drops its own.
DropIngressBusUnawaited ==
  /\ app = "aborting"
  /\ app' = "stopped"
  /\ UNCHANGED <<vars, loop, journal, refused, second>>
DropIngressBus ==
  /\ app = "aborting" /\ pc[Producer] = "gone"
  /\ app' = "joining"
  /\ UNCHANGED <<vars, loop, journal, refused, second>>

\* The ingress consumer is joined, then the state bus goes.
DropStateBus ==
  /\ app = "joining" /\ loop = "done"
  /\ app' = "closing"
  /\ UNCHANGED <<vars, loop, journal, refused, second>>

\* The second consume_loop gets nothing but the end of its bus, and flushes.
SecondClosed ==
  /\ second = "recv" /\ app = "closing"
  /\ second' = "flush"
  /\ UNCHANGED allVars

SecondFlush ==
  /\ second = "flush"
  /\ second' = "done"
  /\ UNCHANGED allVars

Join3 ==
  /\ app = "closing" /\ second = "done"
  /\ app' = "stopped"
  /\ UNCHANGED <<vars, loop, journal, refused, second>>

Loop3 == Loop /\ UNCHANGED second
Second == SecondClosed \/ SecondFlush
Teardown == ProducerAborted \/ DropIngressBus \/ DropStateBus \/ Join3

Next3 == Publish3 \/ Loop3 \/ Second \/ Shutdown3 \/ Teardown

Spec3 == Init3 /\ [][Next3]_phase3Vars

-----------------------------------------------------------------------------
(* Properties *)

\* shutdown returns, of the Phase 1 handle always and of the Phase 3 handle unless
\* somebody else still holds a clone of the bus's Arc: a producer blocked on the full bus,
\* or waiting for its mutex, comes back, is aborted, and both threads are joined.
ShutdownReturns ==
  app # "running" ~>
    app = "stopped" \/ \E p \in Publishers \ {Producer} : pc[p] # "gone"
=============================================================================
