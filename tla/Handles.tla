------------------------------- MODULE Handles --------------------------------
(***************************************************************************)
(* What a host of crates/app may have built: a bus and its consumer with   *)
(* nothing around them (as Phase 2 and the tests do), the Phase 1 engine,  *)
(* the Phase 3 engine, or a journal task of Phase 4.  A process builds     *)
(* one of them.                                                            *)
(***************************************************************************)
EXTENDS AppPhase3, JournalDrain

VARIABLE built

handleVars == <<phase3Vars, drainVars, built>>

HandlesInit ==
  /\ Init3 /\ DrainInit
  /\ built \in {"bus", "phase1", "phase3", "phase4"}

OnBus(A) == built = "bus" /\ A /\ UNCHANGED <<appVars, second, drainVars, built>>
OnPhase1(A) == built = "phase1" /\ A /\ UNCHANGED <<second, drainVars, built>>
OnPhase3(A) == built = "phase3" /\ A /\ UNCHANGED <<drainVars, built>>
OnPhase4(A) == built = "phase4" /\ A /\ UNCHANGED <<phase3Vars, built>>

HandlesNext == OnBus(Next) \/ OnPhase1(AppNext) \/ OnPhase3(Next3) \/ OnPhase4(DrainNext)

Consuming == OnBus(Consume) \/ OnPhase1(Loop) \/ OnPhase3(Loop3)
TearingDown == OnPhase1(Join) \/ OnPhase3(Second \/ Teardown)
Publishing(p) ==
  LET inside == Acquire(p) \/ Return(p)
  IN \/ OnBus(inside)
     \/ OnPhase1(inside /\ UNCHANGED appVars)
     \/ OnPhase3(inside /\ UNCHANGED <<appVars, second>>)

\* The consumer threads, the thread in shutdown and whoever is inside publish are
\* scheduled, in every engine.  Nothing is assumed of publishers between two calls, of
\* drops, of callers of shutdown, nor that a holder of a cloned Arc ever drops it.
HandlesSpec ==
  /\ HandlesInit /\ [][HandlesNext]_handleVars
  /\ WF_handleVars(Consuming) /\ WF_handleVars(TearingDown)
  /\ \A p \in Publishers : WF_handleVars(Publishing(p))
=============================================================================
