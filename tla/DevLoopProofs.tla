--------------------------- MODULE DevLoopProofs ---------------------------
(***************************************************************************)
(* For any commands, number of edits and number of probes: no server is    *)
(* started beside another, runs without its database or outlives nise dev, *)
(* and a descendant of one does only when its group was never killed.      *)
(***************************************************************************)
EXTENDS DevLoop, TLAPS

USE BoundsAssumption

\* runDev starts in a state that satisfies the invariant.
LEMMA InitInv == DInit => DInv
<1> SUFFICES ASSUME DInit PROVE DInv
  OBVIOUS
<1>1. cancelled \in BOOLEAN /\ failure \in BOOLEAN /\ pending \in BOOLEAN
  BY Zenon DEF DInit
<1>2. DTypeOK
  BY <1>1 DEF DInit, DTypeOK, Supervisors, Processes, Preliminary
<1>3. ChildInv /\ SparedInv /\ MainInv /\ OneServer
  BY DEF DInit, ChildInv, SparedInv, MainInv, OneServer, Supervisors, Preliminary
<1> QED
  BY <1>2, <1>3 DEF DInv

\* Every step keeps the types of the Boolean variables.
LEMMA BooleanStep ==
  DTypeOK /\ DNext => cancelled' \in BOOLEAN /\ failure' \in BOOLEAN /\ pending' \in BOOLEAN
<1> SUFFICES ASSUME DTypeOK, DNext
             PROVE  cancelled' \in BOOLEAN /\ failure' \in BOOLEAN /\ pending' \in BOOLEAN
  OBVIOUS
<1>0. cancelled \in BOOLEAN /\ failure \in BOOLEAN /\ pending \in BOOLEAN
  BY Zenon DEF DTypeOK
<1> USE DEF failVars
<1>1. CASE MainStep
  BY <1>0, <1>1, Zenon DEF MainStep, Precheck, ResolveDevProject,
       RefuseProductionEnvironment, ValidateDevPorts, RequireFrontendDependencies,
       MakeScratch, Gate, DetectRuntime, Up, VerifyPublishedPort, WaitReady,
       Prepare, BuildFrontendOnce, BuildDevProxy, StartAll, ShutdownProxy, Wait, Teardown,
       ReturnsEarly, MainGoes
<1>2. CASE WatcherStep
  BY <1>0, <1>2, Zenon DEF WatcherStep, WatcherScans, WatcherTicks, WatcherReturns
<1>3. ASSUME NEW s \in Supervisors, SupStep(s)
      PROVE  cancelled' \in BOOLEAN /\ failure' \in BOOLEAN /\ pending' \in BOOLEAN
  BY <1>0, <1>3, Zenon DEF SupStep, BuildEnds, Terminate, TerminateFails, KillGroup, Stopped,
       Spawn, ChildExited, Quit, RunReturns
<1>4. CASE ChangeArrives \/ Restart \/ TimerFires
  BY <1>0, <1>4, Zenon DEF ChangeArrives, Restart, TimerFires
<1>5. CASE World \/ \E s \in Supervisors : Reaped(s)
  BY <1>0, <1>5, Zenon DEF World, PgStarts, Save, Signal, ProxyFails, ChildForks,
       ProcessExits, Reaped, ProcessesOnly
<1> QED
  BY <1>1, <1>2, <1>3, <1>4, <1>5 DEF DNext, AppStep, Supervisors

\* Every step keeps the types.
LEMMA TypeStep == DTypeOK /\ DNext => DTypeOK'
<1> SUFFICES ASSUME DTypeOK, DNext PROVE DTypeOK'
  OBVIOUS
<1>0. cancelled' \in BOOLEAN /\ failure' \in BOOLEAN /\ pending' \in BOOLEAN
  BY BooleanStep
<1> USE <1>0 DEF DTypeOK, failVars, treeVars, dbVars, watchVars, buildVars, procVars, supVars
<1>1. CASE MainStep
  <2> USE DEF MainGoes, ReturnsEarly
  <2> USE DEF Gate
  <2>0. CASE Precheck
    BY <2>0 DEF Precheck, ResolveDevProject, RefuseProductionEnvironment, ValidateDevPorts,
         RequireFrontendDependencies, MakeScratch, Preliminary
  <2>1. CASE DetectRuntime \/ Up \/ VerifyPublishedPort
    BY <2>1 DEF DetectRuntime, Up, VerifyPublishedPort
  <2>2. CASE WaitReady
    BY <2>2 DEF WaitReady, RequiredReadyStreak
  <2>3. CASE Prepare \/ ShutdownProxy \/ Wait \/ Teardown
    BY <2>3 DEF Prepare, BuildFrontendOnce, BuildDevProxy, ShutdownProxy, Wait, Teardown
  <2>4. CASE StartAll
    BY <2>4 DEF StartAll
  <2> QED
    BY <1>1, <2>0, <2>1, <2>2, <2>3, <2>4 DEF MainStep
<1>2. CASE WatcherStep
  BY <1>2 DEF WatcherStep, WatcherScans, WatcherTicks, WatcherReturns
<1>3. ASSUME NEW s \in Supervisors, SupStep(s) PROVE DTypeOK'
  <2> USE DEF SupGoes, Drop
  <2>1. CASE BuildEnds(s)
    BY <2>1 DEF BuildEnds
  <2>2. CASE Terminate(s) \/ RunReturns(s) \/ Quit(s)
    BY <2>2 DEF Terminate, RunReturns, Quit
  <2>3. CASE TerminateFails(s) \/ Stopped(s) \/ ChildExited(s)
    BY <2>3 DEF TerminateFails, Stopped, ChildExited
  <2>4. CASE KillGroup(s)
    BY <2>4 DEF KillGroup
  <2>5. CASE Spawn(s)
    BY <2>5 DEF Spawn, Processes
  <2> QED
    BY <1>3, <2>1, <2>2, <2>3, <2>4, <2>5 DEF SupStep
<1>4. CASE ChangeArrives \/ Restart \/ TimerFires
  <2>1. CASE ChangeArrives
    BY <2>1 DEF ChangeArrives, SupGoes, Supervisors
  <2>2. CASE Restart
    BY <2>2 DEF Restart, SupGoes, Supervisors
  <2>3. CASE TimerFires
    BY <2>3 DEF TimerFires
  <2> QED
    BY <1>4, <2>1, <2>2, <2>3
<1>5. CASE PgStarts \/ Save \/ Signal \/ ProxyFails
  BY <1>5 DEF PgStarts, Save, Signal, ProxyFails
<1>6. ASSUME NEW s \in Supervisors,
             ChildForks(s) \/ Reaped(s) \/ \E p \in Processes : ProcessExits(s, p)
      PROVE  DTypeOK'
  BY <1>6 DEF ChildForks, Reaped, ProcessExits, ProcessesOnly, Processes
<1> QED
  BY <1>1, <1>2, <1>3, <1>4, <1>5, <1>6 DEF DNext, AppStep, World, Supervisors

\* A supervisor's own step keeps its child and its pc in agreement, and forgets
\* no server.
LEMMA SupervisorStep ==
  ASSUME DInv, DTypeOK', NEW s \in Supervisors, SupStep(s)
  PROVE  ChildInv' /\ SparedInv' /\ OneServer'
<1> USE DEF DInv, DTypeOK, ChildInv, SparedInv, OneServer, SupGoes, Drop, procVars
<1>1. CASE BuildEnds(s)
  BY <1>1 DEF BuildEnds
<1>2. CASE Terminate(s)
  BY <1>2 DEF Terminate
<1>3. CASE TerminateFails(s)
  BY <1>3 DEF TerminateFails
<1>4. CASE KillGroup(s)
  BY <1>4 DEF KillGroup
<1>5. CASE Stopped(s)
  BY <1>5 DEF Stopped
<1>6. CASE Spawn(s)
  BY <1>6 DEF Spawn
<1>7. CASE ChildExited(s)
  BY <1>7 DEF ChildExited
<1>8. CASE Quit(s) \/ RunReturns(s)
  BY <1>8 DEF Quit, RunReturns
<1> QED
  BY <1>1, <1>2, <1>3, <1>4, <1>5, <1>6, <1>7, <1>8 DEF SupStep

\* Every step keeps children and supervisors in agreement.
LEMMA ChildStep == DInv /\ DTypeOK' /\ DNext => ChildInv' /\ SparedInv' /\ OneServer'
<1> SUFFICES ASSUME DInv, DTypeOK', DNext PROVE ChildInv' /\ SparedInv' /\ OneServer'
  OBVIOUS
<1>1. CASE MainStep
  <2>1. CASE StartAll
    BY <2>1 DEF StartAll, DInv, DTypeOK, ChildInv, SparedInv, MainInv, OneServer, procVars
  <2>2. CASE ~StartAll
    BY <1>1, <2>2 DEF MainStep, Precheck, ResolveDevProject,
       RefuseProductionEnvironment, ValidateDevPorts, RequireFrontendDependencies,
       MakeScratch, Gate, DetectRuntime, Up, VerifyPublishedPort, WaitReady, Prepare,
         ShutdownProxy, Wait, Teardown, ReturnsEarly, MainGoes, supVars, procVars, DInv,
         ChildInv, SparedInv, OneServer
  <2> QED
    BY <2>1, <2>2
<1>2. CASE WatcherStep
  BY <1>2 DEF WatcherStep, WatcherScans, WatcherTicks, WatcherReturns, supVars, procVars,
       DInv, ChildInv, SparedInv, OneServer
<1>3. CASE ChangeArrives \/ Restart \/ TimerFires
  BY <1>3 DEF ChangeArrives, Restart, TimerFires, SupGoes, supVars, procVars, DInv, DTypeOK,
       ChildInv, SparedInv, OneServer, Supervisors
<1>4. CASE PgStarts \/ Save \/ Signal \/ ProxyFails
  BY <1>4 DEF PgStarts, Save, Signal, ProxyFails, supVars, procVars, DInv, ChildInv,
       SparedInv, OneServer
<1>5. ASSUME NEW s \in Supervisors,
             ChildForks(s) \/ Reaped(s) \/ \E p \in Processes : ProcessExits(s, p)
      PROVE  ChildInv' /\ SparedInv' /\ OneServer'
  BY <1>5 DEF ChildForks, Reaped, ProcessExits, ProcessesOnly, supVars, DInv, DTypeOK,
       ChildInv, SparedInv, OneServer
<1> QED
  BY <1>1, <1>2, <1>3, <1>4, <1>5, SupervisorStep DEF DNext, AppStep, World, Supervisors

\* Every step keeps runDev in agreement with its goroutines and its database.
LEMMA MainInvStep == DInv /\ DNext => MainInv'
<1> SUFFICES ASSUME DInv, DNext PROVE MainInv'
  OBVIOUS
<1> USE DEF DInv, DTypeOK, MainInv, failVars, dbVars, supVars, noDB, Preliminary
<1>1. CASE MainStep
  <2> USE DEF MainGoes, ReturnsEarly
  <2>0. CASE Precheck
    BY <2>0 DEF Precheck, ResolveDevProject, RefuseProductionEnvironment, ValidateDevPorts,
         RequireFrontendDependencies, MakeScratch, Gate
  <2>1. CASE DetectRuntime
    BY <2>1 DEF DetectRuntime, Gate
  <2>2. CASE Up \/ VerifyPublishedPort
    BY <2>2 DEF Up, VerifyPublishedPort
  <2>3. CASE WaitReady
    BY <2>3 DEF WaitReady, RequiredReadyStreak, Accepts
  <2>4. CASE Prepare \/ ShutdownProxy
    BY <2>4 DEF Prepare, BuildFrontendOnce, BuildDevProxy, ShutdownProxy
  <2>5. CASE StartAll
    BY <2>5 DEF StartAll
  <2>6. CASE Wait \/ Teardown
    BY <2>6 DEF Wait, Teardown, Joined
  <2> QED
    BY <1>1, <2>0, <2>1, <2>2, <2>3, <2>4, <2>5, <2>6 DEF MainStep
<1>2. CASE WatcherStep
  BY <1>2 DEF WatcherStep, WatcherScans, WatcherTicks, WatcherReturns
<1>3. ASSUME NEW s \in Supervisors, SupStep(s) PROVE MainInv'
  <2>1. \A t \in Supervisors : pc[t] \in {"none", "returned"} => pc'[t] = pc[t]
    BY <1>3 DEF SupStep, BuildEnds, Terminate, TerminateFails, KillGroup, Stopped, Spawn,
         ChildExited, Quit, RunReturns, SupGoes
  <2>2. UNCHANGED <<options, main, dbVars>>
    BY <1>3 DEF SupStep, BuildEnds, Terminate, TerminateFails, KillGroup, Stopped, Spawn,
         ChildExited, Quit, RunReturns, SupGoes
  <2> QED
    BY <2>1, <2>2
<1>4. CASE ChangeArrives \/ Restart \/ TimerFires
  BY <1>4 DEF ChangeArrives, Restart, TimerFires, SupGoes, Supervisors
<1>5. CASE PgStarts \/ Save \/ Signal \/ ProxyFails
  BY <1>5 DEF PgStarts, Save, Signal, ProxyFails
<1>6. ASSUME NEW s \in Supervisors,
             ChildForks(s) \/ Reaped(s) \/ \E p \in Processes : ProcessExits(s, p)
      PROVE  MainInv'
  BY <1>6 DEF ChildForks, Reaped, ProcessExits, ProcessesOnly
<1> QED
  BY <1>1, <1>2, <1>3, <1>4, <1>5, <1>6 DEF DNext, AppStep, World, Supervisors

\* Children are supervised until they are dead and supervisors are joined,
\* whatever the flags and however often the tree changes.
THEOREM Invariant == DSpec => []DInv
<1>1. DInit => DInv
  BY InitInv
<1>2. DInv /\ [DNext]_dvars => DInv'
  <2> SUFFICES ASSUME DInv, [DNext]_dvars PROVE DInv'
    OBVIOUS
  <2>1. CASE DNext
    <3>1. DTypeOK'
      BY <2>1, TypeStep DEF DInv
    <3> QED
      BY <2>1, <3>1, ChildStep, MainInvStep DEF DInv
  <2>2. CASE UNCHANGED dvars
    BY <2>2 DEF dvars, failVars, treeVars, dbVars, watchVars, buildVars, procVars, supVars, DInv,
         DTypeOK, ChildInv, SparedInv, MainInv, OneServer, noDB
  <2> QED
    BY <2>1, <2>2
<1> QED
  BY <1>1, <1>2, PTL DEF DSpec

\* A server or Vite runs only while the database it was started for does:
\* WaitReady gates the first start, and the teardown follows the last stop.
THEOREM DatabaseFirstAndLast == DSpec => []ChildrenHaveDatabase
<1>1. DInv => ChildrenHaveDatabase
  <2> SUFFICES ASSUME DInv, NEW s \in Supervisors, ~noDB,
                      "leader" \in group[s] \cup strays[s]
               PROVE  container = "running" /\ pg = "up"
    BY DEF ChildrenHaveDatabase
  <2>1. s \in current
    BY DEF DInv, ChildInv, SparedInv, OneServer
  <2>2. main \in {"running", "waiting"}
    BY <2>1 DEF DInv, ChildInv, MainInv
  <2> QED
    BY <2>2 DEF DInv, MainInv
<1> QED
  BY <1>1, Invariant, PTL

\* When nise dev has returned, no process it started is running, and one that such
\* a process forked only if Stop returned before the group was due to be killed:
\* Run's deferred stop and wg.Wait cover every way out.
THEOREM LeavesNoServer == DSpec => []NoServerLeft
<1>1. DInv => NoServerLeft
  BY DEF DInv, ChildInv, SparedInv, MainInv, OneServer, NoServerLeft
<1> QED
  BY <1>1, Invariant, PTL

\* Nothing can fail once runDev has decided what to return, and until then what
\* failed is remembered.
LEMMA FailureStep == DInv /\ FailureInv /\ [DNext]_dvars => FailureInv'
<1> SUFFICES ASSUME DInv, FailureInv, [DNext]_dvars PROVE FailureInv'
  OBVIOUS
<1> USE DEF FailureInv, failVars
<1>1. CASE UNCHANGED dvars
  BY <1>1 DEF dvars
<1>2. CASE MainStep
  <2> USE DEF MainGoes, ReturnsEarly, Gate
  <2>1. CASE Precheck \/ DetectRuntime \/ Up \/ VerifyPublishedPort \/ WaitReady
    BY <2>1 DEF Precheck, ResolveDevProject, RefuseProductionEnvironment, ValidateDevPorts,
         RequireFrontendDependencies, MakeScratch, DetectRuntime, Up, VerifyPublishedPort,
         WaitReady, Preliminary
  <2>2. CASE Prepare \/ StartAll \/ ShutdownProxy \/ Wait \/ Teardown
    BY <2>2 DEF Prepare, StartAll, ShutdownProxy, Wait, Teardown
  <2> QED
    BY <1>2, <2>1, <2>2 DEF MainStep
<1>3. CASE WatcherStep
  BY <1>3 DEF WatcherStep, WatcherScans, WatcherTicks, WatcherReturns
<1>4. ASSUME NEW s \in Supervisors, SupStep(s) PROVE FailureInv'
  <2>1. UNCHANGED <<main, told>>
    BY <1>4 DEF SupStep, BuildEnds, Terminate, TerminateFails, KillGroup, Stopped, Spawn,
         ChildExited, Quit, RunReturns, SupGoes
  <2>2. failure' = failure \/ pc[s] = "spawn"
    BY <1>4 DEF SupStep, BuildEnds, Terminate, TerminateFails, KillGroup, Stopped, Spawn,
         ChildExited, Quit, RunReturns, SupGoes
  <2>3. pc[s] = "spawn" => main \in {"running", "waiting"}
    BY DEF DInv, MainInv
  <2> QED
    BY <2>1, <2>2, <2>3
<1>5. CASE ChangeArrives \/ Restart \/ TimerFires
  BY <1>5 DEF ChangeArrives, Restart, TimerFires, SupGoes
<1>6. CASE PgStarts \/ Save \/ Signal \/ ProxyFails
  BY <1>6 DEF PgStarts, Save, Signal, ProxyFails
<1>7. ASSUME NEW s \in Supervisors,
             ChildForks(s) \/ Reaped(s) \/ \E p \in Processes : ProcessExits(s, p)
      PROVE  FailureInv'
  BY <1>7 DEF ChildForks, Reaped, ProcessExits, ProcessesOnly
<1> QED
  BY <1>1, <1>2, <1>3, <1>4, <1>5, <1>6, <1>7 DEF DNext, AppStep, World, Supervisors

\* A child that cannot be started, or a proxy that fails, while the loop runs or
\* shuts down is what runDev returns: fail records it before wg.Wait is over.
THEOREM FailureIsTold == DSpec => []FailureReported
<1>1. DInit => FailureInv
  BY DEF DInit, FailureInv
<1>2. FailureInv => FailureReported
  BY DEF FailureInv, FailureReported
<1> QED
  BY <1>1, <1>2, FailureStep, Invariant, PTL DEF DSpec
=============================================================================
