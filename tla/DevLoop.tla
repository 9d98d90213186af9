------------------------------- MODULE DevLoop -------------------------------
(***************************************************************************)
(* The development loop, nise dev: runDev, the database it gates on, the   *)
(* source watcher, the supervisors of the Go server ("app") and of Vite    *)
(* ("web"), and the process groups they start and stop.                    *)
(*                                                                         *)
(* The source tree is a version that edits advance; a build reads each     *)
(* file at some moment between its start and its end, and is taken to have *)
(* read one version of that span.  Nothing is timed: a grace period, the   *)
(* debounce and the delay after which os/exec stops waiting for the pipes  *)
(* of a dead child may each end at any moment.                             *)
(***************************************************************************)
EXTENDS Integers, FiniteSets

CONSTANTS Commands,  \* the flags nise dev may be given
          MaxSaves,  \* bound on the edits of the source tree
          Broken,    \* the versions that do not compile
          MaxProbes  \* the probes that fit in databaseReadyTimeout

Flags == {"no-db", "stop-db", "embedded"}

ASSUME BoundsAssumption == /\ Commands \subseteq SUBSET Flags
                           /\ MaxSaves \in Nat
                           /\ Broken \subseteq 0 .. MaxSaves
                           /\ MaxProbes \in Nat \ {0}

VARIABLES options,   \* the flags of the command
          main,      \* how far runDev has come
          told,      \* what runDev returns
          cancelled, \* runCtx is done: a signal, or fail
          failure,   \* fail has recorded an error
          container, \* the PostgreSQL container
          pg,        \* the server in it: "init" serves its Unix socket only
          streak,    \* WaitReady's consecutive successes
          tries,     \* WaitReady's probes so far
          proxy,     \* the development proxy's listener
          src,       \* the version of the watched tree
          stamp,     \* the version at which its sizes and times last changed
          watcher,   \* how far Watcher.Run has come
          base,      \* the stamps of the watcher's first scan
          previous,  \* the stamps of its latest scan
          pending,   \* the changes channel holds a value
          settle,    \* the app supervisor's debounce timer
          low,       \* the version at the start of the latest build
          built,     \* the version of the binary in the scratch directory
          serving,   \* the version of the binary last started
          pc,        \* pc[s]: how far s's Run has come
          next,      \* next[s]: what s does once its child is stopped
          current,   \* the supervisors whose current is not nil
          done,      \* the supervisors whose child's Wait has returned
          group,     \* group[s]: the live processes of the child's group
          strays,    \* strays[s]: live processes s no longer supervises
          spared     \* the supervisors that let go of a child without killing
                     \* what was left of its group (history)

failVars == <<cancelled, failure>>
dbVars == <<container, pg, streak, tries>>
watchVars == <<watcher, base, previous>>
buildVars == <<low, built>>
procVars == <<current, done, group, strays, spared>>
treeVars == <<src, stamp>>
supVars == <<pc, next>>
dvars == <<options, main, told, failVars, dbVars, proxy, treeVars, watchVars, pending,
          settle, buildVars, serving, supVars, procVars>>

noDB == "no-db" \in options
stopDB == "stop-db" \in options
embedded == "embedded" \in options

Supervisors == {"app", "web"}

\* A child's process group: the process that was started, and what it forked.
Processes == {"leader", "kin"}

\* runDev has been called; an earlier run may have left its container.
DInit == /\ options \in Commands
        /\ main = "project" /\ told = "none"
        /\ cancelled = FALSE /\ failure = FALSE
        /\ \/ container \in {"absent", "stopped"} /\ pg = "cold"
           \/ container = "running" /\ pg \in {"cold", "init", "warm", "up"}
        /\ streak = 0 /\ tries = 0
        /\ proxy = "none"
        /\ src = 0 /\ stamp = 0 /\ base = 0 /\ previous = 0
        /\ watcher = "none" /\ pending = FALSE
        /\ settle = "off"
        /\ low = 0 /\ built = -1 /\ serving = -1
        /\ pc = [s \in Supervisors |-> "none"]
        /\ next = [s \in Supervisors |-> "spawn"]
        /\ current = {} /\ done = {}
        /\ group = [s \in Supervisors |-> {}]
        /\ strays = [s \in Supervisors |-> {}] /\ spared = {}
-----------------------------------------------------------------------------
(* runDev up to the moment everything runs.  MainGoes is a step of runDev  *)
(* that leaves the goroutines alone.                                       *)

MainGoes(from, to) ==
  /\ main = from /\ main' = to
  /\ UNCHANGED <<options, failVars, treeVars, watchVars, pending, settle, buildVars,
                 serving, supVars, procVars>>

\* Where runDev has created and started nothing yet.
Preliminary == {"project", "environment", "ports", "frontend", "scratch"}

\* An error before the teardown is deferred: runDev returns at once.
ReturnsEarly(from) ==
  /\ MainGoes(from, "returned")
  /\ told' = "error"
  /\ UNCHANGED <<pg, streak, tries, proxy>>

\* A check of the disk, the environment or the ports, which refuses or passes.
Gate(from, to) ==
  \/ MainGoes(from, to) /\ UNCHANGED <<told, dbVars, proxy>>
  \/ ReturnsEarly(from) /\ UNCHANGED container

\* A project root, a recipe that parses and a single command.
ResolveDevProject == Gate("project", "environment")

RefuseProductionEnvironment == Gate("environment", "ports")

ValidateDevPorts == Gate("ports", IF embedded THEN "scratch" ELSE "frontend")

RequireFrontendDependencies == Gate("frontend", "scratch")

\* The directory the server is built into; signals cancel runCtx from here on.
MakeScratch == Gate("scratch", "detect")

DetectRuntime ==
  \/ noDB /\ MainGoes("detect", "prepare") /\ UNCHANGED <<told, dbVars, proxy>>
  \/ ~noDB /\ Gate("detect", "up")

\* Up: leave a running container alone, start a stopped one, create one.  When
\* a command fails the engine may have acted on it all the same.
Up ==
  \/ /\ ~cancelled
     /\ MainGoes("up", "port")
     /\ container' = "running"
     /\ UNCHANGED <<told, pg, streak, tries, proxy>>
  \/ /\ ReturnsEarly("up")
     /\ container' \in IF container = "running" THEN {"running"}
                       ELSE {container, "stopped", "running"}

\* VerifyPublishedPort: an earlier run may have published another port.
VerifyPublishedPort ==
  \/ /\ ~cancelled
     /\ MainGoes("port", "probe")
     /\ UNCHANGED <<told, dbVars, proxy>>
  \/ ReturnsEarly("port") /\ UNCHANGED container

\* PostgreSQL comes up.  On an empty volume a temporary server comes first,
\* which listens on its Unix socket only.
PgStarts ==
  /\ container = "running"
  /\ \/ pg = "cold" /\ pg' \in {"init", "warm"}
     \/ pg = "init" /\ pg' = "warm"
     \/ pg = "warm" /\ pg' = "up"
  /\ UNCHANGED <<options, main, told, failVars, container, streak, tries, proxy, treeVars,
                 watchVars, pending, settle, buildVars, serving, supVars, procVars>>

RequiredReadyStreak == 2

\* Mutant of Accepts: the probe does not ask for TCP.
AcceptsOnSocket == pg \in {"init", "up"}

\* pg_isready over TCP.
Accepts == pg = "up"

\* One turn of WaitReady's loop: the second success in a row opens the gate,
\* the deadline and the end of the context close it.
WaitReady ==
  LET ok == ~cancelled /\ Accepts
      run == IF ok THEN streak + 1 ELSE 0
  IN  IF run >= RequiredReadyStreak
        THEN /\ MainGoes("probe", "prepare")
             /\ UNCHANGED <<told, dbVars, proxy>>
        ELSE \/ /\ tries + 1 < MaxProbes /\ ~cancelled
                /\ MainGoes("probe", "probe")
                /\ streak' = run /\ tries' = tries + 1
                /\ UNCHANGED <<told, container, pg, proxy>>
             \/ /\ tries + 1 >= MaxProbes \/ cancelled
                /\ ReturnsEarly("probe") /\ UNCHANGED container

\* --embedded: the frontend is built once, under runCtx.
BuildFrontendOnce == embedded /\ ~cancelled /\ UNCHANGED proxy

\* The proxy is built and listens.
BuildDevProxy == ~embedded /\ proxy' = "listening"

\* Either may fail, now that the teardown is deferred.
Prepare ==
  \/ /\ MainGoes("prepare", "start")
     /\ BuildFrontendOnce \/ BuildDevProxy
     /\ UNCHANGED <<told, dbVars>>
  \/ /\ MainGoes("prepare", "teardown")
     /\ told' = "error"
     /\ UNCHANGED <<dbVars, proxy>>

\* Every goroutine is started; Vite's only with the proxy.
StartAll ==
  /\ main = "start" /\ main' = "running"
  /\ pc' = [s \in Supervisors |-> IF s = "web" /\ embedded THEN "none" ELSE "build"]
  /\ watcher' = "scan"
  /\ low' = src
  /\ UNCHANGED <<options, told, failVars, dbVars, proxy, treeVars, base, previous, pending,
                 settle, built, serving, next, procVars>>
-----------------------------------------------------------------------------
(* The outside world: an editor, a signal, the proxy's listener and the    *)
(* child processes, which exit and fork as they like.                      *)

\* A file is saved.  When its length stays the same and the time falls within one
\* granule of the last, its stamp does not change.
Save ==
  /\ src < MaxSaves
  /\ src' = src + 1
  /\ stamp' \in {stamp, src + 1}
  /\ UNCHANGED <<options, main, told, failVars, dbVars, proxy, watchVars, pending,
                 settle, buildVars, serving, supVars, procVars>>

\* A signal cancels runCtx; before NotifyContext it would end the process.
Signal ==
  /\ ~cancelled /\ main \notin Preliminary \cup {"returned"}
  /\ cancelled' = TRUE
  /\ UNCHANGED <<options, main, told, failure, dbVars, proxy, treeVars, watchVars, pending,
                 settle, buildVars, serving, supVars, procVars>>

\* Serve fails on its own, and fail ends the loop.
ProxyFails ==
  /\ proxy = "listening" /\ main = "running"
  /\ proxy' = "closed"
  /\ failure' = TRUE /\ cancelled' = TRUE
  /\ UNCHANGED <<options, main, told, dbVars, treeVars, watchVars, pending, settle,
                 buildVars, serving, supVars, procVars>>

\* Only processes change.
ProcessesOnly ==
  UNCHANGED <<options, main, told, failVars, dbVars, proxy, treeVars, watchVars, pending,
              settle, buildVars, serving, supVars, current>>

ChildForks(s) ==
  /\ "leader" \in group[s]
  /\ group' = [group EXCEPT ![s] = @ \cup {"kin"}]
  /\ ProcessesOnly /\ UNCHANGED <<done, strays, spared>>

ProcessExits(s, p) ==
  /\ \/ p \in group[s] /\ group' = [group EXCEPT ![s] = @ \ {p}] /\ UNCHANGED strays
     \/ p \in strays[s] /\ strays' = [strays EXCEPT ![s] = @ \ {p}] /\ UNCHANGED group
  /\ ProcessesOnly /\ UNCHANGED <<done, spared>>

\* Wait returns once the child is dead and its pipes are closed: by the last
\* process of its group, or by os/exec after waitDelay.
Reaped(s) ==
  /\ s \in current \ done
  /\ "leader" \notin group[s]
  /\ done' = done \cup {s}
  /\ ProcessesOnly /\ UNCHANGED <<group, strays, spared>>
-----------------------------------------------------------------------------
(* Watcher.Run.                                                            *)

WatcherScans ==
  /\ watcher = "scan" /\ watcher' = "watch"
  /\ base' = stamp /\ previous' = stamp
  /\ UNCHANGED <<options, main, told, failVars, dbVars, proxy, treeVars, pending, settle,
                 buildVars, serving, supVars, procVars>>

\* A sweep differs from the one before it, in the size or the time of some file.
Changed == previous # stamp

\* Mutant of WatcherTicks: the channel has no buffer, so that the value is
\* lost unless the supervisor is waiting for one.
WatcherTicksUnbuffered ==
  /\ watcher = "watch" /\ Changed
  /\ previous' = stamp
  /\ pending' = (pending \/ pc["app"] = "select")
  /\ UNCHANGED <<options, main, told, failVars, dbVars, proxy, treeVars, watcher, base,
                 settle, buildVars, serving, supVars, procVars>>

\* A sweep that finds a difference offers a value to a channel of one.
WatcherTicks ==
  /\ watcher = "watch" /\ Changed
  /\ previous' = stamp
  /\ pending' = TRUE
  /\ UNCHANGED <<options, main, told, failVars, dbVars, proxy, treeVars, watcher, base,
                 settle, buildVars, serving, supVars, procVars>>

WatcherReturns ==
  /\ watcher = "watch" /\ cancelled
  /\ watcher' = "returned"
  /\ UNCHANGED <<options, main, told, failVars, dbVars, proxy, treeVars, base, previous,
                 pending, settle, buildVars, serving, supVars, procVars>>
-----------------------------------------------------------------------------
(* Supervisor.Run.  SupGoes is a step of s that leaves the rest alone.     *)

SupGoes(s, from, to) ==
  /\ pc[s] = from /\ pc' = [pc EXCEPT ![s] = to]
  /\ UNCHANGED <<options, main, told, dbVars, proxy, treeVars, watchVars>>

\* s drops its child, and with it what the child has forked, dead or not.
Drop(s) ==
  /\ spared' = IF pc[s] = "killed" \/ group[s] = {} THEN spared ELSE spared \cup {s}
  /\ current' = current \ {s}
  /\ done' = done \ {s}
  /\ group' = [group EXCEPT ![s] = {}]
  /\ strays' = [strays EXCEPT ![s] = @ \cup group[s]]

\* The build succeeds, on a version of its span that compiles; or it fails, and
\* the child is left as it is.  Vite has nothing to build.
BuildEnds(s) ==
  \/ /\ s = "web"
     /\ SupGoes(s, "build", "stop")
     /\ UNCHANGED <<failVars, pending, settle, buildVars, serving, next, procVars>>
  \/ /\ s = "app"
     /\ \E v \in low .. src : v \notin Broken /\ built' = v
     /\ SupGoes(s, "build", "stop")
     /\ UNCHANGED <<failVars, pending, settle, low, serving, next, procVars>>
  \/ /\ s = "app"
     /\ cancelled \/ \E v \in low .. src : v \in Broken
     /\ SupGoes(s, "build", "select")
     /\ UNCHANGED <<failVars, pending, settle, buildVars, serving, next, procVars>>

\* stop: SIGTERM to the whole group, or nothing to stop.
Terminate(s) ==
  \/ /\ s \in current
     /\ SupGoes(s, "stop", "term")
     /\ UNCHANGED <<failVars, pending, settle, buildVars, serving, next, procVars>>
  \/ /\ s \notin current
     /\ SupGoes(s, "stop", next[s])
     /\ UNCHANGED <<failVars, pending, settle, buildVars, serving, next, procVars>>

\* The signal cannot be delivered, as to a group whose only member is dead but
\* not reaped (EPERM on some systems): Stop gives up and s drops the child.
TerminateFails(s) ==
  /\ s \in current \ done /\ group[s] = {}
  /\ SupGoes(s, "stop", next[s])
  /\ Drop(s)
  /\ UNCHANGED <<failVars, pending, settle, buildVars, serving, next>>

\* Mutant of KillGroup: only a child that has ended already is killed.
KillGroupOnlyDead(s) ==
  /\ s \in done
  /\ SupGoes(s, "term", "killed")
  /\ group' = [group EXCEPT ![s] = {}]
  /\ UNCHANGED <<failVars, pending, settle, buildVars, serving, next, current, done,
                 strays, spared>>

\* Mutant of KillGroup: the kill is not sent to the whole group.
KillLeader(s) ==
  /\ s \notin done
  /\ SupGoes(s, "term", "killed")
  /\ group' = [group EXCEPT ![s] = @ \ {"leader"}]
  /\ UNCHANGED <<failVars, pending, settle, buildVars, serving, next, current, done,
                 strays, spared>>

\* The grace is over: SIGKILL to the whole group.
KillGroup(s) ==
  /\ s \notin done
  /\ SupGoes(s, "term", "killed")
  /\ group' = [group EXCEPT ![s] = {}]
  /\ UNCHANGED <<failVars, pending, settle, buildVars, serving, next, current, done,
                 strays, spared>>

\* Stop returns as soon as Wait has, killed or not.
Stopped(s) ==
  /\ s \in done
  /\ \E from \in {"term", "killed"} : SupGoes(s, from, next[s])
  /\ Drop(s)
  /\ UNCHANGED <<failVars, pending, settle, buildVars, serving, next>>

\* The child starts; or it cannot be started, Run returns the error and fail
\* ends the loop.
Spawn(s) ==
  \/ /\ SupGoes(s, "spawn", "select")
     /\ current' = current \cup {s}
     /\ done' = done \ {s}
     /\ group' = [group EXCEPT ![s] = {"leader"}]
     /\ strays' = [strays EXCEPT ![s] = @ \cup group[s]]
     /\ serving' = IF s = "app" THEN built ELSE serving
     /\ UNCHANGED <<failVars, pending, settle, buildVars, next, spared>>
  \/ /\ SupGoes(s, "spawn", "returned")
     /\ failure' = TRUE /\ cancelled' = TRUE
     /\ UNCHANGED <<pending, settle, buildVars, serving, next, procVars>>

\* A change arms the timer, or puts it off: Stop takes back even a firing that
\* has not been received.
ChangeArrives ==
  /\ pending /\ pending' = FALSE
  /\ settle' = "armed"
  /\ SupGoes("app", "select", "select")
  /\ UNCHANGED <<failVars, buildVars, serving, next, procVars>>

TimerFires ==
  /\ settle = "armed" /\ settle' = "fired"
  /\ UNCHANGED <<options, main, told, failVars, dbVars, proxy, treeVars, watchVars, pending,
                 buildVars, serving, supVars, procVars>>

\* The tree has settled: build, then stop, then spawn.
Restart ==
  /\ settle = "fired" /\ settle' = "off"
  /\ SupGoes("app", "select", "build")
  /\ next' = [next EXCEPT !["app"] = "spawn"]
  /\ low' = src
  /\ UNCHANGED <<failVars, pending, built, serving, procVars>>

\* The child ended on its own: report it and wait for the next change.
ChildExited(s) ==
  /\ s \in done
  /\ SupGoes(s, "select", "select")
  /\ Drop(s)
  /\ UNCHANGED <<failVars, pending, settle, buildVars, serving, next>>

\* The context is done: Run's deferred calls stop the child and the timer.
Quit(s) ==
  /\ cancelled
  /\ SupGoes(s, "select", "stop")
  /\ next' = [next EXCEPT ![s] = "return"]
  /\ settle' = IF s = "app" THEN "off" ELSE settle
  /\ UNCHANGED <<failVars, pending, buildVars, serving, procVars>>

RunReturns(s) ==
  /\ SupGoes(s, "return", "returned")
  /\ UNCHANGED <<failVars, pending, settle, buildVars, serving, next, procVars>>
-----------------------------------------------------------------------------
(* The end of runDev.                                                      *)

\* The proxy's listener is closed; its requests get three seconds.
ShutdownProxy ==
  /\ cancelled
  /\ MainGoes("running", "waiting")
  /\ proxy' = IF embedded THEN proxy ELSE "closed"
  /\ UNCHANGED <<told, dbVars>>

\* The supervisors and the watcher have returned.
Joined == /\ \A s \in Supervisors : pc[s] \in {"none", "returned"}
          /\ watcher = "returned"

\* Mutant of Wait: the supervisors are not waited for.
WaitNotJoined ==
  /\ MainGoes("waiting", "teardown")
  /\ told' = IF failure THEN "error" ELSE "nil"
  /\ UNCHANGED <<dbVars, proxy>>

\* wg.Wait; what fail recorded until then is what runDev returns.
Wait ==
  /\ Joined
  /\ MainGoes("waiting", "teardown")
  /\ told' = IF failure THEN "error" ELSE "nil"
  /\ UNCHANGED <<dbVars, proxy>>

\* stopDevDatabase, once, called or deferred.  A container that will not stop
\* is reported and left.
Teardown ==
  /\ MainGoes("teardown", "returned")
  /\ \/ ~noDB /\ stopDB /\ container' = "stopped" /\ pg' = "warm"
     \/ UNCHANGED <<container, pg>>
  /\ UNCHANGED <<told, streak, tries, proxy>>
-----------------------------------------------------------------------------
Precheck == \/ ResolveDevProject \/ RefuseProductionEnvironment \/ ValidateDevPorts
            \/ RequireFrontendDependencies \/ MakeScratch

MainStep == \/ Precheck \/ DetectRuntime \/ Up \/ VerifyPublishedPort \/ WaitReady \/ Prepare
            \/ StartAll \/ ShutdownProxy \/ Wait \/ Teardown

WatcherStep == WatcherScans \/ WatcherTicks \/ WatcherReturns

SupStep(s) == \/ BuildEnds(s) \/ Terminate(s) \/ TerminateFails(s) \/ KillGroup(s)
              \/ Stopped(s) \/ Spawn(s) \/ ChildExited(s) \/ Quit(s) \/ RunReturns(s)

AppStep == ChangeArrives \/ Restart \/ SupStep("app")

World == \/ PgStarts \/ Save \/ Signal \/ ProxyFails
         \/ \E s \in Supervisors : \/ ChildForks(s)
                                   \/ \E p \in Processes : ProcessExits(s, p)

DNext == \/ MainStep \/ WatcherStep \/ AppStep \/ SupStep("web") \/ TimerFires
        \/ (\E s \in Supervisors : Reaped(s)) \/ World

DSpec == DInit /\ [][DNext]_dvars

\* runDev, the watcher and the supervisors go on when they can, a build and a
\* grace period end, and the runtime delivers the timer and reaps the dead.
\* Nothing is assumed of the editor, the children, the signal and PostgreSQL.
DFairSpec == /\ DSpec
            /\ WF_dvars(MainStep)
            /\ WF_dvars(WatcherScans \/ WatcherTicks)
            /\ WF_dvars(WatcherReturns)
            /\ WF_dvars(AppStep)
            /\ WF_dvars(SupStep("web"))
            /\ WF_dvars(TimerFires)
            /\ \A s \in Supervisors : WF_dvars(Reaped(s))
-----------------------------------------------------------------------------
(* Properties.                                                             *)

DTypeOK ==
  /\ options \in Commands
  /\ main \in Preliminary \cup {"detect", "up", "port", "probe", "prepare", "start",
                                "running", "waiting", "teardown", "returned"}
  /\ told \in {"none", "nil", "error"}
  /\ cancelled \in BOOLEAN /\ failure \in BOOLEAN
  /\ container \in {"absent", "stopped", "running"}
  /\ pg \in {"cold", "init", "warm", "up"}
  /\ streak \in Nat /\ tries \in Nat
  /\ proxy \in {"none", "listening", "closed"}
  /\ src \in 0 .. MaxSaves /\ stamp \in 0 .. MaxSaves
  /\ base \in 0 .. MaxSaves /\ previous \in 0 .. MaxSaves
  /\ watcher \in {"none", "scan", "watch", "returned"}
  /\ pending \in BOOLEAN
  /\ settle \in {"off", "armed", "fired"}
  /\ low \in 0 .. MaxSaves
  /\ built \in -1 .. MaxSaves /\ serving \in -1 .. MaxSaves
  /\ pc \in [Supervisors -> {"none", "build", "stop", "term", "killed", "spawn",
                             "select", "return", "returned"}]
  /\ next \in [Supervisors -> {"spawn", "return"}]
  /\ current \subseteq Supervisors /\ done \subseteq Supervisors
  /\ group \in [Supervisors -> SUBSET Processes]
  /\ strays \in [Supervisors -> SUBSET Processes]
  /\ spared \subseteq Supervisors

\* A child is never started while the process started before it still runs, nor
\* forgotten while that runs: the server's port is free when the next binds it.
OneServer == \A s \in Supervisors : "leader" \notin strays[s]

\* No process that a supervisor started, the server or the one that runs Vite,
\* ever runs without the database it was started for: it accepted connections
\* before the first start, on TCP, and is stopped after the last one has ended.
ChildrenHaveDatabase ==
  \A s \in Supervisors :
    "leader" \in group[s] \cup strays[s] /\ ~noDB => container = "running" /\ pg = "up"

\* When nise dev has returned, no process it started is running, and none that
\* such a process has forked (Vite is one of pnpm's), unless the parent ended
\* before the group was due to be killed, and os/exec stopped waiting for the
\* pipes that its descendant still held.
NoServerLeft ==
  main = "returned" =>
    \A s \in Supervisors : /\ "leader" \notin group[s] \cup strays[s]
                           /\ "kin" \in group[s] \cup strays[s] => s \in spared

\* "Everything nise dev started is stopped with it", descendants included.
NothingLeft ==
  main = "returned" => \A s \in Supervisors : group[s] \cup strays[s] = {}

\* A failure that comes while the loop shuts down is not lost.
FailureReported == main = "returned" /\ failure => told = "error"

\* A signal or a failure ends the command, whatever the children do.
ShutdownEnds == cancelled ~> main = "returned"

\* Once the edits stop, the server runs what was in the tree at the last edit that
\* changed a stamp, or something newer, unless that does not compile or the loop
\* has ended.  An edit that falls between the first build's read and the watcher's
\* first scan is the one that may be missed although its stamp is new.
Fresh == <>[](\/ cancelled \/ main = "returned"
              \/ \E v \in stamp .. src : v \in Broken
              \/ serving >= stamp
              \/ stamp = base /\ serving < base)
-----------------------------------------------------------------------------
(* The inductive invariant behind OneServer, NoServerLeft and              *)
(* ChildrenHaveDatabase.                                                   *)

\* The process group of a supervisor belongs to its current child, whose Wait
\* returns only once it is dead.
ChildInv ==
  \A s \in Supervisors :
    /\ s \notin current => group[s] = {}
    /\ s \in done => s \in current /\ "leader" \notin group[s]
    /\ pc[s] \in {"none", "spawn", "return", "returned"} => s \notin current
    /\ pc[s] = "killed" => group[s] = {}

\* What a child forked outlives its supervision only when it was spared.
SparedInv == \A s \in Supervisors : "kin" \in strays[s] => s \in spared

\* The goroutines run only while runDev waits for them.
MainInv ==
  /\ main \notin {"running", "waiting"} =>
       \A s \in Supervisors : pc[s] \in {"none", "returned"}
  /\ main \in {"prepare", "start", "running", "waiting", "teardown"} /\ ~noDB =>
       container = "running" /\ pg = "up"
  /\ main = "probe" => container = "running"
  /\ main = "port" => container = "running"
  /\ main \in Preliminary \cup {"detect", "up", "port"} => streak = 0
  /\ main = "probe" /\ streak > 0 => pg = "up"

\* What fails does so while runDev waits, and what it returns was decided after
\* the last goroutine that could fail was joined.
FailureInv ==
  /\ failure => main \in {"running", "waiting", "teardown", "returned"}
  /\ main \in {"teardown", "returned"} /\ failure => told = "error"

\* Children are supervised until they are dead, and supervisors are joined.
DInv == DTypeOK /\ ChildInv /\ SparedInv /\ MainInv /\ OneServer
=============================================================================
