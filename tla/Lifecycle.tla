----------------------------- MODULE Lifecycle -----------------------------
(***************************************************************************)
(* How a generated application starts its components and stops them        *)
(* (runtime/lifecycle and runtime/health, wired by app.Run).               *)
(*                                                                         *)
(* Five kinds of goroutine meet here: app.Run, which waits for a signal or *)
(* for the group; Group.Run, which waits for the first component to return *)
(* and tears down the other; the Run of each component; and the Shutdown   *)
(* calls, which two callers may make on one component at once: app.Run     *)
(* after a signal ("main") and Group.Run after a failure ("group").        *)
(*                                                                         *)
(* Time is kept in timers that count down to a deadline.  A goroutine that *)
(* can go on does so before time passes; requests, jobs, failures and the  *)
(* signal take as long as they like.                                       *)
(***************************************************************************)
EXTENDS Integers, Sequences, FiniteSets

CONSTANTS Requests,         \* the HTTP requests that may arrive
          DrainPeriods,     \* the drain periods a server may be given
          ShutdownTimeout,  \* DefaultShutdownTimeout, of main, group and server
          WorkerDrain       \* workerDrainTimeout

ASSUME PeriodsAssumption ==
  /\ DrainPeriods \subseteq Nat /\ ShutdownTimeout \in Nat /\ WorkerDrain \in Nat
  /\ \A d \in DrainPeriods : d < ShutdownTimeout
  /\ WorkerDrain < ShutdownTimeout

VARIABLES items,    \* the components the mode selected
          drainPeriod, \* HTTPServer.drainPeriod
          gate,     \* Gate.ready
          quiet,    \* how long the gate has been down, up to drainPeriod
          signal,   \* the context of app.Run is done
          main,     \* how far app.Run has come
          told,     \* what app.Run returned
          run,      \* run[c]: how far c's Run has come
          outcome,  \* outcome[c]: what c's Run returned
          results,  \* the channel on which Group.Run learns of returns
          group,    \* how far Group.Run has come
          first,    \* the component that returned first, for shutdownExcept
          firstErr, \* Group.Run saw an error
          call,     \* call[by][c]: how far by's call of c's Shutdown has come
          left,     \* left[t]: time until timer t fires
          once,     \* HTTPServer.shutdownOnce
          stopped,  \* http.Server.Shutdown has closed the listener
          active,   \* the requests in flight
          served,   \* the requests that finished on their own
          cut,      \* the requests whose connection was closed under them
          early,    \* Worker.Shutdown was called before Worker.Run
          cancelled, \* the context of the worker's loop is done
          abandoned \* client.Stop gave up with jobs still running

setup == <<items, drainPeriod>>
vars == <<setup, gate, quiet, signal, main, told, run, outcome, results, group,
          first, firstErr, call, left, once, stopped, active, served, cut, early,
          cancelled, abandoned>>

Components == {"web", "worker"}
Callers == {"main", "group"}
Timers == {"main", "group", "drain", "stop"}

mainVars == <<signal, main, told>>
runVars == <<run, outcome, results>>
groupVars == <<group, first, firstErr>>
webVars == <<gate, quiet, once, stopped>>
reqVars == <<active, served, cut>>
workerVars == <<early, cancelled, abandoned>>

\* A component's Run: its loop is over at "leaving", Run has returned at
\* "returned".
Over == {"leaving", "returned"}

\* How far a call of Shutdown has come.
Answers == {"none", "called", "sleep", "inner", "wait", "nil", "timeout"}

Modes == SUBSET Components \ {{}}

\* Every value is as app.Run leaves it once it has opened the gate and started
\* Group.Run, whose goroutines have not run yet.
Init == /\ items \in Modes
        /\ drainPeriod \in DrainPeriods
        /\ gate = TRUE
        /\ quiet = 0
        /\ signal = FALSE
        /\ main = "select"
        /\ told = "none"
        /\ run = [c \in Components |-> "new"]
        /\ outcome = [c \in Components |-> "none"]
        /\ results = <<>>
        /\ group = "receive"
        /\ first = "none"
        /\ firstErr = FALSE
        /\ call = [by \in Callers |-> [c \in Components |-> "none"]]
        /\ left = [t \in Timers |-> 0]
        /\ once = "new"
        /\ stopped = FALSE
        /\ active = {} /\ served = {} /\ cut = {}
        /\ early = FALSE
        /\ cancelled = FALSE /\ abandoned = FALSE

Goto(c, step) == run' = [run EXCEPT ![c] = step]
Answer(by, c, what) == call' = [call EXCEPT ![by][c] = what]
Timer(t, d) == left' = [left EXCEPT ![t] = d]

\* c's loop ends with err, or with nil.
Leave(c, err) == /\ Goto(c, "leaving")
                 /\ outcome' = [outcome EXCEPT ![c] = err]
-----------------------------------------------------------------------------
(* HTTPServer.Run and the requests it serves.                              *)

\* net.Listen succeeds and Serve begins; Serve returns at once when Shutdown
\* came first; or net.Listen fails.
WebListens ==
  /\ "web" \in items /\ run["web"] = "new"
  /\ \/ ~stopped /\ Goto("web", "serving") /\ UNCHANGED outcome
     \/ stopped /\ Leave("web", "nil")
     \/ Leave("web", "error")
  /\ UNCHANGED <<setup, mainVars, results, groupVars, call, left, webVars, reqVars,
                 workerVars>>

Accept(r) ==
  /\ run["web"] = "serving" /\ ~stopped
  /\ r \notin active \cup served \cup cut
  /\ active' = active \cup {r}
  /\ UNCHANGED <<setup, mainVars, runVars, groupVars, call, left, webVars, served, cut,
                 workerVars>>

Finish(r) ==
  /\ r \in active
  /\ active' = active \ {r}
  /\ served' = served \cup {r}
  /\ UNCHANGED <<setup, mainVars, runVars, groupVars, call, left, webVars, cut,
                 workerVars>>

\* Serve fails on its own: the listener is gone, the requests are not.
WebFails ==
  /\ run["web"] = "serving" /\ ~stopped
  /\ Leave("web", "error")
  /\ UNCHANGED <<setup, mainVars, results, groupVars, call, left, webVars, reqVars,
                 workerVars>>

\* Serve returns ErrServerClosed as soon as the listener is closed.
WebCloses ==
  /\ run["web"] = "serving" /\ stopped
  /\ Leave("web", "nil")
  /\ UNCHANGED <<setup, mainVars, results, groupVars, call, left, webVars, reqVars,
                 workerVars>>
-----------------------------------------------------------------------------
(* HTTPServer.Shutdown.                                                    *)

\* Mutant of WebDrains: a second caller does not wait for the drain.
WebDrainsOnlyFirst(by) ==
  /\ call[by]["web"] = "called"
  /\ IF once = "new"
       THEN /\ gate' = FALSE
            /\ once' = "running"
            /\ Timer("drain", drainPeriod)
            /\ Answer(by, "web", "sleep")
            /\ UNCHANGED stopped
       ELSE /\ stopped' = TRUE
            /\ Answer(by, "web", "inner")
            /\ UNCHANGED <<gate, once, left>>
  /\ UNCHANGED <<setup, quiet, mainVars, runVars, groupVars, reqVars, workerVars>>

\* shutdownOnce.Do: the first caller closes the gate and sleeps, a second one
\* waits for it, and whoever comes through goes on to http.Server.Shutdown,
\* which closes the listener before anything else.
WebDrains(by) ==
  /\ call[by]["web"] = "called"
  /\ \/ /\ once = "new"
        /\ gate' = FALSE
        /\ once' = "running"
        /\ Timer("drain", drainPeriod)
        /\ Answer(by, "web", "sleep")
        /\ UNCHANGED stopped
     \/ /\ once = "done"
        /\ stopped' = TRUE
        /\ Answer(by, "web", "inner")
        /\ UNCHANGED <<gate, once, left>>
  /\ UNCHANGED <<setup, quiet, mainVars, runVars, groupVars, reqVars, workerVars>>

\* time.Sleep(drainPeriod) is over.
WebWakes(by) ==
  /\ call[by]["web"] = "sleep"
  /\ left["drain"] <= 0
  /\ once' = "done"
  /\ Answer(by, "web", "called")
  /\ UNCHANGED <<setup, gate, quiet, stopped, mainVars, runVars, groupVars, left,
                 reqVars, workerVars>>

\* http.Server.Shutdown returns nil once Serve has returned and no connection
\* is active, however that came about.
WebStopped(by) ==
  /\ call[by]["web"] = "inner"
  /\ run["web"] # "serving"
  /\ active = {}
  /\ Answer(by, "web", "nil")
  /\ UNCHANGED <<setup, mainVars, runVars, groupVars, left, webVars, reqVars, workerVars>>

\* Mutant of WebForced: the context of the signal path has no deadline.
WebForcedByGroupOnly(by) ==
  /\ by = "group"
  /\ call[by]["web"] = "inner"
  /\ run["web"] # "serving"
  /\ left[by] <= 0
  /\ cut' = cut \cup active
  /\ active' = {}
  /\ Answer(by, "web", "timeout")
  /\ UNCHANGED <<setup, mainVars, runVars, groupVars, left, webVars, served, workerVars>>

\* Mutant of WebForced: the error of http.Server.Shutdown is dropped.
WebForcedSilently(by) ==
  /\ call[by]["web"] = "inner"
  /\ run["web"] # "serving"
  /\ left[by] <= 0
  /\ cut' = cut \cup active
  /\ active' = {}
  /\ Answer(by, "web", "nil")
  /\ UNCHANGED <<setup, mainVars, runVars, groupVars, left, webVars, served, workerVars>>

\* The caller's deadline passes before a poll finds no connection active (the
\* server's own timeout is the same constant and starts later): http.Server.Close,
\* also when the last request has ended since the last poll.
WebForced(by) ==
  /\ call[by]["web"] = "inner"
  /\ run["web"] # "serving"
  /\ left[by] <= 0
  /\ cut' = cut \cup active
  /\ active' = {}
  /\ Answer(by, "web", "timeout")
  /\ UNCHANGED <<setup, mainVars, runVars, groupVars, left, webVars, served, workerVars>>
-----------------------------------------------------------------------------
(* Worker.Run around newWorker's loop, and Worker.Shutdown.                *)

WorkerBegins ==
  /\ "worker" \in items /\ run["worker"] = "new"
  /\ IF early THEN Leave("worker", "nil")
              ELSE Goto("worker", "starting") /\ UNCHANGED outcome
  /\ UNCHANGED <<setup, mainVars, results, groupVars, call, left, webVars, reqVars,
                 workerVars>>

\* client.Start(ctx) returns, with an error or without.
WorkerStarts ==
  /\ run["worker"] = "starting"
  /\ \/ Goto("worker", "working") /\ UNCHANGED outcome
     \/ Leave("worker", "error")
  /\ UNCHANGED <<setup, mainVars, results, groupVars, call, left, webVars, reqVars,
                 workerVars>>

\* <-ctx.Done(), and client.Stop with a deadline of its own.
WorkerDrains ==
  /\ run["worker"] = "working" /\ cancelled
  /\ Goto("worker", "draining")
  /\ Timer("stop", WorkerDrain)
  /\ UNCHANGED <<setup, mainVars, outcome, results, groupVars, call, webVars, reqVars,
                 workerVars>>

\* client.Stop returns: the jobs finished, or its deadline passed and they go
\* on.  The loop returns nil either way.
WorkerStops ==
  /\ run["worker"] = "draining"
  /\ Leave("worker", "nil")
  /\ UNCHANGED abandoned \/ (left["stop"] <= 0 /\ abandoned' = TRUE)
  /\ UNCHANGED <<setup, mainVars, results, groupVars, call, left, webVars, reqVars,
                 early, cancelled>>

WorkerShutdown(by) ==
  /\ call[by]["worker"] = "called"
  /\ CASE run["worker"] = "new"  -> /\ early' = TRUE
                                    /\ Answer(by, "worker", "nil")
                                    /\ UNCHANGED cancelled
       [] run["worker"] \in Over -> /\ Answer(by, "worker", "nil")
                                    /\ UNCHANGED <<early, cancelled>>
       [] OTHER                  -> /\ cancelled' = TRUE
                                    /\ Answer(by, "worker", "wait")
                                    /\ UNCHANGED early
  /\ UNCHANGED <<setup, mainVars, runVars, groupVars, left, webVars, reqVars, abandoned>>

\* select: the loop is done, or the caller's deadline passed.
WorkerAnswers(by) ==
  /\ call[by]["worker"] = "wait"
  /\ \/ run["worker"] \in Over /\ Answer(by, "worker", "nil")
     \/ left[by] <= 0 /\ Answer(by, "worker", "timeout")
  /\ UNCHANGED <<setup, mainVars, runVars, groupVars, left, webVars, reqVars, workerVars>>
-----------------------------------------------------------------------------
(* Group.Run.                                                              *)

\* Run returns and its goroutine sends the outcome; the channel has room.
Return(c) ==
  /\ run[c] = "leaving"
  /\ Goto(c, "returned")
  /\ results' = Append(results, c)
  /\ UNCHANGED <<setup, mainVars, outcome, groupVars, call, left, webVars, reqVars,
                 workerVars>>

\* Group.Run has received the outcome of every component once none is running
\* and the channel, less n messages, is empty.
AllReceived(n) == Len(results) = n /\ \A c \in items : run[c] = "returned"

Finished(by, c) == call[by][c] \in {"nil", "timeout"}

\* Mutant of GroupReceives: the first return is taken for the last.
GroupReceivesOne ==
  /\ group = "receive" /\ results # <<>>
  /\ results' = Tail(results)
  /\ firstErr' = (firstErr \/ outcome[Head(results)] = "error")
  /\ first' = Head(results)
  /\ group' = "returned"
  /\ UNCHANGED <<setup, mainVars, run, outcome, call, left, webVars, reqVars, workerVars>>

\* Mutant of GroupReceives: the other components are left running.
GroupReceivesLeavingOthers ==
  /\ group = "receive" /\ results # <<>>
  /\ results' = Tail(results)
  /\ firstErr' = (firstErr \/ outcome[Head(results)] = "error")
  /\ first' = IF first = "none" THEN Head(results) ELSE first
  /\ group' = IF AllReceived(1) THEN "returned" ELSE "receive"
  /\ UNCHANGED <<setup, mainVars, run, outcome, call, left, webVars, reqVars, workerVars>>

\* o := <-results: the first one shuts the others down.
GroupReceives ==
  /\ group = "receive" /\ results # <<>>
  /\ results' = Tail(results)
  /\ firstErr' = (firstErr \/ outcome[Head(results)] = "error")
  /\ IF first = "none"
       THEN /\ first' = Head(results)
            /\ group' = "stopping"
            /\ Timer("group", ShutdownTimeout)
            /\ call' = [call EXCEPT !["group"] =
                          [c \in Components |-> IF c \in items \ {Head(results)}
                                                  THEN "called" ELSE @[c]]]
       ELSE /\ group' = IF AllReceived(1) THEN "returned" ELSE "receive"
            /\ UNCHANGED <<first, call, left>>
  /\ UNCHANGED <<setup, mainVars, run, outcome, webVars, reqVars, workerVars>>

\* shutdownExcept returns; what the Shutdown calls answered is dropped.
GroupStopped ==
  /\ group = "stopping"
  /\ \A c \in items \ {first} : Finished("group", c)
  /\ group' = IF AllReceived(0) THEN "returned" ELSE "receive"
  /\ UNCHANGED <<setup, mainVars, runVars, first, firstErr, call, left, webVars, reqVars,
                 workerVars>>
-----------------------------------------------------------------------------
(* app.Run.                                                                *)

SignalArrives ==
  /\ ~signal
  /\ signal' = TRUE
  /\ UNCHANGED <<setup, main, told, runVars, groupVars, call, left, webVars, reqVars,
                 workerVars>>

\* The process exits: what is still in flight is cut.
Exit(what) == /\ main' = "exited"
              /\ told' = what
              /\ cut' = cut \cup active
              /\ active' = {}

\* case err := <-runErr
MainLearns ==
  /\ main = "select" /\ group = "returned"
  /\ Exit(IF firstErr THEN "error" ELSE "nil")
  /\ UNCHANGED <<setup, signal, runVars, groupVars, call, left, webVars, served,
                 workerVars>>

\* case <-ctx.Done(): Group.Shutdown on every component at once.
MainDrains ==
  /\ main = "select" /\ signal
  /\ main' = "shutdown"
  /\ Timer("main", ShutdownTimeout)
  /\ call' = [call EXCEPT !["main"] = [c \in Components |->
                IF c \in items THEN "called" ELSE @[c]]]
  /\ UNCHANGED <<setup, signal, told, runVars, groupVars, webVars, reqVars, workerVars>>

\* Mutant of MainDrained: Group.Shutdown does not wait for its goroutines.
MainDrainedUnjoined ==
  /\ main = "shutdown"
  /\ \E c \in items : Finished("main", c)
  /\ Exit("error")
  /\ UNCHANGED <<setup, signal, runVars, groupVars, call, left, webVars, served,
                 workerVars>>

\* Group.Shutdown returns the joined errors.
MainDrained ==
  /\ main = "shutdown"
  /\ \A c \in items : Finished("main", c)
  /\ IF \E c \in items : call["main"][c] = "timeout"
       THEN Exit("error")
       ELSE main' = "await" /\ UNCHANGED <<told, active, cut>>
  /\ UNCHANGED <<setup, signal, runVars, groupVars, call, left, webVars, served,
                 workerVars>>

\* <-runErr: the error of Group.Run is not looked at.
MainStops ==
  /\ main = "await" /\ group = "returned"
  /\ Exit("nil")
  /\ UNCHANGED <<setup, signal, runVars, groupVars, call, left, webVars, served,
                 workerVars>>
-----------------------------------------------------------------------------
Alive == main # "exited"

\* What goroutines do by themselves, without delay.
Runs == /\ Alive
        /\ \/ WebListens \/ WebCloses \/ WorkerBegins \/ WorkerDrains
           \/ GroupReceives \/ GroupStopped
           \/ MainLearns \/ MainDrains \/ MainDrained \/ MainStops
           \/ \E c \in Components : Return(c)
           \/ \E by \in Callers : \/ WebDrains(by) \/ WebWakes(by) \/ WebStopped(by)
                                  \/ WebForced(by) \/ WorkerShutdown(by)
                                  \/ WorkerAnswers(by)
           \/ cancelled /\ WorkerStarts
           \/ left["stop"] <= 0 /\ WorkerStops

\* What the world outside does, in its own time.
World == /\ Alive
         /\ \/ \E r \in Requests : Accept(r) \/ Finish(r)
            \/ WebFails \/ WorkerStarts \/ WorkerStops \/ SignalArrives

\* The timers that are counting down.
Ticking == {t \in Timers : CASE t = "main"  -> main \in {"shutdown", "await"}
                             [] t = "group" -> group = "stopping"
                             [] t = "drain" -> once = "running"
                             [] t = "stop"  -> run["worker"] = "draining"}

\* Some step of Runs is enabled: what ENABLED Runs says of a live process,
\* written out guard by guard.
Ready ==
  \/ \E c \in items : run[c] = "new"
  \/ \E c \in items : run[c] = "leaving"
  \/ run["web"] = "serving" /\ stopped
  \/ run["worker"] \in {"starting", "working"} /\ cancelled
  \/ run["worker"] = "draining" /\ left["stop"] <= 0
  \/ group = "receive" /\ results # <<>>
  \/ group = "stopping" /\ \A c \in items \ {first} : Finished("group", c)
  \/ main = "select" /\ signal
  \/ main \in {"select", "await"} /\ group = "returned"
  \/ main = "shutdown" /\ \A c \in items : Finished("main", c)
  \/ \E by \in Callers :
       \/ call[by]["web"] = "called" /\ once # "running"
       \/ call[by]["web"] = "sleep" /\ left["drain"] <= 0
       \/ /\ call[by]["web"] = "inner" /\ run["web"] # "serving"
          /\ active = {} \/ left[by] <= 0
       \/ call[by]["worker"] = "called"
       \/ call[by]["worker"] = "wait" /\ (run["worker"] \in Over \/ left[by] <= 0)

\* Time passes while every goroutine waits; -1 stands for any time overdue.
Tick == /\ Alive /\ Ticking # {} /\ ~Ready
        /\ left' = [t \in Timers |->
                     IF t \in Ticking /\ left[t] >= 0 THEN left[t] - 1 ELSE left[t]]
        /\ quiet' = IF ~gate /\ quiet < drainPeriod THEN quiet + 1 ELSE quiet
        /\ UNCHANGED <<setup, mainVars, runVars, groupVars, call, gate, once, stopped,
                       reqVars, workerVars>>

Next == Runs \/ World \/ Tick

Spec == Init /\ [][Next]_vars

\* Goroutines are scheduled and time passes.  No request, job or signal is
\* obliged to come or to end.
FairSpec == Spec /\ WF_vars(Runs) /\ WF_vars(Tick)
-----------------------------------------------------------------------------
\* Every variable has its type.
TypeOK ==
  /\ items \in Modes /\ drainPeriod \in DrainPeriods
  /\ gate \in BOOLEAN /\ signal \in BOOLEAN /\ firstErr \in BOOLEAN
  /\ stopped \in BOOLEAN /\ early \in BOOLEAN /\ cancelled \in BOOLEAN
  /\ abandoned \in BOOLEAN
  /\ quiet \in 0 .. drainPeriod
  /\ main \in {"select", "shutdown", "await", "exited"}
  /\ told \in {"none", "nil", "error"}
  /\ run \in [Components -> {"new", "serving", "starting", "working", "draining",
                             "leaving", "returned"}]
  /\ outcome \in [Components -> {"none", "nil", "error"}]
  /\ results \in Seq(Components)
  /\ group \in {"receive", "stopping", "returned"}
  /\ first \in Components \cup {"none"}
  /\ call \in [Callers -> [Components -> Answers]]
  /\ left \in [Timers -> Int]
  /\ once \in {"new", "running", "done"}
  /\ active \subseteq Requests /\ served \subseteq Requests /\ cut \subseteq Requests

\* The listener is closed only after the readiness gate has been down for the
\* whole drain period, whichever caller of Shutdown got there first.
DrainBeforeClose == stopped => ~gate /\ quiet >= drainPeriod

\* When app.Run returns, on any path, every component's Run is over.  A request
\* is still being handled then, while the deferred calls close the database under
\* it, only if the listener failed on its own or a deadline forced the close; and
\* a job only if the worker's own drain ran out.
DrainedAtExit ==
  ~Alive => /\ \A c \in items : run[c] \in Over
            /\ cut # {} => \/ outcome["web"] = "error"
                           \/ \E by \in Callers : call[by]["web"] = "timeout"
            /\ abandoned => left["stop"] <= 0

\* While the process runs, a request is cut only by a Shutdown that says so; and
\* one that answers nil leaves none in flight, so that what was cut before it was
\* cut by the other caller's deadline.
ShutdownTellsTheTruth ==
  Alive => /\ cut # {} => \E by \in Callers : call[by]["web"] = "timeout"
           /\ \A by \in Callers : call[by]["web"] = "nil" => active = {}

\* "A nil return means every in-flight request finished on its own", to whichever
\* caller of the server's Shutdown it is returned.
NilMeansFinished ==
  Alive => \A by \in Callers : call[by]["web"] = "nil" => cut = {}

\* When nobody asked for the shutdown, a component's failure is what app.Run
\* returns.
FailureIsReported ==
  ~Alive /\ ~signal => /\ AllReceived(0)
                       /\ told = "nil" <=> \A c \in items : outcome[c] = "nil"

\* A signal ends the process, whatever the requests and the jobs do.
SignalMeansExit == signal ~> ~Alive

\* A component that returns takes the process down with it.
FailureMeansExit == (\E c \in items : run[c] = "returned") ~> ~Alive

-----------------------------------------------------------------------------
(* The inductive invariant behind DrainBeforeClose and                     *)
(* ShutdownTellsTheTruth.                                                  *)

\* The gate is up until the once begins, and the rest of the sleep covers the
\* rest of the drain period.
DrainInv ==
  /\ once # "new" => ~gate
  /\ once = "running" => quiet >= drainPeriod \/ quiet + left["drain"] >= drainPeriod
  /\ once = "done" => quiet >= drainPeriod
  /\ stopped => once = "done"
  /\ \A by \in Callers : call[by]["web"] = "sleep" => once = "running"
  /\ \A by, to \in Callers :
       call[by]["web"] = "sleep" /\ call[to]["web"] = "sleep" => by = to

\* Only a forced close, which is answered with an error, cuts a request, and no
\* answer leaves one in flight.
CutInv ==
  /\ Alive /\ cut # {} => \E by \in Callers : call[by]["web"] = "timeout"
  /\ \A by \in Callers : Finished(by, "web") => stopped /\ active = {}
  /\ \A by \in Callers : call[by]["web"] = "inner" => stopped

\* Neither caller calls before it has reason to.
CallInv == /\ first = "none" => call["group"]["web"] = "none"
           /\ main = "select" => call["main"]["web"] = "none"

\* The channel holds each return once; Group.Run has seen an error when it has
\* received one, and returns when it has received them all; and without a signal
\* app.Run does nothing but wait for it.
Received(c) == run[c] = "returned" /\ \A i \in 1 .. Len(results) : results[i] # c
GroupInv ==
  /\ \A c \in Components : run[c] # "new" => c \in items
  /\ \A c \in Components : run[c] \in Over => outcome[c] \in {"nil", "error"}
  /\ \A i \in 1 .. Len(results) : run[results[i]] = "returned"
  /\ \A i, j \in 1 .. Len(results) : results[i] = results[j] => i = j
  /\ firstErr <=> \E c \in items : Received(c) /\ outcome[c] = "error"
  /\ group = "returned" => AllReceived(0)
  /\ ~signal => main \in {"select", "exited"}

\* What each component's Run goes through, and what has happened by the time a
\* call of its Shutdown is answered.
StageInv ==
  /\ run["web"] \in {"new", "serving"} \cup Over
  /\ run["worker"] \in {"new", "starting", "working", "draining"} \cup Over
  /\ main = "select" => call["main"]["worker"] = "none"
  /\ \A by \in Callers :
       /\ call[by]["web"] \in {"inner", "nil", "timeout"} => stopped
       /\ call[by]["web"] \in {"nil", "timeout"} => run["web"] # "serving"
       /\ call[by]["worker"] = "nil" => \/ run["worker"] \in Over
                                        \/ run["worker"] = "new" /\ early
       /\ call[by]["worker"] = "wait" => cancelled /\ run["worker"] # "new"

\* By the first tick after the signal every Run has begun and the worker has been
\* told; from then on its drain, begun no later, is over before app.Run's
\* deadline.
ClockInv ==
  /\ run["worker"] = "draining" => left["stop"] \in 0 .. WorkerDrain
  /\ main = "shutdown" =>
       /\ left["main"] <= ShutdownTimeout
       /\ left["main"] < ShutdownTimeout =>
            /\ \A c \in items : run[c] # "new"
            /\ call["main"]["worker"] # "called"
            /\ call["main"]["worker"] = "wait" =>
                 run["worker"] \notin {"starting", "working"}
       /\ call["main"]["worker"] = "wait" /\ run["worker"] = "draining" =>
            left["stop"] < left["main"]
       /\ "timeout" \in {call["main"][c] : c \in items} => left["main"] <= 0
       /\ call["main"]["worker"] = "timeout" => run["worker"] \in Over

\* The server's Run returns nil only once the listener was closed by a caller of
\* Shutdown; and neither Group.Run nor app.Run goes on before its own call has
\* been answered.
AnsweredInv ==
  /\ active # {} => "web" \in items
  /\ outcome["web"] = "nil" => stopped
  /\ stopped => \E by \in Callers : call[by]["web"] \in {"inner", "nil", "timeout"}
  /\ first \in items \cup {"none"}
  /\ first = "none" => group = "receive"
  /\ first = "web" => call["group"]["web"] = "none"
  /\ first = "worker" /\ group # "stopping" /\ "web" \in items => Finished("group", "web")
  /\ main = "await" /\ "web" \in items => Finished("main", "web")
  /\ abandoned => run["worker"] \in Over /\ left["stop"] <= 0

\* The drain, the gate and the listener agree, and so do the answers of
\* Shutdown and the requests that were cut.
IInv == TypeOK /\ DrainInv /\ CutInv /\ CallInv
=============================================================================
