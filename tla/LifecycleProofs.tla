-------------------------- MODULE LifecycleProofs --------------------------
(***************************************************************************)
(* The order of a graceful shutdown, for any set of requests and any       *)
(* periods: IInv is inductive, the drain comes before the close, and the   *)
(* answers of HTTPServer.Shutdown agree with what was cut.                 *)
(***************************************************************************)
EXTENDS Lifecycle, TLAPS

USE PeriodsAssumption

\* The process starts in a state that satisfies the invariant.
LEMMA InitIInv == Init => IInv
<1> SUFFICES ASSUME Init PROVE IInv
  OBVIOUS
<1>1. TypeOK
  <2>1. call \in [Callers -> [Components -> Answers]]
    BY DEF Init, Answers
  <2>2. results \in Seq(Components)
    BY DEF Init
  <2>3. /\ gate \in BOOLEAN /\ signal \in BOOLEAN /\ firstErr \in BOOLEAN
        /\ stopped \in BOOLEAN /\ early \in BOOLEAN /\ cancelled \in BOOLEAN
        /\ abandoned \in BOOLEAN
    BY Zenon DEF Init
  <2>4. left \in [Timers -> Int] /\ quiet \in 0 .. drainPeriod
    BY DEF Init
  <2>5. first \in Components \cup {"none"}
    BY DEF Init
  <2>6. /\ main \in {"select", "shutdown", "await", "exited"}
        /\ told \in {"none", "nil", "error"}
        /\ group \in {"receive", "stopping", "returned"}
        /\ once \in {"new", "running", "done"}
    BY DEF Init
  <2> QED
    BY <2>1, <2>2, <2>3, <2>4, <2>5, <2>6 DEF Init, TypeOK
<1>2. DrainInv
  BY DEF Init, DrainInv, Components
<1>3. CutInv /\ CallInv
  BY DEF Init, CutInv, CallInv, Finished, Components, Callers
<1> QED
  BY <1>1, <1>2, <1>3 DEF IInv

\* An answer changes one call and keeps its type.
LEMMA AnswerChangesOne ==
  ASSUME TypeOK, NEW by \in Callers, NEW c \in Components, NEW what \in Answers,
         Answer(by, c, what)
  PROVE  /\ call' \in [Callers -> [Components -> Answers]]
         /\ \A b \in Callers, d \in Components :
              call'[b][d] = IF b = by /\ d = c THEN what ELSE call[b][d]
  BY DEF TypeOK, Answer

\* Every step keeps the types.
LEMMA TypeStep == TypeOK /\ Next => TypeOK'
<1> SUFFICES ASSUME TypeOK, Next PROVE TypeOK'
  OBVIOUS
<1> USE DEF TypeOK, setup, mainVars, runVars, groupVars, webVars, reqVars, workerVars,
            Goto, Leave, Timer, Exit, Components, Callers, Timers
<1>1. CASE WebListens \/ WebFails \/ WebCloses
  BY <1>1 DEF WebListens, WebFails, WebCloses
<1>2. CASE \E r \in Requests : Accept(r) \/ Finish(r)
  BY <1>2 DEF Accept, Finish
<1>3. ASSUME NEW by \in Callers, WebDrains(by) \/ WebWakes(by) PROVE TypeOK'
  <2>1. call' \in [Callers -> [Components -> Answers]]
    BY <1>3, AnswerChangesOne DEF WebDrains, WebWakes, Answers
  <2>2. gate' \in BOOLEAN /\ stopped' \in BOOLEAN
    BY <1>3, Zenon DEF WebDrains, WebWakes
  <2> QED
    BY <1>3, <2>1, <2>2 DEF WebDrains, WebWakes
<1>4. ASSUME NEW by \in Callers, WebStopped(by) \/ WebForced(by) PROVE TypeOK'
  <2>1. call' \in [Callers -> [Components -> Answers]]
    BY <1>4, AnswerChangesOne DEF WebStopped, WebForced, Answers
  <2> QED
    BY <1>4, <2>1 DEF WebStopped, WebForced
<1>5. CASE WorkerBegins \/ WorkerStarts \/ WorkerDrains \/ WorkerStops
  <2>1. abandoned' \in BOOLEAN
    BY <1>5, Zenon DEF WorkerBegins, WorkerStarts, WorkerDrains, WorkerStops
  <2> QED
    BY <1>5, <2>1 DEF WorkerBegins, WorkerStarts, WorkerDrains, WorkerStops
<1>6. ASSUME NEW by \in Callers, WorkerShutdown(by) \/ WorkerAnswers(by) PROVE TypeOK'
  <2>1. call' \in [Callers -> [Components -> Answers]]
    BY <1>6, AnswerChangesOne DEF WorkerShutdown, WorkerAnswers, Answers
  <2>2. early' \in BOOLEAN /\ cancelled' \in BOOLEAN
    BY <1>6, Zenon DEF WorkerShutdown, WorkerAnswers
  <2> QED
    BY <1>6, <2>1, <2>2 DEF WorkerShutdown, WorkerAnswers
<1>7. ASSUME NEW c \in Components, Return(c) PROVE TypeOK'
  BY <1>7 DEF Return
<1>8. CASE GroupReceives
  BY <1>8 DEF GroupReceives, Answers
<1>9. CASE GroupStopped
  BY <1>9 DEF GroupStopped
<1>10. CASE SignalArrives \/ MainLearns \/ MainStops
  <2>1. CASE SignalArrives
    BY <2>1 DEF SignalArrives
  <2>2. CASE MainLearns \/ MainStops
    BY <2>2 DEF MainLearns, MainStops
  <2> QED
    BY <1>10, <2>1, <2>2
<1>11. CASE MainDrains
  BY <1>11 DEF MainDrains, Answers
<1>12. CASE MainDrained
  BY <1>12 DEF MainDrained
<1>13. CASE Tick
  BY <1>13 DEF Tick
<1> QED
  BY <1>1, <1>2, <1>3, <1>4, <1>5, <1>6, <1>7, <1>8, <1>9, <1>10, <1>11, <1>12, <1>13
     DEF Next, Runs, World

\* A step that touches neither the drain nor a sleeping caller keeps DrainInv.
LEMMA DrainFrame ==
  ASSUME DrainInv, UNCHANGED <<drainPeriod, gate, quiet, once, stopped>>,
         left'["drain"] = left["drain"],
         \A by \in Callers : call'[by]["web"] = "sleep" => call[by]["web"] = "sleep"
  PROVE  DrainInv'
  BY DEF DrainInv

\* A step that cuts nothing, lets no request in once the listener is closed and
\* takes no caller of the server's Shutdown past the close keeps CutInv.
LEMMA CutFrame ==
  ASSUME CutInv, cut' = cut, Alive' => Alive, stopped => stopped',
         stopped => active' \subseteq active,
         \A by \in Callers : /\ call[by]["web"] = "timeout" => call'[by]["web"] = "timeout"
                             /\ call'[by]["web"] \in {"inner", "nil", "timeout"} =>
                                  call'[by]["web"] = call[by]["web"]
  PROVE  CutInv'
  BY DEF CutInv, Finished

\* Every call of the server's Shutdown that a step begins has its reason.
LEMMA CallFrame ==
  ASSUME CallInv, first' = first, main' = "select" => main = "select",
         \A by \in Callers : call[by]["web"] = "none" => call'[by]["web"] = "none"
  PROVE  CallInv'
  BY DEF CallInv, Callers

\* Every step keeps the invariant.
LEMMA NextIInv == IInv /\ [Next]_vars => IInv'
<1> SUFFICES ASSUME IInv, [Next]_vars PROVE IInv'
  OBVIOUS
<1>1. TypeOK /\ DrainInv /\ CutInv /\ CallInv
  BY DEF IInv
<1>2. CASE UNCHANGED vars
  BY <1>2 DEF vars, setup, IInv, TypeOK, DrainInv, CutInv, CallInv, Finished, Alive
<1>3. CASE Next
  <2> USE DEF setup, mainVars, runVars, groupVars, webVars, reqVars, workerVars
  <2>1. TypeOK'
    BY <1>1, <1>3, TypeStep
  <2>2. ASSUME UNCHANGED <<drainPeriod, gate, quiet, once, stopped, call, cut, main, first>>,
               left'["drain"] = left["drain"], stopped => active' \subseteq active
        PROVE  IInv'
    BY <1>1, <2>1, <2>2, DrainFrame, CutFrame, CallFrame DEF IInv, Alive
  <2>4. CASE WebListens \/ WebFails \/ WebCloses \/ WorkerBegins \/ WorkerStarts \/ WorkerStops
    BY <2>2, <2>4 DEF WebListens, WebFails, WebCloses, WorkerBegins, WorkerStarts, WorkerStops
  <2>5. CASE \E r \in Requests : Accept(r) \/ Finish(r)
    BY <2>2, <2>5 DEF Accept, Finish
  <2>6. CASE WorkerDrains
    <3>1. left'["drain"] = left["drain"]
      BY <1>1, <2>6 DEF WorkerDrains, Timer, TypeOK, Timers
    <3> QED
      BY <2>2, <2>6, <3>1 DEF WorkerDrains
  <2>7. CASE (\E c \in Components : Return(c)) \/ GroupStopped \/ SignalArrives
    BY <2>2, <2>7 DEF Return, GroupStopped, SignalArrives
  <2>8. ASSUME NEW by \in Callers, WebDrains(by) PROVE IInv'
    <3>1. CASE once = "new"
      <4>1. /\ call[by]["web"] = "called" /\ gate' = FALSE /\ once' = "running"
            /\ left' = [left EXCEPT !["drain"] = drainPeriod]
            /\ Answer(by, "web", "sleep")
            /\ UNCHANGED <<drainPeriod, stopped, quiet, cut, active, main, first>>
        BY <2>8, <3>1 DEF WebDrains, Timer
      <4>2. \A b \in Callers : call'[b]["web"] = IF b = by THEN "sleep" ELSE call[b]["web"]
        BY <1>1, <4>1, AnswerChangesOne DEF Components, Answers
      <4>3. left'["drain"] = drainPeriod /\ quiet \in Nat /\ drainPeriod \in Nat
        BY <1>1, <4>1 DEF TypeOK, Timers
      <4>4. DrainInv'
        BY <1>1, <3>1, <4>1, <4>2, <4>3 DEF DrainInv
      <4>5. CutInv'
        BY <1>1, <4>1, <4>2, CutFrame DEF Alive
      <4> QED
        BY <1>1, <2>1, <4>1, <4>2, <4>4, <4>5, CallFrame DEF IInv
    <3>2. CASE once = "done"
      <4>1. /\ call[by]["web"] = "called" /\ stopped' = TRUE
            /\ Answer(by, "web", "inner")
            /\ UNCHANGED <<drainPeriod, gate, once, left, quiet, cut, active, main, first>>
        BY <2>8, <3>2 DEF WebDrains
      <4>2. \A b \in Callers : call'[b]["web"] = IF b = by THEN "inner" ELSE call[b]["web"]
        BY <1>1, <4>1, AnswerChangesOne DEF Components, Answers
      <4>3. DrainInv'
        BY <1>1, <3>2, <4>1, <4>2 DEF DrainInv
      <4>4. CutInv'
        BY <1>1, <4>1, <4>2 DEF CutInv, Finished, Alive
      <4> QED
        BY <1>1, <2>1, <4>1, <4>2, <4>3, <4>4, CallFrame DEF IInv
    <3> QED
      BY <2>8, <3>1, <3>2 DEF WebDrains
  <2>9. ASSUME NEW by \in Callers, WebWakes(by) PROVE IInv'
    <3>1. /\ call[by]["web"] = "sleep" /\ left["drain"] <= 0 /\ once' = "done"
          /\ Answer(by, "web", "called")
          /\ UNCHANGED <<drainPeriod, gate, quiet, stopped, left, cut, active, main, first>>
      BY <2>9 DEF WebWakes
    <3>2. \A b \in Callers : call'[b]["web"] = IF b = by THEN "called" ELSE call[b]["web"]
      BY <1>1, <3>1, AnswerChangesOne DEF Components, Answers
    <3>3. quiet >= drainPeriod
      BY <1>1, <3>1 DEF DrainInv, TypeOK, Timers
    <3>4. DrainInv'
      BY <1>1, <3>1, <3>2, <3>3 DEF DrainInv
    <3>5. CutInv'
      BY <1>1, <3>1, <3>2, CutFrame DEF Alive
    <3> QED
      BY <1>1, <2>1, <3>1, <3>2, <3>4, <3>5, CallFrame DEF IInv
  <2>10. ASSUME NEW by \in Callers, WebStopped(by) PROVE IInv'
    <3>1. /\ call[by]["web"] = "inner" /\ active = {} /\ Answer(by, "web", "nil")
          /\ UNCHANGED <<drainPeriod, gate, quiet, once, stopped, left, cut, active, main, first>>
      BY <2>10 DEF WebStopped
    <3>2. \A b \in Callers : call'[b]["web"] = IF b = by THEN "nil" ELSE call[b]["web"]
      BY <1>1, <3>1, AnswerChangesOne DEF Components, Answers
    <3>3. DrainInv'
      BY <1>1, <3>1, <3>2, DrainFrame
    <3>4. CutInv'
      BY <1>1, <3>1, <3>2 DEF CutInv, Finished, Alive
    <3> QED
      BY <1>1, <2>1, <3>1, <3>2, <3>3, <3>4, CallFrame DEF IInv
  <2>11. ASSUME NEW by \in Callers, WebForced(by) PROVE IInv'
    <3>1. /\ active' = {} /\ call[by]["web"] = "inner"
          /\ Answer(by, "web", "timeout") /\ UNCHANGED <<drainPeriod, gate, quiet, once, stopped, left, main, first>>
      BY <2>11 DEF WebForced
    <3>2. \A b \in Callers : call'[b]["web"] = IF b = by THEN "timeout" ELSE call[b]["web"]
      BY <1>1, <3>1, AnswerChangesOne DEF Components, Answers
    <3>3. DrainInv'
      BY <1>1, <3>1, <3>2, DrainFrame
    <3>4. CutInv'
      BY <1>1, <3>1, <3>2 DEF CutInv, Finished
    <3> QED
      BY <1>1, <2>1, <3>1, <3>2, <3>3, <3>4, CallFrame DEF IInv
  <2>12. ASSUME NEW by \in Callers, WorkerShutdown(by) \/ WorkerAnswers(by) PROVE IInv'
    <3>1. \E what \in Answers : Answer(by, "worker", what)
      BY <2>12 DEF WorkerShutdown, WorkerAnswers, Answers
    <3>2. \A b \in Callers : call'[b]["web"] = call[b]["web"]
      BY <1>1, <3>1, AnswerChangesOne DEF Components
    <3>3. UNCHANGED <<drainPeriod, gate, quiet, once, stopped, left, cut, active, main, first>>
      BY <2>12 DEF WorkerShutdown, WorkerAnswers
    <3> QED
      BY <1>1, <2>1, <3>2, <3>3, DrainFrame, CutFrame, CallFrame DEF IInv, Alive
  <2>13. CASE GroupReceives
    <3>1. UNCHANGED <<drainPeriod, gate, quiet, once, stopped, cut, active, main>> /\ results # <<>>
      BY <2>13 DEF GroupReceives
    <3>2. left'["drain"] = left["drain"]
      BY <1>1, <2>13 DEF GroupReceives, Timer, TypeOK, Timers
    <3>3. call'["main"]["web"] = call["main"]["web"]
      BY <1>1, <2>13 DEF GroupReceives, TypeOK, Callers
    <3>4. \/ call'["group"]["web"] = call["group"]["web"]
          \/ first = "none" /\ call'["group"]["web"] = "called"
      BY <1>1, <2>13 DEF GroupReceives, TypeOK, Callers, Components
    <3>5. first' # "none"
      <4>1. Head(results) \in Components
        BY <1>1, <3>1 DEF TypeOK
      <4> QED
        BY <2>13, <4>1 DEF GroupReceives, Components
    <3>6. DrainInv' /\ CutInv'
      BY <1>1, <3>1, <3>2, <3>3, <3>4, DrainFrame, CutFrame DEF Callers, CallInv, Alive
    <3> QED
      BY <1>1, <2>1, <3>1, <3>3, <3>5, <3>6 DEF IInv, CallInv
  <2>14. CASE MainLearns \/ MainStops
    <3>1. UNCHANGED <<drainPeriod, gate, quiet, once, stopped, call, left>> /\ main' = "exited"
          /\ cut' = cut \cup active /\ active' = {}
      BY <2>14 DEF MainLearns, MainStops, Exit
    <3>2. DrainInv'
      BY <1>1, <3>1, DrainFrame
    <3>3. CutInv' /\ CallInv'
      BY <1>1, <2>14, <3>1 DEF CutInv, Finished, CallInv, Alive, MainLearns, MainStops
    <3> QED
      BY <2>1, <3>2, <3>3 DEF IInv
  <2>15. CASE MainDrains
    <3>1. UNCHANGED <<drainPeriod, gate, quiet, once, stopped, cut, active, first>> /\ main = "select"
          /\ main' = "shutdown"
      BY <2>15 DEF MainDrains
    <3>2. left'["drain"] = left["drain"]
      BY <1>1, <2>15 DEF MainDrains, Timer, TypeOK, Timers
    <3>3. call'["group"]["web"] = call["group"]["web"]
      BY <1>1, <2>15 DEF MainDrains, TypeOK, Callers
    <3>4. call["main"]["web"] = "none" /\ call'["main"]["web"] \in {"none", "called"}
      BY <1>1, <2>15, <3>1 DEF MainDrains, TypeOK, Callers, Components, CallInv
    <3>5. DrainInv' /\ CutInv'
      BY <1>1, <3>1, <3>2, <3>3, <3>4, DrainFrame, CutFrame DEF Callers, Alive
    <3> QED
      BY <1>1, <2>1, <3>1, <3>3, <3>5 DEF IInv, CallInv
  <2>16. CASE MainDrained
    <3>1. UNCHANGED <<drainPeriod, gate, quiet, once, stopped, call, left, first>>
          /\ main' \in {"await", "exited"} /\ Alive
      BY <2>16 DEF MainDrained, Exit, Alive
    <3>2. CASE main' = "await" /\ cut' = cut /\ active' = active
      BY <1>1, <2>1, <3>1, <3>2, DrainFrame, CutFrame, CallFrame DEF IInv, Alive
    <3>3. CASE main' = "exited" /\ cut' = cut \cup active /\ active' = {}
      <4>1. CutInv' /\ CallInv'
        BY <1>1, <3>1, <3>3 DEF CutInv, Finished, CallInv, Alive
      <4> QED
        BY <1>1, <2>1, <3>1, <4>1, DrainFrame DEF IInv
    <3> QED
      BY <2>16, <3>2, <3>3 DEF MainDrained, Exit
  <2>17. CASE Tick
    <3>1. UNCHANGED <<drainPeriod, gate, once, stopped, call, cut, active, main, first>>
      BY <2>17 DEF Tick
    <3>2. left'["drain"] >= left["drain"] - 1 /\ left'["drain"] \in Int
      BY <1>1, <2>17 DEF Tick, Ticking, TypeOK, Timers
    <3>3. quiet' = IF ~gate /\ quiet < drainPeriod THEN quiet + 1 ELSE quiet
      BY <2>17 DEF Tick
    <3>4. quiet \in 0 .. drainPeriod /\ left["drain"] \in Int /\ drainPeriod \in Nat
      BY <1>1 DEF TypeOK, Timers
    <3>5. once = "done" => quiet' >= drainPeriod
      BY <1>1, <3>3, <3>4 DEF DrainInv
    <3>6. once = "running" => \/ quiet' >= drainPeriod
                              \/ quiet' + left'["drain"] >= drainPeriod
      BY <1>1, <3>2, <3>3, <3>4 DEF DrainInv
    <3>7. DrainInv'
      BY <1>1, <3>1, <3>5, <3>6 DEF DrainInv
    <3> QED
      BY <1>1, <2>1, <3>1, <3>7, CutFrame, CallFrame DEF IInv, Alive
  <2> QED
    BY <1>3, <2>4, <2>5, <2>6, <2>7, <2>8, <2>9, <2>10, <2>11, <2>12, <2>13, <2>14,
       <2>15, <2>16, <2>17 DEF Next, Runs, World
<1> QED
  BY <1>2, <1>3

\* The invariant holds in every reachable state, for any set of requests, any
\* drain period and any timeouts that exceed it.
THEOREM Invariant == Spec => []IInv
  BY InitIInv, NextIInv, PTL DEF Spec

\* The listener is never closed before the gate has been down for the whole
\* drain period, whichever of two concurrent Shutdown calls runs the once.
THEOREM DrainFirst == Spec => []DrainBeforeClose
<1>1. IInv => DrainBeforeClose
  BY DEF IInv, DrainInv, DrainBeforeClose
<1> QED
  BY <1>1, Invariant, PTL

\* A request is cut, while the process runs, only by a Shutdown that answers with
\* an error, and one that answers nil, to either of two concurrent callers, leaves
\* none in flight.
THEOREM TruthfulShutdown == Spec => []ShutdownTellsTheTruth
<1>1. IInv => ShutdownTellsTheTruth
  BY DEF IInv, CutInv, Finished, ShutdownTellsTheTruth
<1> QED
  BY <1>1, Invariant, PTL

\* A component that is still running may go on, and nothing is sent or received.
Going(c) ==
  \/ run'[c] = run[c] /\ outcome'[c] = outcome[c]
  \/ /\ run[c] \notin Over /\ run'[c] \notin {"new", "returned"} /\ c \in items
     /\ run'[c] \in Over => outcome'[c] \in {"nil", "error"}
LEMMA GroupFrame ==
  ASSUME TypeOK, GroupInv, UNCHANGED <<items, results, firstErr, group>>,
         \A c \in Components : Going(c),
         ~ signal' => ~ signal /\ (main' = main \/ main' = "exited")
  PROVE  GroupInv'
<1>1. \A i \in 1 .. Len(results) : results[i] \in Components
  BY DEF TypeOK
<1>2. \A c \in Components : run[c] = "returned" <=> run'[c] = "returned"
  BY DEF Going, Over
<1>3. \A c \in Components : run[c] = "returned" => outcome'[c] = outcome[c]
  BY DEF Going, Over
<1>4. items \subseteq Components
  BY DEF TypeOK, Modes
<1>5. /\ \A c \in Components : run'[c] # "new" => c \in items
      /\ \A c \in Components : run'[c] \in Over => outcome'[c] \in {"nil", "error"}
  BY DEF GroupInv, Going
<1>6. \A c \in Components : Received(c)' <=> Received(c)
  BY <1>2 DEF Received
<1>7. firstErr <=> \E c \in items : Received(c)' /\ outcome'[c] = "error"
  BY <1>3, <1>4, <1>6 DEF GroupInv, Received
<1>8. group' = "returned" => AllReceived(0)'
  BY <1>2, <1>4 DEF GroupInv, AllReceived
<1>9. /\ \A i \in 1 .. Len(results) : run'[results[i]] = "returned"
      /\ \A i, j \in 1 .. Len(results) : results[i] = results[j] => i = j
  BY <1>1, <1>2 DEF GroupInv
<1>10. ~ signal' => main' \in {"select", "exited"}
  BY DEF GroupInv
<1> QED
  BY <1>5, <1>7, <1>8, <1>9, <1>10 DEF GroupInv

\* A return is sent once, and is not received yet.
LEMMA ReturnStep ==
  ASSUME TypeOK, GroupInv, NEW c \in Components, Return(c)
  PROVE  GroupInv'
<1>1. /\ run[c] = "leaving" /\ run' = [run EXCEPT ![c] = "returned"]
      /\ results' = Append(results, c)
      /\ UNCHANGED <<items, outcome, firstErr, group, signal, main>>
  BY DEF Return, Goto, setup, mainVars, groupVars
<1>2. results \in Seq(Components) /\ Len(results) \in Nat /\ items \subseteq Components
  BY DEF TypeOK, Modes
<1>3. /\ Len(results') = Len(results) + 1 /\ results'[Len(results) + 1] = c
      /\ \A i \in 1 .. Len(results) : results'[i] = results[i] /\ results[i] \in Components
  BY <1>1, <1>2
<1>4. run'[c] = "returned" /\ \A d \in Components \ {c} : run'[d] = run[d]
  BY <1>1 DEF TypeOK
<1>5. \A i \in 1 .. Len(results) : results[i] # c
  BY <1>1, <1>2, <1>3 DEF GroupInv
<1>6. \A d \in Components : Received(d)' <=> Received(d)
  <2>1. ~ Received(c)' /\ ~ Received(c)
    BY <1>1, <1>2, <1>3 DEF Received
  <2>2. ASSUME NEW d \in Components, d # c PROVE Received(d)' <=> Received(d)
    <3>1. Received(d) => Received(d)'
      BY <1>2, <1>3, <1>4, <2>2 DEF Received
    <3>2. Received(d)' => Received(d)
      BY <1>2, <1>3, <1>4, <2>2 DEF Received
    <3> QED BY <3>1, <3>2
  <2> QED BY <2>1, <2>2
<1>7. c \in items /\ group # "returned"
  BY <1>1, <1>2 DEF GroupInv, AllReceived
<1>8. \A i \in 1 .. Len(results') : run'[results'[i]] = "returned"
  BY <1>2, <1>3, <1>4 DEF GroupInv
<1>9. \A i, j \in 1 .. Len(results') : results'[i] = results'[j] => i = j
  BY <1>2, <1>3, <1>5 DEF GroupInv
<1>10. /\ \A d \in Components : run'[d] # "new" => d \in items
       /\ \A d \in Components : run'[d] \in Over => outcome'[d] \in {"nil", "error"}
  BY <1>1, <1>4, <1>7 DEF GroupInv, Over
<1>11. firstErr' <=> \E d \in items : Received(d)' /\ outcome'[d] = "error"
  BY <1>1, <1>2, <1>6 DEF GroupInv
<1> QED
  BY <1>1, <1>7, <1>8, <1>9, <1>10, <1>11 DEF GroupInv

\* What is received is counted, and the last return ends Group.Run.
LEMMA ReceiveStep ==
  ASSUME TypeOK, GroupInv, GroupReceives
  PROVE  GroupInv'
<1>0. PICK h : h = Head(results)
  OBVIOUS
<1>1. /\ results # <<>> /\ results' = Tail(results) /\ group = "receive"
      /\ firstErr' = (firstErr \/ outcome[h] = "error")
      /\ UNCHANGED <<items, run, outcome, signal, main>>
  BY <1>0 DEF GroupReceives, setup, mainVars
<1>2. results \in Seq(Components) /\ Len(results) \in Nat \ {0} /\ items \subseteq Components
      /\ firstErr \in BOOLEAN
  BY <1>1 DEF TypeOK, Modes
<1>3. /\ h = results[1] /\ h \in Components /\ Len(results') = Len(results) - 1
      /\ \A i \in 1 .. Len(results') : results'[i] = results[i + 1]
  BY <1>0, <1>1, <1>2
<1>4. run[h] = "returned" /\ h \in items
  BY <1>2, <1>3 DEF GroupInv
<1>5. Received(h)'
  <2>1. \A i \in 1 .. Len(results') : results'[i] # h
    BY <1>2, <1>3 DEF GroupInv
  <2> QED BY <1>1, <1>4, <2>1 DEF Received
<1>6. ASSUME NEW d \in Components, d # h PROVE Received(d)' <=> Received(d)
  <2>1. Received(d) => Received(d)'
    BY <1>1, <1>2, <1>3 DEF Received
  <2>2. ASSUME Received(d)', NEW i \in 1 .. Len(results) PROVE results[i] # d
    <3>1. CASE i = 1
      BY <1>3, <1>6, <3>1
    <3>2. CASE i # 1
      <4>1. i - 1 \in 1 .. Len(results') /\ results'[i - 1] = results[i]
        BY <1>2, <1>3, <3>2
      <4> QED BY <2>2, <4>1 DEF Received
    <3> QED BY <3>1, <3>2
  <2>3. Received(d)' => Received(d)
    BY <1>1, <2>2 DEF Received
  <2> QED BY <2>1, <2>3
<1>7. ~ Received(h)
  BY <1>2, <1>3 DEF Received
<1>8. firstErr' <=> \E d \in items : Received(d)' /\ outcome'[d] = "error"
  <2>1. firstErr' <=> (firstErr \/ outcome[h] = "error")
    BY <1>1
  <2>2. firstErr <=> \E d \in items : Received(d) /\ outcome[d] = "error"
    BY DEF GroupInv
  <2> QED BY <1>1, <1>2, <1>4, <1>5, <1>6, <1>7, <2>1, <2>2
<1>9. group' = "returned" => AllReceived(0)'
  <2>1. group' = "returned" => AllReceived(1)
    BY DEF GroupReceives
  <2> QED BY <1>1, <1>3, <2>1 DEF AllReceived
<1>10. \A i \in 1 .. Len(results') : run'[results'[i]] = "returned"
  BY <1>1, <1>2, <1>3 DEF GroupInv
<1>11. \A i, j \in 1 .. Len(results') : results'[i] = results'[j] => i = j
  BY <1>1, <1>2, <1>3 DEF GroupInv
<1> QED
  BY <1>1, <1>8, <1>9, <1>10, <1>11 DEF GroupInv

\* Every step keeps the account that Group.Run keeps, and what app.Run returns
\* agrees with it.
LEMMA GroupStep ==
  TypeOK /\ GroupInv /\ FailureIsReported /\ [Next]_vars => GroupInv' /\ FailureIsReported'
<1> SUFFICES ASSUME TypeOK, GroupInv, FailureIsReported, [Next]_vars
             PROVE  GroupInv' /\ FailureIsReported'
  OBVIOUS
<1> USE DEF setup, mainVars, runVars, groupVars, webVars, reqVars, workerVars
<1>1. CASE UNCHANGED vars
  BY <1>1 DEF vars, GroupInv, FailureIsReported, AllReceived, Received, Alive
<1>2. CASE Next
  <2>0. Alive
    BY <1>2 DEF Next, Runs, World, Tick
  <2>1. ASSUME UNCHANGED <<items, results, firstErr, group, main, run, outcome>>,
               signal' = signal \/ signal'
        PROVE  GroupInv' /\ FailureIsReported'
    <3>1. \A c \in Components : Going(c)
      BY <2>1 DEF Going
    <3>2. ~ signal' => ~ signal /\ main' = main
      BY <2>1
    <3> QED
      BY <2>0, <2>1, <3>1, <3>2, GroupFrame DEF FailureIsReported, Alive
  <2>2. ASSUME NEW c \in Components, c \in items, run[c] \notin Over,
               NEW step \in {"serving", "starting", "working", "draining", "leaving"},
               run' = [run EXCEPT ![c] = step],
               \/ outcome' = outcome /\ step # "leaving"
               \/ \E err \in {"nil", "error"} : outcome' = [outcome EXCEPT ![c] = err],
               UNCHANGED <<items, results, firstErr, group, main, signal>>
        PROVE  GroupInv' /\ FailureIsReported'
    <3>1. \A d \in Components : Going(d)
      BY <2>2 DEF Going, TypeOK, Over
    <3> QED
      BY <2>0, <2>2, <3>1, GroupFrame DEF FailureIsReported, Alive
  <2>3. "web" \in Components /\ "worker" \in Components
    BY DEF Components
  <2>4. CASE WebListens \/ WebFails \/ WebCloses
    <3>1. "web" \in items /\ run["web"] \notin Over
      BY <2>3, <2>4 DEF WebListens, WebFails, WebCloses, GroupInv, Over
    <3> QED
      BY <2>2, <2>3, <2>4, <3>1 DEF WebListens, WebFails, WebCloses, Goto, Leave
  <2>5. CASE WorkerBegins \/ WorkerStarts \/ WorkerDrains \/ WorkerStops
    <3>1. "worker" \in items /\ run["worker"] \notin Over
      BY <2>3, <2>5 DEF WorkerBegins, WorkerStarts, WorkerDrains, WorkerStops, GroupInv, Over
    <3> QED
      BY <2>2, <2>3, <2>5, <3>1 DEF WorkerBegins, WorkerStarts, WorkerDrains, WorkerStops, Goto, Leave
  <2>6. CASE \E r \in Requests : Accept(r) \/ Finish(r)
    BY <2>1, <2>6 DEF Accept, Finish
  <2>7. ASSUME NEW by \in Callers,
               \/ WebDrains(by) \/ WebWakes(by) \/ WebStopped(by) \/ WebForced(by)
               \/ WorkerShutdown(by) \/ WorkerAnswers(by)
        PROVE  GroupInv' /\ FailureIsReported'
    BY <2>1, <2>7 DEF WebDrains, WebWakes, WebStopped, WebForced, WorkerShutdown, WorkerAnswers
  <2>8. CASE Tick
    BY <2>1, <2>8 DEF Tick
  <2>9. CASE SignalArrives
    BY <2>1, <2>9 DEF SignalArrives
  <2>10. ASSUME NEW c \in Components, Return(c) PROVE GroupInv' /\ FailureIsReported'
    BY <2>0, <2>10, ReturnStep DEF Return, FailureIsReported, Alive
  <2>11. CASE GroupReceives
    BY <2>0, <2>11, ReceiveStep DEF GroupReceives, FailureIsReported, Alive
  <2>12. CASE GroupStopped
    <3>1. /\ UNCHANGED <<items, results, firstErr, main, signal, run, outcome>>
          /\ group' = "returned" => AllReceived(0)
      BY <2>12 DEF GroupStopped
    <3>2. GroupInv'
      BY <3>1 DEF GroupInv, AllReceived, Received
    <3> QED
      BY <2>0, <3>1, <3>2 DEF FailureIsReported, Alive
  <2>13. CASE MainDrains \/ MainDrained \/ MainStops
    <3>1. UNCHANGED <<items, results, firstErr, group, run, outcome, signal>> /\ signal
      BY <2>13 DEF MainDrains, MainDrained, MainStops, GroupInv
    <3>2. \A c \in Components : Going(c)
      BY <3>1 DEF Going
    <3> QED
      BY <3>1, <3>2, GroupFrame DEF FailureIsReported
  <2>14. CASE MainLearns
    <3>1. /\ UNCHANGED <<items, results, firstErr, group, run, outcome, signal>>
          /\ main' = "exited" /\ told' = (IF firstErr THEN "error" ELSE "nil")
          /\ group = "returned"
      BY <2>14 DEF MainLearns, Exit
    <3>2. \A c \in Components : Going(c)
      BY <3>1 DEF Going
    <3>3. GroupInv'
      BY <3>1, <3>2, GroupFrame
    <3>4. AllReceived(0) /\ \A c \in items : Received(c) /\ outcome[c] \in {"nil", "error"}
      <4>1. AllReceived(0)
        BY <3>1 DEF GroupInv
      <4>2. Len(results) = 0 /\ \A c \in items : run[c] = "returned" /\ c \in Components
        BY <4>1 DEF AllReceived, TypeOK, Modes
      <4> QED
        BY <4>1, <4>2 DEF Received, GroupInv, Over
    <3>5. told' = "nil" <=> \A c \in items : outcome[c] = "nil"
      BY <3>1, <3>4 DEF GroupInv
    <3> QED
      BY <3>1, <3>3, <3>4, <3>5 DEF FailureIsReported, AllReceived
  <2> QED
    BY <1>2, <2>4, <2>5, <2>6, <2>7, <2>8, <2>9, <2>10, <2>11, <2>12, <2>13, <2>14
       DEF Next, Runs, World
<1> QED
  BY <1>1, <1>2

\* The account that Group.Run keeps is right in every reachable state.
THEOREM GroupInvariant == Spec => [](GroupInv /\ FailureIsReported)
<1>1. Init => GroupInv /\ FailureIsReported
  <2> SUFFICES ASSUME Init PROVE GroupInv /\ FailureIsReported
    OBVIOUS
  <2>1. /\ \A c \in Components : run[c] = "new"
        /\ results = <<>> /\ ~ firstErr /\ group = "receive" /\ main = "select"
        /\ items \subseteq Components
    BY DEF Init, Modes
  <2> QED
    BY <2>1 DEF GroupInv, FailureIsReported, Received, Over, Alive
<1>2. IInv => TypeOK
  BY DEF IInv
<1> QED
  BY <1>1, <1>2, GroupStep, Invariant, PTL DEF Spec

\* When nobody asked for the shutdown, app.Run returns an error exactly if one of
\* its components failed, after every one has returned: Group.Run loses no
\* outcome, in whatever order they come.
THEOREM FailureIsReportedHolds == Spec => []FailureIsReported
  BY GroupInvariant, PTL

\* A step that moves no Run, answers no call and starts no timer keeps what is
\* known of the stages and the clocks.
LEMMA StageFrame ==
  ASSUME StageInv, UNCHANGED <<run, early, cancelled, stopped>>,
         main' = "select" => main = "select",
         \A by \in Callers, c \in Components : call'[by][c] = call[by][c]
  PROVE  StageInv'
  BY DEF StageInv, Callers, Components

LEMMA ClockFrame ==
  ASSUME TypeOK, ClockInv, UNCHANGED <<items, run, left>>,
         main' = "shutdown" => main = "shutdown",
         \A c \in Components : call'["main"][c] = call["main"][c]
  PROVE  ClockInv'
<1>1. items \subseteq Components /\ "worker" \in Components
  BY DEF TypeOK, Modes, Components
<1>2. {call'["main"][c] : c \in items} = {call["main"][c] : c \in items}
  BY <1>1
<1> QED
  BY <1>1, <1>2 DEF ClockInv

\* What a step of a Run does to the Runs.
LEMMA GotoChangesOne ==
  ASSUME TypeOK, NEW c \in Components, NEW step, Goto(c, step)
  PROVE  \A d \in Components : run'[d] = IF d = c THEN step ELSE run[d]
  BY DEF TypeOK, Goto

\* The stages of the Runs go with the answers of their Shutdowns.
LEMMA StageStep == TypeOK /\ GroupInv /\ StageInv /\ Next => StageInv'
<1> SUFFICES ASSUME TypeOK, GroupInv, StageInv, Next PROVE StageInv'
  OBVIOUS
<1> USE DEF setup, mainVars, runVars, groupVars, webVars, reqVars, workerVars
<1>0. /\ "web" \in Components /\ "worker" \in Components /\ "web" # "worker"
      /\ "main" \in Callers /\ "group" \in Callers
  BY DEF Components, Callers
<1>1. CASE WebListens \/ WebFails \/ WebCloses
  <2>1. \E step \in {"serving", "leaving"} :
           Goto("web", step) /\ (step = "serving" => ~stopped)
    BY <1>1 DEF WebListens, WebFails, WebCloses, Leave
  <2>2. PICK step \in {"serving", "leaving"} :
           Goto("web", step) /\ (step = "serving" => ~stopped)
    BY <2>1
  <2>3. run'["web"] = step /\ run'["worker"] = run["worker"]
    BY <1>0, <2>2, GotoChangesOne
  <2>4. UNCHANGED <<call, early, cancelled, stopped, main>>
    BY <1>1 DEF WebListens, WebFails, WebCloses
  <2> QED
    BY <2>2, <2>3, <2>4 DEF StageInv, Over
<1>2. CASE WorkerBegins \/ WorkerStarts \/ WorkerDrains \/ WorkerStops
  <2>1. \E step \in {"starting", "working", "draining", "leaving"} :
           /\ Goto("worker", step) /\ run["worker"] \notin Over
           /\ run["worker"] = "new" /\ early => step = "leaving"
    BY <1>2 DEF WorkerBegins, WorkerStarts, WorkerDrains, WorkerStops, Leave, Over
  <2>2. PICK step \in {"starting", "working", "draining", "leaving"} :
           /\ Goto("worker", step) /\ run["worker"] \notin Over
           /\ run["worker"] = "new" /\ early => step = "leaving"
    BY <2>1
  <2>3. run'["worker"] = step /\ run'["web"] = run["web"]
    BY <1>0, <2>2, GotoChangesOne
  <2>4. UNCHANGED <<call, early, cancelled, stopped, main>>
    BY <1>2 DEF WorkerBegins, WorkerStarts, WorkerDrains, WorkerStops
  <2> QED
    BY <2>2, <2>3, <2>4 DEF StageInv, Over
<1>3. CASE \E c \in Components : Return(c)
  <2>1. PICK c \in Components : Return(c)
    BY <1>3
  <2>2. \A d \in Components : run'[d] = IF d = c THEN "returned" ELSE run[d]
    BY <2>1, GotoChangesOne DEF Return
  <2>3. UNCHANGED <<call, early, cancelled, stopped, main>> /\ run[c] = "leaving"
    BY <2>1 DEF Return
  <2> QED
    BY <1>0, <2>2, <2>3 DEF StageInv, Over
<1>4. CASE \E r \in Requests : Accept(r) \/ Finish(r)
  <2>1. UNCHANGED <<run, call, early, cancelled, stopped, main>>
    BY <1>4 DEF Accept, Finish
  <2> QED
    BY <2>1 DEF StageInv
<1>5. CASE SignalArrives \/ GroupStopped \/ Tick
  <2>1. UNCHANGED <<run, call, early, cancelled, stopped, main>>
    BY <1>5 DEF SignalArrives, GroupStopped, Tick
  <2> QED
    BY <2>1, StageFrame
<1>6. CASE MainLearns \/ MainDrained \/ MainStops
  <2>1. /\ UNCHANGED <<run, call, early, cancelled, stopped>>
        /\ main' # "select"
    BY <1>6 DEF MainLearns, MainDrained, MainStops, Exit
  <2> QED
    BY <2>1, StageFrame
<1>7. CASE MainDrains
  <2>1. UNCHANGED <<run, early, cancelled, stopped>> /\ main' = "shutdown"
        /\ main = "select"
    BY <1>7 DEF MainDrains
  <2>2. \A c \in Components : /\ call'["group"][c] = call["group"][c]
                              /\ call'["main"][c] \in {call["main"][c], "called"}
    BY <1>7 DEF MainDrains, TypeOK, Callers
  <2> QED
    BY <1>0, <2>1, <2>2 DEF StageInv, Callers
<1>8. CASE GroupReceives
  <2>1. UNCHANGED <<run, early, cancelled, stopped, main>>
    BY <1>8 DEF GroupReceives
  <2>2. \A c \in Components : /\ call'["main"][c] = call["main"][c]
                              /\ call'["group"][c] \in {call["group"][c], "called"}
    BY <1>8 DEF GroupReceives, TypeOK, Callers
  <2> QED
    BY <1>0, <2>1, <2>2 DEF StageInv, Callers
<1>9. ASSUME NEW by \in Callers,
             WebDrains(by) \/ WebWakes(by) \/ WebStopped(by) \/ WebForced(by)
      PROVE  StageInv'
  <2>1. PICK what \in {"sleep", "called", "inner", "nil", "timeout"} :
          /\ Answer(by, "web", what)
          /\ what \in {"inner", "nil", "timeout"} => stopped'
          /\ what \in {"nil", "timeout"} => run["web"] # "serving"
    <3>1. CASE WebDrains(by)
      <4>1. CASE once = "new"
        BY <3>1, <4>1 DEF WebDrains
      <4>2. CASE once = "done"
        <5>1. Answer(by, "web", "inner") /\ stopped'
          BY <3>1, <4>2 DEF WebDrains
        <5> QED BY <5>1
      <4> QED BY <3>1, <4>1, <4>2 DEF WebDrains
    <3>2. CASE WebWakes(by)
      BY <3>2 DEF WebWakes
    <3>3. CASE WebStopped(by)
      <4>1. stopped' = stopped /\ stopped
        BY <3>3 DEF WebStopped, StageInv
      <4>2. Answer(by, "web", "nil") /\ run["web"] # "serving"
        BY <3>3 DEF WebStopped
      <4> QED BY <4>1, <4>2
    <3>4. CASE WebForced(by)
      <4>1. stopped' = stopped /\ stopped
        BY <3>4 DEF WebForced, StageInv
      <4>2. Answer(by, "web", "timeout") /\ run["web"] # "serving"
        BY <3>4 DEF WebForced
      <4> QED BY <4>1, <4>2
    <3> QED BY <1>9, <3>1, <3>2, <3>3, <3>4
  <2>2. \A b \in Callers, d \in Components :
          call'[b][d] = IF b = by /\ d = "web" THEN what ELSE call[b][d]
    BY <1>0, <2>1, AnswerChangesOne DEF Answers
  <2>3. UNCHANGED <<run, early, cancelled, main>>
    BY <1>9 DEF WebDrains, WebWakes, WebStopped, WebForced
  <2>4. stopped => stopped'
    BY <1>9 DEF WebDrains, WebWakes, WebStopped, WebForced
  <2> QED
    BY <1>0, <2>1, <2>2, <2>3, <2>4 DEF StageInv
<1>10. ASSUME NEW by \in Callers, WorkerShutdown(by) \/ WorkerAnswers(by)
       PROVE  StageInv'
  <2>1. UNCHANGED <<run, stopped, main>> /\ call[by]["worker"] # "none"
    BY <1>10 DEF WorkerShutdown, WorkerAnswers
  <2>2. (early => early') /\ (cancelled => cancelled')
    BY <1>10 DEF WorkerShutdown, WorkerAnswers
  <2>3. PICK what \in {"nil", "wait", "timeout"} :
          /\ Answer(by, "worker", what)
          /\ what = "nil" => \/ run["worker"] \in Over
                             \/ run["worker"] = "new" /\ early'
          /\ what = "wait" => cancelled' /\ run["worker"] # "new"
    <3>1. CASE WorkerAnswers(by)
      <4>1. \/ run["worker"] \in Over /\ Answer(by, "worker", "nil")
            \/ Answer(by, "worker", "timeout")
        BY <3>1 DEF WorkerAnswers
      <4>2. CASE run["worker"] \in Over /\ Answer(by, "worker", "nil")
        BY <4>2
      <4>3. CASE Answer(by, "worker", "timeout")
        BY <4>3
      <4> QED BY <4>1, <4>2, <4>3
    <3>2. CASE WorkerShutdown(by)
      <4>1. CASE run["worker"] = "new"
        <5>1. Answer(by, "worker", "nil") /\ early'
          BY <3>2, <4>1 DEF WorkerShutdown, Over
        <5> QED BY <4>1, <5>1
      <4>2. CASE run["worker"] \in Over
        <5>1. Answer(by, "worker", "nil")
          BY <3>2, <4>2 DEF WorkerShutdown, Over
        <5> QED BY <4>2, <5>1
      <4>3. CASE run["worker"] \notin Over \cup {"new"}
        <5>1. Answer(by, "worker", "wait") /\ cancelled' /\ run["worker"] # "new"
          BY <3>2, <4>3 DEF WorkerShutdown, Over
        <5> QED BY <5>1
      <4> QED BY <4>1, <4>2, <4>3
    <3> QED BY <1>10, <3>1, <3>2
  <2>4. \A b \in Callers, d \in Components :
          call'[b][d] = IF b = by /\ d = "worker" THEN what ELSE call[b][d]
    BY <1>0, <2>3, AnswerChangesOne DEF Answers
  <2>5. main' = "select" => by # "main"
    BY <2>1 DEF StageInv
  <2> QED
    BY <1>0, <2>1, <2>2, <2>3, <2>4, <2>5 DEF StageInv
<1> QED
  BY <1>1, <1>2, <1>3, <1>4, <1>5, <1>6, <1>7, <1>8, <1>9, <1>10 DEF Next, Runs, World

\* The worker's drain ends before app.Run's deadline, and no time passes before
\* the Runs have begun and the worker has been told.
LEMMA ClockStep == TypeOK /\ GroupInv /\ StageInv /\ ClockInv /\ Next => ClockInv'
<1> SUFFICES ASSUME TypeOK, GroupInv, StageInv, ClockInv, Next PROVE ClockInv'
  OBVIOUS
<1> USE DEF setup, mainVars, runVars, groupVars, webVars, reqVars, workerVars
<1>0. /\ "web" \in Components /\ "worker" \in Components /\ "web" # "worker"
      /\ "main" \in Callers /\ items \subseteq Components /\ "stop" \in Timers
      /\ "main" \in Timers /\ left["main"] \in Int /\ left["stop"] \in Int
  BY DEF Components, Callers, TypeOK, Modes, Timers
<1>1. ASSUME UNCHANGED <<items, left, main, call>>,
             \A c \in Components : run'[c] = "new" => run[c] = "new",
             run'["worker"] \in {run["worker"]} \cup Over
      PROVE  ClockInv'
  BY <1>0, <1>1 DEF ClockInv, Over
<1>2. CASE WebListens \/ WebFails \/ WebCloses
  <2>1. PICK step \in {"serving", "leaving"} : Goto("web", step)
    BY <1>2 DEF WebListens, WebFails, WebCloses, Leave
  <2>2. \A d \in Components : run'[d] = IF d = "web" THEN step ELSE run[d]
    BY <1>0, <2>1, GotoChangesOne
  <2> QED
    BY <1>0, <1>1, <1>2, <2>2 DEF WebListens, WebFails, WebCloses
<1>3. CASE WorkerBegins \/ WorkerStarts
  <2>1. PICK step \in {"starting", "working", "leaving"} : Goto("worker", step)
    BY <1>3 DEF WorkerBegins, WorkerStarts, Leave
  <2>2. \A d \in Components : run'[d] = IF d = "worker" THEN step ELSE run[d]
    BY <1>0, <2>1, GotoChangesOne
  <2>3. /\ UNCHANGED <<items, left, main, call>> /\ run["worker"] \in {"new", "starting"}
        /\ "worker" \in items
    BY <1>0, <1>3 DEF WorkerBegins, WorkerStarts, GroupInv
  <2>4. run["worker"] \notin Over
    BY <2>3 DEF Over
  <2> QED
    BY <1>0, <2>2, <2>3, <2>4 DEF ClockInv
<1>4. CASE WorkerDrains
  <2>1. \A d \in Components : run'[d] = IF d = "worker" THEN "draining" ELSE run[d]
    BY <1>0, <1>4, GotoChangesOne DEF WorkerDrains
  <2>2. /\ UNCHANGED <<items, main, call>> /\ run["worker"] = "working"
        /\ left' = [left EXCEPT !["stop"] = WorkerDrain]
    BY <1>4 DEF WorkerDrains, Timer
  <2>3. left'["stop"] = WorkerDrain /\ left'["main"] = left["main"]
    BY <1>0, <2>2 DEF TypeOK
  <2>4. run["worker"] \notin Over
    BY <2>2 DEF Over
  <2> QED
    BY <1>0, <2>1, <2>2, <2>3, <2>4 DEF ClockInv
<1>5. CASE WorkerStops
  <2>1. \A d \in Components : run'[d] = IF d = "worker" THEN "leaving" ELSE run[d]
    BY <1>0, <1>5, GotoChangesOne DEF WorkerStops, Leave
  <2> QED
    BY <1>0, <1>1, <1>5, <2>1 DEF WorkerStops, Over
<1>6. CASE \E c \in Components : Return(c)
  <2>1. PICK c \in Components : Return(c)
    BY <1>6
  <2>2. \A d \in Components : run'[d] = IF d = c THEN "returned" ELSE run[d]
    BY <2>1, GotoChangesOne DEF Return
  <2> QED
    BY <1>0, <1>1, <2>1, <2>2 DEF Return, Over
<1>7. CASE SignalArrives \/ GroupStopped \/ \E r \in Requests : Accept(r) \/ Finish(r)
  BY <1>0, <1>1, <1>7 DEF SignalArrives, GroupStopped, Accept, Finish
<1>8. CASE MainLearns \/ MainDrained \/ MainStops
  <2>1. UNCHANGED <<items, run, left, call>> /\ main' # "shutdown"
    BY <1>8 DEF MainLearns, MainDrained, MainStops, Exit
  <2> QED
    BY <2>1, ClockFrame
<1>9. CASE MainDrains
  <2>1. /\ UNCHANGED <<items, run>> /\ main = "select"
        /\ left' = [left EXCEPT !["main"] = ShutdownTimeout]
    BY <1>9 DEF MainDrains, Timer
  <2>2. left'["main"] = ShutdownTimeout /\ left'["stop"] = left["stop"]
    BY <1>0, <2>1 DEF TypeOK
  <2>3. \A c \in Components :
          call'["main"][c] = IF c \in items THEN "called" ELSE call["main"][c]
    BY <1>0, <1>9 DEF MainDrains, TypeOK
  <2>4. call["main"]["worker"] = "none"
    BY <2>1 DEF StageInv
  <2>5. call'["main"]["worker"] \notin {"wait", "timeout"}
    BY <1>0, <2>3, <2>4
  <2>6. \A c \in items : call'["main"][c] # "timeout"
    BY <1>0, <2>3
  <2> QED
    BY <1>0, <2>1, <2>2, <2>5, <2>6 DEF ClockInv
<1>10. CASE GroupReceives
  <2>1. UNCHANGED <<items, run, main>>
    BY <1>10 DEF GroupReceives
  <2>2. left'["main"] = left["main"] /\ left'["stop"] = left["stop"]
    BY <1>0, <1>10 DEF GroupReceives, Timer, TypeOK
  <2>3. \A c \in Components : call'["main"][c] = call["main"][c]
    BY <1>10 DEF GroupReceives, TypeOK, Callers
  <2>4. {call'["main"][c] : c \in items} = {call["main"][c] : c \in items}
    BY <1>0, <2>3
  <2> QED
    BY <1>0, <2>1, <2>2, <2>3, <2>4 DEF ClockInv
<1>11. ASSUME NEW by \in Callers,
              WebDrains(by) \/ WebWakes(by) \/ WebStopped(by) \/ WebForced(by)
       PROVE  ClockInv'
  <2>1. PICK what \in Answers :
          Answer(by, "web", what) /\ (what = "timeout" => left[by] <= 0)
    BY <1>11 DEF WebDrains, WebWakes, WebStopped, WebForced, Answers
  <2>2. \A b \in Callers, d \in Components :
          call'[b][d] = IF b = by /\ d = "web" THEN what ELSE call[b][d]
    BY <1>0, <2>1, AnswerChangesOne
  <2>3. UNCHANGED <<items, run, main>>
    BY <1>11 DEF WebDrains, WebWakes, WebStopped, WebForced
  <2>4. left'["main"] = left["main"] /\ left'["stop"] = left["stop"]
    BY <1>0, <1>11 DEF WebDrains, WebWakes, WebStopped, WebForced, Timer, TypeOK
  <2>5. call'["main"]["worker"] = call["main"]["worker"]
    BY <1>0, <2>2
  <2>6. ASSUME main = "shutdown", NEW c \in items, call'["main"][c] = "timeout"
        PROVE  left["main"] <= 0
    BY <1>0, <2>1, <2>2, <2>6 DEF ClockInv
  <2> QED
    BY <1>0, <2>3, <2>4, <2>5, <2>6 DEF ClockInv
<1>12. ASSUME NEW by \in Callers, WorkerShutdown(by) PROVE ClockInv'
  <2>1. UNCHANGED <<items, run, main, left>> /\ call[by]["worker"] = "called"
    BY <1>12 DEF WorkerShutdown
  <2>2. PICK what \in {"nil", "wait"} : Answer(by, "worker", what)
    BY <1>12 DEF WorkerShutdown
  <2>3. \A b \in Callers, d \in Components :
          call'[b][d] = IF b = by /\ d = "worker" THEN what ELSE call[b][d]
    BY <1>0, <2>2, AnswerChangesOne DEF Answers
  <2>4. CASE by # "main"
    BY <1>0, <2>1, <2>3, <2>4, ClockFrame
  <2>5. CASE by = "main"
    <3>1. call'["main"]["worker"] = what /\ call["main"]["worker"] = "called"
      BY <1>0, <2>1, <2>3, <2>5
    <3>2. ASSUME main = "shutdown", NEW c \in items, call'["main"][c] = "timeout"
          PROVE  left["main"] <= 0
      BY <1>0, <2>2, <2>3, <2>5, <3>2 DEF ClockInv
    <3>3. main = "shutdown" => left["main"] = ShutdownTimeout
      BY <1>0, <3>1 DEF ClockInv
    <3> QED
      BY <1>0, <2>1, <2>2, <3>1, <3>2, <3>3 DEF ClockInv
  <2> QED BY <2>4, <2>5
<1>13. ASSUME NEW by \in Callers, WorkerAnswers(by) PROVE ClockInv'
  <2>1. UNCHANGED <<items, run, main, left>> /\ call[by]["worker"] = "wait"
    BY <1>13 DEF WorkerAnswers
  <2>2. PICK what \in {"nil", "timeout"} :
          Answer(by, "worker", what) /\ (what = "timeout" => left[by] <= 0)
    BY <1>13 DEF WorkerAnswers
  <2>3. \A b \in Callers, d \in Components :
          call'[b][d] = IF b = by /\ d = "worker" THEN what ELSE call[b][d]
    BY <1>0, <2>2, AnswerChangesOne DEF Answers
  <2>4. CASE by # "main"
    BY <1>0, <2>1, <2>3, <2>4, ClockFrame
  <2>5. CASE by = "main"
    <3>1. call'["main"]["worker"] = what /\ call["main"]["worker"] = "wait"
      BY <1>0, <2>1, <2>3, <2>5
    <3>2. ASSUME main = "shutdown", NEW c \in items, call'["main"][c] = "timeout"
          PROVE  left["main"] <= 0
      BY <1>0, <2>2, <2>3, <2>5, <3>2 DEF ClockInv
    <3>3. ASSUME main = "shutdown", what = "timeout" PROVE run["worker"] \in Over
      <4>1. left["main"] <= 0 /\ left["main"] < ShutdownTimeout
        BY <1>0, <2>2, <2>5, <3>3
      <4> QED
        BY <1>0, <3>1, <3>3, <4>1 DEF ClockInv, StageInv
    <3> QED
      BY <1>0, <2>1, <2>2, <3>1, <3>2, <3>3 DEF ClockInv
  <2> QED BY <2>4, <2>5
<1>14. CASE Tick
  <2>1. UNCHANGED <<items, run, main, call>> /\ ~Ready
    BY <1>14 DEF Tick
  <2>2. /\ \A c \in items : run[c] # "new"
        /\ call["main"]["worker"] # "called"
        /\ cancelled => run["worker"] \notin {"starting", "working"}
        /\ run["worker"] = "draining" => left["stop"] > 0
    BY <1>0, <2>1 DEF Ready
  <2>3. left' = [t \in Timers |-> IF t \in Ticking /\ left[t] >= 0 THEN left[t] - 1 ELSE left[t]]
    BY <1>14 DEF Tick
  <2>4. /\ run["worker"] = "draining" => left'["stop"] = left["stop"] - 1
        /\ main = "shutdown" =>
             left'["main"] = IF left["main"] >= 0 THEN left["main"] - 1 ELSE left["main"]
    BY <1>0, <2>2, <2>3 DEF Ticking
  <2>5. call["main"]["worker"] = "wait" => run["worker"] \notin {"starting", "working"}
    BY <1>0, <2>2 DEF StageInv
  <2> QED
    BY <1>0, <2>1, <2>2, <2>4, <2>5 DEF ClockInv
<1> QED
  BY <1>2, <1>3, <1>4, <1>5, <1>6, <1>7, <1>8, <1>9, <1>10, <1>11, <1>12, <1>13, <1>14
     DEF Next, Runs, World

\* A step that moves neither the server nor a call of its Shutdown keeps what is
\* known of the answers.
LEMMA AnsweredFrame ==
  ASSUME AnsweredInv, UNCHANGED <<items, stopped, first, group, outcome>>,
         active' \subseteq active, main' = "await" => main = "await",
         abandoned' => /\ abandoned \/ left["stop"] <= 0
                       /\ run'["worker"] \in Over /\ left'["stop"] <= left["stop"],
         left["stop"] \in Int, left'["stop"] \in Int,
         \A by \in Callers : call'[by]["web"] = call[by]["web"]
  PROVE  AnsweredInv'
  BY DEF AnsweredInv, Finished, Callers

\* The answers of the server's Shutdown go with what its callers did next.
LEMMA AnsweredStep ==
  TypeOK /\ CallInv /\ GroupInv /\ StageInv /\ AnsweredInv /\ Next => AnsweredInv'
<1> SUFFICES ASSUME TypeOK, CallInv, GroupInv, StageInv, AnsweredInv, Next PROVE AnsweredInv'
  OBVIOUS
<1> USE DEF setup, mainVars, runVars, groupVars, webVars, reqVars, workerVars
<1>0. /\ "web" \in Components /\ "worker" \in Components /\ "web" # "worker"
      /\ "main" \in Callers /\ "group" \in Callers /\ items \subseteq Components
      /\ left["stop"] \in Int /\ Components = {"web", "worker"}
  BY DEF Components, Callers, TypeOK, Modes, Timers
<1>1. CASE WebListens \/ WebFails \/ WebCloses
  <2>1. PICK err \in {outcome["web"], "nil", "error"} :
          outcome'["web"] = err /\ (err = "nil" /\ outcome["web"] # "nil" => stopped)
    BY <1>0, <1>1 DEF WebListens, WebFails, WebCloses, Leave, TypeOK
  <2>2. PICK step \in {"serving", "leaving"} : Goto("web", step)
    BY <1>1 DEF WebListens, WebFails, WebCloses, Leave
  <2>3. run'["worker"] = run["worker"]
    BY <1>0, <2>2, GotoChangesOne
  <2>4. UNCHANGED <<items, call, stopped, active, first, group, main, abandoned, left>>
    BY <1>1 DEF WebListens, WebFails, WebCloses
  <2> QED
    BY <2>1, <2>3, <2>4 DEF AnsweredInv, Finished
<1>2. CASE WorkerBegins \/ WorkerStarts \/ WorkerDrains \/ WorkerStops
  <2>1. PICK step \in {"starting", "working", "draining", "leaving"} : Goto("worker", step)
    BY <1>2 DEF WorkerBegins, WorkerStarts, WorkerDrains, WorkerStops, Leave
  <2>2. run'["worker"] = step
    BY <1>0, <2>1, GotoChangesOne
  <2>3. run["worker"] \notin Over /\ UNCHANGED <<items, call, stopped, active, first, group, main>>
    BY <1>2 DEF WorkerBegins, WorkerStarts, WorkerDrains, WorkerStops, Over
  <2>4. ~ abandoned
    BY <2>3 DEF AnsweredInv
  <2>5. outcome'["web"] = outcome["web"]
    BY <1>0, <1>2 DEF WorkerBegins, WorkerStarts, WorkerDrains, WorkerStops, Leave, TypeOK
  <2>6. abandoned' => step = "leaving" /\ left["stop"] <= 0 /\ left' = left
    <3>1. CASE WorkerStops
      <4>1. run'["worker"] = "leaving"
        BY <1>0, <3>1, GotoChangesOne DEF WorkerStops, Leave
      <4>2. left' = left /\ (abandoned' => left["stop"] <= 0)
        BY <2>4, <3>1 DEF WorkerStops
      <4> QED BY <2>2, <4>1, <4>2
    <3>2. CASE WorkerBegins \/ WorkerStarts \/ WorkerDrains
      BY <2>4, <3>2 DEF WorkerBegins, WorkerStarts, WorkerDrains
    <3> QED BY <1>2, <3>1, <3>2
  <2> QED
    BY <2>2, <2>3, <2>5, <2>6 DEF AnsweredInv, Finished, Over
<1>3. CASE \E c \in Components : Return(c)
  <2>1. PICK c \in Components : Return(c)
    BY <1>3
  <2>2. run["worker"] \in Over => run'["worker"] \in Over
    BY <1>0, <2>1, GotoChangesOne DEF Return, Over
  <2>3. UNCHANGED <<items, call, stopped, active, first, group, main, outcome, abandoned, left>>
    BY <2>1 DEF Return
  <2> QED
    BY <2>2, <2>3 DEF AnsweredInv, Finished
<1>4. CASE \E r \in Requests : Accept(r) \/ Finish(r)
  <2>1. /\ UNCHANGED <<items, run, call, stopped, first, group, main, outcome, abandoned, left>>
        /\ active' # {} => active # {} \/ run["web"] = "serving"
    BY <1>4 DEF Accept, Finish
  <2>2. run["web"] = "serving" => "web" \in items
    BY <1>0 DEF GroupInv
  <2> QED
    BY <2>1, <2>2 DEF AnsweredInv, Finished
<1>5. CASE SignalArrives
  BY <1>0, <1>5, AnsweredFrame DEF SignalArrives, AnsweredInv
<1>6. CASE Tick
  <2>1. UNCHANGED <<items, run, call, stopped, active, first, group, main, outcome, abandoned>>
    BY <1>6 DEF Tick
  <2>2. left'["stop"] \in Int /\ left'["stop"] <= left["stop"]
    BY <1>0, <1>6 DEF Tick, Timers
  <2> QED
    BY <1>0, <2>1, <2>2, AnsweredFrame DEF AnsweredInv
<1>7. CASE GroupStopped
  <2>1. /\ UNCHANGED <<items, run, call, stopped, active, first, main, outcome, abandoned, left>>
        /\ group = "stopping"
        /\ \A c \in items \ {first} : Finished("group", c)
    BY <1>7 DEF GroupStopped
  <2> QED
    BY <2>1 DEF AnsweredInv, Finished
<1>8. CASE GroupReceives
  <2>1. /\ UNCHANGED <<items, run, stopped, active, main, outcome, abandoned>>
        /\ group = "receive" /\ results # <<>>
    BY <1>8 DEF GroupReceives
  <2>2. PICK h : h = Head(results)
    OBVIOUS
  <2>3. h \in items
    <3>1. h = results[1] /\ 1 \in 1 .. Len(results) /\ h \in Components
      BY <2>1, <2>2 DEF TypeOK
    <3> QED BY <3>1 DEF GroupInv
  <2>4. left'["stop"] = left["stop"]
    BY <1>0, <1>8 DEF GroupReceives, Timer, TypeOK, Timers
  <2>5. call'["main"]["web"] = call["main"]["web"]
    BY <1>8 DEF GroupReceives, TypeOK, Callers
  <2>6. CASE first = "none"
    <3>1. first' = h /\ group' = "stopping"
      BY <1>8, <2>2, <2>6 DEF GroupReceives
    <3>2. call["group"]["web"] = "none"
      BY <2>6 DEF CallInv
    <3>3. call'["group"]["web"] = IF "web" \in items \ {h} THEN "called" ELSE "none"
      BY <1>0, <1>8, <2>2, <2>6, <3>2 DEF GroupReceives, TypeOK
    <3> QED
      BY <1>0, <2>1, <2>3, <2>4, <2>5, <3>1, <3>2, <3>3 DEF AnsweredInv, Finished, Callers
  <2>7. CASE first # "none"
    <3>1. UNCHANGED <<first, call>>
      BY <1>8, <2>7 DEF GroupReceives
    <3> QED
      BY <2>1, <2>4, <2>7, <3>1 DEF AnsweredInv, Finished
  <2> QED BY <2>6, <2>7
<1>9. CASE MainLearns \/ MainStops
  <2>1. /\ UNCHANGED <<items, run, call, stopped, first, group, outcome, abandoned, left>>
        /\ active' = {} /\ main' = "exited"
    BY <1>9 DEF MainLearns, MainStops, Exit
  <2> QED
    BY <2>1 DEF AnsweredInv, Finished
<1>10. CASE MainDrained
  <2>1. /\ UNCHANGED <<items, run, call, stopped, first, group, outcome, abandoned, left>>
        /\ active' \subseteq active /\ \A c \in items : Finished("main", c)
    BY <1>10 DEF MainDrained, Exit
  <2> QED
    BY <2>1 DEF AnsweredInv, Finished
<1>11. CASE MainDrains
  <2>1. /\ UNCHANGED <<items, run, stopped, active, first, group, outcome, abandoned>>
        /\ main = "select" /\ main' = "shutdown"
    BY <1>11 DEF MainDrains
  <2>2. call'["group"]["web"] = call["group"]["web"] /\ left'["stop"] = left["stop"]
    BY <1>0, <1>11 DEF MainDrains, Timer, TypeOK, Timers
  <2>3. call["main"]["web"] = "none"
    BY <2>1 DEF CallInv
  <2> QED
    BY <1>0, <2>1, <2>2, <2>3 DEF AnsweredInv, Finished, Callers
<1>12. ASSUME NEW by \in Callers,
              WebDrains(by) \/ WebWakes(by) \/ WebStopped(by) \/ WebForced(by)
       PROVE  AnsweredInv'
  <2>1. /\ UNCHANGED <<items, run, first, group, main, outcome, abandoned>>
        /\ active' \subseteq active /\ call[by]["web"] \in {"called", "sleep", "inner"}
    BY <1>12 DEF WebDrains, WebWakes, WebStopped, WebForced
  <2>2. left'["stop"] = left["stop"]
    BY <1>0, <1>12 DEF WebDrains, WebWakes, WebStopped, WebForced, Timer, TypeOK, Timers
  <2>3. stopped => stopped'
    BY <1>12 DEF WebDrains, WebWakes, WebStopped, WebForced
  <2>4. PICK what \in {"sleep", "called", "inner", "nil", "timeout"} :
          /\ Answer(by, "web", what)
          /\ stopped' => what \in {"inner", "nil", "timeout"} \/ (stopped /\ call[by]["web"] # "inner")
    <3>1. CASE WebDrains(by)
      <4>1. CASE once = "new"
        <5>1. stopped' = stopped /\ Answer(by, "web", "sleep") /\ call[by]["web"] = "called"
          BY <3>1, <4>1 DEF WebDrains
        <5> QED BY <5>1
      <4>2. CASE once = "done"
        <5>1. Answer(by, "web", "inner")
          BY <3>1, <4>2 DEF WebDrains
        <5> QED BY <5>1
      <4> QED BY <3>1, <4>1, <4>2 DEF WebDrains
    <3>2. CASE WebWakes(by)
      <4>1. stopped' = stopped /\ Answer(by, "web", "called") /\ call[by]["web"] = "sleep"
        BY <3>2 DEF WebWakes
      <4> QED BY <4>1
    <3>3. CASE WebStopped(by)
      <4>1. Answer(by, "web", "nil")
        BY <3>3 DEF WebStopped
      <4> QED BY <4>1
    <3>4. CASE WebForced(by)
      <4>1. Answer(by, "web", "timeout")
        BY <3>4 DEF WebForced
      <4> QED BY <4>1
    <3> QED BY <1>12, <3>1, <3>2, <3>3, <3>4
  <2>5. \A b \in Callers :
          call'[b]["web"] = IF b = by THEN what ELSE call[b]["web"]
    BY <1>0, <2>4, AnswerChangesOne DEF Answers
  <2>6. stopped' => \E b \in Callers : call'[b]["web"] \in {"inner", "nil", "timeout"}
    BY <2>1, <2>4, <2>5 DEF AnsweredInv
  <2> QED
    BY <1>0, <2>1, <2>2, <2>3, <2>5, <2>6 DEF AnsweredInv, Finished
<1>13. ASSUME NEW by \in Callers, WorkerShutdown(by) \/ WorkerAnswers(by)
       PROVE  AnsweredInv'
  <2>1. UNCHANGED <<items, run, stopped, active, first, group, main, outcome, abandoned, left>>
    BY <1>13 DEF WorkerShutdown, WorkerAnswers
  <2>2. PICK what \in {"nil", "wait", "timeout"} : Answer(by, "worker", what)
    BY <1>13 DEF WorkerShutdown, WorkerAnswers
  <2>3. \A b \in Callers : call'[b]["web"] = call[b]["web"]
    BY <1>0, <2>2, AnswerChangesOne DEF Answers
  <2> QED
    BY <1>0, <2>1, <2>3, AnsweredFrame DEF AnsweredInv
<1> QED
  BY <1>1, <1>2, <1>3, <1>4, <1>5, <1>6, <1>7, <1>8, <1>9, <1>10, <1>11, <1>12, <1>13
     DEF Next, Runs, World

\* Whichever way app.Run returns, every Run is over by then.
LEMMA RunsAreOver ==
  ASSUME TypeOK, GroupInv, StageInv, ClockInv, Next, main' = "exited"
  PROVE  items' = items /\ run' = run /\ \A c \in items : run[c] \in Over
<1> USE DEF setup, mainVars, runVars, groupVars, webVars, reqVars, workerVars
<1>0. "web" \in Components /\ "worker" \in Components /\ "main" \in Callers
      /\ items \subseteq {"web", "worker"} /\ left["main"] \in Int
  BY DEF Components, Callers, TypeOK, Modes, Timers
<1>1. Alive
  BY DEF Next, Runs, World, Tick
<1>2. CASE MainLearns \/ MainStops
  <2>1. UNCHANGED <<items, run>> /\ group = "returned"
    BY <1>2 DEF MainLearns, MainStops
  <2> QED
    BY <2>1 DEF GroupInv, AllReceived, Over
<1>3. CASE MainDrained
  <2>1. /\ UNCHANGED <<items, run>> /\ main = "shutdown"
        /\ \A c \in items : call["main"][c] \in {"nil", "timeout"}
        /\ \E c \in items : call["main"][c] = "timeout"
    BY <1>3 DEF MainDrained, Finished
  <2>2. left["main"] <= 0
    BY <2>1 DEF ClockInv
  <2>3. \A c \in items : run[c] # "new"
    <3>1. left["main"] < ShutdownTimeout
      BY <1>0, <2>2
    <3> QED BY <2>1, <3>1 DEF ClockInv
  <2>4. "web" \in items => run["web"] \in Over
    BY <1>0, <2>1, <2>3 DEF StageInv
  <2>5. "worker" \in items => run["worker"] \in Over
    BY <1>0, <2>1, <2>3 DEF StageInv, ClockInv
  <2> QED
    BY <1>0, <2>1, <2>4, <2>5
<1> QED
  BY <1>1, <1>2, <1>3
     DEF Next, Runs, World, Tick, Alive, WebListens, Accept, Finish, WebFails, WebCloses,
         WebDrains, WebWakes, WebStopped, WebForced, WorkerBegins, WorkerStarts,
         WorkerDrains, WorkerStops, WorkerShutdown, WorkerAnswers, Return,
         GroupReceives, GroupStopped, SignalArrives, MainDrains

\* A request in flight when app.Run returns is one whose listener failed: a call
\* of Shutdown that was answered has left none.
LEMMA CutAtExit ==
  ASSUME TypeOK, CutInv, CallInv, GroupInv, AnsweredInv, Alive, active # {},
         \/ main \in {"select", "await"} /\ group = "returned"
         \/ main = "shutdown" /\ \A c \in items : Finished("main", c)
  PROVE  outcome["web"] = "error"
<1>0. "web" \in items /\ "main" \in Callers /\ "group" \in Callers
  BY DEF AnsweredInv, Callers
<1>1. \A by \in Callers : ~ Finished(by, "web")
  BY DEF CutInv
<1>2. main = "select" /\ group = "returned"
  BY <1>0, <1>1 DEF AnsweredInv
<1>3. outcome["web"] \in {"nil", "error"}
  BY <1>0, <1>2 DEF GroupInv, AllReceived, Over, Components
<1>4. first \in {"web", "worker"}
  BY <1>2 DEF AnsweredInv, TypeOK, Modes, Components
<1>5. call["main"]["web"] = "none"
  BY <1>2 DEF CallInv
<1>6. stopped => call["group"]["web"] \in {"inner", "nil", "timeout"}
  BY <1>5 DEF AnsweredInv, Callers
<1>7. first # "worker"
  BY <1>0, <1>1, <1>2 DEF AnsweredInv
<1>8. ~ stopped
  BY <1>4, <1>6, <1>7 DEF AnsweredInv
<1> QED
  BY <1>3, <1>8 DEF AnsweredInv

\* Whichever way app.Run returns, what is left running has its reason.
LEMMA ExitStep ==
  IInv /\ GroupInv /\ StageInv /\ ClockInv /\ AnsweredInv /\ DrainedAtExit /\ Next
    => DrainedAtExit'
<1> SUFFICES ASSUME IInv, GroupInv, StageInv, ClockInv, AnsweredInv, Next, main' = "exited"
             PROVE  DrainedAtExit'
  BY DEF DrainedAtExit, Alive
<1> USE DEF setup, mainVars, runVars, groupVars, webVars, reqVars, workerVars
<1>1. TypeOK /\ CutInv /\ CallInv /\ Alive
  BY DEF IInv, Next, Runs, World, Tick
<1>2. items' = items /\ run' = run /\ \A c \in items : run[c] \in Over
  BY <1>1, RunsAreOver
<1>3. MainLearns \/ MainStops \/ MainDrained
  BY <1>1
     DEF Next, Runs, World, Tick, Alive, WebListens, Accept, Finish, WebFails, WebCloses,
         WebDrains, WebWakes, WebStopped, WebForced, WorkerBegins, WorkerStarts,
         WorkerDrains, WorkerStops, WorkerShutdown, WorkerAnswers, Return,
         GroupReceives, GroupStopped, SignalArrives, MainDrains
<1>4. /\ \/ main \in {"select", "await"} /\ group = "returned"
         \/ main = "shutdown" /\ \A c \in items : Finished("main", c)
      /\ cut' = cut \cup active /\ UNCHANGED <<outcome, call, abandoned, left>>
  BY <1>3 DEF MainLearns, MainStops, MainDrained, Exit
<1>5. active # {} => outcome["web"] = "error"
  BY <1>1, <1>4, CutAtExit
<1>6. cut # {} => \E by \in Callers : call[by]["web"] = "timeout"
  BY <1>1 DEF CutInv
<1>7. abandoned => left["stop"] <= 0
  BY DEF AnsweredInv
<1> QED
  BY <1>2, <1>4, <1>5, <1>6, <1>7 DEF DrainedAtExit

\* What the stages and the clocks say holds in every reachable state, for any
\* drain period and any worker drain shorter than the shutdown timeout.
THEOREM ClockInvariant == Spec => [](StageInv /\ ClockInv)
<1>1. Init => StageInv /\ ClockInv
  <2> SUFFICES ASSUME Init PROVE StageInv /\ ClockInv
    OBVIOUS
  <2>1. /\ \A c \in Components : run[c] = "new"
        /\ \A by \in Callers, c \in Components : call[by][c] = "none"
        /\ active = {} /\ main = "select"
    BY DEF Init
  <2> QED
    BY <2>1 DEF StageInv, ClockInv, Components, Callers
<1>2. StageInv /\ ClockInv /\ UNCHANGED vars => StageInv' /\ ClockInv'
  BY DEF vars, setup, StageInv, ClockInv
<1>3. TypeOK /\ GroupInv /\ StageInv /\ ClockInv /\ [Next]_vars => StageInv' /\ ClockInv'
  BY <1>2, StageStep, ClockStep
<1>4. IInv => TypeOK
  BY DEF IInv
<1> QED
  BY <1>1, <1>3, <1>4, Invariant, GroupInvariant, PTL DEF Spec

\* What is known of the answers of the server's Shutdown holds in every reachable
\* state.
LEMMA AnsweredInvariant == Spec => []AnsweredInv
<1>1. Init => AnsweredInv
  <2> SUFFICES ASSUME Init PROVE AnsweredInv
    OBVIOUS
  <2>1. /\ active = {} /\ outcome["web"] = "none" /\ ~ stopped /\ first = "none"
        /\ group = "receive" /\ main = "select" /\ ~ abandoned
    BY DEF Init, Components
  <2> QED
    BY <2>1 DEF AnsweredInv
<1>2. AnsweredInv /\ UNCHANGED vars => AnsweredInv'
  BY DEF vars, setup, AnsweredInv, Finished
<1>3. TypeOK /\ CallInv /\ GroupInv /\ StageInv /\ AnsweredInv /\ [Next]_vars => AnsweredInv'
  BY <1>2, AnsweredStep
<1>4. IInv => TypeOK /\ CallInv
  BY DEF IInv
<1> QED
  BY <1>1, <1>3, <1>4, Invariant, GroupInvariant, ClockInvariant, PTL DEF Spec

\* When app.Run returns, because the group returned, because the drain ended or
\* because it ran out of time, every Run is over, a request is cut only if the
\* listener failed or a deadline forced the close, and a job only if the worker's
\* drain ran out: for any drain period and worker drain shorter than the shutdown
\* timeout.
THEOREM DrainedAtExitHolds == Spec => []DrainedAtExit
<1>1. Init => DrainedAtExit
  BY DEF Init, DrainedAtExit, Alive
<1>2. DrainedAtExit /\ UNCHANGED vars => DrainedAtExit'
  BY DEF vars, setup, DrainedAtExit, Alive
<1>3. IInv /\ GroupInv /\ StageInv /\ ClockInv /\ AnsweredInv /\ DrainedAtExit /\ [Next]_vars
        => DrainedAtExit'
  BY <1>2, ExitStep
<1> QED
  BY <1>1, <1>3, Invariant, GroupInvariant, ClockInvariant, AnsweredInvariant, PTL DEF Spec
=============================================================================
