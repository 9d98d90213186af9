------------------------------- MODULE Suites -------------------------------
(***************************************************************************)
(* nise test: the selected suites are planned, run one after another as    *)
(* process groups, interrupted by a signal at any moment and summed up in  *)
(* one verdict.  Nothing is timed: the grace period and the delay after    *)
(* which os/exec stops waiting for a dead child's pipes may end whenever.  *)
(***************************************************************************)
EXTENDS Sequences

VARIABLES runnable,    \* the selected suites whose plan found a command
          todo,        \* the suites that have not run, in suiteOrder
          suite,       \* the suite that runs: step, processes, exit, Wait
          results,     \* results[s]: what the summary says of suite s
          exits,       \* exits[s]: how the process of suite s ended
          interrupted, \* sigCtx is done
          verdict      \* what nise test returns

tvars == <<runnable, todo, suite, results, exits, interrupted, verdict>>

suiteOrder == <<"go", "component", "e2e">>
Names == {"go", "component", "e2e"}

\* Without flags the fast suites are selected, otherwise exactly the flags'.
selectedSuites(flags) == IF flags = {} THEN {"go", "component"} ELSE flags

\* The selected suites, in suiteOrder.
Ordered(selected) ==
  LET pick(k) == IF suiteOrder[k] \in selected THEN <<suiteOrder[k]>> ELSE << >>
  IN pick(1) \o pick(2) \o pick(3)

\* What planning looks at; a script stands for the names that are looked for.
Facts == {"go.mod", "package.json", "node_modules", "test:component", "test:e2e"}

planGoSuite(disk) == "go.mod" \in disk
planPackageScriptSuite(disk, script) == {"package.json", "node_modules", script} \subseteq disk

PlannedSuites(disk) ==
  {s \in Names : \/ s = "go" /\ planGoSuite(disk)
                 \/ s = "component" /\ planPackageScriptSuite(disk, "test:component")
                 \/ s = "e2e" /\ planPackageScriptSuite(disk, "test:e2e")}

NoSuite == [step |-> "next", group |-> {}, exit |-> "none", wait |-> "none"]

TInit(flags, disk) ==
  /\ runnable = selectedSuites(flags) \cap PlannedSuites(disk)
  /\ todo = Ordered(selectedSuites(flags))
  /\ suite = NoSuite
  /\ results = [s \in Names |-> "none"] /\ exits = [s \in Names |-> "none"]
  /\ interrupted = FALSE /\ verdict = "none"
-----------------------------------------------------------------------------
(* runSuite.                                                               *)

Record(status) ==
  /\ results' = [results EXCEPT ![Head(todo)] = status]
  /\ exits' = [exits EXCEPT ![Head(todo)] = suite.exit]
  /\ todo' = Tail(todo) /\ suite' = NoSuite
  /\ UNCHANGED <<runnable, interrupted, verdict>>

\* Nothing to run, or the run is interrupted already.
Skip ==
  /\ suite.step = "next" /\ todo # <<>>
  /\ Head(todo) \notin runnable \/ interrupted
  /\ Record("skipped")

RunSuite ==
  /\ suite.step = "next" /\ todo # <<>>
  /\ Head(todo) \in runnable /\ ~interrupted
  /\ \/ /\ suite' = [suite EXCEPT !.step = "select", !.group = {"leader"}]
        /\ UNCHANGED <<runnable, todo, results, exits, interrupted, verdict>>
     \/ Record("failed")

SuiteOnly == UNCHANGED <<runnable, todo, results, exits, interrupted, verdict>>

\* The suite forks, and its processes end, with the status they like.
ProcessStep ==
  /\ suite' \in
       {[suite EXCEPT !.group = @ \cup {"kin"}] : p \in suite.group \cap {"leader"}}
       \cup {[suite EXCEPT !.group = @ \ {"kin"}] : p \in suite.group \cap {"kin"}}
       \cup {[suite EXCEPT !.group = @ \ {"leader"}, !.exit = how] :
               how \in IF "leader" \in suite.group THEN {"zero", "nonzero"} ELSE {}}
  /\ SuiteOnly

\* Wait returns once the child is dead and its pipes are closed; closed by
\* os/exec under a process that holds them, they make an error of success.
WaitReturns ==
  /\ suite.exit # "none" /\ suite.wait = "none"
  /\ \E wait \in {"nil", "error"} :
       /\ wait = "nil" => suite.exit = "zero"
       /\ wait = "error" => suite.exit = "nonzero" \/ suite.group # {}
       /\ suite' = [suite EXCEPT !.wait = wait]
  /\ SuiteOnly

\* The context is done first: SIGTERM, which the suite may handle as it likes,
\* and after the grace SIGKILL, to the whole group.
Stop ==
  /\ suite.step = "select" /\ interrupted
  /\ suite' = [suite EXCEPT !.step = "term"]
  /\ SuiteOnly

Kill ==
  /\ suite.step = "term" /\ suite.wait = "none"
  /\ suite' = [suite EXCEPT !.step = "killed", !.group = {},
                            !.exit = IF @ = "none" THEN "nonzero" ELSE @]
  /\ SuiteOnly

\* Waited, in the select or after Stop: only a nil error is a pass.
Judge ==
  /\ suite.step \in {"select", "term", "killed"} /\ suite.wait # "none"
  /\ Record(IF suite.wait = "nil" THEN "passed" ELSE "failed")
-----------------------------------------------------------------------------
Interrupt ==
  /\ ~interrupted /\ verdict = "none" /\ interrupted' = TRUE
  /\ UNCHANGED <<runnable, todo, suite, results, exits, verdict>>

SuiteFailed == \E s \in Names : results[s] = "failed"

\* Mutant of Report: an interrupted run in which no suite failed is a success.
ReportFailuresOnly ==
  /\ suite.step = "next" /\ todo = <<>> /\ verdict = "none"
  /\ verdict' = IF SuiteFailed THEN "suite_failed" ELSE "nil"
  /\ UNCHANGED <<runnable, todo, suite, results, exits, interrupted>>

\* The first failure, then the interrupt, decide what the command returns.
Report ==
  /\ suite.step = "next" /\ todo = <<>> /\ verdict = "none"
  /\ verdict' = IF SuiteFailed THEN "suite_failed"
                ELSE IF interrupted THEN "interrupted" ELSE "nil"
  /\ UNCHANGED <<runnable, todo, suite, results, exits, interrupted>>

TNext == \/ Skip \/ RunSuite \/ ProcessStep \/ WaitReturns \/ Stop \/ Kill \/ Judge
         \/ Interrupt \/ Report

TSpec == (\E flags \in SUBSET Names, disk \in SUBSET Facts : TInit(flags, disk))
         /\ [][TNext]_tvars
-----------------------------------------------------------------------------
\* nise test succeeds only if every suite that was selected and has a command
\* ran to its end and exited zero: whichever suite the signal falls in, before,
\* between or after, and although a suite that handles the signal and exits
\* zero counts as passed and the suites behind it are skipped, not failed.
SuccessMeansTested ==
  verdict = "nil" => \A s \in runnable : results[s] = "passed" /\ exits[s] = "zero"
=============================================================================
