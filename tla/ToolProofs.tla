----------------------------- MODULE ToolProofs -----------------------------
(***************************************************************************)
(* Proofs about two of nise's commands: generate (Slices), for every set   *)
(* of nouns and number of commands at once, and test (Suites), for every   *)
(* selection of suites and every plan.                                     *)
(***************************************************************************)
EXTENDS Slices, Suites, TLAPS

-----------------------------------------------------------------------------
(* Generate. *)

(* A generate command creates files and changes none: whatever exists when it
   writes, made since it looked or at a path that two nouns share, stays as it
   was; the create is exclusive, so the check before it need not be (CheckPlan,
   Write). *)
THEOREM GenerateOverwritesNothingHolds == SSpec => GenerateOverwritesNothing
<1> DEFINE FilesInv == DOMAIN files = AllFiles
<1>1. SInit => FilesInv
  BY DEF SInit
<1>2. FilesInv /\ [SNext]_svars =>
        /\ FilesInv'
        /\ command' /= command =>
             \A p \in AllFiles : files[p] /= Nil => files'[p] = files[p]
  <2> SUFFICES ASSUME FilesInv, [SNext]_svars
               PROVE  /\ FilesInv'
                      /\ command' /= command =>
                           \A p \in AllFiles : files[p] /= Nil => files'[p] = files[p]
    OBVIOUS
  <2>1. ASSUME NEW g \in Generators, generateSlice(g) \/ CheckPlan(g) \/ Finish(g)
        PROVE  files' = files
    BY <2>1 DEF generateSlice, CheckPlan, Finish
  <2>2. ASSUME NEW g \in Generators, Write(g)
        PROVE  /\ DOMAIN files' = DOMAIN files
               /\ \A p \in AllFiles : files[p] /= Nil => files'[p] = files[p]
    BY <2>2 DEF Write, Create
  <2>3. ASSUME NEW g \in Generators, WriteFails(g)
        PROVE  /\ DOMAIN files' = DOMAIN files
               /\ \A p \in AllFiles : files[p] /= Nil => files'[p] = files[p]
    BY <2>3 DEF WriteFails
  <2>4. CASE Touch
    BY <2>4 DEF Touch
  <2>5. CASE UNCHANGED svars
    BY <2>5 DEF svars
  <2> QED BY <2>1, <2>2, <2>3, <2>4, <2>5 DEF SNext
<1> QED BY <1>1, <1>2, PTL DEF SSpec, GenerateOverwritesNothing

-----------------------------------------------------------------------------
(* Test. *)

(* A suite with a command has yet to run, or has a verdict of its own, or the
   run was interrupted; a process that is gone stays gone, so what Wait said of
   its exit status stays true; nothing runs once the verdict is out. *)
Awaited(s) == \E k \in 1..Len(todo) : todo[k] = s
SuiteInv ==
  /\ suite \in [step : {"next", "select", "term", "killed"}, group : SUBSET {"leader", "kin"},
                exit : {"none", "zero", "nonzero"}, wait : {"none", "nil", "error"}]
  /\ suite.step = "next" => suite = NoSuite
  /\ suite.step /= "next" => todo # << >>
  /\ suite.exit # "none" => "leader" \notin suite.group
  /\ suite.wait = "nil" => suite.exit = "zero"
SuitesInv ==
  /\ todo \in Seq(Names) /\ runnable \subseteq Names /\ interrupted \in BOOLEAN
  /\ results \in [Names -> {"none", "passed", "failed", "skipped"}]
  /\ exits \in [Names -> {"none", "zero", "nonzero"}]
  /\ SuiteInv
  /\ \A s \in runnable : Awaited(s) \/ results[s] \in {"passed", "failed"} \/ interrupted
  /\ \A s \in Names : results[s] = "passed" => exits[s] = "zero"
  /\ verdict # "none" => todo = << >>
  /\ SuccessMeansTested

(* One suite is done: the suites behind it still wait for their turn. *)
LEMMA RecordStep ==
  ASSUME SuitesInv, NEW status \in {"passed", "failed", "skipped"}, todo # << >>, Record(status),
         status = "passed" => suite.exit = "zero",
         status = "skipped" => Head(todo) \notin runnable \/ interrupted
  PROVE  SuitesInv'
<1>1. /\ Head(todo) \in Names /\ Tail(todo) \in Seq(Names) /\ Len(todo) \in Nat \ {0}
      /\ Len(Tail(todo)) = Len(todo) - 1 /\ Head(todo) = todo[1]
      /\ \A k \in 1..Len(Tail(todo)) : Tail(todo)[k] = todo[k + 1]
  BY DEF SuitesInv
<1>2. /\ results' = [results EXCEPT ![Head(todo)] = status]
      /\ exits' = [exits EXCEPT ![Head(todo)] = suite.exit]
      /\ todo' = Tail(todo) /\ suite' = NoSuite
      /\ runnable' = runnable /\ interrupted' = interrupted /\ verdict' = verdict
  BY DEF Record
<1>3. verdict = "none"
  BY DEF SuitesInv
<1>4. SuiteInv'
  BY <1>2 DEF SuiteInv, NoSuite
<1>5. /\ results' \in [Names -> {"none", "passed", "failed", "skipped"}]
      /\ exits' \in [Names -> {"none", "zero", "nonzero"}]
      /\ \A s \in Names : results'[s] = "passed" => exits'[s] = "zero"
  BY <1>1, <1>2 DEF SuitesInv, SuiteInv
<1>6. ASSUME NEW s \in runnable
      PROVE  Awaited(s)' \/ results'[s] \in {"passed", "failed"} \/ interrupted'
  <2>1. s \in Names /\ (Awaited(s) \/ results[s] \in {"passed", "failed"} \/ interrupted)
    BY DEF SuitesInv
  <2>2. CASE s = Head(todo)
    BY <1>1, <1>2, <2>1, <2>2 DEF SuitesInv
  <2>3. CASE s # Head(todo) /\ Awaited(s)
    <3>1. PICK k \in 1..Len(todo) : todo[k] = s
      BY <2>3 DEF Awaited
    <3>2. k # 1
      BY <1>1, <2>3, <3>1
    <3>3. k - 1 \in 1..Len(Tail(todo)) /\ Tail(todo)[k - 1] = s
      BY <1>1, <3>1, <3>2
    <3> QED BY <1>2, <3>3 DEF Awaited
  <2>4. CASE s # Head(todo) /\ ~ Awaited(s)
    BY <1>1, <1>2, <2>1, <2>4 DEF SuitesInv
  <2> QED BY <2>2, <2>3, <2>4
<1> QED
  BY <1>1, <1>2, <1>3, <1>4, <1>5, <1>6 DEF SuitesInv, SuccessMeansTested

(* A step of the running suite alone. *)
LEMMA SuiteStep ==
  ASSUME SuitesInv, SuiteOnly, SuiteInv' PROVE SuitesInv'
BY DEF SuitesInv, SuiteOnly, SuccessMeansTested, Awaited

(* nise test succeeds only if every suite that was selected and has a command
   ran to its end and exited zero, wherever the signal falls and however the
   suite's processes take it (runSuite, testCommand). *)
THEOREM SuccessMeansTestedHolds == TSpec => []SuccessMeansTested
<1>1. ASSUME NEW flags \in SUBSET Names, NEW disk \in SUBSET Facts, TInit(flags, disk)
      PROVE  SuitesInv
  <2> DEFINE sel == selectedSuites(flags)
  <2>1. sel \subseteq Names
    BY DEF selectedSuites, Names
  <2>2. /\ todo = Ordered(sel) /\ runnable \subseteq sel /\ suite = NoSuite /\ interrupted = FALSE
        /\ results = [s \in Names |-> "none"] /\ exits = [s \in Names |-> "none"]
        /\ verdict = "none"
    BY <1>1 DEF TInit
  <2> HIDE DEF sel
  <2>3. todo \in Seq(Names) /\ \A s \in sel : Awaited(s)
    <3> DEFINE a == IF "go" \in sel THEN <<"go">> ELSE << >>
               b == IF "component" \in sel THEN <<"component">> ELSE << >>
               c == IF "e2e" \in sel THEN <<"e2e">> ELSE << >>
    <3>1. todo = a \o b \o c
      BY <2>2 DEF Ordered, suiteOrder
    <3>2. /\ a \in Seq(Names) /\ b \in Seq(Names) /\ c \in Seq(Names)
          /\ Len(a) \in {0, 1} /\ Len(b) \in {0, 1} /\ Len(c) \in {0, 1}
          /\ "go" \in sel => Len(a) = 1 /\ a[1] = "go"
          /\ "component" \in sel => Len(b) = 1 /\ b[1] = "component"
          /\ "e2e" \in sel => Len(c) = 1 /\ c[1] = "e2e"
      <4>1. /\ <<"go">> \in Seq(Names) /\ <<"component">> \in Seq(Names)
            /\ <<"e2e">> \in Seq(Names) /\ << >> \in Seq(Names)
        BY DEF Names
      <4>2. /\ a \in Seq(Names) /\ Len(a) \in {0, 1}
            /\ "go" \in sel => Len(a) = 1 /\ a[1] = "go"
        BY <4>1
      <4>3. /\ b \in Seq(Names) /\ Len(b) \in {0, 1}
            /\ "component" \in sel => Len(b) = 1 /\ b[1] = "component"
        BY <4>1
      <4>4. /\ c \in Seq(Names) /\ Len(c) \in {0, 1}
            /\ "e2e" \in sel => Len(c) = 1 /\ c[1] = "e2e"
        BY <4>1
      <4> QED BY <4>2, <4>3, <4>4
    <3> HIDE DEF a, b, c
    <3>3. todo \in Seq(Names) /\ Len(todo) = Len(a) + Len(b) + Len(c)
      BY <3>1, <3>2
    <3>4. /\ \A k \in 1..Len(a) : todo[k] = a[k]
          /\ \A k \in 1..Len(b) : todo[Len(a) + k] = b[k]
          /\ \A k \in 1..Len(c) : todo[Len(a) + Len(b) + k] = c[k]
      BY <3>1, <3>2
    <3>5. ASSUME "go" \in sel PROVE Awaited("go")
      BY <3>2, <3>3, <3>4, <3>5 DEF Awaited
    <3>6. ASSUME "component" \in sel PROVE Awaited("component")
      <4>1. Len(a) + 1 \in 1..Len(todo) /\ todo[Len(a) + 1] = "component"
        BY <3>2, <3>3, <3>4, <3>6
      <4> QED BY <4>1 DEF Awaited
    <3>7. ASSUME "e2e" \in sel PROVE Awaited("e2e")
      <4>1. Len(a) + Len(b) + 1 \in 1..Len(todo) /\ todo[Len(a) + Len(b) + 1] = "e2e"
        BY <3>2, <3>3, <3>4, <3>7
      <4> QED BY <4>1 DEF Awaited
    <3> QED BY <2>1, <3>3, <3>5, <3>6, <3>7 DEF Names
  <2>4. SuiteInv
    BY <2>2 DEF SuiteInv, NoSuite
  <2> QED BY <2>1, <2>2, <2>3, <2>4 DEF SuitesInv, SuccessMeansTested
<1>2. SuitesInv /\ [TNext]_tvars => SuitesInv'
  <2> SUFFICES ASSUME SuitesInv, [TNext]_tvars PROVE SuitesInv'
    OBVIOUS
  <2>1. CASE Skip
    BY <2>1, RecordStep DEF Skip
  <2>2. CASE RunSuite
    <3>1. CASE Record("failed")
      BY <2>2, <3>1, RecordStep DEF RunSuite
    <3>2. CASE /\ suite' = [suite EXCEPT !.step = "select", !.group = {"leader"}]
               /\ SuiteOnly
      <4>1. SuiteInv'
        <5>1. suite = NoSuite /\ todo # << >> /\ todo' = todo
          BY <2>2, <3>2 DEF RunSuite, SuitesInv, SuiteInv, SuiteOnly
        <5>2. suite' = [step |-> "select", group |-> {"leader"}, exit |-> "none", wait |-> "none"]
          BY <3>2, <5>1 DEF NoSuite
        <5> QED BY <5>1, <5>2 DEF SuiteInv
      <4> QED BY <3>2, <4>1, SuiteStep
    <3> QED BY <2>2, <3>1, <3>2 DEF RunSuite, SuiteOnly
  <2>3. CASE ProcessStep
    <3>1. \/ "leader" \in suite.group /\ suite' = [suite EXCEPT !.group = @ \cup {"kin"}]
          \/ "kin" \in suite.group /\ suite' = [suite EXCEPT !.group = @ \ {"kin"}]
          \/ \E how \in {"zero", "nonzero"} :
               "leader" \in suite.group
               /\ suite' = [suite EXCEPT !.group = @ \ {"leader"}, !.exit = how]
      BY <2>3 DEF ProcessStep
    <3>2. SuiteInv'
      <4>1. SuiteInv /\ todo' = todo
        BY <2>3 DEF ProcessStep, SuitesInv, SuiteOnly
      <4>2. suite.step # "next"
        BY <3>1, <4>1 DEF SuiteInv, NoSuite
      <4>3. CASE "leader" \in suite.group /\ suite' = [suite EXCEPT !.group = @ \cup {"kin"}]
        BY <4>1, <4>2, <4>3 DEF SuiteInv
      <4>4. CASE "kin" \in suite.group /\ suite' = [suite EXCEPT !.group = @ \ {"kin"}]
        BY <4>1, <4>2, <4>4 DEF SuiteInv
      <4>5. ASSUME NEW how \in {"zero", "nonzero"}, "leader" \in suite.group,
                   suite' = [suite EXCEPT !.group = @ \ {"leader"}, !.exit = how]
            PROVE  SuiteInv'
        <5>1. suite.exit = "none" /\ suite.wait # "nil"
          BY <4>1, <4>5 DEF SuiteInv
        <5> QED BY <4>1, <4>2, <4>5, <5>1 DEF SuiteInv
      <4> QED BY <3>1, <4>3, <4>4, <4>5
    <3> QED BY <2>3, <3>2, SuiteStep DEF ProcessStep
  <2>4. CASE WaitReturns
    <3>1. SuiteInv'
      BY <2>4 DEF WaitReturns, SuitesInv, SuiteInv, SuiteOnly, NoSuite
    <3> QED BY <2>4, <3>1, SuiteStep DEF WaitReturns
  <2>5. CASE Stop
    <3>1. SuiteInv'
      BY <2>5 DEF Stop, SuitesInv, SuiteInv, SuiteOnly
    <3> QED BY <2>5, <3>1, SuiteStep DEF Stop
  <2>6. CASE Kill
    <3>1. SuiteInv'
      BY <2>6 DEF Kill, SuitesInv, SuiteInv, SuiteOnly
    <3> QED BY <2>6, <3>1, SuiteStep DEF Kill
  <2>7. CASE Judge
    <3>1. todo # << >> /\ (suite.wait = "nil" => suite.exit = "zero")
      BY <2>7 DEF Judge, SuitesInv, SuiteInv
    <3> QED BY <2>7, <3>1, RecordStep DEF Judge
  <2>8. CASE Interrupt
    BY <2>8 DEF Interrupt, SuitesInv, SuiteInv, SuccessMeansTested, Awaited
  <2>9. CASE Report
    <3>1. /\ todo = << >> /\ runnable' = runnable /\ todo' = todo /\ suite' = suite
          /\ results' = results /\ exits' = exits /\ interrupted' = interrupted
          /\ verdict' = IF SuiteFailed THEN "suite_failed"
                        ELSE IF interrupted THEN "interrupted" ELSE "nil"
      BY <2>9 DEF Report
    <3>2. \A s \in runnable : ~ Awaited(s)
      BY <3>1 DEF Awaited
    <3>3. SuccessMeansTested'
      BY <3>1, <3>2 DEF SuitesInv, SuccessMeansTested, SuiteFailed
    <3> QED BY <3>1, <3>3 DEF SuitesInv, SuiteInv, Awaited
  <2>10. CASE UNCHANGED tvars
    BY <2>10 DEF tvars, SuitesInv, SuiteInv, SuccessMeansTested, Awaited
  <2> QED
    BY <2>1, <2>2, <2>3, <2>4, <2>5, <2>6, <2>7, <2>8, <2>9, <2>10 DEF TNext
<1>3. SuitesInv => SuccessMeansTested
  BY DEF SuitesInv
<1>4. (\E flags \in SUBSET Names, disk \in SUBSET Facts : TInit(flags, disk)) => SuitesInv
  BY <1>1
<1> QED BY <1>2, <1>3, <1>4, PTL DEF TSpec
=============================================================================
