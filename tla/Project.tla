------------------------------ MODULE Project ------------------------------
(***************************************************************************)
(* A generated project on a developer's disk, and the commands that write  *)
(* to it: nise new, agents, upgrade and check (generate is in Slices).     *)
(*                                                                         *)
(* A path stands for the files that are treated alike: the agent files,    *)
(* the application's Go source, go.mod, the recipe, a Nise-owned file that *)
(* later releases no longer ship ("old"), and one they all ship ("wire").  *)
(* A content is what a file says (`v`) and what a person has written in it *)
(* (`mine`): nothing that nise could tell from its own writing, the body,  *)
(* a secret, or the part by which nise knows the file.  A command reads    *)
(* the tree, plans, and then writes file after file; any write may fail,   *)
(* and then leaves the file as it was or torn.  The developer edits,       *)
(* commits, restores and installs another nise between two commands.       *)
(***************************************************************************)
EXTENDS Integers, Sequences, FiniteSets, SequencesExt

CONSTANTS MaxRelease,        \* the releases of nise are 1..MaxRelease
          Dev,               \* the version of a source build; does not parse
          Binaries,          \* the versions of nise the developer installs
          Migrations,        \* declared migrations, <<from, to>>
          WithoutOld,        \* the first release that does not ship "old"
          Nothing,           \* no file; no repository
          Torn,              \* what a half-written file says
          PinsByHand, RecipesByHand,   \* what people write there
          MaxEdits, MaxInstalls, MaxFaults   \* bounds

Releases == 1..MaxRelease

(* What go.mod pins: a release, or a release candidate of one, which has the
   same numbers and another spelling. *)
Pins == Releases \X {"", "rc"}

ASSUME ProjectAssumption ==
  /\ MaxRelease \in Nat \ {0} /\ Dev \notin Releases
  /\ Binaries \subseteq Releases \cup {Dev}
  /\ Migrations \subseteq {m \in Releases \X Releases : m[1] < m[2]}
  /\ \A m, n \in Migrations : m[1] = n[1] => m = n
  /\ WithoutOld \in Nat /\ Torn \notin Releases
  /\ PinsByHand \subseteq Pins /\ RecipesByHand \subseteq Binaries \X Releases
  /\ MaxEdits \in Nat /\ MaxInstalls \in Nat /\ MaxFaults \in Nat

VARIABLES tree,       \* tree[p]: the content of p on disk, or Nothing
          head,       \* what git has committed, or Nothing
          installed,  \* the nise on the developer's PATH
          cmd,        \* the command that runs, with what it will write
          last,       \* how the command ended that was the last thing to happen
          whole,      \* no upgrade has met a gap, left the source alone or
                      \* failed between the recipe and the source, and nobody
                      \* has written another runtime version into the recipe
          edits, installs, faults

vars == <<tree, head, installed, cmd, last, whole, edits, installs, faults>>

\* Files are written sorted by path: .nise/, AGENTS.md, cmd/, go.mod, internal/
\* (where "old" and "wire" are), nise.json.
Paths == <<"architecture", "agents", "source", "go.mod", "old", "wire", "recipe">>
PathSet == Range(Paths)
AgentFiles == {"architecture", "agents"}
AppOwned == {"source", "go.mod"}
NiseOwned == PathSet \ AppOwned

Content(v) == [v |-> v, mine |-> "no"]

(* A build is stamped with its release, or carries the module version it was
   installed from, or neither, and then reports that it is a source build. *)
Builds == [stamped : Releases \cup {Nothing}, module : Releases \cup {Nothing}]
newInfo(build) ==
  IF build.stamped /= Nothing THEN build.stamped
  ELSE IF build.module /= Nothing THEN build.module ELSE Dev

(* What the nise b is compiled with. *)
RuntimeOf(b) == IF b = Dev THEN MaxRelease ELSE b
Table(b) == {m \in Migrations : m[2] <= RuntimeOf(b)}
Planned(b) == IF RuntimeOf(b) < WithoutOld THEN PathSet ELSE PathSet \ {"old"}

(* What b writes at p for a project whose recipe is r: the recipe and the
   agent files are made from r, everything else from b's own templates. *)
PinOf(b) == <<RuntimeOf(b), "">>
Rendered(p, b, r) ==
  Content(IF p \in AgentFiles \cup {"recipe"} THEN r
          ELSE IF p = "go.mod" THEN PinOf(b) ELSE RuntimeOf(b))

\* The paths in ps, in the generator's order.
InOrder(ps) ==
  LET pick(k) == IF Paths[k] \in ps THEN <<Paths[k]>> ELSE << >>
  IN pick(1) \o pick(2) \o pick(3) \o pick(4) \o pick(5) \o pick(6) \o pick(7)

(* The recipe is read strictly: one that a crash has cut short or a person
   has broken does not load; one a person has edited and kept valid does.
   Its directory is the root of the project. *)
Validate(content) == content.v /= Torn /\ content.mine /= "header"
LoadsRecipe(t) == t["recipe"] /= Nothing /\ Validate(t["recipe"])
findProjectRoot == tree["recipe"] /= Nothing
recipe(t) == t["recipe"].v
CLIOf(r) == r[1]
RuntimeIn(r) == r[2]

parseable(b) == b /= Dev
AtLeast(a, b) == a >= b

Idle == [op |-> "none", todo |-> << >>, looked |-> FALSE, from |-> Nothing]
Ended(op, res) == [op |-> op, res |-> res, from |-> Nothing, undone |-> FALSE]

Init ==
  /\ tree = [p \in PathSet |-> Nothing] /\ head = Nothing
  /\ installed \in Binaries
  /\ cmd = Idle /\ last = Ended("none", "none")
  /\ whole = TRUE /\ edits = 0 /\ installs = 0 /\ faults = 0

-----------------------------------------------------------------------------
(* Writes: replace a file, remove it, rewrite source along a chain of
   migrations, or raise a pin. *)
Put(p, content) == [do |-> "put", at |-> p, arg |-> content]
Delete(p) == [do |-> "remove", at |-> p, arg |-> Nothing]
Rewrite(p, chain) == [do |-> "rewrite", at |-> p, arg |-> chain]
Bump(p, pin) == [do |-> "bump", at |-> p, arg |-> pin]

\* A command that refuses, or that only looks, changes nothing.
Refuse == UNCHANGED vars

Answer(op, res) ==
  /\ last' = Ended(op, res)
  /\ UNCHANGED <<tree, head, installed, cmd, whole, edits, installs, faults>>

\* A command has `looked` when it has made sure of what it may overwrite.
Start(op, todo, looked, from) ==
  /\ cmd' = [op |-> op, todo |-> todo, looked |-> looked, from |-> from]
  /\ last' = Ended("none", "none")
  /\ UNCHANGED <<tree, head, installed, edits, installs, faults>>

(* nise new: render everything, refuse a directory that holds anything, be it
   a repository. *)
checkTargetEmpty == head = Nothing /\ \A p \in PathSet : tree[p] = Nothing

New ==
  /\ cmd = Idle
  /\ IF checkTargetEmpty
     THEN LET r == <<installed, RuntimeOf(installed)>>
              files == InOrder(Planned(installed))
          IN /\ Start("new", [i \in DOMAIN files |->
                        Put(files[i], Rendered(files[i], installed, r))],
                      TRUE, Nothing)
             /\ UNCHANGED whole
     ELSE Refuse

(* nise agents: both files or neither; what a person has changed is only
   replaced with --force.  A file that was torn fails its hash as well. *)
verifies(c) == c = Nothing \/ (c.v /= Torn /\ c.mine = "no")
\* Mutant: only AGENTS.md is verified.
NoConflictInAgentsMd == verifies(tree["agents"])
NoConflict == \A p \in AgentFiles : verifies(tree[p])

Agents ==
  /\ cmd = Idle
  /\ \E force \in BOOLEAN :
       IF findProjectRoot /\ LoadsRecipe(tree) /\ (force \/ NoConflict)
       THEN /\ Start("agents", <<Put("agents", Content(recipe(tree))),
                                 Put("architecture", Content(recipe(tree)))>>,
                     ~force, Nothing)
            /\ UNCHANGED whole
       ELSE Refuse

-----------------------------------------------------------------------------
(* nise upgrade. *)
Dirty == head /= Nothing /\ head /= tree
\* Without git, or when git status fails, the tree is taken to be clean.
refuseDirtyTree(asked) == asked /\ Dirty
refuseDowngrade(running, recorded) ==
  parseable(running) /\ parseable(recorded) /\ ~AtLeast(running, recorded)

(* The declared migrations from one runtime version to another, as the
   versions passed through; it ends early where no migration is declared. *)
path(from, to, declared) ==
  LET chain[k \in 0..Cardinality(declared)] ==
        IF k = 0 THEN <<from>>
        ELSE LET at == Last(chain[k - 1])
                 next == {m \in declared : m[1] = at}
             IN IF at = to \/ next = {} THEN chain[k - 1]
                ELSE Append(chain[k - 1], (CHOOSE m \in next : TRUE)[2])
  IN chain[Cardinality(declared)]

Missing(chain, to) == Last(chain) /= to
\* Mutant: only the first migration of a chain is applied.
RewriteOnce(v, chain) ==
  IF v = chain[1] /\ Len(chain) > 1 THEN chain[2] ELSE v
(* One pass over the text per migration; text[k] is what it says at chain[k]. *)
applyCodemods(v, chain) ==
  LET text[k \in 1..Len(chain)] ==
        IF k = 1 THEN v
        ELSE IF text[k - 1] = chain[k - 1] THEN chain[k] ELSE text[k - 1]
  IN text[Len(chain)]

declaredRemovals(chain) ==
  IF \E k \in 2..Len(chain) : chain[k - 1] < WithoutOld /\ chain[k] >= WithoutOld
  THEN {"old"} ELSE {}

\* Mutant: whatever is planned is compared, whoever owns it.
ChangesAnywhere(b, target, chain) ==
  LET stale == {p \in Planned(b) : tree[p] /= Rendered(p, b, target)}
      gone == {p \in declaredRemovals(chain) \ Planned(b) : tree[p] /= Nothing}
      at == InOrder(stale \cup gone)
  IN [i \in DOMAIN at |-> IF at[i] \in gone THEN Delete(at[i])
                          ELSE Put(at[i], Rendered(at[i], b, target))]
\* Mutant: a file that is missing is not created again.
ChangesToExisting(b, target, chain) ==
  LET stale == {p \in Planned(b) \cap NiseOwned :
                  tree[p] \notin {Nothing, Rendered(p, b, target)}}
      at == InOrder(stale)
  IN [i \in DOMAIN at |-> Put(at[i], Rendered(at[i], b, target))]
fileChanges(b, target, chain) ==
  LET stale == {p \in Planned(b) \cap NiseOwned : tree[p] /= Rendered(p, b, target)}
      gone == {p \in declaredRemovals(chain) \ Planned(b) : tree[p] /= Nothing}
      at == InOrder(stale \cup gone)
  IN [i \in DOMAIN at |-> IF at[i] \in gone THEN Delete(at[i])
                          ELSE Put(at[i], Rendered(at[i], b, target))]

(* Pins move forward only, by their numbers: what follows them is not read.
   One that does not read as a version is left. *)
newer(a, b) == a /= Torn /\ b /= Torn /\ a[1] > b[1]
planDependencies(b) ==
  IF tree["go.mod"] /= Nothing /\ newer(PinOf(b), tree["go.mod"].v)
  THEN <<Bump("go.mod", PinOf(b))>> ELSE << >>
aheadOfNise(b) == tree["go.mod"] /= Nothing /\ newer(tree["go.mod"].v, PinOf(b))
planCodemods(chain) ==
  IF tree["source"] /= Nothing /\ applyCodemods(tree["source"].v, chain) /= tree["source"].v
  THEN <<Rewrite("source", chain)>> ELSE << >>

UpToDate(b, chain) ==
  /\ fileChanges(b, <<b, RuntimeOf(b)>>, chain) = << >>
  /\ planDependencies(b) = << >> /\ planCodemods(chain) = << >>
  /\ ~aheadOfNise(b) /\ ~Missing(chain, RuntimeOf(b)) /\ Len(chain) = 1
  /\ CLIOf(recipe(tree)) = b

writeRecipe(b) == Put("recipe", Content(<<b, RuntimeOf(b)>>))

Apply(b, looked, codemods) ==
  LET from == RuntimeIn(recipe(tree))
      chain == path(from, RuntimeOf(b), Table(b))
  IN IF UpToDate(b, chain) THEN Answer("upgrade", "ok")
     ELSE /\ Start("upgrade",
                   fileChanges(b, <<b, RuntimeOf(b)>>, chain)
                     \o (IF codemods THEN planCodemods(chain) ELSE << >>)
                     \o planDependencies(b)
                     \o <<writeRecipe(b)>>,
                   looked, tree["recipe"])
          /\ whole' = (whole /\ ~Missing(chain, RuntimeOf(b))
                       /\ (codemods \/ Len(chain) = 1))

Upgrade ==
  /\ cmd = Idle
  /\ \E dryRun, force, codemods, asked \in BOOLEAN :
       IF \/ ~dryRun /\ ~force /\ refuseDirtyTree(asked)
          \/ ~LoadsRecipe(tree)
          \/ refuseDowngrade(installed, CLIOf(recipe(tree)))
       THEN Refuse
       ELSE IF dryRun THEN Refuse
       ELSE Apply(installed, ~force /\ asked, codemods)

-----------------------------------------------------------------------------
(* A running command makes its next write. *)
Perform(w) ==
  CASE w.do = "put" -> tree' = [tree EXCEPT ![w.at] = w.arg]
    [] w.do = "remove" -> tree' = [tree EXCEPT ![w.at] = Nothing]
    [] w.do = "rewrite" -> tree' = [tree EXCEPT ![w.at].v = applyCodemods(@, w.arg)]
    [] w.do = "bump" -> tree' = [tree EXCEPT ![w.at].v = w.arg]

Step ==
  /\ cmd /= Idle /\ cmd.todo /= << >>
  /\ Perform(Head(cmd.todo))
  /\ cmd' = [cmd EXCEPT !.todo = Tail(@)]
  /\ UNCHANGED <<head, installed, last, whole, edits, installs, faults>>

(* The write fails, or the process dies in it.  The recipe is among the files
   that an upgrade writes before it turns to the source. *)
SourceIsDue == \E i \in 1..Len(cmd.todo) : cmd.todo[i].do = "rewrite"
StepFails ==
  /\ cmd /= Idle /\ cmd.todo /= << >> /\ faults < MaxFaults
  /\ LET w == Head(cmd.todo)
     IN /\ \/ UNCHANGED tree
           \/ /\ w.do /= "remove"
              /\ tree' = [tree EXCEPT ![w.at] =
                            [v |-> Torn, mine |-> IF @ = Nothing THEN "no" ELSE @.mine]]
        /\ last' = [op |-> cmd.op, res |-> "failed", from |-> cmd.from,
                    undone |-> Len(cmd.todo) > 1]
        /\ cmd' = Idle /\ faults' = faults + 1
        /\ whole' = (whole /\ ~(SourceIsDue /\ tree["recipe"] /= cmd.from))
        /\ UNCHANGED <<head, installed, edits, installs>>

Return ==
  /\ cmd /= Idle /\ cmd.todo = << >>
  /\ last' = Ended(cmd.op, "ok") /\ cmd' = Idle
  /\ UNCHANGED <<tree, head, installed, whole, edits, installs, faults>>

-----------------------------------------------------------------------------
(* nise check: what each check says of the tree when b runs it.  The plan is
   what b would render for the recipe it found. *)
FindRoot == tree["recipe"] /= Nothing
checkRecipe == IF LoadsRecipe(tree) THEN "ok" ELSE "fail"
loadPlan(b, r) == [p \in Planned(b) |-> Rendered(p, b, r)]
sameGeneratingCLI(b, r) == b = CLIOf(r)
checkCLIVersion(b, r) ==
  IF ~parseable(b) \/ ~parseable(CLIOf(r)) THEN "skipped"
  ELSE IF AtLeast(b, CLIOf(r)) THEN "ok" ELSE "fail"
checkRuntimeVersion(r) ==
  IF tree["go.mod"] = Nothing \/ tree["go.mod"].v = Torn THEN "skipped"
  ELSE IF tree["go.mod"].v = <<RuntimeIn(r), "">> THEN "ok" ELSE "fail"
\* A file nise owns has lost its marker, or one of the application has gained one.
Mismarked(p) ==
  tree[p] /= Nothing /\ (tree[p].mine = "header" \/ (p \in NiseOwned /\ tree[p].v = Torn))
checkOwnershipHeaders(plan) ==
  IF \E p \in DOMAIN plan \ {"recipe"} : Mismarked(p) THEN "fail" ELSE "ok"
checkOwnershipContent ==
  IF \A p \in AgentFiles : tree[p] = Nothing THEN "skipped"
  ELSE IF NoConflict THEN "ok" ELSE "fail"
checkGeneration(b, r, plan) ==
  IF \A p \in DOMAIN plan \cap NiseOwned : tree[p] = plan[p] THEN "ok"
  ELSE IF sameGeneratingCLI(b, r) THEN "fail" ELSE "skipped"

\* The history of a database is not looked at.
checkMigrations == "skipped"
\* An environment file is checked if one is named.
EnvFiles == {"none", "good", "bad"}
checkConfig(env) ==
  CASE env = "none" -> "skipped" [] env = "good" -> "ok" [] env = "bad" -> "fail"
\* What git tracks is scanned; where there is no git to ask, every file.
Listed(asked) == {p \in PathSet : asked /\ head /= Nothing => head[p] /= Nothing}
checkSecrets(asked) ==
  IF \E p \in Listed(asked) : tree[p] /= Nothing /\ tree[p].mine = "secret"
  THEN "fail" ELSE "ok"

(* With no recipe to go by, only the last three have something to look at. *)
checkRun(b, env, asked) ==
  LET r == recipe(tree)
      plan == loadPlan(b, r)
      check(verdict) == IF checkRecipe = "ok" THEN verdict ELSE "skipped"
  IN [recipe |-> checkRecipe, cli |-> check(checkCLIVersion(b, r)),
      runtime |-> check(checkRuntimeVersion(r)),
      headers |-> check(checkOwnershipHeaders(plan)),
      content |-> check(checkOwnershipContent),
      generation |-> check(checkGeneration(b, r, plan)),
      migrations |-> checkMigrations, config |-> checkConfig(env),
      secrets |-> checkSecrets(asked)]
Failed(checks) == \E c \in DOMAIN checks : checks[c] = "fail"

Check ==
  /\ cmd = Idle /\ FindRoot
  /\ \E env \in EnvFiles, asked \in BOOLEAN :
       Answer("check", IF Failed(checkRun(installed, env, asked)) THEN "failed" ELSE "ok")

-----------------------------------------------------------------------------
(* The developer, between two commands. *)
Developer == cmd = Idle /\ last' = Ended("none", "none") /\ UNCHANGED <<cmd, faults>>
Effort == edits < MaxEdits /\ edits' = edits + 1

(* A file is written in or removed; a pin is set; the recipe is set to say
   something else, formatted as nise would or otherwise. *)
EditText(p) ==
  \E how \in {"body", "header", "secret"} :
    /\ p = "recipe" => how /= "secret"
    /\ tree' = [tree EXCEPT ![p].mine = how] /\ UNCHANGED whole
DeleteFile(p) == tree' = [tree EXCEPT ![p] = Nothing] /\ UNCHANGED whole
EditPin(p) ==
  /\ p = "go.mod"
  /\ \E pin \in PinsByHand : tree' = [tree EXCEPT ![p] = [v |-> pin, mine |-> "body"]]
  /\ UNCHANGED whole
EditRecipe(p) ==
  /\ p = "recipe"
  /\ \E r \in RecipesByHand, how \in {"no", "body"} :
       /\ tree' = [tree EXCEPT ![p] = [v |-> r, mine |-> how]]
       /\ whole' = (whole /\ tree[p].v /= Torn /\ RuntimeIn(r) = RuntimeIn(tree[p].v))

Edit ==
  /\ Developer /\ Effort
  /\ \E p \in PathSet :
       tree[p] /= Nothing /\ (EditText(p) \/ DeleteFile(p) \/ EditPin(p) \/ EditRecipe(p))
  /\ UNCHANGED <<head, installed, installs>>

GitCommit ==
  /\ Developer /\ head' = tree
  /\ UNCHANGED <<tree, installed, whole, edits, installs>>

GitRestore ==
  /\ Developer /\ Dirty /\ tree' = head
  /\ UNCHANGED <<head, installed, whole, edits, installs>>

Install ==
  /\ Developer /\ installs < MaxInstalls /\ installs' = installs + 1
  /\ \E build \in Builds :
       newInfo(build) \in Binaries \ {installed} /\ installed' = newInfo(build)
  /\ UNCHANGED <<tree, head, whole, edits>>

Next == \/ New \/ Agents \/ Upgrade \/ Check
        \/ Step \/ StepFails \/ Return
        \/ Edit \/ GitCommit \/ GitRestore \/ Install

Spec == Init /\ [][Next]_vars

-----------------------------------------------------------------------------
Files(p) ==
  [v : {Torn} \cup (IF p \in AgentFiles \cup {"recipe"} THEN Binaries \X Releases
                    ELSE IF p = "go.mod" THEN Pins ELSE Releases),
   mine : {"no", "body", "header", "secret"}]
Contents(p) == Files(p) \cup {Nothing}

\* No file reads as no file, and no recipe or pin as a torn one.
ASSUME ContentsAssumption ==
  /\ Torn \notin Binaries \X Releases /\ Torn \notin Pins
  /\ \A p \in PathSet : Nothing \notin Files(p)

IsTree(t) == DOMAIN t = PathSet /\ \A p \in PathSet : t[p] \in Contents(p)

\* The types of the variables.
TypeOK ==
  /\ IsTree(tree)
  /\ head = Nothing \/ IsTree(head)
  /\ installed \in Binaries /\ whole \in BOOLEAN
  /\ cmd.op \in {"none", "new", "agents", "upgrade"}
  /\ last.res \in {"none", "ok", "failed"}
  /\ edits \in 0..MaxEdits /\ installs \in 0..MaxInstalls /\ faults \in 0..MaxFaults

Forward(p, old, new) == IF p = "go.mod" THEN newer(new, old) ELSE new > old

\* A file of the application that exists is only ever changed by the two
\* rewrites that upgrade announces: its text moves along the declared
\* migrations and a pin of go.mod moves forward.  Neither undoes what a person
\* wrote, and no command removes such a file.  So it is when writes fail, too:
\* what can tear it is one of those two writes to this very file, and no other.
ApplicationOwned ==
  [][cmd /= Idle =>
       \A p \in AppOwned : tree[p] /= Nothing =>
            \/ tree'[p] = tree[p]
            \/ /\ cmd.op = "upgrade" /\ tree[p].v /= Torn
               /\ tree'[p] /= Nothing /\ tree'[p].mine = tree[p].mine
               /\ \/ tree'[p].v /= Torn /\ Forward(p, tree[p].v, tree'[p].v)
                  \/ /\ tree'[p].v = Torn /\ Head(cmd.todo).at = p
                     /\ Head(cmd.todo).do \in {"rewrite", "bump"}]_vars

\* Whatever a command overwrites, removes or tears that a person has written
\* can be had back from git, unless the person passed --force, keeps no
\* repository or upgrades where git cannot be asked.
NothingIsLost ==
  [][\A p \in PathSet :
       cmd /= Idle /\ tree[p] /= Nothing /\ tree[p].mine /= "no" /\ tree'[p] /= tree[p]
       => ~cmd.looked \/ head = Nothing \/ head[p] = tree[p]]_vars

\* Whom nise check may still find fault with when new or upgrade is done: a pin
\* of go.mod that is not older than this nise's by its numbers and yet is not
\* the same, a marker in a file of the application, a secret in a file this
\* nise does not write, an environment file.
TheApplications(b, env) ==
  [recipe |-> FALSE, cli |-> FALSE, content |-> FALSE, generation |-> FALSE,
   migrations |-> FALSE, config |-> env = "bad",
   runtime |-> tree["go.mod"] /= Nothing /\ tree["go.mod"].v /= PinOf(b)
               /\ ~newer(PinOf(b), tree["go.mod"].v),
   headers |-> \E p \in AppOwned : tree[p] /= Nothing /\ tree[p].mine = "header",
   secrets |-> \E p \in PathSet \ (Planned(b) \cap NiseOwned) :
                 tree[p] /= Nothing /\ tree[p].mine = "secret"]

\* What nise check says right after new or upgrade has succeeded: nothing that
\* nise wrote fails, whatever was edited, torn or half upgraded before.
SuccessPassesCheck ==
  last.op \in {"new", "upgrade"} /\ last.res = "ok" =>
    \A env \in EnvFiles, asked \in BOOLEAN :
      LET verdict == checkRun(installed, env, asked)
      IN \A c \in DOMAIN verdict :
           verdict[c] = "fail" => TheApplications(installed, env)[c]

\* An upgrade that succeeds has brought the source to the new runtime, through
\* as many migrations as it takes, and has left no file the release no longer
\* ships; also when it repeats an upgrade that failed at any write before the
\* recipe's or after the source's.  Not covered: a gap in the declared
\* migrations, --no-codemods, a failure between the two (RecipeIsLast), and a
\* runtime version that a person wrote into the recipe.
UpgradeIsComplete ==
  last.op = "upgrade" /\ last.res = "ok" /\ whole =>
    /\ tree["source"] = Nothing \/ tree["source"].v = RuntimeOf(installed)
    /\ RuntimeOf(installed) >= WithoutOld => tree["old"] = Nothing

\* The recipe is written last: an upgrade that failed with other work left has
\* not yet recorded that it happened.
RecipeIsLast ==
  last.op = "upgrade" /\ last.res = "failed" /\ last.undone =>
    tree["recipe"] = last.from \/ tree["recipe"].v = Torn
=============================================================================
