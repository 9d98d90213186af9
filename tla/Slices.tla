------------------------------- MODULE Slices -------------------------------
(***************************************************************************)
(* nise generate feature and nise generate resource: a slice is planned in *)
(* memory from what is on disk, checked against it, and written file after *)
(* file, while another developer's command and other people write to the   *)
(* same project.  A path stands for the files of a slice that lie in one   *)
(* directory, and is named after the resource or after its plural.         *)
(***************************************************************************)
EXTENDS Integers, Sequences, FiniteSets

CONSTANTS Nouns,        \* names people type: a stem and its ending
          Reserved,     \* the nouns that mean something else in a project
          Generators,   \* commands that run at once
          MaxMigration, MaxActs, MaxFailures,   \* bounds
          Nil

VARIABLES files,     \* files[p]: who wrote p last, or Nil
          command,   \* command[g]: what the command g still has to do
          acts,      \* the commands and edits people have made
          failures

svars == <<files, command, acts, failures>>

-----------------------------------------------------------------------------
(* The regular plurals: -s takes -es, a consonant and -y becomes -ies, and
   anything else, of which -ie is the one that meets another plural, takes -s. *)
Pluralize(noun) ==
  CASE noun.ending = "s" -> [stem |-> noun.stem, ending |-> "ses"]
    [] noun.ending = "y" -> [stem |-> noun.stem, ending |-> "ies"]
    [] noun.ending = "ie" -> [stem |-> noun.stem, ending |-> "ies"]
NewNames(noun) == [singular |-> noun, plural |-> Pluralize(noun)]
ValidateResourceName(noun) == noun \notin Reserved

At(dir, word, version) == [dir |-> dir, word |-> word, version |-> version]
GoMod == At("go.mod", Nil, 0)
FirstMigration == At("db/migrations", Nil, 1)

(* The templates of a slice, in the order of the paths they are written to. *)
featureTemplates(names) == <<At("internal", names.singular, 0)>>
resourceTemplates(names, version) ==
  <<At("api", names.singular, 0), At("db/migrations", names.plural, version),
    At("frontend/src/lib", names.singular, 0), At("frontend/src/routes", names.plural, 0),
    At("internal", names.singular, 0)>>

AllFiles ==
  {GoMod, FirstMigration} \cup
  UNION {LET plan == resourceTemplates(NewNames(n), v) IN {plan[k] : k \in DOMAIN plan}
         : n \in Nouns, v \in 1..MaxMigration}

Versions == {p.version : p \in {q \in AllFiles : q.dir = "db/migrations" /\ files[q] /= Nil}}
ModulePathOf == files[GoMod] /= Nil
NextMigrationVersion == 1 + CHOOSE v \in Versions : \A w \in Versions : w <= v

NewPlan(kind, noun) ==
  IF kind = "feature" THEN featureTemplates(NewNames(noun))
  ELSE resourceTemplates(NewNames(noun), NextMigrationVersion)

-----------------------------------------------------------------------------
Waiting == [pc |-> "idle", todo |-> << >>]
renderGenerateError(g) == command' = [command EXCEPT ![g] = Waiting]

SInit ==
  /\ files = [p \in AllFiles |-> IF p \in {GoMod, FirstMigration} THEN "new" ELSE Nil]
  /\ command = [g \in Generators |-> Waiting]
  /\ acts = 0 /\ failures = 0

(* The whole plan is rendered before anything is looked at or written. *)
generateSlice(g) ==
  \E kind \in {"feature", "resource"}, noun \in Nouns :
    /\ command[g].pc = "idle" /\ acts < MaxActs /\ acts' = acts + 1
    /\ IF \/ ~ ValidateResourceName(noun) \/ ~ ModulePathOf
          \/ kind = "resource" /\ Versions = {}
       THEN renderGenerateError(g)
       ELSE /\ kind = "resource" => NextMigrationVersion <= MaxMigration
            /\ command' = [command EXCEPT ![g] = [pc |-> "check", todo |-> NewPlan(kind, noun)]]
    /\ UNCHANGED <<files, failures>>

(* Every path is looked up before the first file is written. *)
CheckPlan(g) ==
  /\ command[g].pc = "check"
  /\ IF \E k \in DOMAIN command[g].todo : files[command[g].todo[k]] /= Nil
     THEN renderGenerateError(g)
     ELSE command' = [command EXCEPT ![g].pc = "write"]
  /\ UNCHANGED <<files, acts, failures>>

\* Mutant: a plain create, which truncates a file that has appeared since.
CreateOver(g, p) ==
  /\ files' = [files EXCEPT ![p] = g]
  /\ command' = [command EXCEPT ![g].todo = Tail(@)]
(* The create is exclusive: what has appeared since the check ends the command. *)
Create(g, p) ==
  IF files[p] /= Nil THEN renderGenerateError(g) /\ UNCHANGED files
  ELSE /\ files' = [files EXCEPT ![p] = g]
       /\ command' = [command EXCEPT ![g].todo = Tail(@)]

Write(g) ==
  /\ command[g].pc = "write" /\ command[g].todo /= << >>
  /\ Create(g, Head(command[g].todo))
  /\ UNCHANGED <<acts, failures>>

(* A directory, a create or a write fails: what was written stays, and the file
   itself may have been created and not filled. *)
WriteFails(g) ==
  /\ command[g].pc = "write" /\ command[g].todo /= << >> /\ failures < MaxFailures
  /\ LET p == Head(command[g].todo)
     IN files' \in {files} \cup (IF files[p] = Nil THEN {[files EXCEPT ![p] = g]} ELSE {})
  /\ failures' = failures + 1 /\ renderGenerateError(g)
  /\ UNCHANGED acts

Finish(g) ==
  /\ command[g].pc = "write" /\ command[g].todo = << >>
  /\ command' = [command EXCEPT ![g] = Waiting]
  /\ UNCHANGED <<files, acts, failures>>

(* People write files of their own, edit and remove what is there. *)
Touch ==
  /\ acts < MaxActs /\ acts' = acts + 1
  /\ \E p \in AllFiles, content \in {"person", Nil} :
       files[p] /= content /\ files' = [files EXCEPT ![p] = content]
  /\ UNCHANGED <<command, failures>>

SNext ==
  \/ \E g \in Generators :
       generateSlice(g) \/ CheckPlan(g) \/ Write(g) \/ WriteFails(g) \/ Finish(g)
  \/ Touch

SSpec == SInit /\ [][SNext]_svars

-----------------------------------------------------------------------------
\* A generate command creates files and changes none: whatever exists when a
\* command writes, made by a person or by a second command after the first has
\* looked, at a path two names share because they have the same plural, or left
\* by a run that failed, stays as it was (feature.Write: "the one thing this
\* generator promises never to do").
GenerateOverwritesNothing ==
  [][command' /= command =>
       \A p \in AllFiles : files[p] /= Nil => files'[p] = files[p]]_svars
=============================================================================
