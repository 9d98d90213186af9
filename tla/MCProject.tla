----------------------------- MODULE MCProject -----------------------------
(***************************************************************************)
(* A project on a developer's machine in four scenes that share nothing:   *)
(* the commands that own the tree (module Project), with three releases    *)
(* and a source build, where the second release drops a file; two generate *)
(* commands at once (module Slices), for two nouns with one plural; nise   *)
(* test (module Suites), for every selection and every plan; and nise dev  *)
(* (module DevLoop), over one edit.                                        *)
(***************************************************************************)
EXTENDS Project, Slices, Suites, DevLoop

VARIABLE scene

MCMigrations == {<<1, 2>>, <<2, 3>>}
MCPins == {1, 2, 3} \X {"", "rc"}
MCRecipes == {1, 3, Dev} \X {1, 2, 3}

Noun(stem, ending) == [stem |-> stem, ending |-> ending]
MCNouns == {Noun("part", "y"), Noun("part", "ie"), Noun("con", "s")}
MCReserved == {Noun("con", "s")}

\* The scenes that are not played stand still in one of their initial states.
ProjectInit ==
  /\ scene \in {"tree", "slices", "suites", "dev"} /\ Init /\ SInit /\ DInit
  /\ scene # "tree" => installed = MaxRelease
  /\ scene # "dev" => options = CHOOSE flags \in Commands : TRUE
  /\ scene # "dev" => container = "absent"
  /\ \E flags \in SUBSET Names, disk \in SUBSET Facts :
       /\ scene # "suites" => flags = {} /\ disk = {}
       /\ TInit(flags, disk)
ProjectNext ==
  /\ UNCHANGED scene
  /\ \/ scene = "tree" /\ Next /\ UNCHANGED <<svars, tvars, dvars>>
     \/ scene = "slices" /\ SNext /\ UNCHANGED <<vars, tvars, dvars>>
     \/ scene = "suites" /\ TNext /\ UNCHANGED <<vars, svars, dvars>>
     \/ scene = "dev" /\ DNext /\ UNCHANGED <<vars, svars, tvars>>
ProjectSpec == ProjectInit /\ [][ProjectNext]_<<scene, vars, svars, tvars, dvars>>
=============================================================================
