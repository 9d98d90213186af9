----------------------------- MODULE MCServing -----------------------------
(***************************************************************************)
(* What a generated application serves, in four scenes that share          *)
(* nothing: one account (module Accounts), signed in twice or with a       *)
(* second factor, and three requests, two of them at once; the listings of *)
(* the reference application (module Catalogue), one reader among writers; *)
(* the photo of a resource (module Photos), two editors at once; and the   *)
(* readiness probe (module Probes), two requests at once.                  *)
(***************************************************************************)
EXTENDS Accounts, Catalogue, Photos, Probes, TLC

CONSTANTS r1, r2, k1
VARIABLE scene

\* Two resources, or two reservations, that sort alike, and a third to come.  5
\* is 4 in capitals, as long as a name may be and with the separator of the
\* cursor in it; 7 begins with a letter that Go has a lower case of, 8, and
\* PostgreSQL in the C locale has not.  An int64 holds the instant 1 and not 2.
Characters == [n \in Names |-> IF n = 5 THEN 200 ELSE 10]
SqlLower == [n \in Names |-> IF n = 5 THEN 4 ELSE n]
GoLower == [n \in Names |-> IF n = 5 THEN 4 ELSE IF n = 7 THEN 8 ELSE n]
Filters == [resources |-> {[retired |-> TRUE], [retired |-> FALSE]},
            reservations |-> {[states |-> {}, window |-> None],
                              [states |-> {"booked"}, window |-> <<1, 2>>],
                              [states |-> {}, window |-> <<1, None>>]}]
ReportPolicy == [default |-> 2, max |-> 2, maxOffset |-> 1]

\* The scene that is not played stands still in one of its initial states.
ServingInit ==
  /\ scene \in {"accounts", "catalogue", "photos", "probes"}
  /\ Init /\ CInit /\ PInit /\ HInit
  /\ scene /= "probes" => gate
  /\ scene /= "catalogue" => rows = Seeded("resources", 4, 1)
  /\ scene /= "accounts" => (factor = None /\ ~ user.stale)
ServingNext ==
  /\ UNCHANGED scene
  /\ \/ scene = "accounts" /\ Next /\ UNCHANGED <<cvars, pvars, probevars>>
     \/ scene = "catalogue" /\ CNext /\ UNCHANGED <<vars, pvars, probevars>>
     \/ scene = "photos" /\ PNext /\ UNCHANGED <<vars, cvars, probevars>>
     \/ scene = "probes" /\ HNext /\ UNCHANGED <<vars, cvars, pvars>>
ServingSpec == ServingInit /\ [][ServingNext]_<<scene, vars, cvars, pvars, probevars>>

Interchangeable == Permutations(Requests)
=============================================================================
