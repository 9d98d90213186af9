------------------------------- MODULE Probes -------------------------------
(***************************************************************************)
(* The readiness probe (runtime/health): each request runs every check in  *)
(* a goroutine of its own, under a timeout of its own and the timeout of   *)
(* the whole probe, while dependencies come and go and the gate is set.    *)
(* How long a timeout is does not matter here: either may fire at any      *)
(* moment, and a check's late answer races both.                           *)
(***************************************************************************)
EXTENDS Integers

CONSTANTS Checks, Probers   \* registered checks; requests in progress at once

VARIABLES gate,    \* the readiness gate
          up,      \* up[c]: whether the dependency behind check c answers
          probe    \* probe[q]: how far request q has come

probevars == <<gate, up, probe>>

(* check[c] is the goroutine of a check and result[c] what Probe has received;
   `passed` are the checks that succeeded while this request was waiting. *)
Quiet == [pc |-> "idle", view |-> "public", check |-> [c \in Checks |-> "running"],
          result |-> [c \in Checks |-> "none"], passed |-> {}, open |-> FALSE]

HInit ==
  /\ gate \in BOOLEAN /\ up = [c \in Checks |-> TRUE]
  /\ probe = [q \in Probers |-> Quiet]

Set == gate' = ~ gate /\ UNCHANGED <<up, probe>>
DependencyChanges(c) ==
  up' = [up EXCEPT ![c] = ~ @] /\ UNCHANGED <<gate, probe>>

writeProbeResponse(q, healthy) ==
  probe' = [probe EXCEPT ![q].pc = IF healthy THEN "ready" ELSE "unready"]

(* A closed gate is answered at once; the report asks for the gate last. *)
NewReadinessHandler(q) ==
  /\ probe[q].pc = "idle"
  /\ IF gate THEN probe' = [probe EXCEPT ![q].pc = "probing", ![q].open = TRUE]
     ELSE writeProbeResponse(q, FALSE)
  /\ UNCHANGED <<gate, up>>
NewReadinessReportHandler(q) ==
  /\ probe[q].pc = "idle"
  /\ probe' = [probe EXCEPT ![q].pc = "probing", ![q].view = "report"]
  /\ UNCHANGED <<gate, up>>

(* A check answers, its own timeout fires first, or it never returns.  Nobody
   receives what a check says once its request has been answered. *)
runCheck(q, c) ==
  /\ probe[q].pc = "probing" /\ probe[q].check[c] = "running"
  /\ \/ probe' = [probe EXCEPT ![q].check[c] = IF up[c] THEN "healthy" ELSE "unhealthy",
                               ![q].passed = IF up[c] THEN @ \cup {c} ELSE @]
     \/ probe' = [probe EXCEPT ![q].check[c] = "unhealthy"]
  /\ UNCHANGED <<gate, up>>

Receive(q, c) ==
  /\ probe[q].pc = "probing"
  /\ probe[q].check[c] \in {"healthy", "unhealthy"} /\ probe[q].result[c] = "none"
  /\ probe' = [probe EXCEPT ![q].result[c] = probe[q].check[c]]
  /\ UNCHANGED <<gate, up>>

(* A check that has not been received by the end is unhealthy. *)
\* Mutant: only the results that were received are looked at.
ReportOfReceived(q) == \A c \in Checks : probe[q].result[c] /= "unhealthy"
Report(q) == \A c \in Checks : probe[q].result[c] = "healthy"

(* All results are in, or the overall timeout fires: the handler answers. *)
Probe(q) ==
  /\ probe[q].pc = "probing"
  /\ probe' = [probe EXCEPT
       ![q].pc = IF Report(q) /\ (probe[q].view = "report" => gate) THEN "ready" ELSE "unready",
       ![q].open = @ \/ gate]
  /\ UNCHANGED <<gate, up>>

NextRequest(q) ==
  /\ probe[q].pc \in {"ready", "unready"} /\ probe' = [probe EXCEPT ![q] = Quiet]
  /\ UNCHANGED <<gate, up>>

HNext ==
  \/ Set \/ \E c \in Checks : DependencyChanges(c)
  \/ \E q \in Probers :
       \/ NewReadinessHandler(q) \/ NewReadinessReportHandler(q)
       \/ Probe(q) \/ NextRequest(q)
       \/ \E c \in Checks : runCheck(q, c) \/ Receive(q, c)

HSpec == HInit /\ [][HNext]_probevars

-----------------------------------------------------------------------------
\* An instance is called ready only if, while that very request was waiting,
\* the gate was open and every check succeeded; a check that hangs, fails, or
\* is still unread when the overall timeout fires is never taken for healthy
\* (Probe: "a check that has not reported by then is recorded as unhealthy").
\* A check that succeeds after its own timeout may be: when both are ready,
\* select takes either.
ReadyIsEarned ==
  \A q \in Probers :
    probe[q].pc = "ready" => probe[q].open /\ probe[q].passed = Checks
=============================================================================
