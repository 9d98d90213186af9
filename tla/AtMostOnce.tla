----------------------------- MODULE AtMostOnce -----------------------------
(***************************************************************************)
(* What the idempotency executor promises its callers, with no database,   *)
(* no advisory lock and no expiry sweep in sight.                          *)
(*                                                                         *)
(* An attempt carries a (scope, idempotency key) pair and the fingerprint  *)
(* of its request.  A command takes effect in one step, and only when      *)
(* every earlier effect under the same key has outlived its retention.     *)
(* Any other answer leaves the effects alone, and a replayed answer is the *)
(* response of an effect that the same request caused.                     *)
(*                                                                         *)
(* The response itself is represented by the attempt whose command         *)
(* produced it: from[a] names the attempt whose response a was given.      *)
(***************************************************************************)
EXTENDS Integers

CONSTANTS Attempts,      \* calls of Executor.Do
          Keys,          \* (scope, idempotency key) pairs
          Fingerprints,  \* request fingerprints
          Retention,     \* how long a recorded response stays replayable
          Skew           \* how far a process's clock may be from real time

VARIABLES clock,    \* real time
          req,      \* req[a]: the key and the fingerprint of attempt a
          effects,  \* the commands that took effect
          outcome,  \* outcome[a]: what the caller of attempt a was told
          from      \* from[a]: the attempt whose response it was given

Refusals == {"refused", "conflict", "reuse", "error", "crashed"}
Outcomes == Refusals \cup {"pending", "ok", "replayed"}

\* at: when the attempt read the time its record's expiry is counted from.
\* ran: when its command ran.
Effect == [by : Attempts, key : Keys, fp : Fingerprints, at : Nat, ran : Nat]

\* e is over and done with for a command that runs at time t: the record
\* kept for e had reached its expiry by then, give or take two readings of
\* clocks that are Skew away from the real time.
Outlived(e, t) == e.at + Retention <= t + 2 * Skew

Init == /\ clock = 0
        /\ req \in [Attempts -> [key : Keys, fp : Fingerprints]]
        /\ effects = {}
        /\ outcome = [a \in Attempts |-> "pending"]
        /\ from = [a \in Attempts |-> a]

Tick == /\ clock' = clock + 1
        /\ UNCHANGED <<req, effects, outcome, from>>

\* The command of a takes effect.  The caller may fail to learn of it.
Execute(a) ==
  \E at, ran \in 0 .. clock :
    /\ outcome[a] = "pending"
    /\ \A e \in effects : /\ e.by # a
                          /\ e.key = req[a].key => /\ e.ran <= ran
                                                   /\ Outlived(e, ran)
    /\ effects' = effects \cup {[by |-> a, key |-> req[a].key, fp |-> req[a].fp,
                                 at |-> at, ran |-> ran]}
    /\ \E o \in {"ok", "error"} : outcome' = [outcome EXCEPT ![a] = o]
    /\ from' = [from EXCEPT ![a] = a]
    /\ UNCHANGED <<clock, req>>

\* a is given the response that the same request produced before.
Replay(a) ==
  \E e \in effects :
    /\ outcome[a] = "pending"
    /\ e.key = req[a].key /\ e.fp = req[a].fp
    /\ outcome' = [outcome EXCEPT ![a] = "replayed"]
    /\ from' = [from EXCEPT ![a] = e.by]
    /\ UNCHANGED <<clock, req, effects>>

\* a has no effect and its caller learns nothing but that.
Refuse(a) ==
  /\ outcome[a] = "pending"
  /\ \E o \in Refusals : outcome' = [outcome EXCEPT ![a] = o]
  /\ UNCHANGED <<clock, req, effects, from>>

Next == Tick \/ \E a \in Attempts : Execute(a) \/ Replay(a) \/ Refuse(a)

vars == <<clock, req, effects, outcome, from>>

Spec == Init /\ [][Next]_vars
=============================================================================
