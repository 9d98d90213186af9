---------------------------- MODULE Idempotency ----------------------------
(***************************************************************************)
(* The idempotency executor of a generated application                     *)
(* (internal/platform/idempotency): Executor.Do runs a command and records *)
(* its response in one PostgreSQL transaction, under a transaction-scoped  *)
(* advisory lock taken with try, and DeleteExpired sweeps old records.     *)
(*                                                                         *)
(* Every attempt is one call of Do on a connection of its own.  Its        *)
(* statements interleave with those of the other attempts and with the     *)
(* sweep; what it wrote becomes visible when it commits and is forgotten   *)
(* when it rolls back, when the process dies or when the connection is     *)
(* lost.  A commit may be applied and its acknowledgement lost.            *)
(*                                                                         *)
(* A response is represented by the attempt whose command produced it.     *)
(***************************************************************************)
EXTENDS Integers, FiniteSets

CONSTANTS Attempts,      \* calls of Executor.Do
          Keys,          \* (scope, idempotency key) pairs
          Fingerprints,  \* request fingerprints
          Locks,         \* the 64-bit advisory lock numbers in use
          LockKey,       \* lockKey: the lock number of each pair, not injective
          Retention,     \* Executor.retention
          Skew,          \* how far time.Now may be from real time, either way
          SweepLimit,    \* the limit DeleteExpired is called with
          MaxTime        \* bound on real time, for model checking

ASSUME LockKeyAssumption == LockKey \in [Keys -> Locks]
ASSUME TimeAssumption == /\ Retention \in Nat \ {0}
                         /\ Skew \in Nat
                         /\ SweepLimit \in Nat \ {0}
                         /\ MaxTime \in Nat

VARIABLES clock,    \* real time
          req,      \* req[a]: the pair and the fingerprint a was called with
          pc,       \* pc[a]: how far a has come
          now,      \* now[a]: the time a read once it held the lock
          stampAt,  \* stampAt[a]: the real time at which it read it
          ranAt,    \* ranAt[a]: the real time at which its command ran
          held,     \* the attempts whose transaction holds their advisory lock
          table,    \* the committed rows of idempotency_keys
          deleted,  \* deleted[a]: the rows a deleted and has not committed
          sweepNow, \* {t}: a sweep was called with the time t; {}: none is
          effects,  \* the commands whose transaction committed
          from,     \* from[a]: the attempt whose response a holds
          outcome   \* outcome[a]: what Do returns to the caller of a

vars == <<clock, req, pc, now, stampAt, ranAt, held, table, deleted, sweepNow,
          effects, from, outcome>>

txVars == <<held, table, deleted, effects>>
stamps == <<now, stampAt, ranAt>>

Row == [key : Keys, fp : Fingerprints, by : Attempts, exp : Int]

Steps == {"idle", "begun", "locked", "stamped", "run", "commanded", "recorded",
          "replay", "rollback", "orphan", "done"}

\* The steps at which a transaction is open.
Open == Steps \ {"idle", "done"}

\* The steps of an attempt that got past the advisory lock and may write.
Inside == {"locked", "stamped", "run", "commanded", "recorded", "replay"}

\* The readings a process may get from its clock.
Readings == (clock - Skew) .. (clock + Skew)

Key(a) == req[a].key

\* What a statement of a's transaction sees of its own pair's record.
Visible(a) == {r \in table \ deleted[a] : r.key = Key(a)}
-----------------------------------------------------------------------------
Init == /\ clock = 0
        /\ req \in [Attempts -> [key : Keys, fp : Fingerprints]]
        /\ pc = [a \in Attempts |-> "idle"]
        /\ now = [a \in Attempts |-> 0]
        /\ stampAt = [a \in Attempts |-> 0]
        /\ ranAt = [a \in Attempts |-> 0]
        /\ held = {}
        /\ table = {}
        /\ deleted = [a \in Attempts |-> {}]
        /\ sweepNow = {}
        /\ effects = {}
        /\ from = [a \in Attempts |-> a]
        /\ outcome = [a \in Attempts |-> "pending"]

Tick == /\ clock < MaxTime
        /\ clock' = clock + 1
        /\ UNCHANGED <<req, pc, stamps, txVars, sweepNow, from, outcome>>

Goto(a, step) == pc' = [pc EXCEPT ![a] = step]
Tell(a, what) == outcome' = [outcome EXCEPT ![a] = what]

\* The transaction of a ends: PostgreSQL releases its advisory lock.
Release(a) == /\ held' = held \ {a}
              /\ deleted' = [deleted EXCEPT ![a] = {}]

\* The checks Do makes before it opens a transaction refuse the call, or the
\* transaction cannot be opened.
Refuse(a) ==
  /\ pc[a] = "idle"
  /\ Goto(a, "done")
  /\ Tell(a, "refused")
  /\ UNCHANGED <<clock, req, stamps, txVars, sweepNow, from>>

Begin(a) ==
  /\ pc[a] = "idle"
  /\ Goto(a, "begun")
  /\ UNCHANGED <<clock, req, stamps, txVars, sweepNow, from, outcome>>

\* Mutant of TryLock: the answer of pg_try_advisory_xact_lock is not looked at.
TryLockUnchecked(a) ==
  /\ pc[a] = "begun"
  /\ Goto(a, "locked")
  /\ held' = held \cup {a}
  /\ UNCHANGED <<clock, req, stamps, table, deleted, sweepNow, effects, from,
                 outcome>>

\* pg_try_advisory_xact_lock: refused at once while another transaction
\* holds the same lock number.
TryLock(a) ==
  /\ pc[a] = "begun"
  /\ IF \E b \in held : LockKey[Key(b)] = LockKey[Key(a)]
       THEN /\ Goto(a, "rollback")
            /\ Tell(a, "conflict")
            /\ UNCHANGED held
       ELSE /\ Goto(a, "locked")
            /\ held' = held \cup {a}
            /\ UNCHANGED outcome
  /\ UNCHANGED <<clock, req, stamps, table, deleted, sweepNow, effects, from>>

\* now := e.now().UTC()
Stamp(a) ==
  /\ pc[a] = "locked"
  /\ \E t \in Readings : now' = [now EXCEPT ![a] = t]
  /\ stampAt' = [stampAt EXCEPT ![a] = clock]
  /\ Goto(a, "stamped")
  /\ UNCHANGED <<clock, req, ranAt, txVars, sweepNow, from, outcome>>

\* Mutant of Lookup: a live record is replayed whatever the request.
LookupAnyRequest(a) ==
  /\ pc[a] = "stamped"
  /\ \/ \E r \in Visible(a) :
          /\ now[a] < r.exp
          /\ Goto(a, "replay")
          /\ from' = [from EXCEPT ![a] = r.by]
          /\ UNCHANGED deleted
     \/ /\ \A r \in Visible(a) : now[a] >= r.exp
        /\ deleted' = [deleted EXCEPT ![a] = Visible(a)]
        /\ Goto(a, "run")
        /\ UNCHANGED from
  /\ UNCHANGED <<clock, req, stamps, held, table, sweepNow, effects, outcome>>

\* SELECT, and the switch over what it found.
Lookup(a) ==
  /\ pc[a] = "stamped"
  /\ \/ \E r \in Visible(a) :          \* a live record of the same request
          /\ now[a] < r.exp
          /\ r.fp = req[a].fp
          /\ Goto(a, "replay")
          /\ from' = [from EXCEPT ![a] = r.by]
          /\ UNCHANGED <<deleted, outcome>>
     \/ \E r \in Visible(a) :          \* a live record of another request
          /\ now[a] < r.exp
          /\ r.fp # req[a].fp
          /\ Goto(a, "rollback")
          /\ Tell(a, "reuse")
          /\ UNCHANGED <<deleted, from>>
     \/ /\ \A r \in Visible(a) : now[a] >= r.exp   \* none, or an expired one
        /\ deleted' = [deleted EXCEPT ![a] = Visible(a)]
        /\ Goto(a, "run")
        /\ UNCHANGED <<from, outcome>>
  /\ UNCHANGED <<clock, req, stamps, held, table, sweepNow, effects>>

\* The command succeeds with a response that can be recorded.
Command(a) ==
  /\ pc[a] = "run"
  /\ ranAt' = [ranAt EXCEPT ![a] = clock]
  /\ Goto(a, "commanded")
  /\ UNCHANGED <<clock, req, now, stampAt, txVars, sweepNow, from, outcome>>

\* The primary key: the insert fails on a committed row of the same pair, and
\* waits for a transaction that inserted one and has not ended.
Blocked(a) == \E b \in Attempts \ {a} : pc[b] = "recorded" /\ Key(b) = Key(a)

Insert(a) ==
  /\ pc[a] = "commanded"
  /\ ~Blocked(a)
  /\ IF Visible(a) = {}
       THEN Goto(a, "recorded") /\ UNCHANGED outcome
       ELSE Goto(a, "rollback") /\ Tell(a, "error")
  /\ UNCHANGED <<clock, req, stamps, txVars, sweepNow, from>>

\* A statement fails, the command returns an error or panics, its response
\* cannot be recorded, or the caller's context is done.
Fail(a) ==
  /\ pc[a] \in Inside \cup {"begun"}
  /\ Goto(a, "rollback")
  /\ Tell(a, "error")
  /\ UNCHANGED <<clock, req, stamps, txVars, sweepNow, from>>

\* The transaction becomes visible; what the caller is told depends on
\* whether the acknowledgement of the commit arrives.
Commit(a) ==
  /\ pc[a] \in {"recorded", "replay"}
  /\ IF pc[a] = "recorded"
       THEN /\ table' = (table \ deleted[a])
                          \cup {[key |-> Key(a), fp |-> req[a].fp, by |-> a,
                                 exp |-> now[a] + Retention]}
            /\ effects' = effects
                          \cup {[by |-> a, key |-> Key(a), fp |-> req[a].fp,
                                 at |-> stampAt[a], ran |-> ranAt[a]]}
            /\ \E o \in {"ok", "error"} : Tell(a, o)
       ELSE /\ UNCHANGED <<table, effects>>
            /\ \E o \in {"replayed", "error"} : Tell(a, o)
  /\ Goto(a, "done")
  /\ Release(a)
  /\ UNCHANGED <<clock, req, stamps, sweepNow, from>>

\* Runner.rollback.
Rollback(a) ==
  /\ pc[a] = "rollback"
  /\ Goto(a, "done")
  /\ Release(a)
  /\ UNCHANGED <<clock, req, stamps, table, sweepNow, effects, from, outcome>>

\* The rollback runs into its timeout: Do returns, and the session still holds
\* the lock until the server notices that its connection is gone.
RollbackTimesOut(a) ==
  /\ pc[a] = "rollback"
  /\ Goto(a, "orphan")
  /\ UNCHANGED <<clock, req, stamps, txVars, sweepNow, from, outcome>>

\* The process dies, or loses the connection, with the transaction open.
Crash(a) ==
  /\ pc[a] \in Open \ {"orphan"}
  /\ Goto(a, "orphan")
  /\ outcome' = [outcome EXCEPT ![a] = IF @ = "pending" THEN "crashed" ELSE @]
  /\ UNCHANGED <<clock, req, stamps, txVars, sweepNow, from>>

\* Mutant of ServerAborts: a session-scoped lock outlives the transaction.
ServerAbortsKeepingLock(a) ==
  /\ pc[a] = "orphan"
  /\ Goto(a, "done")
  /\ deleted' = [deleted EXCEPT ![a] = {}]
  /\ UNCHANGED <<clock, req, stamps, held, table, sweepNow, effects, from, outcome>>

ServerAborts(a) ==
  /\ pc[a] = "orphan"
  /\ Goto(a, "done")
  /\ Release(a)
  /\ UNCHANGED <<clock, req, stamps, table, sweepNow, effects, from, outcome>>
-----------------------------------------------------------------------------
\* Mutant of Expired: the sweep deletes by age and not by expiry.
CreatedBefore(t) == {r \in table : r.exp - Retention <= t}

Expired(t) == {r \in table : r.exp <= t}

\* A row another transaction deleted and has not committed makes the sweep's
\* DELETE wait for that transaction.
RowLocked(r) == \E a \in Attempts : r \in deleted[a]

\* What "ORDER BY expires_at LIMIT n" can select.
Batches(t) ==
  {B \in SUBSET Expired(t) :
     /\ Cardinality(B) <= SweepLimit
     /\ \A r \in Expired(t) \ B : /\ Cardinality(B) = SweepLimit
                                  /\ \A s \in B : s.exp <= r.exp}

SweepCalled ==
  /\ sweepNow = {}
  /\ \E t \in Readings : sweepNow' = {t}
  /\ UNCHANGED <<clock, req, pc, stamps, txVars, from, outcome>>

DeleteExpired ==
  \E t \in sweepNow : \E B \in Batches(t) :
    /\ \A r \in B : ~RowLocked(r)
    /\ table' = table \ B
    /\ sweepNow' = {}
    /\ UNCHANGED <<clock, req, pc, stamps, held, deleted, effects, from, outcome>>
-----------------------------------------------------------------------------
Do(a) == \/ Refuse(a) \/ Begin(a) \/ TryLock(a) \/ Stamp(a) \/ Lookup(a)
         \/ Command(a) \/ Insert(a) \/ Fail(a) \/ Commit(a)
         \/ Rollback(a) \/ RollbackTimesOut(a) \/ Crash(a) \/ ServerAborts(a)

Next == Tick \/ SweepCalled \/ DeleteExpired \/ \E a \in Attempts : Do(a)

Spec == Init /\ [][Next]_vars

\* A goroutine that can take a step takes one, and the server ends the
\* transaction of a connection that is gone.  Nothing obliges a caller to
\* call, a sweep to run, or anything to fail.
Fairness == \A a \in Attempts : WF_vars(Do(a) /\ pc[a] # "idle")

FairSpec == Spec /\ Fairness
-----------------------------------------------------------------------------
Told == [a \in Attempts |-> IF outcome[a] = "replayed" THEN from[a] ELSE a]

\* The promise the executor keeps; see AtMostOnce.
Promise == INSTANCE AtMostOnce WITH from <- Told

\* Executor.Do, DeleteExpired and the crashes between their statements never
\* do more than the promise allows: a command takes effect in one step, never
\* twice within the retention, and a replay is a response of the same request.
KeepsPromise == Promise!Spec

\* Every variable has its type.
TypeOK ==
  /\ clock \in Nat
  /\ req \in [Attempts -> [key : Keys, fp : Fingerprints]]
  /\ pc \in [Attempts -> Steps]
  /\ now \in [Attempts -> Int]
  /\ stampAt \in [Attempts -> Nat]
  /\ ranAt \in [Attempts -> Nat]
  /\ held \subseteq Attempts
  /\ table \subseteq Row
  /\ deleted \in [Attempts -> SUBSET Row]
  /\ sweepNow \subseteq Int
  /\ effects \subseteq Promise!Effect
  /\ from \in [Attempts -> Attempts]
  /\ outcome \in [Attempts -> Promise!Outcomes]

\* Of two commands that took effect under one (scope, key) pair, the later
\* ran no earlier than the retention after the earlier one's record was
\* stamped, less the error of two clock readings.  This is what the lock, the
\* expiry test, the sweep's condition and the primary key are for together.
AtMostOncePerRetention ==
  \A e, f \in effects :
    e # f /\ e.key = f.key =>
      \/ e.ran <= f.ran /\ Promise!Outlived(e, f.ran)
      \/ f.ran <= e.ran /\ Promise!Outlived(f, e.ran)

\* A caller told that its command ran, or that it was replayed, holds the
\* response of a committed command for the same pair and the same request;
\* a caller told of a conflict or of a reused key changed nothing.
AnswersAreHonest ==
  \A a \in Attempts :
    /\ outcome[a] = "ok" => \E e \in effects : e.by = a
    /\ outcome[a] = "replayed" =>
         \E e \in effects : /\ e.by = from[a] /\ e.by # a
                            /\ e.key = Key(a) /\ e.fp = req[a].fp
    /\ outcome[a] \in {"refused", "conflict", "reuse", "replayed"} =>
         \A e \in effects : e.by # a

\* The advisory lock is what keeps a duplicate from waiting on the unique
\* index: an attempt that reached its INSERT is never held up by another.
NeverWaitsForADuplicate == \A a \in Attempts : pc[a] = "commanded" => ~Blocked(a)

\* No crash, timeout or lost connection leaves a key locked for good.
LockIsReleased == \A a \in Attempts : a \in held ~> a \notin held
-----------------------------------------------------------------------------
(***************************************************************************)
(* The inductive invariant behind the properties above.                    *)
(***************************************************************************)
\* Who holds a lock, and that no two holders share one.
LockInv ==
  /\ \A a \in Attempts : pc[a] \in Inside => a \in held
  /\ \A a \in held : pc[a] \in Open
  /\ \A a, b \in held : a # b => LockKey[Key(a)] # LockKey[Key(b)]

\* The times on record lie in the past and the readings near the truth.
TimeInv ==
  /\ \A a \in Attempts :
       /\ stampAt[a] <= clock /\ ranAt[a] <= clock
       /\ pc[a] \in Inside \ {"locked"} => /\ now[a] <= stampAt[a] + Skew
                                           /\ stampAt[a] <= now[a] + Skew
  /\ \A t \in sweepNow : t <= clock + Skew
  /\ \A e \in effects : e.at <= clock /\ e.ran <= clock

\* Only an attempt that is about to run its command has deleted anything, and
\* only rows of its own pair.
DeleteInv ==
  \A a \in Attempts :
    /\ \A r \in deleted[a] : r.key = Key(a)
    /\ pc[a] \in {"idle", "begun", "locked", "stamped"} => deleted[a] = {}

\* An effect is that of a finished attempt, which has no other.
EffectInv ==
  /\ \A e \in effects : /\ pc[e.by] = "done"
                         /\ e.key = Key(e.by) /\ e.fp = req[e.by].fp
                         /\ outcome[e.by] \in {"ok", "error"}
  /\ \A e, f \in effects : e.by = f.by => e = f

\* A row is the record of an effect.
RowInv == \A r \in table : \E e \in effects :
            e.by = r.by /\ e.key = r.key /\ e.fp = r.fp

\* An effect keeps its record until it is outlived.
KeptInv ==
  \A e \in effects :
    \/ Promise!Outlived(e, clock)
    \/ \E r \in table : /\ r.by = e.by /\ r.key = e.key
                         /\ e.at + Retention <= r.exp + Skew

\* An attempt that decided to run its command has outlived every effect of
\* its pair, and an attempt that decided to replay has one to replay.
PathInv ==
  \A a \in Attempts :
    /\ \A e \in effects : e.key = Key(a) =>
         /\ pc[a] = "run" => Promise!Outlived(e, clock)
         /\ pc[a] \in {"commanded", "recorded"} =>
              e.ran <= ranAt[a] /\ Promise!Outlived(e, ranAt[a])
    /\ pc[a] = "replay" =>
         \E e \in effects : /\ e.by = from[a]
                            /\ e.key = Key(a) /\ e.fp = req[a].fp
    /\ pc[a] \in Inside \cup {"idle", "begun"} <=> outcome[a] = "pending"

\* The state of the executor, its table and its callers fit together: holders
\* exclude each other, every row records an effect, every effect that is not
\* outlived has its row, and whoever runs a command has outlived the others.
IInv ==
  /\ TypeOK /\ LockInv /\ TimeInv /\ DeleteInv /\ EffectInv
  /\ RowInv /\ KeptInv /\ PathInv
  /\ AtMostOncePerRetention /\ AnswersAreHonest
=============================================================================
