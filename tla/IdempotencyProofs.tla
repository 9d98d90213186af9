------------------------- MODULE IdempotencyProofs -------------------------
(***************************************************************************)
(* IInv is an inductive invariant of the idempotency executor, for any     *)
(* number of attempts, keys and lock numbers, any retention and any clock  *)
(* skew; with it, the executor implements AtMostOnce.                      *)
(***************************************************************************)
EXTENDS Idempotency, TLAPS

USE LockKeyAssumption, TimeAssumption

\* The executor starts in a state that satisfies the invariant.
LEMMA InitIInv == Init => IInv
  BY DEF Init, IInv, TypeOK, LockInv, TimeInv, DeleteInv, EffectInv, RowInv,
         KeptInv, PathInv, AtMostOncePerRetention, AnswersAreHonest, Key,
         Steps, Inside, Open, Row, Promise!Effect, Promise!Outcomes,
         Promise!Refusals

\* Every step of an attempt, of the clock and of the sweep keeps the types.
LEMMA TypeStep == TypeOK /\ Next => TypeOK'
<1> SUFFICES ASSUME TypeOK, Next PROVE TypeOK'
  OBVIOUS
<1> USE DEF TypeOK, stamps, txVars, Goto, Tell, Release, Key, Steps,
            Promise!Outcomes, Promise!Refusals
<1>1. CASE Tick
  BY <1>1 DEF Tick
<1>2. CASE SweepCalled
  BY <1>2 DEF SweepCalled, Readings
<1>3. CASE DeleteExpired
  BY <1>3 DEF DeleteExpired, Batches, Expired
<1>4. ASSUME NEW a \in Attempts, Do(a) PROVE TypeOK'
  <2>1. CASE Refuse(a)
    BY <2>1 DEF Refuse
  <2>2. CASE Begin(a)
    BY <2>2 DEF Begin
  <2>3. CASE TryLock(a)
    BY <2>3 DEF TryLock
  <2>4. CASE Stamp(a)
    BY <2>4 DEF Stamp, Readings
  <2>5. CASE Lookup(a)
    <3>1. Visible(a) \subseteq table
      BY DEF Visible
    <3>2. table \subseteq Row /\ (\A r \in Row : r.by \in Attempts)
      BY DEF Row
    <3>3. from' \in [Attempts -> Attempts] /\ deleted' \in [Attempts -> SUBSET Row]
      BY <2>5, <3>1, <3>2 DEF Lookup
    <3>4. pc' \in [Attempts -> Steps] /\ outcome' \in [Attempts -> Promise!Outcomes]
      BY <2>5 DEF Lookup
    <3> QED
      BY <2>5, <3>3, <3>4 DEF Lookup
  <2>6. CASE Command(a)
    BY <2>6 DEF Command
  <2>7. CASE Insert(a)
    BY <2>7 DEF Insert
  <2>8. CASE Fail(a)
    BY <2>8 DEF Fail
  <2>9. CASE Commit(a)
    BY <2>9 DEF Commit, Row, Promise!Effect
  <2>10. CASE Rollback(a)
    BY <2>10 DEF Rollback
  <2>11. CASE RollbackTimesOut(a)
    BY <2>11 DEF RollbackTimesOut
  <2>12. CASE Crash(a)
    BY <2>12 DEF Crash
  <2>13. CASE ServerAborts(a)
    BY <2>13 DEF ServerAborts
  <2> QED
    BY <1>4, <2>1, <2>2, <2>3, <2>4, <2>5, <2>6, <2>7, <2>8, <2>9, <2>10,
       <2>11, <2>12, <2>13 DEF Do
<1> QED
  BY <1>1, <1>2, <1>3, <1>4 DEF Next

\* A refused call touches nothing.
LEMMA RefuseStep ==
  ASSUME IInv, TypeOK', NEW a \in Attempts, Refuse(a)
  PROVE  IInv'
  BY DEF IInv, TypeOK, stamps, txVars, Goto, Tell, Release, Key, Inside, Open, Steps,
         Refuse, LockInv, TimeInv, DeleteInv,
         EffectInv, RowInv, KeptInv,
         PathInv, AtMostOncePerRetention, AnswersAreHonest

\* Opening a transaction touches nothing.
LEMMA BeginStep ==
  ASSUME IInv, TypeOK', NEW a \in Attempts, Begin(a)
  PROVE  IInv'
  BY DEF IInv, TypeOK, stamps, txVars, Goto, Tell, Release, Key, Inside, Open, Steps,
         Begin, LockInv, TimeInv, DeleteInv,
         EffectInv, RowInv, KeptInv,
         PathInv, AtMostOncePerRetention, AnswersAreHonest

\* A failed statement or command is an answer with no effect.
LEMMA FailStep ==
  ASSUME IInv, TypeOK', NEW a \in Attempts, Fail(a)
  PROVE  IInv'
  BY DEF IInv, TypeOK, stamps, txVars, Goto, Tell, Release, Key, Inside, Open, Steps,
         Fail, LockInv, TimeInv, DeleteInv,
         EffectInv, RowInv, KeptInv,
         PathInv, AtMostOncePerRetention, AnswersAreHonest

\* A rolled back transaction lets go of its lock and forgets its deletions.
LEMMA RollbackStep ==
  ASSUME IInv, TypeOK', NEW a \in Attempts, Rollback(a)
  PROVE  IInv'
  BY DEF IInv, TypeOK, stamps, txVars, Goto, Tell, Release, Key, Inside, Open, Steps,
         Rollback, LockInv, TimeInv, DeleteInv,
         EffectInv, RowInv, KeptInv,
         PathInv, AtMostOncePerRetention, AnswersAreHonest

\* A rollback that times out leaves its session behind, lock included.
LEMMA RollbackTimesOutStep ==
  ASSUME IInv, TypeOK', NEW a \in Attempts, RollbackTimesOut(a)
  PROVE  IInv'
  BY DEF IInv, TypeOK, stamps, txVars, Goto, Tell, Release, Key, Inside, Open, Steps,
         RollbackTimesOut, LockInv, TimeInv, DeleteInv,
         EffectInv, RowInv, KeptInv,
         PathInv, AtMostOncePerRetention, AnswersAreHonest

\* The server's abort of a lost session is a rollback.
LEMMA ServerAbortsStep ==
  ASSUME IInv, TypeOK', NEW a \in Attempts, ServerAborts(a)
  PROVE  IInv'
  BY DEF IInv, TypeOK, stamps, txVars, Goto, Tell, Release, Key, Inside, Open, Steps,
         ServerAborts, LockInv, TimeInv, DeleteInv,
         EffectInv, RowInv, KeptInv,
         PathInv, AtMostOncePerRetention, AnswersAreHonest

\* A crash keeps the lock with the session that is lost.
LEMMA CrashStep ==
  ASSUME IInv, TypeOK', NEW a \in Attempts, Crash(a)
  PROVE  IInv'
<1> USE DEF IInv, TypeOK, stamps, txVars, Goto, Key, Inside, Open, Steps, Crash
<1>1. LockInv' /\ TimeInv' /\ DeleteInv' /\ RowInv' /\ KeptInv' /\ AtMostOncePerRetention'
  BY DEF LockInv, TimeInv, DeleteInv, RowInv, KeptInv, AtMostOncePerRetention
<1>2. EffectInv'
  BY DEF EffectInv, Promise!Effect
<1>3. PathInv'
  BY DEF PathInv
<1>4. AnswersAreHonest'
  BY DEF AnswersAreHonest
<1> QED
  BY <1>1, <1>2, <1>3, <1>4

\* The try-lock admits no second holder of a lock number.
LEMMA TryLockStep ==
  ASSUME IInv, TypeOK', NEW a \in Attempts, TryLock(a)
  PROVE  IInv'
<1> USE DEF IInv, TypeOK, stamps, Goto, Tell, Key, Steps, TryLock
<1>1. LockInv'
  <2>1. CASE \E b \in held : LockKey[Key(b)] = LockKey[Key(a)]
    BY <2>1 DEF LockInv, Inside, Open
  <2>2. CASE ~ \E b \in held : LockKey[Key(b)] = LockKey[Key(a)]
    <3>1. held' = held \cup {a} /\ pc' = [pc EXCEPT ![a] = "locked"] /\ req' = req
      BY <2>2
    <3>2. \A b \in held : LockKey[Key(b)] # LockKey[Key(a)]
      BY <2>2
    <3>3. \A b, c \in held' : b # c => LockKey[Key(b)'] # LockKey[Key(c)']
      BY <3>1, <3>2 DEF LockInv
    <3> QED
      BY <3>1, <3>3 DEF LockInv, Inside, Open
  <2> QED
    BY <2>1, <2>2
<1>2. EffectInv'
  <2>1. \A e \in effects : e.by # a
    BY DEF EffectInv
  <2>2. \A b \in Attempts \ {a} : pc'[b] = pc[b] /\ outcome'[b] = outcome[b]
    OBVIOUS
  <2>3. \A e \in effects : e.by \in Attempts
    BY DEF Promise!Effect
  <2> QED
    BY <2>1, <2>2, <2>3 DEF EffectInv
<1>3. /\ TimeInv' /\ DeleteInv'
      /\ RowInv' /\ KeptInv' /\ AtMostOncePerRetention'
  <2>1. TimeInv'
    BY DEF TimeInv, Inside
  <2>2. DeleteInv'
    BY DEF DeleteInv
  <2>3. RowInv' /\ KeptInv' /\ AtMostOncePerRetention'
    BY DEF RowInv, KeptInv, AtMostOncePerRetention
  <2> QED
    BY <2>1, <2>2, <2>3
<1>4. PathInv'
  BY DEF PathInv, Inside
<1>5. AnswersAreHonest'
  BY DEF AnswersAreHonest, EffectInv
<1> QED
  BY <1>1, <1>2, <1>3, <1>4, <1>5

\* The time an attempt reads is within Skew of the real one.
LEMMA StampStep ==
  ASSUME IInv, TypeOK', NEW a \in Attempts, Stamp(a)
  PROVE  IInv'
<1> USE DEF IInv, TypeOK, txVars, Goto, Key, Inside, Open, Steps, Stamp
<1>1. TimeInv'
  <2>1. PICK t \in Readings : now' = [now EXCEPT ![a] = t]
    OBVIOUS
  <2>2. t \in Int /\ t <= clock + Skew /\ clock <= t + Skew
    BY <2>1 DEF Readings
  <2> QED
    BY <2>1, <2>2 DEF TimeInv
<1> QED
  BY <1>1 DEF LockInv, DeleteInv, EffectInv, RowInv, KeptInv, PathInv,
     AtMostOncePerRetention, AnswersAreHonest

\* An insert is invisible until it commits; one that fails is an answer.
LEMMA InsertStep ==
  ASSUME IInv, TypeOK', NEW a \in Attempts, Insert(a)
  PROVE  IInv'
<1> USE DEF IInv, TypeOK, stamps, txVars, Goto, Tell, Key, Inside, Open, Steps, Insert
<1>1. EffectInv'
  <2>1. \A e \in effects : e.by # a /\ e.by \in Attempts
    BY DEF EffectInv, Promise!Effect
  <2>2. \A b \in Attempts \ {a} : pc'[b] = pc[b] /\ outcome'[b] = outcome[b]
    OBVIOUS
  <2> QED
    BY <2>1, <2>2 DEF EffectInv
<1>2. LockInv' /\ DeleteInv'
  BY DEF LockInv, DeleteInv
<1>3. TimeInv'
  BY DEF TimeInv
<1>4. RowInv' /\ KeptInv' /\ AtMostOncePerRetention'
  BY DEF RowInv, KeptInv, AtMostOncePerRetention
<1>5. PathInv'
  BY DEF PathInv
<1>6. AnswersAreHonest'
  BY DEF AnswersAreHonest
<1> QED
  BY <1>1, <1>2, <1>3, <1>4, <1>5, <1>6

\* Whoever runs its command has outlived every effect of its key by then.
LEMMA CommandStep ==
  ASSUME IInv, TypeOK', NEW a \in Attempts, Command(a)
  PROVE  IInv'
<1> USE DEF IInv, TypeOK, txVars, Goto, Key, Inside, Open, Steps, Command
<1>1. PathInv'
  <2>1. \A e \in effects : e.key = Key(a) => e.ran <= clock /\ Promise!Outlived(e, clock)
    BY DEF PathInv, TimeInv
  <2>2. ranAt'[a] = clock /\ \A b \in Attempts \ {a} : ranAt'[b] = ranAt[b] /\ pc'[b] = pc[b]
    OBVIOUS
  <2>3. pc'[a] = "commanded" /\ outcome'[a] = "pending"
    BY DEF PathInv
  <2> QED
    BY <2>1, <2>2, <2>3 DEF PathInv
<1> QED
  BY <1>1 DEF LockInv, TimeInv, DeleteInv, EffectInv, RowInv, KeptInv,
     AtMostOncePerRetention, AnswersAreHonest

\* The switch over the record: replay, reuse, or run once every effect of the key
\* is outlived.  The last needs that an effect keeps its row until then.
LEMMA LookupStep ==
  ASSUME IInv, TypeOK', NEW a \in Attempts, Lookup(a)
  PROVE  IInv'
<1> USE DEF Key, Goto, Tell, stamps
<1>1. /\ TypeOK /\ LockInv /\ TimeInv /\ DeleteInv /\ EffectInv /\ RowInv
      /\ KeptInv /\ PathInv /\ AtMostOncePerRetention /\ AnswersAreHonest
  BY DEF IInv
<1>2. /\ pc[a] = "stamped" /\ deleted[a] = {} /\ outcome[a] = "pending"
      /\ UNCHANGED <<clock, req, now, stampAt, ranAt, held, table, sweepNow, effects>>
  BY <1>1 DEF Lookup, DeleteInv, PathInv, Inside
<1>3. Visible(a) = {r \in table : r.key = Key(a)}
  BY <1>2 DEF Visible
<1>4. \A e \in effects : e.by # a /\ e.by \in Attempts
  BY <1>1, <1>2 DEF EffectInv, TypeOK, Promise!Effect
<1>5. \A b \in Attempts : b # a => /\ pc'[b] = pc[b] /\ outcome'[b] = outcome[b]
                                   /\ deleted'[b] = deleted[b] /\ from'[b] = from[b]
  BY <1>1 DEF TypeOK, Lookup
<1>6. \/ /\ pc'[a] = "replay" /\ outcome'[a] = "pending" /\ deleted'[a] = {}
         /\ \E r \in table : r.key = Key(a) /\ r.fp = req[a].fp /\ from'[a] = r.by
      \/ pc'[a] = "rollback" /\ outcome'[a] = "reuse" /\ deleted'[a] = {}
      \/ /\ pc'[a] = "run" /\ outcome'[a] = "pending" /\ deleted'[a] = Visible(a)
         /\ \A r \in table : r.key = Key(a) => r.exp <= now[a]
  <2>1. \A r \in table : r.exp \in Int
    BY <1>1 DEF TypeOK, Row
  <2>2. now[a] \in Int
    BY <1>1 DEF TypeOK
  <2> QED
    BY <1>1, <1>2, <1>3, <2>1, <2>2 DEF TypeOK, Lookup
<1>7. LockInv'
  BY <1>1, <1>2, <1>5, <1>6 DEF TypeOK, LockInv, Inside, Open, Steps
<1>8. TimeInv'
  BY <1>1, <1>2, <1>5, <1>6 DEF TimeInv, Inside
<1>9. RowInv' /\ KeptInv' /\ AtMostOncePerRetention'
  BY <1>1, <1>2 DEF RowInv, KeptInv, AtMostOncePerRetention
<1>10. DeleteInv'
  BY <1>1, <1>2, <1>3, <1>5, <1>6 DEF DeleteInv
<1>11. EffectInv'
  BY <1>1, <1>2, <1>4, <1>5 DEF EffectInv
<1>12. AnswersAreHonest'
  BY <1>1, <1>2, <1>4, <1>5, <1>6 DEF AnswersAreHonest
<1>13. pc'[a] = "run" => \A e \in effects : e.key = Key(a) => Promise!Outlived(e, clock)
  <2> SUFFICES ASSUME pc'[a] = "run", NEW e \in effects, e.key = Key(a)
               PROVE  Promise!Outlived(e, clock)
    OBVIOUS
  <2>1. now[a] <= stampAt[a] + Skew /\ stampAt[a] <= clock
    BY <1>1, <1>2 DEF TimeInv, Inside
  <2>2. now[a] \in Int /\ stampAt[a] \in Nat /\ clock \in Nat /\ e.at \in Nat
    BY <1>1 DEF TypeOK, Promise!Effect
  <2>3. ASSUME NEW r \in table, r.key = e.key, e.at + Retention <= r.exp + Skew
        PROVE  Promise!Outlived(e, clock)
    <3>1. r.exp \in Int /\ r.exp <= now[a]
      BY <1>1, <1>6, <2>3 DEF TypeOK, Row
    <3> QED
      BY <2>1, <2>2, <2>3, <3>1 DEF Promise!Outlived
  <2> QED
    BY <1>1, <2>3 DEF KeptInv
<1>14. pc'[a] = "replay" => \E e \in effects : e.by = from'[a] /\ e.key = Key(a) /\ e.fp = req[a].fp
  BY <1>1, <1>6 DEF RowInv
<1>15. PathInv'
  BY <1>1, <1>2, <1>5, <1>6, <1>13, <1>14 DEF PathInv, Inside
<1> QED
  BY <1>7, <1>8, <1>9, <1>10, <1>11, <1>12, <1>15 DEF IInv

\* A transaction that only read the record to replay it commits.
LEMMA ReplayCommitStep ==
  ASSUME IInv, TypeOK', NEW a \in Attempts, Commit(a), pc[a] = "replay"
  PROVE  IInv'
<1> USE DEF IInv, TypeOK, stamps, Goto, Tell, Release, Key, Inside, Open, Steps, Commit
<1>1. LockInv' /\ DeleteInv'
  BY DEF LockInv, DeleteInv
<1>2. TimeInv'
  BY DEF TimeInv
<1>3. EffectInv'
  <2>1. \A e \in effects : e.by # a /\ e.by \in Attempts
    BY DEF EffectInv, Promise!Effect
  <2>2. \A b \in Attempts \ {a} : pc'[b] = pc[b] /\ outcome'[b] = outcome[b]
    OBVIOUS
  <2> QED
    BY <2>1, <2>2 DEF EffectInv
<1>4. RowInv' /\ KeptInv' /\ AtMostOncePerRetention'
  BY DEF RowInv, KeptInv, AtMostOncePerRetention
<1>5. PathInv'
  BY DEF PathInv
<1>6. AnswersAreHonest'
  <2>1. \A e \in effects : e.by # a
    BY DEF EffectInv
  <2>2. \E e \in effects : e.by = from[a] /\ e.key = Key(a) /\ e.fp = req[a].fp
    BY DEF PathInv
  <2>3. outcome'[a] \in {"replayed", "error"}
    OBVIOUS
  <2>4. \A b \in Attempts \ {a} : outcome'[b] = outcome[b]
    OBVIOUS
  <2>5. UNCHANGED <<effects, from, req>>
    OBVIOUS
  <2> QED
    BY <2>1, <2>2, <2>3, <2>4, <2>5 DEF AnswersAreHonest
<1> QED
  BY <1>1, <1>2, <1>3, <1>4, <1>5, <1>6

\* A command takes effect.  No other attempt of its key is past the lock, every
\* earlier effect of the key is outlived, and the new one gets its record.
LEMMA RecordCommitStep ==
  ASSUME IInv, TypeOK', NEW a \in Attempts, Commit(a), pc[a] = "recorded"
  PROVE  IInv'
<1> DEFINE f == [by |-> a, key |-> Key(a), fp |-> req[a].fp,
                 at |-> stampAt[a], ran |-> ranAt[a]]
           n == [key |-> Key(a), fp |-> req[a].fp, by |-> a, exp |-> now[a] + Retention]
<1>1. /\ TypeOK /\ LockInv /\ TimeInv /\ DeleteInv /\ EffectInv /\ RowInv
      /\ KeptInv /\ PathInv /\ AtMostOncePerRetention /\ AnswersAreHonest
  BY DEF IInv
<1>2. /\ table' = (table \ deleted[a]) \cup {n} /\ effects' = effects \cup {f}
      /\ held' = held \ {a}
      /\ UNCHANGED <<clock, req, now, stampAt, ranAt, sweepNow, from>>
  BY DEF Commit, Key, stamps, Release
<1>3. /\ pc'[a] = "done" /\ outcome'[a] \in {"ok", "error"} /\ deleted'[a] = {}
      /\ \A b \in Attempts : b # a => /\ pc'[b] = pc[b] /\ outcome'[b] = outcome[b]
                                      /\ deleted'[b] = deleted[b]
  BY <1>1 DEF TypeOK, Commit, Goto, Tell, Release
<1>4. /\ f.by = a /\ f.key = Key(a) /\ f.fp = req[a].fp /\ f.at = stampAt[a]
      /\ f.ran = ranAt[a]
      /\ n.by = a /\ n.key = Key(a) /\ n.fp = req[a].fp /\ n.exp = now[a] + Retention
  OBVIOUS
<1>5. /\ clock \in Nat /\ stampAt[a] \in Nat /\ ranAt[a] \in Nat /\ now[a] \in Int
      /\ \A e \in effects : e.by \in Attempts /\ e.at \in Nat /\ e.ran \in Nat
      /\ \A r \in table : r.exp \in Int
      /\ held \subseteq Attempts
  BY <1>1 DEF TypeOK, Promise!Effect, Row
<1>6. /\ stampAt[a] <= clock /\ ranAt[a] <= clock /\ stampAt[a] <= now[a] + Skew
  BY <1>1 DEF TimeInv, Inside
<1>7. \A e \in effects : e.by # a
  BY <1>1 DEF EffectInv
<1>8. \A e \in effects : e.key = Key(a) => e.ran <= ranAt[a] /\ Promise!Outlived(e, ranAt[a])
  BY <1>1 DEF PathInv
<1>9. \A b \in Attempts : b # a /\ pc[b] \in Inside => Key(b) # Key(a)
  BY <1>1 DEF LockInv, Inside
<1> HIDE DEF f, n
<1>10. LockInv'
  BY <1>1, <1>2, <1>3, <1>5 DEF LockInv, Key, Inside, Open, Steps
<1>11. TimeInv'
  BY <1>1, <1>2, <1>3, <1>4, <1>6 DEF TimeInv, Inside
<1>12. DeleteInv'
  BY <1>1, <1>2, <1>3 DEF DeleteInv, Key
<1>13. EffectInv'
  BY <1>1, <1>2, <1>3, <1>4, <1>5, <1>7 DEF EffectInv, Key
<1>14. RowInv'
  BY <1>1, <1>2, <1>4 DEF RowInv
<1>15. KeptInv'
  <2>1. f.at + Retention <= n.exp + Skew
    BY <1>4, <1>5, <1>6
  <2>2. ASSUME NEW e \in effects, NEW r \in deleted[a], r.key = e.key
        PROVE  Promise!Outlived(e, clock)
    <3>1. Promise!Outlived(e, ranAt[a])
      BY <1>1, <1>8, <2>2 DEF DeleteInv
    <3> QED
      BY <1>5, <1>6, <3>1 DEF Promise!Outlived
  <2>3. ASSUME NEW e \in effects, ~Promise!Outlived(e, clock)
        PROVE  \E r \in table' : /\ r.by = e.by /\ r.key = e.key
                                 /\ e.at + Retention <= r.exp + Skew
    BY <1>1, <1>2, <2>2, <2>3 DEF KeptInv
  <2>4. \A e \in effects' : Promise!Outlived(e, clock)' <=> Promise!Outlived(e, clock)
    BY <1>2 DEF Promise!Outlived
  <2> QED
    BY <1>2, <1>4, <2>1, <2>3, <2>4 DEF KeptInv
<1>16. PathInv'
  <2>1. ASSUME NEW b \in Attempts, b # a PROVE pc[b] \in {"run", "commanded", "recorded"}
                                               => Key(b) # f.key
    BY <1>4, <1>9, <2>1 DEF Inside
  <2>2. \A e, t : Promise!Outlived(e, t)' <=> Promise!Outlived(e, t)
    BY DEF Promise!Outlived
  <2> QED
    BY <1>1, <1>2, <1>3, <2>1, <2>2 DEF PathInv, Key, Inside
<1>17. AtMostOncePerRetention'
  <2>1. \A e, t : Promise!Outlived(e, t)' <=> Promise!Outlived(e, t)
    BY DEF Promise!Outlived
  <2> QED
    BY <1>1, <1>2, <1>4, <1>8, <2>1 DEF AtMostOncePerRetention
<1>18. AnswersAreHonest'
  BY <1>1, <1>2, <1>3, <1>4, <1>7 DEF AnswersAreHonest, Key
<1> QED
  BY <1>10, <1>11, <1>12, <1>13, <1>14, <1>15, <1>16, <1>17, <1>18 DEF IInv

\* Time only makes more effects outlived.
LEMMA TickStep ==
  ASSUME IInv, TypeOK', Tick
  PROVE  IInv'
<1> USE DEF IInv, TypeOK, stamps, txVars, Key, Tick
<1>1. \A e \in effects : Promise!Outlived(e, clock) => Promise!Outlived(e, clock)'
  BY DEF Promise!Outlived, Promise!Effect
<1>2. \A e \in effects, t \in Int : Promise!Outlived(e, t) => Promise!Outlived(e, t)'
  BY DEF Promise!Outlived
<1>3. LockInv' /\ DeleteInv' /\ EffectInv' /\ RowInv' /\ AnswersAreHonest'
  BY DEF LockInv, DeleteInv, EffectInv, RowInv, AnswersAreHonest
<1>4. TimeInv'
  BY DEF TimeInv, Promise!Effect
<1>5. KeptInv'
  BY <1>1 DEF KeptInv
<1>6. PathInv'
  BY <1>1, <1>2 DEF PathInv
<1>7. AtMostOncePerRetention'
  BY DEF AtMostOncePerRetention, Promise!Outlived
<1> QED
  BY <1>3, <1>4, <1>5, <1>6, <1>7

\* A sweep is called with a reading of the clock.
LEMMA SweepCalledStep ==
  ASSUME IInv, TypeOK', SweepCalled
  PROVE  IInv'
<1> USE DEF IInv, TypeOK, stamps, txVars, Key, SweepCalled
<1>1. TimeInv'
  BY DEF TimeInv, Readings
<1> QED
  BY <1>1 DEF LockInv, DeleteInv, EffectInv, RowInv, KeptInv, PathInv,
     AtMostOncePerRetention, AnswersAreHonest

\* What the sweep deletes had expired for a clock at most Skew ahead.
LEMMA DeleteExpiredStep ==
  ASSUME IInv, TypeOK', DeleteExpired
  PROVE  IInv'
<1> USE DEF IInv, TypeOK, stamps, Key
<1>1. PICK t \in sweepNow : \E B \in Batches(t) : table' = table \ B
  BY DEF DeleteExpired
<1>2. PICK B \in Batches(t) : table' = table \ B
  BY <1>1
<1>3. /\ UNCHANGED <<clock, req, pc, now, stampAt, ranAt, held, deleted, effects, from, outcome>>
      /\ sweepNow' = {}
  BY DEF DeleteExpired
<1>4. \A r \in B : r.exp <= t
  BY <1>2 DEF Batches, Expired
<1>5. t \in Int /\ t <= clock + Skew
  BY <1>1 DEF TimeInv
<1>6. KeptInv'
  <2>1. ASSUME NEW e \in effects, NEW r \in B, r \in table, e.at + Retention <= r.exp + Skew
        PROVE  Promise!Outlived(e, clock)
    <3>1. r.exp \in Int /\ e.at \in Nat
      BY <2>1 DEF Row, Promise!Effect
    <3> QED
      BY <1>4, <1>5, <2>1, <3>1 DEF Promise!Outlived
  <2> QED
    BY <1>2, <1>3, <2>1 DEF KeptInv, Promise!Outlived
<1>7. LockInv' /\ DeleteInv' /\ EffectInv' /\ RowInv' /\ AnswersAreHonest'
  BY <1>2, <1>3 DEF LockInv, DeleteInv, EffectInv, RowInv, AnswersAreHonest
<1>8. TimeInv' /\ PathInv' /\ AtMostOncePerRetention'
  BY <1>3 DEF TimeInv, PathInv, AtMostOncePerRetention, Promise!Outlived
<1> QED
  BY <1>6, <1>7, <1>8

\* Every step of the executor, of its sweep and of the clock keeps the invariant.
LEMMA NextIInv == IInv /\ [Next]_vars => IInv'
<1> SUFFICES ASSUME IInv, [Next]_vars PROVE IInv'
  OBVIOUS
<1>1. CASE UNCHANGED vars
  BY <1>1 DEF vars, IInv, TypeOK, LockInv, TimeInv, DeleteInv, EffectInv, RowInv,
     KeptInv, PathInv, AtMostOncePerRetention, AnswersAreHonest, Key, Promise!Outlived
<1>2. CASE Next
  <2>1. TypeOK'
    BY <1>2, TypeStep DEF IInv
  <2>2. ASSUME NEW a \in Attempts, Do(a) PROVE IInv'
    <3>1. CASE Commit(a)
      BY <2>1, <3>1, ReplayCommitStep, RecordCommitStep DEF Commit
    <3>2. CASE ~Commit(a)
      BY <2>1, <2>2, <3>2, RefuseStep, BeginStep, TryLockStep, StampStep, LookupStep,
         CommandStep, InsertStep, FailStep, RollbackStep, RollbackTimesOutStep,
         CrashStep, ServerAbortsStep DEF Do
    <3> QED
      BY <3>1, <3>2
  <2> QED
    BY <1>2, <2>1, <2>2, TickStep, SweepCalledStep, DeleteExpiredStep DEF Next
<1> QED
  BY <1>1, <1>2

\* The invariant holds in every state the executor reaches, for any number of
\* attempts, keys and lock numbers, any retention and any clock skew.
THEOREM Invariant == Spec => []IInv
  BY InitIInv, NextIInv, PTL DEF Spec

\* Within its retention a (scope, key) pair causes at most one effect, whatever
\* the interleaving of Do's statements, the sweep, crashes and lost commits.
THEOREM OncePerRetention == Spec => []AtMostOncePerRetention
<1>1. IInv => AtMostOncePerRetention
  BY DEF IInv
<1> QED
  BY <1>1, Invariant, PTL

\* A caller is only ever told of an effect that happened, and is only ever
\* replayed the response of its own request.
THEOREM Honest == Spec => []AnswersAreHonest
<1>1. IInv => AnswersAreHonest
  BY DEF IInv
<1> QED
  BY <1>1, Invariant, PTL

\* The advisory lock keeps every INSERT from waiting on the unique index.
THEOREM NoWaiting == Spec => []NeverWaitsForADuplicate
<1>1. IInv => NeverWaitsForADuplicate
  BY DEF IInv, LockInv, Inside, NeverWaitsForADuplicate, Blocked, Key
<1> QED
  BY <1>1, Invariant, PTL

\* What a caller is shown changes only when its attempt is answered.
LEMMA ToldUnchanged ==
  ASSUME TypeOK, \A b \in Attempts : (outcome'[b] = "replayed" <=> outcome[b] = "replayed")
                                     /\ (outcome[b] = "replayed" => from'[b] = from[b])
  PROVE  Told' = Told
  BY DEF Told

\* Every step of the executor is a step of AtMostOnce or changes nothing there.
LEMMA StepKeepsPromise == IInv /\ [Next]_vars => [Promise!Next]_(Promise!vars)
<1> SUFFICES ASSUME IInv, [Next]_vars PROVE [Promise!Next]_(Promise!vars)
  OBVIOUS
<1>1. TypeOK /\ TimeInv /\ PathInv /\ EffectInv
  BY DEF IInv
<1>2. CASE UNCHANGED vars
  BY <1>2 DEF vars, Told, Promise!vars
<1>3. CASE Tick
  BY <1>3 DEF Tick, Told, txVars, Promise!Next, Promise!Tick
<1>4. CASE SweepCalled \/ DeleteExpired
  BY <1>4 DEF SweepCalled, DeleteExpired, Told, txVars, Promise!vars
<1>5. ASSUME NEW a \in Attempts, Do(a) PROVE [Promise!Next]_(Promise!vars)
  <2>1. (\E o \in Promise!Refusals : outcome[a] = "pending" /\ Tell(a, o))
           /\ UNCHANGED <<clock, req, effects, from>> => Promise!Refuse(a)
    BY <1>1, ToldUnchanged DEF TypeOK, Tell, Promise!Refusals, Promise!Refuse
  <2>2. UNCHANGED <<clock, req, effects, from, outcome>> => UNCHANGED Promise!vars
    BY <1>1, ToldUnchanged DEF Promise!vars
  <2>3. (\E o \in Promise!Refusals : outcome[a] = "pending" /\ Tell(a, o))
           /\ UNCHANGED <<clock, req, effects, from>> => Promise!Next
    BY <2>1 DEF Promise!Next
  <2>4. pc[a] \in Inside \cup {"idle", "begun"} => outcome[a] = "pending"
    BY <1>1 DEF PathInv
  <2>5. CASE Refuse(a)
    BY <2>3, <2>4, <2>5 DEF Refuse, txVars, Promise!Refusals
  <2>6. CASE Begin(a)
    BY <2>2, <2>6 DEF Begin, txVars
  <2>7. CASE TryLock(a)
    BY <2>2, <2>3, <2>4, <2>7 DEF TryLock, Promise!Refusals
  <2>8. CASE Stamp(a)
    BY <2>2, <2>8 DEF Stamp, txVars
  <2>9. CASE Lookup(a)
    <3>1. outcome[a] = "pending" /\ UNCHANGED <<clock, req, effects>>
      BY <2>4, <2>9 DEF Lookup, Inside
    <3>2. CASE UNCHANGED outcome
      <4>1. \A b \in Attempts : outcome[b] = "replayed" => from'[b] = from[b]
        BY <1>1, <2>9, <3>1 DEF Lookup, TypeOK
      <4> QED
        BY <1>1, <3>1, <3>2, <4>1, ToldUnchanged DEF Promise!vars
    <3>3. CASE Tell(a, "reuse") /\ UNCHANGED from
      BY <2>3, <3>1, <3>3 DEF Promise!Refusals
    <3> QED
      BY <2>9, <3>2, <3>3 DEF Lookup
  <2>10. CASE Command(a)
    BY <2>2, <2>10 DEF Command, txVars
  <2>11. CASE Insert(a)
    BY <2>2, <2>3, <2>4, <2>11 DEF Insert, Inside, txVars, Promise!Refusals
  <2>12. CASE Fail(a)
    BY <2>3, <2>4, <2>12 DEF Fail, txVars, Promise!Refusals
  <2>13. CASE Commit(a) /\ pc[a] = "recorded"
    <3>1. outcome[a] = "pending" /\ UNCHANGED <<clock, req, from>>
      BY <2>4, <2>13 DEF Commit, Inside
    <3>2. stampAt[a] \in 0 .. clock /\ ranAt[a] \in 0 .. clock
      BY <1>1 DEF TypeOK, TimeInv
    <3>3. \A e \in effects : /\ e.by # a
                             /\ e.key = req[a].key => /\ e.ran <= ranAt[a]
                                                      /\ Promise!Outlived(e, ranAt[a])
      BY <1>1, <2>13 DEF EffectInv, PathInv, Key
    <3>4. PICK o \in {"ok", "error"} : outcome' = [outcome EXCEPT ![a] = o]
      BY <2>13 DEF Commit, Tell
    <3>5. Told' = [Told EXCEPT ![a] = a]
      BY <1>1, <3>1, <3>4 DEF Told, TypeOK
    <3>6. effects' = effects \cup {[by |-> a, key |-> req[a].key, fp |-> req[a].fp,
                                    at |-> stampAt[a], ran |-> ranAt[a]]}
      BY <2>13 DEF Commit, Key
    <3>7. Promise!Execute(a)
      BY <3>1, <3>2, <3>3, <3>4, <3>5, <3>6 DEF Promise!Execute
    <3> QED
      BY <3>7 DEF Promise!Next
  <2>14. CASE Commit(a) /\ pc[a] = "replay"
    <3>1. outcome[a] = "pending" /\ UNCHANGED <<clock, req, effects, from>>
      BY <2>4, <2>14 DEF Commit, Inside
    <3>2. PICK e \in effects : e.by = from[a] /\ e.key = req[a].key /\ e.fp = req[a].fp
      BY <1>1, <2>14 DEF PathInv, Key
    <3>3. CASE Tell(a, "replayed")
      <4>1. Told' = [Told EXCEPT ![a] = from[a]]
        BY <1>1, <3>1, <3>3 DEF Told, Tell, TypeOK
      <4>2. Promise!Replay(a)
        BY <3>1, <3>2, <3>3, <4>1 DEF Promise!Replay, Tell
      <4> QED
        BY <4>2 DEF Promise!Next
    <3>4. CASE Tell(a, "error")
      BY <2>3, <3>1, <3>4 DEF Promise!Refusals
    <3> QED
      BY <2>14, <3>3, <3>4 DEF Commit
  <2>15. CASE Rollback(a) \/ RollbackTimesOut(a) \/ ServerAborts(a)
    BY <2>2, <2>15 DEF Rollback, RollbackTimesOut, ServerAborts, txVars
  <2>16. CASE Crash(a)
    <3>1. CASE outcome[a] = "pending"
      BY <2>3, <2>16, <3>1 DEF Crash, Tell, txVars, Promise!Refusals
    <3>2. CASE outcome[a] # "pending"
      <4>1. outcome' = outcome
        BY <1>1, <2>16, <3>2 DEF Crash, TypeOK
      <4> QED
        BY <2>2, <2>16, <4>1 DEF Crash, txVars
    <3> QED
      BY <3>1, <3>2
  <2> QED
    BY <1>5, <2>5, <2>6, <2>7, <2>8, <2>9, <2>10, <2>11, <2>12, <2>13, <2>14, <2>15,
       <2>16 DEF Do, Commit
<1> QED
  BY <1>2, <1>3, <1>4, <1>5 DEF Next

\* The executor implements AtMostOnce: the database, the lock, the sweep and the
\* crashes are invisible to its callers.
THEOREM Implements == Spec => KeepsPromise
<1>1. Init => Promise!Init
  BY DEF Init, Promise!Init, Told
<1>2. KeepsPromise <=> Promise!Init /\ [][Promise!Next]_(Promise!vars)
  BY DEF KeepsPromise, Promise!Spec
<1> QED
  BY <1>1, <1>2, Invariant, StepKeepsPromise, PTL DEF Spec
=============================================================================
