-------------------------- MODULE WorkbenchProofs --------------------------
(***************************************************************************)
(* Proofs about Workbench, for every number of requests, workers, users,   *)
(* resources and windows.                                                  *)
(***************************************************************************)
EXTENDS Workbench, SequenceTheorems, TLAPS

USE WorkbenchAssumption

-----------------------------------------------------------------------------
(* Steps that leave the database alone: everybody else keeps what they know. *)

(* The part of the invariant about the committed data. *)
LEMMA QuietData ==
  ASSUME IInv, UNCHANGED <<rows, effects>>, now' \in Nat, now <= now'
  PROVE  /\ NoDoubleBooking' /\ AuditTellsTheStory'
         /\ EveryBookingHasItsCheck' /\ NoShowIsUncollected'
         /\ \A j \in jobs' : JobInv(j)'
<1> USE DEF IInv, TxInv, Committed
<1> rows' = rows /\ audit' = audit /\ jobs' = jobs /\ notified' = notified
  BY DEF effects
<1>1. NoDoubleBooking'
  BY DEF NoDoubleBooking
<1>2. AuditTellsTheStory'
  BY DEF AuditTellsTheStory
<1>3. EveryBookingHasItsCheck' /\ \A j \in jobs' : JobInv(j)'
  BY DEF EveryBookingHasItsCheck, VisibleRow, Job, JobInv
<1>4. NoShowIsUncollected'
  BY DEF NoShowIsUncollected, TypeOK, RowType
<1> QED
  BY <1>1, <1>2, <1>3, <1>4

LEMMA QuietStep ==
  ASSUME IInv, NEW p \in Procs,
         UNCHANGED <<now, rows, effects>>, faults' \in Nat,
         DOMAIN proc' = Procs, DOMAIN tx' = Procs,
         \A q \in Procs \ {p} : proc'[q] = proc[q] /\ tx'[q] = tx[q],
         \A q \in Procs \ {p} : tx'[p].lock \cap tx[q].lock = {},
         p \in Requests =>
           /\ proc'[p] \in RequestType /\ RequestInv(p)'
           /\ proc'[p].pc = "done" => proc'[p].status /= 200
           /\ Inserting(p)' =>
                /\ \A i \in Ids : Committed(i) => ~ Conflicting(proc'[p].row, rows[i])
                /\ \A q \in Requests \ {p} : Inserting(q) =>
                     /\ ~ Conflicting(proc'[p].row, proc[q].row)
                     /\ ~ Conflicting(proc[q].row, proc'[p].row),
         p \in Workers => proc'[p] \in WorkerType /\ WorkerInv(p)'
  PROVE  IInv'
<1> rows' = rows /\ audit' = audit /\ jobs' = jobs /\ notified' = notified
  BY DEF effects
<1>1. TypeOK'
  <2>1. \A q \in Requests : proc'[q] \in RequestType
    BY DEF IInv, TypeOK, Procs
  <2>2. \A w \in Workers : proc'[w] \in WorkerType
    BY DEF IInv, TypeOK, Procs
  <2> QED
    BY <2>1, <2>2 DEF IInv, TypeOK
<1>2. ASSUME NEW q \in Requests PROVE RequestInv(q)'
  <2>1. CASE q = p
    BY <2>1
  <2>2. CASE q /= p
    <3>1. proc'[q] = proc[q] /\ tx'[q] = tx[q] /\ RequestInv(q)
      BY <2>2 DEF Procs, IInv, TxInv
    <3> QED
      BY <3>1 DEF RequestInv, Committed, Changed
  <2> QED BY <2>1, <2>2
<1>3. ASSUME NEW w \in Workers PROVE WorkerInv(w)'
  <2>1. CASE w = p
    BY <2>1
  <2>2. CASE w /= p
    <3>1. proc'[w] = proc[w] /\ tx'[w] = tx[w] /\ WorkerInv(w)
      BY <2>2 DEF Procs, IInv, TxInv
    <3> QED
      BY <3>1 DEF WorkerInv, JobInv, VisibleRow, Committed, Changed, MarkNoShows
  <2> QED BY <2>1, <2>2
<1>4. LockInv'
  BY DEF LockInv, IInv, TxInv
<1>5. RivalInv'
  BY DEF RivalInv, IInv, TxInv, Inserting, Committed, Procs
<1>6. AnswersAreTrue'
  BY DEF AnswersAreTrue, IInv, Procs
<1> QED
  BY <1>1, <1>2, <1>3, <1>4, <1>5, <1>6, QuietData DEF IInv, TxInv, TypeOK

-----------------------------------------------------------------------------
(* The steps of a request. *)
Failures == {400, 403, 404, 409, 500}

LEMMA RefuseStep ==
  ASSUME IInv, NEW p \in Requests, NEW status \in Failures,
         Refuse(p, status), UNCHANGED <<now, rows, effects>>, faults' \in Nat
  PROVE  IInv'
<1>1. /\ DOMAIN proc' = Procs /\ DOMAIN tx' = Procs
      /\ \A q \in Procs \ {p} : proc'[q] = proc[q] /\ tx'[q] = tx[q]
      /\ proc'[p] = [pc |-> "done", status |-> status] /\ tx'[p] = NoTx
  BY DEF Refuse, IInv, TypeOK, Procs
<1>2. proc'[p] \in RequestType /\ RequestInv(p)' /\ ~ Inserting(p)'
  BY <1>1 DEF RequestType, RequestInv, Inserting, Failures
<1>3. tx'[p].lock = {}
  BY <1>1 DEF NoTx
<1> QED
  BY <1>1, <1>2, <1>3, QuietStep DEF Procs, Failures

LEMMA CreateStep ==
  ASSUME IInv, NEW p \in Requests, CreateReservation(p)
  PROVE  IInv'
<1>1. PICK u \in Users, org \in Orgs, r \in Resources, w \in Windows :
        /\ proc[p].pc = "idle" /\ requireMember(u, org)
        /\ proc' = [proc EXCEPT ![p] =
             [pc |-> "insert", op |-> "created", user |-> u, id |-> Nothing,
              row |-> [org |-> org, resource |-> r, holder |-> u, start |-> w[1],
                       end |-> w[2], state |-> "booked"]]]
        /\ UNCHANGED <<now, rows, effects, tx, faults>>
  BY DEF CreateReservation
<1>2. w[1] \in Nat /\ w[2] \in Nat
  OBVIOUS
<1>3. tx[p] = NoTx
  BY <1>1 DEF IInv, TxInv, RequestInv
<1>4. /\ DOMAIN proc' = Procs /\ DOMAIN tx' = Procs
      /\ \A q \in Procs \ {p} : proc'[q] = proc[q] /\ tx'[q] = tx[q]
      /\ tx'[p] = NoTx /\ NoTx.lock = {}
  BY <1>1, <1>3 DEF IInv, TypeOK, Procs, NoTx
<1>5. proc'[p] \in RequestType /\ RequestInv(p)' /\ ~ Inserting(p)' /\ proc'[p].pc = "insert"
  BY <1>1, <1>2, <1>4
  DEF RequestType, RequestInv, RowType, States, Inserting, IInv, TypeOK, Procs
<1>6. faults' \in Nat /\ p \in Procs /\ p \notin Workers
  BY <1>1 DEF IInv, TypeOK, Procs
<1> QED
  BY <1>1, <1>4, <1>5, <1>6, QuietStep

(* What the write of one row, with its audit record, leaves in a transaction. *)
LEMMA Recorded ==
  ASSUME NEW i, NEW row, NEW op, NEW actor
  PROVE  LET t == recordAndEnqueue(Wrote(i, row), op, actor)
         IN /\ DOMAIN t = {"writes", "lock", "audit", "jobs", "notes"}
            /\ DOMAIN t.writes = {i} /\ t.writes[i] = row /\ t.lock = {i} /\ t.jobs = {} /\ t.notes = {}
            /\ t.audit = {[id |-> i, action |-> op, actor |-> actor]}
<1> DEFINE v == Wrote(i, row)
<1>1. /\ DOMAIN v = {"writes", "lock", "audit", "jobs", "notes"}
      /\ DOMAIN v.writes = {i} /\ v.writes[i] = row /\ v.lock = {i} /\ v.jobs = {} /\ v.notes = {}
  BY DEF Wrote, NoTx
<1> HIDE DEF v
<1>2. {[id |-> k, action |-> op, actor |-> actor] : k \in DOMAIN v.writes}
        = {[id |-> i, action |-> op, actor |-> actor]}
  BY <1>1
<1>3. recordAndEnqueue(v, op, actor) =
        [v EXCEPT !.audit = {[id |-> i, action |-> op, actor |-> actor]}]
  BY <1>2 DEF recordAndEnqueue
<1> QED BY <1>1, <1>3 DEF v

LEMMA InsertStep ==
  ASSUME IInv, NEW p \in Requests, Insert(p)
  PROVE  IInv'
<1> DEFINE row == proc[p].row
<1>1. /\ proc[p].pc = "insert" /\ UNCHANGED <<now, rows, effects, faults>>
      /\ \A q \in Procs \ {p} : ~ Rival(row, q)
  BY DEF Insert
<1>2. CASE \E status \in Failures : Refuse(p, status)
  BY <1>1, <1>2, RefuseStep DEF IInv, TypeOK
<1>3. ASSUME NEW i \in Ids, ~ Committed(i), \A q \in Procs : i \notin tx[q].lock,
             \A k \in Ids : Committed(k) => ~ Conflicting(row, rows[k]),
             tx' = [tx EXCEPT ![p] = scheduleConfirmationAndReminder(
                    recordAndEnqueue(Wrote(i, row), "created", row.holder), i, row)],
             proc' = [proc EXCEPT ![p].pc = "commit", ![p].id = i]
      PROVE  IInv'
  <2>1. /\ proc[p].op = "created" /\ row \in RowType /\ row.state = "booked"
        /\ requireMember(row.holder, row.org) /\ proc[p].user \in Users
        /\ proc[p] \in [pc : {"insert"}, op : {"created"}, user : Users, id : {Nothing},
                        row : RowType]
    <3>0. proc[p] \in RequestType
      BY DEF IInv, TypeOK
    <3>1. proc[p] \in [pc : {"insert"}, op : {"created"}, user : Users, id : {Nothing},
                        row : RowType]
      BY <1>1, <3>0 DEF RequestType
    <3>2. RequestInv(p)
      BY DEF IInv, TxInv
    <3> QED BY <3>1, <3>2, <1>1 DEF RequestInv
  <2>2. /\ DOMAIN proc' = Procs /\ DOMAIN tx' = Procs
        /\ \A q \in Procs \ {p} : proc'[q] = proc[q] /\ tx'[q] = tx[q]
        /\ proc'[p] = [proc[p] EXCEPT !.pc = "commit", !.id = i]
        /\ tx'[p] = scheduleConfirmationAndReminder(
                    recordAndEnqueue(Wrote(i, row), "created", row.holder), i, row)
    BY <1>3 DEF IInv, TypeOK, Procs
  <2>3. proc'[p] \in [pc : {"commit"}, op : {"created"}, user : Users, id : Ids, row : RowType]
    BY <2>1, <2>2
  <2>4. /\ proc'[p] \in RequestType /\ proc'[p].row = row /\ proc'[p].id = i
        /\ proc'[p].pc = "commit" /\ proc'[p].op = "created"
    BY <2>1, <2>2, <2>3 DEF RequestType
  <2>5. Inserted(tx'[p], i, row)
    <3> DEFINE w == recordAndEnqueue(Wrote(i, row), "created", row.holder)
               t == scheduleConfirmationAndReminder(w, i, row)
    <3>1. /\ DOMAIN w = {"writes", "lock", "audit", "jobs", "notes"}
          /\ DOMAIN w.writes = {i} /\ w.writes[i] = row /\ w.lock = {i} /\ w.jobs = {} /\ w.notes = {}
          /\ w.audit = {[id |-> i, action |-> "created", actor |-> row.holder]}
      BY Recorded
    <3> HIDE DEF w
    <3>2. /\ DOMAIN t.writes = {i} /\ t.writes[i] = row /\ t.lock = {i} /\ t.notes = {}
          /\ t.audit = {[id |-> i, action |-> "created", actor |-> row.holder]}
      BY <3>1 DEF scheduleConfirmationAndReminder
    <3>3. /\ Job("no_show_check", i, row.org, row.end) \in t.jobs
          /\ \A j \in t.jobs : \/ j = Job("confirmation", i, row.org, 0)
                               \/ j = Job("no_show_check", i, row.org, row.end)
                               \/ j = Job("reminder", i, row.org, row.start - ReminderLeadTime)
      BY <3>1 DEF scheduleConfirmationAndReminder
    <3>4. tx'[p] = t
      BY <2>2 DEF w
    <3> HIDE DEF t
    <3>5. row.start \in Nat /\ row.end \in Nat /\ row.org \in Orgs
      BY <2>1 DEF RowType
    <3>6. \A j \in t.jobs : /\ j \in JobType /\ j.id = i /\ j.org = row.org
                            /\ j.kind = "no_show_check" => j.at = row.end
      BY <3>3, <3>5 DEF Job, JobType, registerReservationJobs
    <3> QED BY <3>2, <3>3, <3>4, <3>6 DEF Inserted
  <2>6. RequestInv(p)'
    <3>1. rows' = rows
      BY <1>1
    <3> QED
      BY <3>1, <1>3, <2>1, <2>4, <2>5 DEF RequestInv, Committed
  <2>7. tx'[p].lock = {i}
    BY <2>5 DEF Inserted
  <2>8. ASSUME NEW q \in Requests \ {p}, Inserting(q)
        PROVE  ~ Conflicting(row, proc[q].row) /\ ~ Conflicting(proc[q].row, row)
    <3>1. Inserted(tx[q], proc[q].id, proc[q].row)
      BY <2>8 DEF IInv, TxInv, RequestInv, Inserting
    <3>2. proc[q].id \in DOMAIN tx[q].writes /\ tx[q].writes[proc[q].id] = proc[q].row
      BY <3>1 DEF Inserted
    <3>3. ~ Rival(row, q)
      BY <1>1 DEF Procs
    <3> QED BY <3>2, <3>3 DEF Rival, Conflicting, Overlap
  <2>9. faults' \in Nat /\ p \in Procs /\ p \notin Workers
    BY <1>1 DEF IInv, TypeOK, Procs
  <2> HIDE DEF row
  <2> QED
    BY <1>1, <1>3, <2>2, <2>4, <2>6, <2>7, <2>8, <2>9, QuietStep
<1>4. CASE ~ \E status \in Failures : Refuse(p, status)
  <2>1. reservationFailure("ErrConflict") \in Failures
        /\ reservationFailure("ErrResourceUnavailable") \in Failures
    BY DEF reservationFailure, Failures
  <2>2. \A k \in Ids : Committed(k) => ~ Conflicting(row, rows[k])
    BY <1>4, <2>1 DEF Insert
  <2>3. PICK i \in Ids : /\ ~ Committed(i) /\ \A q \in Procs : i \notin tx[q].lock
               /\ tx' = [tx EXCEPT ![p] = scheduleConfirmationAndReminder(
                    recordAndEnqueue(Wrote(i, row), "created", row.holder), i, row)]
               /\ proc' = [proc EXCEPT ![p].pc = "commit", ![p].id = i]
    BY <1>4, <2>1, <2>2 DEF Insert
  <2> QED BY <1>3, <2>2, <2>3
<1> QED BY <1>2, <1>4

LEMMA CommandStep ==
  ASSUME IInv, NEW p \in Requests, Command(p)
  PROVE  IInv'
<1>1. PICK u \in Users, org \in Orgs, i \in Ids, op \in DOMAIN Required :
        /\ proc[p].pc = "idle" /\ requireMember(u, org) /\ Committed(i)
        /\ proc' = [proc EXCEPT ![p] =
             [pc |-> "lock", op |-> op, user |-> u, id |-> i, org |-> org]]
        /\ UNCHANGED <<now, rows, effects, tx, faults>>
  BY DEF Command
<1>2. tx[p] = NoTx
  BY <1>1 DEF IInv, TxInv, RequestInv
<1>3. op /= "created"
  BY DEF Required
<1>4. /\ DOMAIN proc' = Procs /\ DOMAIN tx' = Procs
      /\ \A q \in Procs \ {p} : proc'[q] = proc[q] /\ tx'[q] = tx[q]
      /\ proc'[p] = [pc |-> "lock", op |-> op, user |-> u, id |-> i, org |-> org]
      /\ tx'[p] = NoTx /\ NoTx.lock = {}
  BY <1>1, <1>2 DEF IInv, TypeOK, Procs, NoTx
<1>5. proc'[p] \in RequestType
  BY <1>4 DEF RequestType
<1>6. RequestInv(p)' /\ ~ Inserting(p)'
  BY <1>1, <1>3, <1>4 DEF RequestInv, Inserting, Committed
<1>7. faults' \in Nat /\ p \in Procs /\ p \notin Workers
  BY <1>1 DEF IInv, TypeOK, Procs
<1> QED
  BY <1>1, <1>4, <1>5, <1>6, <1>7, QuietStep

(* What the type of a request says at the steps of a command. *)
LEMMA CommandType ==
  ASSUME IInv, NEW p \in Requests,
         proc[p].pc \in {"lock", "act", "commit"},
         proc[p].pc = "commit" => proc[p].op /= "created"
  PROVE  /\ proc[p] \in [pc : {"lock", "act", "commit"}, op : DOMAIN Required,
                         user : Users, id : Ids, org : Orgs]
         /\ proc[p].op \in {"checked_out", "returned", "cancelled"}
         /\ Committed(proc[p].id) /\ rows[proc[p].id] \in RowType
         /\ requireMember(proc[p].user, proc[p].org)
<1>1. proc[p] \in RequestType /\ rows \in [Ids -> RowType \cup {Nothing}] /\ RequestInv(p)
  BY DEF IInv, TypeOK, TxInv
<1>2. proc[p] \in [pc : {"lock", "act", "commit"}, op : DOMAIN Required,
                         user : Users, id : Ids, org : Orgs]
  BY <1>1 DEF RequestType
<1>3. proc[p].op \in {"checked_out", "returned", "cancelled"}
  BY <1>2 DEF Required
<1>4. Committed(proc[p].id) /\ requireMember(proc[p].user, proc[p].org)
  BY <1>1, <1>3 DEF RequestInv
<1> QED BY <1>1, <1>2, <1>3, <1>4 DEF Committed

LEMMA LockStep ==
  ASSUME IInv, NEW p \in Requests, Lock(p)
  PROVE  IInv'
<1> DEFINE i == proc[p].id
<1>1. /\ proc[p].pc = "lock" /\ ~ HeldByOther(p, i)
      /\ UNCHANGED <<now, rows, effects, faults>>
  BY DEF Lock
<1>2. CASE \E status \in Failures : Refuse(p, status)
  BY <1>1, <1>2, RefuseStep DEF IInv, TypeOK
<1>3. CASE ~ \E status \in Failures : Refuse(p, status)
  <2>1. /\ VisibleRow(i, proc[p].org) /\ mayAct(proc[p].user, rows[i])
        /\ rows[i].state = Required[proc[p].op]
        /\ tx' = [tx EXCEPT ![p].lock = {i}] /\ proc' = [proc EXCEPT ![p].pc = "act"]
    BY <1>3 DEF Lock, Goto, reservationFailure, Failures
  <2>2. /\ proc[p] \in [pc : {"lock", "act", "commit"}, op : DOMAIN Required,
                         user : Users, id : Ids, org : Orgs]
        /\ proc[p].op \in {"checked_out", "returned", "cancelled"}
        /\ Committed(i) /\ requireMember(proc[p].user, proc[p].org)
    BY <1>1, CommandType
  <2>3. tx[p] = NoTx
    BY <1>1 DEF IInv, TxInv, RequestInv
  <2>4. /\ DOMAIN proc' = Procs /\ DOMAIN tx' = Procs
        /\ \A q \in Procs \ {p} : proc'[q] = proc[q] /\ tx'[q] = tx[q]
        /\ proc'[p] = [proc[p] EXCEPT !.pc = "act"]
        /\ tx'[p] = [NoTx EXCEPT !.lock = {i}]
    BY <2>1, <2>3 DEF IInv, TypeOK, Procs
  <2>5. /\ proc'[p].pc = "act" /\ proc'[p].op = proc[p].op /\ proc'[p].user = proc[p].user
        /\ proc'[p].id = i /\ proc'[p].org = proc[p].org
        /\ proc'[p] \in RequestType
    BY <2>2, <2>4 DEF RequestType
  <2>6. tx'[p].lock = {i} /\ \A q \in Procs \ {p} : tx'[p].lock \cap tx[q].lock = {}
    BY <1>1, <2>4 DEF NoTx, HeldByOther
  <2>7. RequestInv(p)' /\ ~ Inserting(p)'
    <3>1. rows' = rows
      BY <1>1
    <3> QED
      BY <3>1, <2>1, <2>2, <2>4, <2>5 DEF RequestInv, Inserting, Committed, VisibleRow
  <2>8. faults' \in Nat /\ p \in Procs /\ p \notin Workers
    BY <1>1 DEF IInv, TypeOK, Procs
  <2> QED
    BY <1>1, <2>4, <2>5, <2>6, <2>7, <2>8, QuietStep
<1> QED BY <1>2, <1>3

LEMMA ActStep ==
  ASSUME IInv, NEW p \in Requests, Act(p)
  PROVE  IInv'
<1> DEFINE i == proc[p].id
           op == proc[p].op
<1>1. /\ proc[p].pc = "act" /\ ~ HeldByOther(p, i)
      /\ UNCHANGED <<now, rows, effects, faults>>
  BY DEF Act
<1>2. CASE \E status \in Failures : Refuse(p, status)
  BY <1>1, <1>2, RefuseStep DEF IInv, TypeOK
<1>3. CASE ~ \E status \in Failures : Refuse(p, status)
  <2>1. /\ proc[p] \in [pc : {"lock", "act", "commit"}, op : DOMAIN Required,
                         user : Users, id : Ids, org : Orgs]
        /\ op \in {"checked_out", "returned", "cancelled"}
        /\ Committed(i) /\ requireMember(proc[p].user, proc[p].org)
        /\ rows[i] \in RowType
    BY <1>1, CommandType
  <2>2. /\ rows[i].org = proc[p].org /\ mayAct(proc[p].user, rows[i])
        /\ rows[i].state = Required[op]
    BY <1>1, <2>1 DEF IInv, TxInv, RequestInv
  <2>3. Updated(op, rows[i]) = [rows[i] EXCEPT !.state = op]
    BY <2>1, <2>2 DEF Updated, Required, checkOutReservation, cancelReservation,
                      returnReservation
  <2>4. /\ tx' = [tx EXCEPT ![p] = recordAndEnqueue(
                   Wrote(i, [rows[i] EXCEPT !.state = op]), op, proc[p].user)]
        /\ proc' = [proc EXCEPT ![p].pc = "commit"]
    BY <1>3, <2>3 DEF Act, Goto, reservationFailure, Failures
  <2>5. /\ DOMAIN proc' = Procs /\ DOMAIN tx' = Procs
        /\ \A q \in Procs \ {p} : proc'[q] = proc[q] /\ tx'[q] = tx[q]
        /\ proc'[p] = [proc[p] EXCEPT !.pc = "commit"]
        /\ tx'[p] = recordAndEnqueue(
                   Wrote(i, [rows[i] EXCEPT !.state = op]), op, proc[p].user)
    BY <2>4 DEF IInv, TypeOK, Procs
  <2>6. /\ proc'[p].pc = "commit" /\ proc'[p].op = op /\ proc'[p].user = proc[p].user
        /\ proc'[p].id = i /\ proc'[p].org = proc[p].org
        /\ proc'[p] \in RequestType
    BY <2>1, <2>5 DEF RequestType
  <2>7. Changed(tx'[p], {i}, op, proc[p].user, {})
    <3>1. /\ DOMAIN tx'[p].writes = {i} /\ tx'[p].writes[i] = [rows[i] EXCEPT !.state = op]
          /\ tx'[p].lock = {i} /\ tx'[p].jobs = {} /\ tx'[p].notes = {}
          /\ tx'[p].audit = {[id |-> i, action |-> op, actor |-> proc[p].user]}
      BY <2>5, Recorded
    <3> QED BY <3>1 DEF Changed, Moved
  <2>8. tx'[p].lock = {i} /\ \A q \in Procs \ {p} : tx'[p].lock \cap tx[q].lock = {}
    BY <1>1, <2>7 DEF Changed, HeldByOther
  <2>9. RequestInv(p)' /\ ~ Inserting(p)'
    <3>1. rows' = rows
      BY <1>1
    <3> QED
      BY <3>1, <2>1, <2>2, <2>6, <2>7 DEF RequestInv, Inserting, Committed, Changed
  <2>10. faults' \in Nat /\ p \in Procs /\ p \notin Workers
    BY <1>1 DEF IInv, TypeOK, Procs
  <2> QED
    BY <1>1, <2>5, <2>6, <2>8, <2>9, <2>10, QuietStep
<1> QED BY <1>2, <1>3

LEMMA FailStep ==
  ASSUME IInv, NEW p \in Requests, Fail(p)
  PROVE  IInv'
<1>1. Refuse(p, 500) /\ UNCHANGED <<now, rows, effects>> /\ faults' = faults + 1
  BY DEF Fail
<1>2. faults' \in Nat /\ 500 \in Failures
  BY <1>1 DEF IInv, TypeOK, Failures
<1> QED BY <1>1, <1>2, RefuseStep

-----------------------------------------------------------------------------
(* The steps of a worker that change no row. *)

(* What the type of a worker says when it has a job. *)
LEMMA WorkerAtJob ==
  ASSUME IInv, NEW w \in Workers, proc[w].pc /= "idle"
  PROVE  /\ proc[w].job \in JobType /\ JobInv(proc[w].job) /\ proc[w].job.at <= now
         /\ rows[proc[w].job.id] \in RowType
         /\ proc[w].pc \in {"mark", "sweepcommit"} =>
              /\ proc[w] \in [pc : {"mark", "sweepcommit", "complete"}, job : JobType,
                              found : SUBSET Ids]
              /\ proc[w].found \in SUBSET Ids
<1>1. /\ proc[w] \in WorkerType /\ WorkerInv(w)
      /\ rows \in [Ids -> RowType \cup {Nothing}]
  BY DEF IInv, TypeOK, TxInv
<1>2. /\ proc[w].job \in JobType
      /\ proc[w].pc \in {"mark", "sweepcommit"} =>
              /\ proc[w] \in [pc : {"mark", "sweepcommit", "complete"}, job : JobType,
                              found : SUBSET Ids]
              /\ proc[w].found \in SUBSET Ids
  BY <1>1 DEF WorkerType
<1>3. JobInv(proc[w].job) /\ proc[w].job.at <= now
  BY <1>1 DEF WorkerInv
<1>4. rows[proc[w].job.id] \in RowType
  BY <1>1, <1>2, <1>3 DEF JobInv, VisibleRow, Committed, JobType
<1> QED BY <1>2, <1>3, <1>4

LEMMA WorkStep ==
  ASSUME IInv, NEW w \in Workers, Work(w)
  PROVE  IInv'
<1>1. PICK j \in jobs :
        /\ proc[w].pc = "idle" /\ j.at <= now
        /\ proc' = [proc EXCEPT ![w] =
             [pc |-> IF ~ VisibleRow(j.id, j.org) THEN "complete"
                     ELSE IF j.kind /= "no_show_check" THEN "send"
                     ELSE IF rows[j.id].state /= "booked" THEN "complete" ELSE "scan",
              job |-> j]]
        /\ UNCHANGED <<now, rows, effects, tx, faults>>
  BY DEF Work
<1>2. tx[w] = NoTx /\ j \in JobType /\ JobInv(j)
  BY <1>1 DEF IInv, TxInv, WorkerInv, TypeOK
<1>3. /\ DOMAIN proc' = Procs /\ DOMAIN tx' = Procs
      /\ \A q \in Procs \ {w} : proc'[q] = proc[q] /\ tx'[q] = tx[q]
      /\ tx'[w] = NoTx /\ NoTx.lock = {}
      /\ proc'[w] = [pc |-> IF j.kind /= "no_show_check" THEN "send"
                     ELSE IF rows[j.id].state /= "booked" THEN "complete" ELSE "scan",
                     job |-> j]
  BY <1>1, <1>2 DEF IInv, TypeOK, Procs, NoTx, JobInv
<1>4. proc'[w] \in WorkerType
  BY <1>2, <1>3 DEF WorkerType
<1>5. WorkerInv(w)'
  BY <1>1, <1>2, <1>3 DEF WorkerInv, JobInv, VisibleRow, Committed
<1>6. faults' \in Nat /\ w \in Procs /\ w \notin Requests
  BY <1>1 DEF IInv, TypeOK, Procs
<1> QED
  BY <1>1, <1>3, <1>4, <1>5, <1>6, QuietStep

LEMMA SendStep ==
  ASSUME IInv, NEW w \in Workers, send(w)
  PROVE  IInv'
<1>1. /\ proc[w].pc = "send" /\ proc' = [proc EXCEPT ![w].pc = "complete"]
      /\ UNCHANGED <<now, rows, effects, tx, faults>>
  BY DEF send, Goto
<1>2. proc[w] \in [pc : {"send", "scan", "complete"}, job : JobType]
  <2>1. proc[w] \in WorkerType
    BY DEF IInv, TypeOK
  <2> QED BY <1>1, <2>1 DEF WorkerType
<1>3. /\ DOMAIN proc' = Procs /\ DOMAIN tx' = Procs
      /\ \A q \in Procs \ {w} : proc'[q] = proc[q] /\ tx'[q] = tx[q]
      /\ tx'[w] = tx[w]
      /\ proc'[w] = [proc[w] EXCEPT !.pc = "complete"]
  BY <1>1 DEF IInv, TypeOK, Procs
<1>4. proc'[w] \in WorkerType /\ proc'[w].pc = "complete" /\ proc'[w].job = proc[w].job
  BY <1>2, <1>3 DEF WorkerType
<1>5. WorkerInv(w) /\ proc[w].job.kind /= "no_show_check" /\ tx[w] = NoTx
  BY <1>1 DEF IInv, TxInv, WorkerInv
<1>6. WorkerInv(w)'
  BY <1>1, <1>3, <1>4, <1>5 DEF WorkerInv, JobInv, VisibleRow, Committed
<1>7. faults' \in Nat /\ w \in Procs /\ w \notin Requests /\ NoTx.lock = {}
  BY <1>1 DEF IInv, TypeOK, Procs, NoTx
<1> QED
  BY <1>1, <1>3, <1>4, <1>5, <1>6, <1>7, QuietStep

LEMMA ScanStep ==
  ASSUME IInv, NEW w \in Workers, SweepScan(w)
  PROVE  IInv'
<1> DEFINE j == proc[w].job
           found == MarkNoShows(j.org, Cutoff(w))
<1>1. /\ proc[w].pc = "scan" /\ UNCHANGED <<now, rows, effects, tx, faults>>
      /\ proc' = [proc EXCEPT ![w] = [pc |-> "mark", job |-> j, found |-> found]]
  BY DEF SweepScan
<1>2. j \in JobType /\ JobInv(j) /\ j.at <= now /\ rows[j.id] \in RowType
  BY <1>1, WorkerAtJob
<1>3. tx[w] = NoTx /\ j.kind = "no_show_check"
  BY <1>1 DEF IInv, TxInv, WorkerInv
<1>4. /\ DOMAIN proc' = Procs /\ DOMAIN tx' = Procs
      /\ \A q \in Procs \ {w} : proc'[q] = proc[q] /\ tx'[q] = tx[q]
      /\ tx'[w] = NoTx /\ NoTx.lock = {}
      /\ proc'[w] = [pc |-> "mark", job |-> j, found |-> found]
  BY <1>1, <1>3 DEF IInv, TypeOK, Procs, NoTx
<1>5. /\ found \in SUBSET Ids
      /\ rows[j.id].state = "booked" => j.id \in found
  BY <1>2 DEF MarkNoShows, Cutoff, JobInv, JobType, RowType
<1> HIDE DEF j, found
<1>6. proc'[w] \in WorkerType
  BY <1>2, <1>4, <1>5 DEF WorkerType
<1>7. WorkerInv(w)'
  BY <1>1, <1>2, <1>3, <1>4, <1>5 DEF WorkerInv, JobInv, VisibleRow, Committed
<1>8. faults' \in Nat /\ w \in Procs /\ w \notin Requests
  BY <1>1 DEF IInv, TypeOK, Procs
<1> QED
  BY <1>1, <1>4, <1>6, <1>7, <1>8, QuietStep

LEMMA SweepStep ==
  ASSUME IInv, NEW w \in Workers, SweepNoShows(w)
  PROVE  IInv'
<1> DEFINE j == proc[w].job
           marked == proc[w].found \cap MarkNoShows(j.org, Cutoff(w))
           written == [NoTx EXCEPT
             !.writes = [i \in marked |-> [rows[i] EXCEPT !.state = "no_show"]],
             !.lock = marked]
           noted == notifyNoShow(recordAndEnqueue(written, "no_show", Nothing))
<1>1. /\ proc[w].pc = "mark" /\ UNCHANGED <<now, rows, effects, faults>>
      /\ \A i \in proc[w].found : ~ HeldByOther(w, i)
      /\ tx' = [tx EXCEPT ![w] = noted]
      /\ proc' = [proc EXCEPT ![w].pc = "sweepcommit"]
  BY DEF SweepNoShows, Goto
<1>2. /\ j \in JobType /\ JobInv(j) /\ j.at <= now /\ rows[j.id] \in RowType
      /\ proc[w] \in [pc : {"mark", "sweepcommit", "complete"}, job : JobType,
                      found : SUBSET Ids]
  BY <1>1, WorkerAtJob
<1>3. /\ j.kind = "no_show_check"
      /\ rows[j.id].state = "booked" => j.id \in proc[w].found
  BY <1>1 DEF IInv, TxInv, WorkerInv
<1>4. /\ marked \subseteq MarkNoShows(j.org, now)
      /\ rows[j.id].state = "booked" => j.id \in marked
  <2>1. Cutoff(w) = rows[j.id].end /\ Cutoff(w) = j.at /\ Cutoff(w) \in Nat
    BY <1>2, <1>3 DEF Cutoff, JobInv, RowType
  <2>2. \A i \in Ids : Committed(i) => rows[i].end \in Nat
    BY DEF IInv, TypeOK, Committed, RowType
  <2>3. now \in Nat
    BY DEF IInv, TypeOK
  <2>4. MarkNoShows(j.org, Cutoff(w)) \subseteq MarkNoShows(j.org, now)
    BY <1>2, <2>1, <2>2, <2>3 DEF MarkNoShows, VisibleRow
  <2>5. rows[j.id].state = "booked" => j.id \in MarkNoShows(j.org, Cutoff(w))
    <3>1. j.id \in Ids /\ VisibleRow(j.id, j.org) /\ rows[j.id].end <= Cutoff(w)
      BY <1>2, <2>1 DEF JobInv, JobType
    <3> QED BY <3>1 DEF MarkNoShows
  <2> QED BY <1>3, <2>4, <2>5
<1>5. Changed(noted, marked, "no_show", Nothing, marked)
  <2>1. /\ DOMAIN written = {"writes", "lock", "audit", "jobs", "notes"}
        /\ DOMAIN written.writes = marked /\ written.lock = marked
        /\ \A i \in marked : written.writes[i] = [rows[i] EXCEPT !.state = "no_show"]
        /\ written.jobs = {}
    BY DEF NoTx
  <2> HIDE DEF written, marked
  <2>2. {[id |-> k, action |-> "no_show", actor |-> Nothing] : k \in DOMAIN written.writes}
          = {[id |-> k, action |-> "no_show", actor |-> Nothing] : k \in marked}
    BY <2>1
  <2> DEFINE t == [written EXCEPT !.audit =
                {[id |-> k, action |-> "no_show", actor |-> Nothing] : k \in marked}]
  <2>3. recordAndEnqueue(written, "no_show", Nothing) = t
    BY <2>2 DEF recordAndEnqueue
  <2>4. /\ DOMAIN t = {"writes", "lock", "audit", "jobs", "notes"}
        /\ t.writes = written.writes /\ t.lock = marked /\ t.jobs = {}
        /\ t.audit = {[id |-> k, action |-> "no_show", actor |-> Nothing] : k \in marked}
    BY <2>1
  <2> HIDE DEF t
  <2>5. noted = [t EXCEPT !.notes = marked]
    BY <2>1, <2>3, <2>4 DEF notifyNoShow
  <2>6. /\ noted.writes = written.writes /\ noted.lock = marked /\ noted.jobs = {}
        /\ noted.audit = {[id |-> k, action |-> "no_show", actor |-> Nothing] : k \in marked}
        /\ noted.notes = marked
    BY <2>4, <2>5
  <2> QED BY <2>1, <2>6 DEF Changed, Moved
<1> HIDE DEF noted
<1>6. /\ DOMAIN proc' = Procs /\ DOMAIN tx' = Procs
      /\ \A q \in Procs \ {w} : proc'[q] = proc[q] /\ tx'[q] = tx[q]
      /\ tx'[w] = noted
      /\ proc'[w] = [proc[w] EXCEPT !.pc = "sweepcommit"]
  BY <1>1 DEF IInv, TypeOK, Procs
<1>7. noted.lock = marked /\ \A q \in Procs \ {w} : noted.lock \cap tx[q].lock = {}
  BY <1>1, <1>5 DEF Changed, HeldByOther
<1> HIDE DEF marked
<1>8. proc'[w] \in WorkerType /\ proc'[w].job = j /\ proc'[w].pc = "sweepcommit"
  BY <1>2, <1>6 DEF WorkerType
<1> HIDE DEF j
<1>9. WorkerInv(w)'
  <2>1. rows' = rows /\ now' = now
    BY <1>1
  <2>2. JobInv(proc[w].job)'
    BY <1>2, <1>8, <2>1 DEF JobInv, VisibleRow, Committed
  <2>3. Changed(tx[w], tx[w].lock, "no_show", Nothing, tx[w].lock)'
    BY <1>5, <1>6, <1>7, <2>1 DEF Changed
  <2>4. (tx[w].lock \subseteq MarkNoShows(proc[w].job.org, now))'
    BY <1>4, <1>6, <1>7, <1>8, <2>1 DEF MarkNoShows, VisibleRow, Committed
  <2> QED
    BY <1>2, <1>3, <1>4, <1>6, <1>7, <1>8, <2>1, <2>2, <2>3, <2>4 DEF WorkerInv
<1>10. faults' \in Nat /\ w \in Procs /\ w \notin Requests
  BY <1>1 DEF IInv, TypeOK, Procs
<1> QED
  BY <1>1, <1>6, <1>7, <1>8, <1>9, <1>10, QuietStep

LEMMA RetryStep ==
  ASSUME IInv, NEW w \in Workers, Retry(w)
  PROVE  IInv'
<1>1. /\ proc' = [proc EXCEPT ![w] = Idle] /\ tx' = [tx EXCEPT ![w] = NoTx]
      /\ faults' = faults + 1 /\ UNCHANGED <<now, rows, effects>>
  BY DEF Retry
<1>2. /\ DOMAIN proc' = Procs /\ DOMAIN tx' = Procs
      /\ \A q \in Procs \ {w} : proc'[q] = proc[q] /\ tx'[q] = tx[q]
      /\ tx'[w] = NoTx /\ NoTx.lock = {} /\ proc'[w] = [pc |-> "idle"]
  BY <1>1 DEF IInv, TypeOK, Procs, NoTx, Idle
<1>3. proc'[w] \in WorkerType /\ WorkerInv(w)'
  BY <1>2 DEF WorkerType, WorkerInv
<1>4. faults' \in Nat /\ w \in Procs /\ w \notin Requests
  BY <1>1 DEF IInv, TypeOK, Procs
<1> QED
  BY <1>1, <1>2, <1>3, <1>4, QuietStep

LEMMA TickStep == IInv /\ Tick => IInv'
<1> SUFFICES ASSUME IInv, Tick PROVE IInv'
  OBVIOUS
<1>1. /\ now' = now + 1 /\ now \in Nat
      /\ rows' = rows /\ proc' = proc /\ tx' = tx /\ faults' = faults
      /\ UNCHANGED effects
  BY DEF Tick, IInv, TypeOK
<1>2. audit' = audit /\ jobs' = jobs /\ notified' = notified
  BY <1>1 DEF effects
<1>3. TypeOK'
  BY <1>1, <1>2 DEF IInv, TypeOK
<1>4. ASSUME NEW p \in Requests PROVE RequestInv(p)'
  BY <1>1 DEF IInv, TxInv, RequestInv, Committed, Changed
<1>5. ASSUME NEW w \in Workers PROVE WorkerInv(w)'
  <2>1. WorkerInv(w) /\ (proc[w].pc /= "idle" => proc[w].job.at \in Int)
    BY WorkerAtJob DEF IInv, TxInv, JobType
  <2>2. \A i \in Ids : Committed(i) => rows[i].end \in Nat
    BY DEF IInv, TypeOK, Committed, RowType
  <2>3. \A org : MarkNoShows(org, now) \subseteq MarkNoShows(org, now)'
    BY <1>1, <2>2 DEF MarkNoShows, VisibleRow, Committed
  <2>4. proc[w].pc /= "idle" => proc[w].job.at <= now'
    BY <1>1, <2>1 DEF WorkerInv
  <2>5. proc[w].pc /= "idle" => JobInv(proc[w].job)'
    BY <1>1, <2>1 DEF WorkerInv, JobInv, VisibleRow, Committed
  <2>6. proc[w].pc = "sweepcommit" => tx[w].lock \subseteq MarkNoShows(proc[w].job.org, now)'
    BY <1>1, <2>1, <2>3 DEF WorkerInv
  <2> QED
    BY <1>1, <2>1, <2>4, <2>5, <2>6 DEF WorkerInv, Changed
<1>6. LockInv' /\ RivalInv' /\ AnswersAreTrue'
  BY <1>1, <1>2 DEF IInv, TxInv, LockInv, RivalInv, AnswersAreTrue, Inserting, Committed
<1>7. now' \in Nat /\ now <= now' /\ UNCHANGED <<rows, effects>>
  BY <1>1
<1> QED
  BY <1>3, <1>4, <1>5, <1>6, <1>7, QuietData DEF IInv, TxInv

(* A check is completed only when its booking is no longer open, so no open
   booking loses its check. *)
LEMMA CompleteStep ==
  ASSUME IInv, NEW w \in Workers, Complete(w)
  PROVE  IInv'
<1>1. /\ proc[w].pc = "complete" /\ jobs' = jobs \ {proc[w].job}
      /\ proc' = [proc EXCEPT ![w] = Idle]
      /\ now' = now /\ rows' = rows /\ audit' = audit /\ notified' = notified
      /\ tx' = tx /\ faults' = faults
  BY DEF Complete
<1>2. WorkerInv(w)
  BY DEF IInv, TxInv
<1>3. /\ DOMAIN proc' = Procs
      /\ \A q \in Procs \ {w} : proc'[q] = proc[q]
      /\ proc'[w] = [pc |-> "idle"] /\ w \notin Requests
  BY <1>1 DEF IInv, TypeOK, Procs, Idle
<1>4. TypeOK'
  <2>1. \A q \in Requests : proc'[q] \in RequestType
    BY <1>3 DEF IInv, TypeOK, Procs
  <2>2. \A v \in Workers : proc'[v] \in WorkerType
    <3>1. proc'[w] \in WorkerType
      BY <1>3 DEF WorkerType
    <3> QED BY <1>3, <3>1 DEF IInv, TypeOK, Procs
  <2> QED BY <1>1, <1>3, <2>1, <2>2 DEF IInv, TypeOK
<1>5. ASSUME NEW p \in Requests PROVE RequestInv(p)'
  <2>1. RequestInv(p) /\ proc'[p] = proc[p] /\ tx'[p] = tx[p] /\ rows' = rows
    BY <1>1, <1>3 DEF IInv, TxInv, Procs
  <2> QED BY <2>1 DEF RequestInv, Committed, Changed
<1>6. ASSUME NEW v \in Workers PROVE WorkerInv(v)'
  <2>1. CASE v = w
    BY <1>1, <1>2, <1>3, <2>1 DEF WorkerInv
  <2>2. CASE v /= w
    <3>1. WorkerInv(v) /\ proc'[v] = proc[v]
      BY <1>3, <2>2 DEF IInv, TxInv, Procs
    <3> QED
      BY <1>1, <3>1 DEF WorkerInv, JobInv, VisibleRow, Committed, Changed, MarkNoShows
  <2> QED BY <2>1, <2>2
<1>7. LockInv' /\ RivalInv' /\ AnswersAreTrue'
  BY <1>1, <1>3 DEF IInv, TxInv, LockInv, RivalInv, AnswersAreTrue, Inserting, Committed, Procs
<1>8. NoDoubleBooking' /\ AuditTellsTheStory' /\ NoShowIsUncollected'
  BY <1>1 DEF IInv, NoDoubleBooking, AuditTellsTheStory, NoShowIsUncollected, Committed
<1>9. \A j \in jobs' : JobInv(j)'
  BY <1>1 DEF IInv, TxInv, JobInv, VisibleRow, Committed
<1>10. EveryBookingHasItsCheck'
  <2>1. ASSUME NEW i \in Ids, Committed(i), rows[i].state = "booked"
        PROVE  Job("no_show_check", i, rows[i].org, rows[i].end) \in jobs'
    <3>1. Job("no_show_check", i, rows[i].org, rows[i].end) \in jobs
      BY <2>1 DEF IInv, EveryBookingHasItsCheck
    <3>2. Job("no_show_check", i, rows[i].org, rows[i].end) /= proc[w].job
      BY <1>1, <1>2, <2>1 DEF WorkerInv, Job
    <3> QED BY <1>1, <3>1, <3>2
  <2> QED
    BY <1>1, <1>9, <2>1 DEF EveryBookingHasItsCheck, JobInv, Committed, VisibleRow
<1> QED
  BY <1>4, <1>5, <1>6, <1>7, <1>8, <1>9, <1>10 DEF IInv, TxInv

-----------------------------------------------------------------------------
(* Commits. *)

(* What everybody else keeps when a transaction commits: it changes only rows
   it has locked, never who and what a reservation is for, and never makes a
   row booked that was not. *)
LEMMA CommitFrame ==
  ASSUME IInv, NEW p \in Procs, now' = now, faults' = faults,
         DOMAIN proc' = Procs, tx' = [tx EXCEPT ![p] = NoTx],
         \A q \in Procs \ {p} : proc'[q] = proc[q],
         p \in Requests => /\ proc'[p] \in RequestType
                           /\ proc'[p].pc = "done",
         p \in Workers => proc'[p] \in WorkerType /\ WorkerInv(p)',
         rows' \in [Ids -> RowType \cup {Nothing}],
         audit' \in [Ids -> Seq(RecordType)],
         notified' \in [Ids -> Nat], jobs' \subseteq JobType,
         \A i \in Ids : i \notin tx[p].lock => rows'[i] = rows[i],
         \A i \in Ids : Committed(i) =>
           /\ Committed(i)' /\ rows'[i].org = rows[i].org /\ rows'[i].end = rows[i].end
           /\ rows'[i].state = "booked" => rows[i].state = "booked"
  PROVE  /\ TypeOK' /\ LockInv'
         /\ \A q \in Requests : RequestInv(q)'
         /\ \A w \in Workers : WorkerInv(w)'
<1>1. /\ DOMAIN tx' = Procs /\ tx'[p] = NoTx /\ NoTx.lock = {}
      /\ \A q \in Procs \ {p} : tx'[q] = tx[q]
  BY DEF IInv, TypeOK, NoTx
<1>2. TypeOK'
  <2>1. \A q \in Requests : proc'[q] \in RequestType
    BY DEF IInv, TypeOK, Procs
  <2>2. \A w \in Workers : proc'[w] \in WorkerType
    BY DEF IInv, TypeOK, Procs
  <2> QED BY <1>1, <2>1, <2>2 DEF IInv, TypeOK
<1>3. LockInv'
  BY <1>1 DEF LockInv, IInv, TxInv
<1>4. \A q \in Procs \ {p} : \A i \in tx[q].lock : i \in Ids => rows'[i] = rows[i]
  BY DEF IInv, TxInv, LockInv
<1>5. ASSUME NEW q \in Requests PROVE RequestInv(q)'
  <2>1. CASE q = p
    BY <1>1, <2>1 DEF RequestInv
  <2>2. CASE q /= p
    <3>1. proc'[q] = proc[q] /\ tx'[q] = tx[q] /\ RequestInv(q) /\ q \in Procs
      BY <1>1, <2>2 DEF Procs, IInv, TxInv
    <3>2. CASE \/ proc[q].pc = "act"
               \/ proc[q].pc = "commit" /\ proc[q].op /= "created"
      <4>1. proc[q].id \in Ids
        BY <3>2, CommandType
      <4>2. proc[q].id \in tx[q].lock
        BY <3>1, <3>2 DEF RequestInv, NoTx, Changed
      <4>3. rows'[proc[q].id] = rows[proc[q].id]
        BY <1>4, <2>2, <3>1, <4>1, <4>2
      <4> QED
        BY <3>1, <3>2, <4>1, <4>3 DEF RequestInv, Committed, Changed
    <3>3. CASE proc[q].pc = "commit" /\ proc[q].op = "created"
      <4>1. proc[q].id \in Ids
        <5>1. proc[q] \in RequestType
          BY DEF IInv, TypeOK
        <5> QED BY <3>3, <5>1 DEF RequestType, Required
      <4>2. proc[q].id \in tx[q].lock
        BY <3>1, <3>3 DEF RequestInv, Inserted
      <4>3. rows'[proc[q].id] = rows[proc[q].id]
        BY <1>4, <2>2, <3>1, <4>1, <4>2
      <4> QED
        BY <3>1, <3>3, <4>3 DEF RequestInv, Committed
    <3>4. CASE proc[q].pc /= "act" /\ proc[q].pc /= "commit"
      <4>1. proc[q].pc = "lock" => proc[q].id \in Ids
        BY CommandType
      <4> QED
        BY <3>1, <3>4, <4>1 DEF RequestInv
    <3> QED BY <3>2, <3>3, <3>4
  <2> QED BY <2>1, <2>2
<1>6. ASSUME NEW w \in Workers PROVE WorkerInv(w)'
  <2>1. CASE w = p
    BY <2>1
  <2>2. CASE w /= p
    <3>1. proc'[w] = proc[w] /\ tx'[w] = tx[w] /\ WorkerInv(w) /\ w \in Procs
      BY <1>1, <2>2 DEF Procs, IInv, TxInv
    <3>2. CASE proc[w].pc = "idle"
      BY <3>1, <3>2 DEF WorkerInv
    <3>3. CASE proc[w].pc /= "idle"
      <4>1. proc[w].job \in JobType /\ proc[w].job.id \in Ids /\ JobInv(proc[w].job)
        BY <3>3, WorkerAtJob DEF JobType
      <4>2. JobInv(proc[w].job)'
        BY <3>1, <4>1 DEF JobInv, VisibleRow, Committed
      <4>3. rows'[proc[w].job.id].state = "booked" => rows[proc[w].job.id].state = "booked"
        BY <4>1 DEF JobInv, VisibleRow
      <4>4. CASE proc[w].pc = "sweepcommit"
        <5>1. tx[w].lock \subseteq Ids
          BY <3>1, <4>4 DEF WorkerInv, MarkNoShows
        <5>2. \A i \in tx[w].lock : rows'[i] = rows[i]
          BY <1>4, <2>2, <3>1, <5>1
        <5>3. tx[w].lock \subseteq MarkNoShows(proc[w].job.org, now)'
          BY <3>1, <4>4, <5>1, <5>2 DEF WorkerInv, MarkNoShows, VisibleRow, Committed
        <5>4. Changed(tx[w], tx[w].lock, "no_show", Nothing, tx[w].lock)'
          BY <3>1, <4>4, <5>2 DEF WorkerInv, Changed
        <5> QED BY <3>1, <4>2, <4>3, <4>4, <5>3, <5>4 DEF WorkerInv
      <4>5. CASE proc[w].pc /= "sweepcommit"
        BY <3>1, <3>3, <4>2, <4>3, <4>5 DEF WorkerInv
      <4> QED BY <4>4, <4>5
    <3> QED BY <3>2, <3>3
  <2> QED BY <2>1, <2>2
<1> QED BY <1>2, <1>3, <1>5, <1>6

(* What applying an insert, and applying a change of state, does to the tables. *)
AppliedNew(t, i, row) ==
  /\ DOMAIN rows' = Ids /\ rows' = [k \in Ids |-> rows'[k]]
  /\ DOMAIN audit' = Ids /\ audit' = [k \in Ids |-> audit'[k]]
  /\ rows'[i] = row
  /\ audit'[i] = Append(audit[i], [id |-> i, action |-> "created", actor |-> row.holder])
  /\ \A k \in Ids : k /= i => rows'[k] = rows[k] /\ audit'[k] = audit[k]
  /\ jobs' = jobs \cup t.jobs
  /\ notified' = notified

LEMMA AppliedInsert ==
  ASSUME IInv, NEW t, NEW i \in Ids, NEW row, Inserted(t, i, row), Applied(t)
  PROVE  AppliedNew(t, i, row)
<1> DEFINE e == [id |-> i, action |-> "created", actor |-> row.holder]
<1>1. t.audit = {e} /\ t.notes = {} /\ DOMAIN t.writes = {i} /\ t.writes[i] = row
  BY DEF Inserted
<1>2. e.id = i
  OBVIOUS
<1> HIDE DEF e
<1>3. (CHOOSE x \in t.audit : x.id = i) = e
  BY <1>1, <1>2
<1>4. \A k \in Ids : (\E x \in t.audit : x.id = k) <=> k = i
  BY <1>1, <1>2
<1>5. \A k \in Ids :
        (IF \E x \in t.audit : x.id = k
         THEN Append(audit[k], CHOOSE x \in t.audit : x.id = k) ELSE audit[k])
        = IF k = i THEN Append(audit[k], e) ELSE audit[k]
  BY <1>3, <1>4
<1>6. /\ rows' = [k \in Ids |-> IF k = i THEN row ELSE rows[k]]
      /\ audit' = [k \in Ids |-> IF k = i THEN Append(audit[k], e) ELSE audit[k]]
      /\ jobs' = jobs \cup t.jobs
      /\ notified' = [k \in Ids |-> notified[k]]
  BY <1>1, <1>5 DEF Applied, e
<1>7. notified' = notified
  BY <1>6 DEF IInv, TypeOK
<1> QED BY <1>6, <1>7 DEF AppliedNew, e

AppliedTo(S, op, actor, N) ==
  /\ DOMAIN rows' = Ids /\ rows' = [k \in Ids |-> rows'[k]]
  /\ DOMAIN audit' = Ids /\ audit' = [k \in Ids |-> audit'[k]]
  /\ DOMAIN notified' = Ids /\ notified' = [k \in Ids |-> notified'[k]]
  /\ \A k \in S : rows'[k] = Moved(rows[k], op)
  /\ \A k \in S : audit'[k] = Append(audit[k], [id |-> k, action |-> op, actor |-> actor])
  /\ \A k \in Ids : k \notin S => rows'[k] = rows[k] /\ audit'[k] = audit[k]
  /\ jobs' = jobs
  /\ \A k \in Ids : notified'[k] = IF k \in N THEN notified[k] + 1 ELSE notified[k]

LEMMA AppliedChange ==
  ASSUME IInv, NEW t, NEW S \in SUBSET Ids, NEW op, NEW actor, NEW N \in SUBSET Ids,
         Changed(t, S, op, actor, N), Applied(t)
  PROVE  AppliedTo(S, op, actor, N)
<1>1. /\ DOMAIN t.writes = S /\ \A k \in S : t.writes[k] = Moved(rows[k], op)
      /\ \A k \in S : [id |-> k, action |-> op, actor |-> actor] \in t.audit
      /\ \A e \in t.audit : e.id \in S /\ e = [id |-> e.id, action |-> op, actor |-> actor]
      /\ t.jobs = {} /\ t.notes = N
  BY DEF Changed
<1>2. \A k \in Ids : (\E x \in t.audit : x.id = k) <=> k \in S
  BY <1>1
<1>3. ASSUME NEW k \in S
      PROVE  (CHOOSE x \in t.audit : x.id = k) = [id |-> k, action |-> op, actor |-> actor]
  BY <1>1
<1>4. \A k \in Ids :
        (IF \E x \in t.audit : x.id = k
         THEN Append(audit[k], CHOOSE x \in t.audit : x.id = k) ELSE audit[k])
        = IF k \in S THEN Append(audit[k], [id |-> k, action |-> op, actor |-> actor])
          ELSE audit[k]
  BY <1>2, <1>3
<1>5. /\ rows' = [k \in Ids |-> IF k \in S THEN Moved(rows[k], op) ELSE rows[k]]
      /\ audit' = [k \in Ids |-> IF k \in S
            THEN Append(audit[k], [id |-> k, action |-> op, actor |-> actor]) ELSE audit[k]]
      /\ jobs' = jobs
      /\ notified' = [k \in Ids |-> IF k \in N THEN notified[k] + 1 ELSE notified[k]]
  BY <1>1, <1>4 DEF Applied
<1> QED BY <1>5 DEF AppliedTo

(* One more record is one more action of the story. *)
LEMMA OneMoreRecord ==
  ASSUME NEW a \in Seq(RecordType), NEW e \in RecordType
  PROVE  /\ Append(a, e) \in Seq(RecordType)
         /\ Actions(Append(a, e)) = Append(Actions(a), e.action)
         /\ \A n \in 1..Len(Append(a, e)) :
              (n \in 1..Len(a) /\ Append(a, e)[n] = a[n]) \/ Append(a, e)[n] = e
         /\ \A n \in 1..Len(a) : n \in 1..Len(Append(a, e)) /\ Append(a, e)[n] = a[n]
         /\ Len(Append(a, e)) \in 1..Len(Append(a, e)) /\ Append(a, e)[Len(Append(a, e))] = e
<1> DEFINE b == Append(a, e)
<1>1. /\ b \in Seq(RecordType) /\ Len(b) = Len(a) + 1 /\ Len(a) \in Nat
      /\ \A n \in 1..Len(a) : b[n] = a[n]
      /\ b[Len(b)] = e
  OBVIOUS
<1> HIDE DEF b
<1>2. Actions(b) = Append(Actions(a), e.action)
  <2>1. Actions(a) \in Seq({x.action : x \in RecordType}) /\ Len(Actions(a)) = Len(a)
    BY DEF Actions
  <2>2. Actions(b) \in Seq({x.action : x \in RecordType}) /\ Len(Actions(b)) = Len(b)
    BY <1>1 DEF Actions
  <2> QED
    BY <1>1, <2>1, <2>2 DEF Actions
<1> QED BY <1>1, <1>2 DEF b

Acts == Ops \cup {"no_show"}
LEMMA StoryGoesOn ==
  /\ Story("booked") = Append(<< >>, "created")
  /\ \A op \in DOMAIN Required : Story(op) = Append(Story(Required[op]), op)
  /\ Story("no_show") = Append(Story("booked"), "no_show")
<1> USE DEF Acts, Ops
<1>1. /\ Story("booked") = <<"created">>
      /\ Story("checked_out") = <<"created", "checked_out">>
      /\ Story("returned") = <<"created", "checked_out", "returned">>
      /\ Story("cancelled") = <<"created", "cancelled">>
      /\ Story("no_show") = <<"created", "no_show">>
  BY DEF Story
<1>2. Append(<< >>, "created") = <<"created">>
  OBVIOUS
<1>3. ASSUME NEW x \in Acts PROVE Append(<<"created">>, x) = <<"created", x>>
  <2> DEFINE s == Append(<<"created">>, x)
             t == <<"created", x>>
  <2>1. s \in Seq(Acts) /\ Len(s) = 2 /\ s[1] = "created" /\ s[2] = x
    OBVIOUS
  <2>2. t \in Seq(Acts) /\ Len(t) = 2 /\ t[1] = "created" /\ t[2] = x
    OBVIOUS
  <2> HIDE DEF s, t
  <2> SUFFICES s = t
    BY DEF s, t
  <2> QED BY <2>1, <2>2, SeqEqual
<1>4. Append(<<"created", "checked_out">>, "returned") = <<"created", "checked_out", "returned">>
  <2> DEFINE s == Append(<<"created", "checked_out">>, "returned")
             t == <<"created", "checked_out", "returned">>
  <2>1. /\ s \in Seq(Acts) /\ Len(s) = 3
        /\ s[1] = "created" /\ s[2] = "checked_out" /\ s[3] = "returned"
    OBVIOUS
  <2>2. /\ t \in Seq(Acts) /\ Len(t) = 3
        /\ t[1] = "created" /\ t[2] = "checked_out" /\ t[3] = "returned"
    OBVIOUS
  <2> HIDE DEF s, t
  <2> SUFFICES s = t
    BY DEF s, t
  <2> QED BY <2>1, <2>2, SeqEqual
<1>5. /\ DOMAIN Required = {"checked_out", "returned", "cancelled"}
      /\ Required["checked_out"] = "booked" /\ Required["returned"] = "checked_out"
      /\ Required["cancelled"] = "booked"
  BY DEF Required
<1> QED BY <1>1, <1>2, <1>3, <1>4, <1>5

(* The changes a command and a sweep make, and what they leave true. *)
Allowed(S, op, actor, N) ==
  \/ /\ op \in DOMAIN Required /\ N = {} /\ actor \in Users
     /\ \A k \in S : /\ rows[k].state = Required[op] /\ mayAct(actor, rows[k])
                     /\ requireMember(actor, rows[k].org)
  \/ /\ op = "no_show" /\ N = S /\ actor = Nothing
     /\ \A k \in S : rows[k].state = "booked" /\ rows[k].end <= now
Kept(S, op) ==
  /\ rows' \in [Ids -> RowType \cup {Nothing}]
  /\ audit' \in [Ids -> Seq(RecordType)]
  /\ notified' \in [Ids -> Nat] /\ jobs' = jobs
  /\ \A k \in Ids : k \notin S => rows'[k] = rows[k]
  /\ \A k \in Ids : Committed(k)' <=> Committed(k)
  /\ \A k \in Ids : Committed(k) =>
       /\ rows'[k].org = rows[k].org /\ rows'[k].end = rows[k].end
       /\ rows'[k].state = "booked" => rows[k].state = "booked"
  /\ \A k \in S : rows'[k].state = op
  /\ \A k \in Ids : Committed(k) =>
       \A r : Conflicting(r, rows'[k]) => Conflicting(r, rows[k])
  /\ NoDoubleBooking' /\ AuditTellsTheStory'
  /\ EveryBookingHasItsCheck' /\ NoShowIsUncollected'
  /\ \A j \in jobs' : JobInv(j)'
  /\ \A k \in Ids : \A n \in 1..Len(audit[k]) :
       n \in 1..Len(audit'[k]) /\ audit'[k][n] = audit[k][n]
  /\ \A k \in S : \E n \in 1..Len(audit'[k]) : audit'[k][n].action = op

(* A committed change of state keeps every promise about the data, and no
   change makes a row conflict that did not before. *)
LEMMA ChangeCommitted ==
  ASSUME IInv, NEW p \in Procs, NEW S \in SUBSET Ids, NEW op, NEW actor \in Users \cup {Nothing},
         NEW N \in SUBSET Ids, Changed(tx[p], S, op, actor, N), Applied(tx[p]), now' = now,
         \A k \in S : Committed(k),
         Allowed(S, op, actor, N)
  PROVE  Kept(S, op)
<1> USE DEF Allowed
<1> DEFINE e(k) == [id |-> k, action |-> op, actor |-> actor]
<1>1. /\ DOMAIN rows' = Ids /\ rows' = [k \in Ids |-> rows'[k]]
      /\ DOMAIN audit' = Ids /\ audit' = [k \in Ids |-> audit'[k]]
      /\ DOMAIN notified' = Ids /\ notified' = [k \in Ids |-> notified'[k]]
      /\ \A k \in S : rows'[k] = Moved(rows[k], op)
      /\ \A k \in S : audit'[k] = Append(audit[k], e(k))
      /\ \A k \in Ids : k \notin S => rows'[k] = rows[k] /\ audit'[k] = audit[k]
      /\ jobs' = jobs
      /\ \A k \in Ids : notified'[k] = IF k \in N THEN notified[k] + 1 ELSE notified[k]
  <2>1. AppliedTo(S, op, actor, N)
    BY AppliedChange
  <2> QED BY <2>1 DEF AppliedTo
<1>2. op \in {"checked_out", "returned", "cancelled", "no_show"}
  BY DEF Required
<1>3. /\ rows \in [Ids -> RowType \cup {Nothing}] /\ audit \in [Ids -> Seq(RecordType)]
      /\ notified \in [Ids -> Nat] /\ now \in Nat
  BY DEF IInv, TypeOK
<1>4. ASSUME NEW k \in S
      PROVE  /\ rows[k] \in RowType /\ rows'[k] = Moved(rows[k], op) /\ rows'[k] \in RowType
             /\ rows'[k].org = rows[k].org /\ rows'[k].resource = rows[k].resource
             /\ rows'[k].holder = rows[k].holder /\ rows'[k].start = rows[k].start
             /\ rows'[k].end = rows[k].end /\ rows'[k].state = op
  <2>1. rows[k] \in RowType
    BY <1>3 DEF Committed
  <2>2. rows'[k] = Moved(rows[k], op)
    BY <1>1
  <2> QED BY <1>2, <2>1, <2>2 DEF Moved, RowType, States
<1>5. \A k \in S : rows[k].state \in {"booked", "checked_out"}
  BY DEF Required
<1>6. ASSUME NEW k \in S PROVE e(k) \in RecordType /\ e(k).action = op
  BY <1>2 DEF RecordType, Ops
<1>7. \A k \in Ids : k \notin S => rows'[k] = rows[k]
  BY <1>1
<1>8. rows' \in [Ids -> RowType \cup {Nothing}]
  <2>1. \A k \in Ids : rows'[k] \in RowType \cup {Nothing}
    BY <1>3, <1>4, <1>7
  <2>2. DOMAIN rows' = Ids /\ rows' = [k \in Ids |-> rows'[k]]
    BY <1>1
  <2> QED BY <2>1, <2>2
<1>9. audit' \in [Ids -> Seq(RecordType)]
  <2>1. \A k \in S : Append(audit[k], e(k)) \in Seq(RecordType)
    BY <1>3, <1>6, OneMoreRecord
  <2>2. ASSUME NEW k \in Ids PROVE audit'[k] \in Seq(RecordType)
    <3> HIDE DEF e
    <3>1. CASE k \in S
      BY <1>1, <2>1, <3>1
    <3>2. CASE k \notin S
      BY <1>1, <1>3, <3>2
    <3> QED BY <3>1, <3>2
  <2> QED BY <1>1, <2>2
<1>10. notified' \in [Ids -> Nat]
  BY <1>1, <1>3
<1>11. \A k \in Ids : Committed(k)' <=> Committed(k)
  BY <1>4, <1>7 DEF Committed, RowType
<1>12. \A k \in Ids : Committed(k) =>
         /\ rows'[k].org = rows[k].org /\ rows'[k].end = rows[k].end
         /\ rows'[k].start = rows[k].start /\ rows'[k].resource = rows[k].resource
         /\ rows'[k].holder = rows[k].holder
         /\ rows'[k].state = "booked" => rows[k].state = "booked"
         /\ IsLive(rows'[k]) => IsLive(rows[k])
  BY <1>2, <1>4, <1>5, <1>7 DEF IsLive
<1>13. NoDoubleBooking'
  BY <1>11, <1>12 DEF IInv, NoDoubleBooking, IsLive
<1>14. ASSUME NEW k \in Ids, Committed(k)
       PROVE  \A r : Conflicting(r, rows'[k]) => Conflicting(r, rows[k])
  BY <1>12, <1>14 DEF Conflicting, Overlap
<1>15. \A j \in jobs' : JobInv(j)'
  <2>1. \A j \in jobs : JobInv(j) /\ j.id \in Ids
    BY DEF IInv, TxInv, TypeOK, JobType
  <2> QED
    BY <1>1, <1>11, <1>12, <2>1 DEF JobInv, VisibleRow
<1>16. EveryBookingHasItsCheck'
  <2>1. ASSUME NEW k \in Ids, Committed(k)', rows'[k].state = "booked"
        PROVE  Job("no_show_check", k, rows'[k].org, rows'[k].end) \in jobs'
    BY <1>1, <1>11, <1>12, <2>1 DEF IInv, EveryBookingHasItsCheck
  <2> QED
    BY <1>15, <2>1 DEF EveryBookingHasItsCheck, JobInv
<1>17. NoShowIsUncollected'
  <2>1. ASSUME NEW k \in Ids, k \in N
        PROVE  /\ notified'[k] = 1 /\ Committed(k)' /\ rows'[k].state = "no_show"
               /\ rows'[k].end <= now'
    <3>1. k \in S /\ op = "no_show" /\ rows[k].state = "booked" /\ rows[k].end <= now
      BY <2>1
    <3>2. notified[k] = 0
      BY <3>1 DEF IInv, NoShowIsUncollected
    <3>3. notified'[k] = 1
      BY <1>1, <2>1, <3>2
    <3>4. rows'[k].state = "no_show" /\ rows'[k].end <= now'
      BY <1>4, <3>1
    <3>5. Committed(k)'
      BY <1>11, <3>1
    <3> QED BY <3>3, <3>4, <3>5
  <2>2. ASSUME NEW k \in Ids, k \notin N
        PROVE  /\ notified'[k] = notified[k]
               /\ Committed(k)' => (rows'[k].state = "no_show" <=> rows[k].state = "no_show")
    BY <1>1, <1>4, <1>5, <1>7, <2>2 DEF Required
  <2>3. \A k \in Ids : notified[k] = 1 => rows'[k].end <= now'
    BY <1>12 DEF IInv, NoShowIsUncollected
  <2> QED
    BY <1>11, <2>1, <2>2, <2>3 DEF IInv, NoShowIsUncollected
<1>18. ASSUME NEW k \in S
       PROVE  /\ Actions(audit'[k]) = Append(Actions(audit[k]), op)
              /\ \A n \in 1..Len(audit'[k]) :
                   (n \in 1..Len(audit[k]) /\ audit'[k][n] = audit[k][n]) \/ audit'[k][n] = e(k)
              /\ \A n \in 1..Len(audit[k]) :
                   n \in 1..Len(audit'[k]) /\ audit'[k][n] = audit[k][n]
              /\ \E n \in 1..Len(audit'[k]) : audit'[k][n].action = op
  <2>1. audit'[k] = Append(audit[k], e(k)) /\ audit[k] \in Seq(RecordType)
    BY <1>1, <1>3
  <2> HIDE DEF e
  <2> QED BY <1>6, <2>1, OneMoreRecord
<1>19. \A k \in Ids : k \notin S => audit'[k] = audit[k]
  BY <1>1
<1>20. AuditTellsTheStory'
  <2>1. ASSUME NEW k \in S
        PROVE  /\ Actions(audit'[k]) = Story(rows'[k].state)
               /\ \A n \in 1..Len(audit'[k]) : ByRight(audit'[k][n], rows'[k])
    <3>1. /\ Actions(audit[k]) = Story(rows[k].state)
          /\ \A n \in 1..Len(audit[k]) : ByRight(audit[k][n], rows[k])
      BY <2>1 DEF IInv, AuditTellsTheStory
    <3>2. Append(Story(rows[k].state), op) = Story(op)
      BY StoryGoesOn
    <3>3. Actions(audit'[k]) = Story(rows'[k].state)
      BY <1>4, <1>18, <3>1, <3>2
    <3>4. \A x : ByRight(x, rows[k]) => ByRight(x, rows'[k])
      BY <1>4 DEF ByRight
    <3>5. ByRight(e(k), rows[k])
      BY <1>2 DEF ByRight, mayAct, Required
    <3> HIDE DEF e
    <3> QED BY <1>18, <3>1, <3>3, <3>4, <3>5
  <2> QED
    BY <1>7, <1>11, <1>19, <2>1 DEF IInv, AuditTellsTheStory
<1> HIDE DEF e
<1>21. \A k \in Ids : \A n \in 1..Len(audit[k]) :
         n \in 1..Len(audit'[k]) /\ audit'[k][n] = audit[k][n]
  BY <1>18, <1>19
<1> QED
  BY <1>1, <1>4, <1>7, <1>8, <1>9, <1>10, <1>11, <1>12, <1>13, <1>14, <1>15, <1>16, <1>17,
     <1>18, <1>20, <1>21 DEF Kept

(* So does a committed insert: its row had no rival, and its check, its first
   record and its row appear together. *)
LEMMA InsertCommitted ==
  ASSUME IInv, NEW p \in Requests, Inserting(p), Applied(tx[p]), now' = now
  PROVE  /\ proc[p].id \in Ids /\ ~ Committed(proc[p].id) /\ tx[p].lock = {proc[p].id}
         /\ rows' \in [Ids -> RowType \cup {Nothing}]
         /\ audit' \in [Ids -> Seq(RecordType)]
         /\ notified' \in [Ids -> Nat] /\ jobs' \subseteq JobType
         /\ rows'[proc[p].id] = proc[p].row
         /\ \A k \in Ids : k /= proc[p].id => rows'[k] = rows[k]
         /\ NoDoubleBooking' /\ AuditTellsTheStory'
         /\ EveryBookingHasItsCheck' /\ NoShowIsUncollected'
         /\ \A j \in jobs' : JobInv(j)'
         /\ \A k \in Ids : \A n \in 1..Len(audit[k]) :
              n \in 1..Len(audit'[k]) /\ audit'[k][n] = audit[k][n]
         /\ \E n \in 1..Len(audit'[proc[p].id]) : audit'[proc[p].id][n].action = "created"
<1> DEFINE i == proc[p].id
           row == proc[p].row
           e == [id |-> i, action |-> "created", actor |-> row.holder]
<1>1. proc[p].pc = "commit" /\ proc[p].op = "created" /\ RequestInv(p) /\ proc[p] \in RequestType
  BY DEF Inserting, IInv, TxInv, TypeOK
<1>2. i \in Ids /\ row \in RowType
  BY <1>1 DEF RequestType, Required
<1>3. /\ ~ Committed(i) /\ Inserted(tx[p], i, row) /\ row.state = "booked"
      /\ requireMember(row.holder, row.org)
  BY <1>1 DEF RequestInv
<1>4. \A k \in Ids : Committed(k) => ~ Conflicting(row, rows[k])
  BY DEF IInv, TxInv, RivalInv
<1>5. e \in RecordType /\ e.action = "created" /\ e.actor = row.holder
  BY <1>2 DEF RecordType, Ops, RowType
<1> HIDE DEF i, row
<1>6. AppliedNew(tx[p], i, row)
  BY <1>2, <1>3, AppliedInsert
<1>7. /\ DOMAIN rows' = Ids /\ rows' = [k \in Ids |-> rows'[k]]
      /\ DOMAIN audit' = Ids /\ audit' = [k \in Ids |-> audit'[k]]
      /\ rows'[i] = row /\ audit'[i] = Append(audit[i], e)
      /\ \A k \in Ids : k /= i => rows'[k] = rows[k] /\ audit'[k] = audit[k]
      /\ jobs' = jobs \cup tx[p].jobs
      /\ notified' = notified
  BY <1>6 DEF AppliedNew
<1> HIDE DEF e
<1>8. /\ rows \in [Ids -> RowType \cup {Nothing}] /\ audit \in [Ids -> Seq(RecordType)]
      /\ notified \in [Ids -> Nat] /\ jobs \subseteq JobType /\ now \in Nat
  BY DEF IInv, TypeOK
<1>9. tx[p].lock = {i} /\ tx[p].jobs \subseteq JobType
      /\ Job("no_show_check", i, row.org, row.end) \in tx[p].jobs
      /\ \A j \in tx[p].jobs : /\ j.id = i /\ j.org = row.org
                               /\ j.kind = "no_show_check" => j.at = row.end
  BY <1>3 DEF Inserted
<1>10. /\ rows' \in [Ids -> RowType \cup {Nothing}] /\ jobs' \subseteq JobType
       /\ notified' \in [Ids -> Nat]
  <2>1. \A k \in Ids : rows'[k] \in RowType \cup {Nothing}
    BY <1>2, <1>7, <1>8
  <2>2. rows' \in [Ids -> RowType \cup {Nothing}]
    BY <1>7, <2>1
  <2> QED BY <1>7, <1>8, <1>9, <2>2
<1>11. \A k \in Ids : k /= i => (Committed(k)' <=> Committed(k))
  BY <1>7 DEF Committed
<1>12. rows'[i] /= Nothing
  <2>1. Nothing \notin RowType
    BY DEF RowType
  <2> QED BY <1>2, <1>7, <2>1
<1>13. /\ Append(audit[i], e) \in Seq(RecordType)
       /\ Actions(Append(audit[i], e)) = Append(Actions(audit[i]), "created")
       /\ \A n \in 1..Len(Append(audit[i], e)) :
            (n \in 1..Len(audit[i]) /\ Append(audit[i], e)[n] = audit[i][n])
            \/ Append(audit[i], e)[n] = e
       /\ \A n \in 1..Len(audit[i]) :
            n \in 1..Len(Append(audit[i], e)) /\ Append(audit[i], e)[n] = audit[i][n]
       /\ \E n \in 1..Len(Append(audit[i], e)) : Append(audit[i], e)[n].action = "created"
  <2> DEFINE b == Append(audit[i], e)
  <2>1. audit[i] \in Seq(RecordType)
    BY <1>2, <1>8
  <2>2. /\ b \in Seq(RecordType) /\ Actions(b) = Append(Actions(audit[i]), e.action)
        /\ \A n \in 1..Len(b) : (n \in 1..Len(audit[i]) /\ b[n] = audit[i][n]) \/ b[n] = e
        /\ \A n \in 1..Len(audit[i]) : n \in 1..Len(b) /\ b[n] = audit[i][n]
        /\ Len(b) \in 1..Len(b) /\ b[Len(b)] = e
    BY <1>5, <2>1, OneMoreRecord
  <2> HIDE DEF b
  <2>3. \E n \in 1..Len(b) : b[n].action = "created"
    BY <1>5, <2>2
  <2>4. Actions(b) = Append(Actions(audit[i]), "created")
    BY <1>5, <2>2
  <2> QED BY <2>2, <2>3, <2>4 DEF b
<1>14. audit' \in [Ids -> Seq(RecordType)]
  <2>1. \A k \in Ids : audit'[k] \in Seq(RecordType)
    BY <1>7, <1>8, <1>13
  <2> QED BY <1>7, <2>1
<1>15. NoDoubleBooking'
  <2>1. \A k \in Ids : k /= i /\ Committed(k) /\ row.resource = rows[k].resource
          /\ {row.state, rows[k].state} \subseteq {"booked", "checked_out"}
          => row.end <= rows[k].start \/ rows[k].end <= row.start
    <3>1. \A k \in Ids : Committed(k) => rows[k].start \in Nat /\ rows[k].end \in Nat
      BY <1>8 DEF Committed, RowType
    <3>2. row.start \in Nat /\ row.end \in Nat
      BY <1>2 DEF RowType
    <3> QED BY <1>4, <3>1, <3>2 DEF Conflicting, Overlap, IsLive
  <2>2. ASSUME NEW a \in Ids, NEW b \in Ids, a /= b, Committed(a)', Committed(b)',
               rows'[a].resource = rows'[b].resource,
               {rows'[a].state, rows'[b].state} \subseteq {"booked", "checked_out"}
        PROVE  rows'[a].end <= rows'[b].start \/ rows'[b].end <= rows'[a].start
    <3>1. CASE a = i
      BY <1>7, <1>11, <2>1, <2>2, <3>1
    <3>2. CASE b = i
      BY <1>7, <1>11, <2>1, <2>2, <3>2
    <3>3. CASE a /= i /\ b /= i
      BY <1>7, <1>11, <2>2, <3>3 DEF IInv, NoDoubleBooking
    <3> QED BY <3>1, <3>2, <3>3
  <2> QED BY <2>2 DEF NoDoubleBooking
<1>16. AuditTellsTheStory'
  <2>1. /\ Actions(audit'[i]) = Story(rows'[i].state)
        /\ \A n \in 1..Len(audit'[i]) : ByRight(audit'[i][n], rows'[i])
    <3>1. audit[i] = << >>
      BY <1>2, <1>3 DEF IInv, AuditTellsTheStory
    <3>2. Actions(<< >>) = << >> /\ Len(<< >>) = 0
      BY DEF Actions
    <3>3. Actions(audit'[i]) = Story(rows'[i].state)
      BY <1>3, <1>7, <1>13, <3>1, <3>2, StoryGoesOn
    <3>4. ByRight(e, row)
      BY <1>3, <1>5 DEF ByRight
    <3>5. \A n \in 1..Len(audit'[i]) : audit'[i][n] = e
      BY <1>7, <1>13, <3>1, <3>2
    <3> QED BY <1>7, <3>3, <3>4, <3>5
  <2>2. ASSUME NEW k \in Ids, k /= i
        PROVE  IF ~ Committed(k)' THEN audit'[k] = << >>
               ELSE /\ Actions(audit'[k]) = Story(rows'[k].state)
                    /\ \A n \in 1..Len(audit'[k]) : ByRight(audit'[k][n], rows'[k])
    BY <1>7, <1>11, <2>2 DEF IInv, AuditTellsTheStory
  <2>3. ASSUME NEW k \in Ids
        PROVE  IF ~ Committed(k)' THEN audit'[k] = << >>
               ELSE /\ Actions(audit'[k]) = Story(rows'[k].state)
                    /\ \A n \in 1..Len(audit'[k]) : ByRight(audit'[k][n], rows'[k])
    <3>1. CASE k = i
      BY <1>12, <2>1, <3>1 DEF Committed
    <3>2. CASE k /= i
      BY <2>2, <3>2
    <3> QED BY <3>1, <3>2
  <2> QED BY <2>3 DEF AuditTellsTheStory
<1>17. \A j \in jobs' : JobInv(j)'
  <2>1. ASSUME NEW j \in jobs PROVE JobInv(j)'
    <3>1. JobInv(j) /\ j.id \in Ids /\ j.id /= i
      BY <1>3, <1>8 DEF IInv, TxInv, JobInv, VisibleRow, JobType
    <3> QED BY <1>7, <1>11, <3>1 DEF JobInv, VisibleRow
  <2>2. ASSUME NEW j \in tx[p].jobs PROVE JobInv(j)'
    <3>1. j.id = i /\ j.org = row.org /\ (j.kind = "no_show_check" => j.at = row.end)
      BY <1>9
    <3> QED BY <1>7, <1>12, <3>1 DEF JobInv, VisibleRow, Committed
  <2> QED BY <1>7, <2>1, <2>2
<1>18. EveryBookingHasItsCheck'
  <2>1. ASSUME NEW k \in Ids, Committed(k)', rows'[k].state = "booked"
        PROVE  Job("no_show_check", k, rows'[k].org, rows'[k].end) \in jobs'
    <3>1. CASE k = i
      BY <1>7, <1>9, <3>1
    <3>2. CASE k /= i
      BY <1>7, <1>11, <2>1, <3>2 DEF IInv, EveryBookingHasItsCheck
    <3> QED BY <3>1, <3>2
  <2> QED BY <1>17, <2>1 DEF EveryBookingHasItsCheck, JobInv
<1>19. NoShowIsUncollected'
  <2>1. notified'[i] = 0 /\ rows'[i].state /= "no_show"
    BY <1>2, <1>3, <1>7 DEF IInv, NoShowIsUncollected
  <2>2. ASSUME NEW k \in Ids, k /= i
        PROVE  /\ notified'[k] = notified[k] /\ rows'[k] = rows[k]
               /\ Committed(k)' <=> Committed(k)
    BY <1>7, <1>11, <2>2
  <2> QED BY <1>12, <2>1, <2>2 DEF IInv, NoShowIsUncollected
<1>20. \A k \in Ids : \A n \in 1..Len(audit[k]) :
         n \in 1..Len(audit'[k]) /\ audit'[k][n] = audit[k][n]
  BY <1>7, <1>13
<1>21. \E n \in 1..Len(audit'[i]) : audit'[i][n].action = "created"
  BY <1>7, <1>13
<1> QED
  BY <1>2, <1>3, <1>7, <1>9, <1>10, <1>14, <1>15, <1>16, <1>17, <1>18, <1>19, <1>20, <1>21
  DEF i, row

(* The commit of a request. *)
LEMMA CommitStep ==
  ASSUME IInv, NEW p \in Requests, Commit(p)
  PROVE  IInv'
<1>1. /\ proc[p].pc = "commit" /\ Applied(tx[p]) /\ Succeed(p) /\ now' = now /\ faults' = faults
      /\ p \in Procs /\ p \notin Workers
  BY DEF Commit, Procs
<1>2. proc[p] \in RequestType /\ RequestInv(p)
  BY DEF IInv, TypeOK, TxInv
<1>3. proc[p].id \in Ids /\ proc[p].op \in Ops
  BY <1>1, <1>2 DEF RequestType, Required, Ops
<1>4. /\ DOMAIN proc' = Procs /\ tx' = [tx EXCEPT ![p] = NoTx]
      /\ \A q \in Procs \ {p} : proc'[q] = proc[q]
      /\ proc'[p] = [pc |-> "done", status |-> 200, op |-> proc[p].op, id |-> proc[p].id]
  BY <1>1 DEF Succeed, IInv, TypeOK
<1>5. /\ proc'[p] \in RequestType /\ proc'[p].pc = "done"
      /\ proc'[p].id = proc[p].id /\ proc'[p].op = proc[p].op
  BY <1>3, <1>4 DEF RequestType
<1>6. ~ Inserting(p)' /\ \A q \in Requests \ {p} : Inserting(q)' <=> Inserting(q)
  BY <1>4, <1>5 DEF Inserting, Procs
<1>7. SUFFICES
        /\ rows' \in [Ids -> RowType \cup {Nothing}]
        /\ audit' \in [Ids -> Seq(RecordType)]
        /\ notified' \in [Ids -> Nat] /\ jobs' \subseteq JobType
        /\ \A i \in Ids : i \notin tx[p].lock => rows'[i] = rows[i]
        /\ \A i \in Ids : Committed(i) =>
             /\ Committed(i)' /\ rows'[i].org = rows[i].org /\ rows'[i].end = rows[i].end
             /\ rows'[i].state = "booked" => rows[i].state = "booked"
        /\ \A q \in Requests \ {p} : Inserting(q) =>
             \A i \in Ids : Committed(i)' => ~ Conflicting(proc[q].row, rows'[i])
        /\ NoDoubleBooking' /\ AuditTellsTheStory'
        /\ EveryBookingHasItsCheck' /\ NoShowIsUncollected'
        /\ \A j \in jobs' : JobInv(j)'
        /\ \A k \in Ids : \A n \in 1..Len(audit[k]) :
             n \in 1..Len(audit'[k]) /\ audit'[k][n] = audit[k][n]
        /\ \E n \in 1..Len(audit'[proc[p].id]) : audit'[proc[p].id][n].action = proc[p].op
  <2>1. /\ TypeOK' /\ LockInv'
        /\ \A q \in Requests : RequestInv(q)'
        /\ \A w \in Workers : WorkerInv(w)'
    BY <1>1, <1>4, <1>5, <1>7, CommitFrame
  <2>2. RivalInv'
    <3>1. \A q \in Requests \ {p} : proc'[q] = proc[q]
      BY <1>4 DEF Procs
    <3>2. \A q \in Requests : Inserting(q)' => q /= p /\ Inserting(q)
      BY <1>6
    <3>3. ASSUME NEW q \in Requests, Inserting(q)'
          PROVE  /\ \A i \in Ids : Committed(i)' => ~ Conflicting(proc'[q].row, rows'[i])
                 /\ \A r \in Requests \ {q} : Inserting(r)' =>
                      ~ Conflicting(proc'[q].row, proc'[r].row)
      BY <1>7, <3>1, <3>2, <3>3 DEF IInv, TxInv, RivalInv
    <3> QED BY <3>3 DEF RivalInv
  <2>3. AnswersAreTrue'
    <3>1. ASSUME NEW q \in Requests, proc'[q].pc = "done", proc'[q].status = 200
          PROVE  \E n \in 1..Len(audit'[proc'[q].id]) : audit'[proc'[q].id][n].action = proc'[q].op
      <4>1. CASE q = p
        BY <1>5, <1>7, <4>1
      <4>2. CASE q /= p
        <5>1. proc'[q] = proc[q] /\ proc[q] \in RequestType
          BY <1>4, <4>2 DEF Procs, IInv, TypeOK
        <5>2. proc[q].id \in Ids
          BY <3>1, <5>1 DEF RequestType
        <5>3. \E n \in 1..Len(audit[proc[q].id]) : audit[proc[q].id][n].action = proc[q].op
          BY <3>1, <5>1 DEF IInv, AnswersAreTrue
        <5>4. PICK n \in 1..Len(audit[proc[q].id]) : audit[proc[q].id][n].action = proc[q].op
          BY <5>3
        <5>5. n \in 1..Len(audit'[proc[q].id]) /\ audit'[proc[q].id][n].action = proc[q].op
          BY <1>7, <5>2, <5>4
        <5> QED BY <5>1, <5>5
      <4> QED BY <4>1, <4>2
    <3> QED BY <3>1 DEF AnswersAreTrue
  <2> QED BY <1>7, <2>1, <2>2, <2>3 DEF IInv, TxInv
<1>8. CASE proc[p].op = "created"
  <2>1. Inserting(p)
    BY <1>1, <1>8 DEF Inserting
  <2>2. /\ ~ Committed(proc[p].id) /\ tx[p].lock = {proc[p].id}
        /\ rows'[proc[p].id] = proc[p].row
        /\ \A k \in Ids : k /= proc[p].id => rows'[k] = rows[k]
    BY <1>1, <2>1, InsertCommitted
  <2>3. \A i \in Ids : Committed(i) => Committed(i)' /\ rows'[i] = rows[i]
    BY <2>2 DEF Committed
  <2>4. ASSUME NEW q \in Requests \ {p}, Inserting(q), NEW i \in Ids, Committed(i)'
        PROVE  ~ Conflicting(proc[q].row, rows'[i])
    <3>1. CASE i = proc[p].id
      BY <2>1, <2>2, <2>4, <3>1 DEF IInv, TxInv, RivalInv
    <3>2. CASE i /= proc[p].id
      BY <2>2, <2>4, <3>2 DEF IInv, TxInv, RivalInv, Committed
    <3> QED BY <3>1, <3>2
  <2>5. /\ rows' \in [Ids -> RowType \cup {Nothing}]
        /\ audit' \in [Ids -> Seq(RecordType)]
        /\ notified' \in [Ids -> Nat] /\ jobs' \subseteq JobType
        /\ NoDoubleBooking' /\ AuditTellsTheStory'
        /\ EveryBookingHasItsCheck' /\ NoShowIsUncollected'
        /\ \A j \in jobs' : JobInv(j)'
        /\ \A k \in Ids : \A n \in 1..Len(audit[k]) :
             n \in 1..Len(audit'[k]) /\ audit'[k][n] = audit[k][n]
        /\ \E n \in 1..Len(audit'[proc[p].id]) : audit'[proc[p].id][n].action = "created"
    BY <1>1, <2>1, InsertCommitted
  <2> QED BY <1>8, <2>2, <2>3, <2>4, <2>5
<1>9. CASE proc[p].op /= "created"
  <2> DEFINE i == proc[p].id
             op == proc[p].op
             u == proc[p].user
  <2>1. /\ op \in DOMAIN Required /\ u \in Users
        /\ requireMember(u, proc[p].org) /\ Committed(i) /\ rows[i].org = proc[p].org
        /\ mayAct(u, rows[i]) /\ rows[i].state = Required[op]
        /\ Changed(tx[p], {i}, op, u, {})
    BY <1>1, <1>2, <1>9 DEF RequestType, RequestInv
  <2>2. tx[p].lock = {i} /\ jobs \subseteq JobType
    BY <2>1 DEF Changed, IInv, TypeOK
  <2> HIDE DEF i, op, u
  <2>3. /\ rows' \in [Ids -> RowType \cup {Nothing}]
        /\ audit' \in [Ids -> Seq(RecordType)]
        /\ notified' \in [Ids -> Nat] /\ jobs' = jobs
        /\ \A k \in Ids : k \notin {i} => rows'[k] = rows[k]
        /\ \A k \in Ids : Committed(k)' <=> Committed(k)
        /\ \A k \in Ids : Committed(k) =>
             /\ rows'[k].org = rows[k].org /\ rows'[k].end = rows[k].end
             /\ rows'[k].state = "booked" => rows[k].state = "booked"
        /\ \A k \in Ids : Committed(k) =>
             \A r : Conflicting(r, rows'[k]) => Conflicting(r, rows[k])
        /\ NoDoubleBooking' /\ AuditTellsTheStory'
        /\ EveryBookingHasItsCheck' /\ NoShowIsUncollected'
        /\ \A j \in jobs' : JobInv(j)'
        /\ \A k \in Ids : \A n \in 1..Len(audit[k]) :
             n \in 1..Len(audit'[k]) /\ audit'[k][n] = audit[k][n]
        /\ \A k \in {i} : \E n \in 1..Len(audit'[k]) : audit'[k][n].action = op
    <3>1. {i} \in SUBSET Ids /\ {} \in SUBSET Ids /\ u \in Users \cup {Nothing}
          /\ \A k \in {i} : Committed(k)
      BY <1>3, <2>1 DEF i
    <3>2. \A k \in {i} : /\ rows[k].state = Required[op] /\ mayAct(u, rows[k])
                         /\ requireMember(u, rows[k].org)
      BY <2>1
    <3>3. Allowed({i}, op, u, {})
      BY <2>1, <3>2 DEF Allowed
    <3>4. Kept({i}, op)
      BY <1>1, <2>1, <3>1, <3>3, ChangeCommitted
    <3> QED BY <3>4 DEF Kept
  <2>4. ASSUME NEW q \in Requests \ {p}, Inserting(q), NEW k \in Ids, Committed(k)'
        PROVE  ~ Conflicting(proc[q].row, rows'[k])
    BY <2>3, <2>4 DEF IInv, TxInv, RivalInv
  <2> QED BY <2>2, <2>3, <2>4 DEF i, op
<1> QED BY <1>8, <1>9

(* The commit of a sweep: the booking whose job it ran is closed with it. *)
LEMMA SweepCommitStep ==
  ASSUME IInv, NEW w \in Workers, SweepCommit(w)
  PROVE  IInv'
<1>1. /\ proc[w].pc = "sweepcommit" /\ Applied(tx[w]) /\ now' = now /\ faults' = faults
      /\ tx' = [tx EXCEPT ![w] = NoTx] /\ proc' = [proc EXCEPT ![w].pc = "complete"]
      /\ w \in Procs /\ w \notin Requests
  BY DEF SweepCommit, Procs, Goto
<1>2. proc[w] \in WorkerType /\ WorkerInv(w)
  BY DEF IInv, TypeOK, TxInv
<1> DEFINE S == tx[w].lock
           j == proc[w].job
<1>3. /\ j \in JobType /\ j.id \in Ids /\ JobInv(j) /\ j.at <= now
      /\ proc[w].found \in SUBSET Ids
  <2>1. j \in JobType /\ JobInv(j) /\ j.at <= now
    BY <1>1, <1>2, WorkerAtJob DEF WorkerInv
  <2>2. proc[w].found \in SUBSET Ids
    BY <1>1, <1>2 DEF WorkerType
  <2> QED BY <2>1, <2>2 DEF JobType
<1>4. /\ j.kind = "no_show_check" /\ (rows[j.id].state = "booked" => j.id \in S)
      /\ S \subseteq MarkNoShows(j.org, now)
      /\ Changed(tx[w], S, "no_show", Nothing, S)
  BY <1>1, <1>2 DEF WorkerInv
<1> HIDE DEF S, j
<1>5. S \in SUBSET Ids /\ \A k \in S : Committed(k) /\ rows[k].state = "booked" /\ rows[k].end <= now
  BY <1>4 DEF MarkNoShows, VisibleRow
<1>6. Allowed(S, "no_show", Nothing, S)
  BY <1>5 DEF Allowed
<1>7. Kept(S, "no_show")
  BY <1>1, <1>4, <1>5, <1>6, ChangeCommitted
<1>8. /\ DOMAIN proc' = Procs /\ \A q \in Procs \ {w} : proc'[q] = proc[q]
      /\ proc'[w].pc = "complete" /\ proc'[w].job = j /\ proc'[w] \in WorkerType
      /\ tx'[w] = NoTx
  <2>1. DOMAIN proc' = Procs /\ \A q \in Procs \ {w} : proc'[q] = proc[q]
    BY <1>1 DEF IInv, TypeOK
  <2>2. proc'[w] = [proc[w] EXCEPT !.pc = "complete"] /\ tx'[w] = NoTx
    BY <1>1 DEF IInv, TypeOK
  <2>3. proc[w] \in [pc : {"mark", "sweepcommit", "complete"}, job : JobType, found : SUBSET Ids]
    BY <1>1, <1>2 DEF WorkerType
  <2> QED BY <2>1, <2>2, <2>3 DEF WorkerType, j
<1>9. WorkerInv(w)'
  <2>1. /\ rows'[j.id].org = rows[j.id].org /\ rows'[j.id].end = rows[j.id].end
        /\ rows'[j.id] /= Nothing
        /\ rows'[j.id].state = "booked" => rows[j.id].state = "booked"
    BY <1>3, <1>7 DEF Kept, JobInv, VisibleRow, Committed
  <2>2. j.id \in S => rows'[j.id].state = "no_show"
    BY <1>7 DEF Kept
  <2>3. rows'[j.id].state /= "booked"
    BY <1>4, <2>1, <2>2
  <2>4. JobInv(proc[w].job)'
    BY <1>3, <1>8, <2>1 DEF JobInv, VisibleRow, Committed
  <2> QED
    BY <1>1, <1>3, <1>8, <2>3, <2>4 DEF WorkerInv
<1>10. /\ TypeOK' /\ LockInv'
       /\ \A q \in Requests : RequestInv(q)'
       /\ \A v \in Workers : WorkerInv(v)'
  <2>1. /\ rows' \in [Ids -> RowType \cup {Nothing}]
        /\ audit' \in [Ids -> Seq(RecordType)]
        /\ notified' \in [Ids -> Nat] /\ jobs' \subseteq JobType
    BY <1>7 DEF Kept, IInv, TypeOK
  <2>2. /\ \A i \in Ids : i \notin tx[w].lock => rows'[i] = rows[i]
        /\ \A i \in Ids : Committed(i) =>
             /\ Committed(i)' /\ rows'[i].org = rows[i].org /\ rows'[i].end = rows[i].end
             /\ rows'[i].state = "booked" => rows[i].state = "booked"
    BY <1>7 DEF Kept, S
  <2> QED BY <1>1, <1>8, <1>9, <2>1, <2>2, CommitFrame
<1>11. \A q \in Requests : proc'[q] = proc[q]
  BY <1>1, <1>8 DEF Procs
<1>12. RivalInv'
  <2>1. ASSUME NEW q \in Requests, Inserting(q)'
        PROVE  /\ \A i \in Ids : Committed(i)' => ~ Conflicting(proc'[q].row, rows'[i])
               /\ \A r \in Requests \ {q} : Inserting(r)' =>
                    ~ Conflicting(proc'[q].row, proc'[r].row)
    <3>1. \A r \in Requests : Inserting(r)' <=> Inserting(r)
      BY <1>11 DEF Inserting
    <3> QED BY <1>7, <1>11, <2>1, <3>1 DEF Kept, IInv, TxInv, RivalInv
  <2> QED BY <2>1 DEF RivalInv
<1>13. AnswersAreTrue'
  <2>1. ASSUME NEW q \in Requests, proc[q].pc = "done", proc[q].status = 200
        PROVE  \E n \in 1..Len(audit'[proc[q].id]) : audit'[proc[q].id][n].action = proc[q].op
    <3>1. proc[q].id \in Ids
      <4>1. proc[q] \in RequestType
        BY DEF IInv, TypeOK
      <4> QED BY <2>1, <4>1 DEF RequestType
    <3>2. PICK n \in 1..Len(audit[proc[q].id]) : audit[proc[q].id][n].action = proc[q].op
      BY <2>1 DEF IInv, AnswersAreTrue
    <3>3. n \in 1..Len(audit'[proc[q].id]) /\ audit'[proc[q].id][n].action = proc[q].op
      BY <1>7, <3>1, <3>2 DEF Kept
    <3> QED BY <3>3
  <2> QED BY <1>11, <2>1 DEF AnswersAreTrue
<1> QED BY <1>7, <1>10, <1>12, <1>13 DEF IInv, TxInv, Kept

-----------------------------------------------------------------------------
(* The beginning, and every step. *)

(* A booking that is there from the start has its record and its check. *)
LEMMA InitInv == Init => IInv
<1> SUFFICES ASSUME Init PROVE IInv
  OBVIOUS
<1>1. /\ now = 0 /\ faults = 0 /\ proc = [p \in Procs |-> Idle] /\ tx = [p \in Procs |-> NoTx]
      /\ notified = [i \in Ids |-> 0]
  BY DEF Init
<1>2. /\ \A p \in Procs : proc[p] = [pc |-> "idle"] /\ tx[p] = NoTx
      /\ NoTx.lock = {} /\ NoTx.jobs = {}
      /\ DOMAIN NoTx = {"writes", "lock", "audit", "jobs", "notes"}
      /\ \A i \in Ids : notified[i] = 0
  BY <1>1 DEF Idle, NoTx
<1>3. /\ \A p \in Requests : proc[p] \in RequestType /\ RequestInv(p) /\ ~ Inserting(p)
      /\ \A w \in Workers : proc[w] \in WorkerType
      /\ LockInv /\ RivalInv /\ AnswersAreTrue
  BY <1>2 DEF RequestType, RequestInv, WorkerType, Inserting, LockInv, RivalInv,
              AnswersAreTrue, Procs
<1>4. \A w \in Workers : WorkerInv(w)
  BY <1>2 DEF WorkerInv, Procs
<1>5. SUFFICES /\ rows \in [Ids -> RowType \cup {Nothing}]
               /\ audit \in [Ids -> Seq(RecordType)] /\ jobs \subseteq JobType
               /\ \A j \in jobs : JobInv(j)
               /\ NoDoubleBooking /\ AuditTellsTheStory /\ EveryBookingHasItsCheck
               /\ NoShowIsUncollected
  BY <1>1, <1>3, <1>4, <1>5 DEF IInv, TypeOK, TxInv
<1>6. CASE /\ rows = [i \in Ids |-> Nothing] /\ audit = [i \in Ids |-> << >>]
           /\ jobs = {}
  BY <1>2, <1>6 DEF NoDoubleBooking, AuditTellsTheStory, EveryBookingHasItsCheck,
                    NoShowIsUncollected, Committed
<1>7. CASE \E r \in Resources, u \in Users, w \in Windows :
          LET i == CHOOSE first \in Ids : TRUE
              row == [org |-> OrgOf[r], resource |-> r, holder |-> u, start |-> w[1],
                      end |-> w[2], state |-> "booked"]
          IN /\ requireMember(u, OrgOf[r]) /\ ~ mayManageReservations(u)
             /\ validateWindow(w[1], w[2])
             /\ rows = [k \in Ids |-> IF k = i THEN row ELSE Nothing]
             /\ audit = [k \in Ids |-> IF k /= i THEN << >>
                  ELSE <<[id |-> i, action |-> "created", actor |-> u]>>]
             /\ jobs = {j \in scheduleConfirmationAndReminder(NoTx, i, row).jobs :
                          j.kind /= "confirmation"}
  <2> DEFINE i == CHOOSE first \in Ids : TRUE
  <2>pick. PICK r \in Resources, u \in Users, x \in Windows :
          LET row == [org |-> OrgOf[r], resource |-> r, holder |-> u, start |-> x[1],
                      end |-> x[2], state |-> "booked"]
          IN /\ requireMember(u, OrgOf[r])
             /\ rows = [k \in Ids |-> IF k = i THEN row ELSE Nothing]
             /\ audit = [k \in Ids |-> IF k /= i THEN << >>
                  ELSE <<[id |-> i, action |-> "created", actor |-> u]>>]
             /\ jobs = {j \in scheduleConfirmationAndReminder(NoTx, i, row).jobs :
                          j.kind /= "confirmation"}
    BY <1>7
  <2> DEFINE row == [org |-> OrgOf[r], resource |-> r, holder |-> u, start |-> x[1],
                     end |-> x[2], state |-> "booked"]
  <2>seed. /\ i \in Ids /\ requireMember(u, OrgOf[r])
        /\ rows = [k \in Ids |-> IF k = i THEN row ELSE Nothing]
        /\ audit = [k \in Ids |-> IF k /= i THEN << >>
             ELSE <<[id |-> i, action |-> "created", actor |-> u]>>]
        /\ jobs = {j \in scheduleConfirmationAndReminder(NoTx, i, row).jobs :
                     j.kind /= "confirmation"}
    BY <2>pick
  <2> HIDE DEF i
  <2> DEFINE e == [id |-> i, action |-> "created", actor |-> u]
  <2>1. /\ row \in RowType /\ row.state = "booked" /\ row.org = OrgOf[r] /\ row.holder = u
        /\ row.end \in Nat /\ row.start \in Nat /\ row.org \in Orgs
    <3>1. x[1] \in Nat /\ x[2] \in Nat
      OBVIOUS
    <3> QED BY <3>1 DEF RowType, States
  <2> HIDE DEF row
  <2>2. e \in RecordType /\ e.action = "created" /\ e.actor = u
    BY <2>seed DEF RecordType, Ops
  <2>3. Nothing \notin RowType
    BY DEF RowType
  <2> HIDE DEF e
  <2>4. /\ rows[i] = row /\ \A k \in Ids : k /= i => rows[k] = Nothing
        /\ audit[i] = <<e>> /\ \A k \in Ids : k /= i => audit[k] = << >>
    BY <2>seed DEF e
  <2>5. \A k \in Ids : Committed(k) <=> k = i
    BY <2>1, <2>3, <2>4 DEF Committed
  <2>6. rows \in [Ids -> RowType \cup {Nothing}]
    BY <2>seed, <2>1
  <2>7. audit \in [Ids -> Seq(RecordType)]
    <3>1. <<e>> \in Seq(RecordType) /\ << >> \in Seq(RecordType)
      BY <2>2
    <3>2. \A k \in Ids : audit[k] \in Seq(RecordType)
      BY <2>4, <3>1
    <3>3. audit = [k \in Ids |-> audit[k]]
      BY <2>seed
    <3> QED BY <3>2, <3>3
  <2>8. /\ Job("no_show_check", i, row.org, row.end) \in jobs
        /\ \A j \in jobs : /\ j \in JobType /\ j.id = i /\ j.org = row.org
                           /\ j.kind = "no_show_check" => j.at = row.end
    <3>1. ASSUME NEW j PROVE
            j \in scheduleConfirmationAndReminder(NoTx, i, row).jobs =>
              \/ j = Job("confirmation", i, row.org, 0)
              \/ j = Job("no_show_check", i, row.org, row.end)
              \/ j = Job("reminder", i, row.org, row.start - ReminderLeadTime)
      BY <1>2 DEF scheduleConfirmationAndReminder
    <3>2. Job("no_show_check", i, row.org, row.end) \in scheduleConfirmationAndReminder(NoTx, i, row).jobs
      BY <1>2 DEF scheduleConfirmationAndReminder
    <3>3. Job("no_show_check", i, row.org, row.end) \in jobs
      BY <2>seed, <3>2 DEF Job
    <3>4. \A j \in jobs : \/ j = Job("no_show_check", i, row.org, row.end)
                          \/ j = Job("reminder", i, row.org, row.start - ReminderLeadTime)
      BY <2>seed, <3>1 DEF Job
    <3>5. row.start - ReminderLeadTime \in Int /\ row.end \in Int
      BY <2>1
    <3> QED BY <2>seed, <2>1, <3>3, <3>4, <3>5 DEF Job, JobType, registerReservationJobs
  <2>9. \A j \in jobs : JobInv(j)
    BY <2>seed, <2>4, <2>5, <2>8 DEF JobInv, VisibleRow
  <2>10. NoDoubleBooking
    BY <2>5 DEF NoDoubleBooking
  <2>11. AuditTellsTheStory
    <3>1. Actions(<<e>>) = <<"created">> /\ Len(<<e>>) = 1 /\ <<e>>[1] = e
      BY <2>2 DEF Actions
    <3>2. Story(row.state) = <<"created">>
      BY <2>1 DEF Story
    <3>3. ByRight(e, row)
      BY <2>seed, <2>1, <2>2 DEF ByRight
    <3> QED BY <2>4, <2>5, <3>1, <3>2, <3>3 DEF AuditTellsTheStory
  <2>12. EveryBookingHasItsCheck
    BY <2>4, <2>5, <2>8, <2>9 DEF EveryBookingHasItsCheck, JobInv
  <2>13. NoShowIsUncollected
    BY <1>2, <2>1, <2>4, <2>5 DEF NoShowIsUncollected
  <2>14. jobs \subseteq JobType
    BY <2>8
  <2> QED BY <2>6, <2>7, <2>9, <2>10, <2>11, <2>12, <2>13, <2>14
<1> QED BY <1>6, <1>7 DEF Init

(* Whatever a request, a worker or the clock does, in whatever order, the
   invariant is kept: every conjunct is needed for some step of another. *)
THEOREM Invariant == Spec => []IInv
<1>1. Init => IInv
  BY InitInv
<1>2. IInv /\ [Next]_vars => IInv'
  <2> SUFFICES ASSUME IInv, [Next]_vars PROVE IInv'
    OBVIOUS
  <2>1. ASSUME NEW p \in Requests, CreateReservation(p) PROVE IInv'
    BY <2>1, CreateStep
  <2>2. ASSUME NEW p \in Requests, Command(p) PROVE IInv'
    BY <2>2, CommandStep
  <2>3. ASSUME NEW p \in Requests, RequestStep(p) PROVE IInv'
    BY <2>3, InsertStep, LockStep, ActStep, CommitStep DEF RequestStep
  <2>4. ASSUME NEW p \in Requests, Fail(p) PROVE IInv'
    BY <2>4, FailStep
  <2>5. ASSUME NEW w \in Workers, WorkerStep(w) PROVE IInv'
    BY <2>5, WorkStep, SendStep, ScanStep, SweepStep, SweepCommitStep, CompleteStep
    DEF WorkerStep
  <2>6. ASSUME NEW w \in Workers, Retry(w) PROVE IInv'
    BY <2>6, RetryStep
  <2>7. CASE Tick
    BY <2>7, TickStep
  <2>8. CASE UNCHANGED vars
    <3>1. /\ now' = now /\ rows' = rows /\ audit' = audit /\ notified' = notified
          /\ jobs' = jobs /\ proc' = proc /\ tx' = tx /\ faults' = faults
      BY <2>8 DEF vars
    <3>2. TypeOK' /\ LockInv' /\ RivalInv' /\ AnswersAreTrue'
      BY <3>1 DEF IInv, TxInv, TypeOK, LockInv, RivalInv, Inserting, Committed, AnswersAreTrue
    <3>3. \A p \in Requests : RequestInv(p)'
      BY <3>1 DEF IInv, TxInv, RequestInv, Committed, Changed
    <3>4. \A w \in Workers : WorkerInv(w)'
      BY <3>1 DEF IInv, TxInv, WorkerInv, JobInv, VisibleRow, Committed, Changed, MarkNoShows
    <3>5. now' \in Nat /\ now <= now' /\ UNCHANGED <<rows, effects>>
      BY <3>1 DEF IInv, TypeOK, effects
    <3> QED BY <3>2, <3>3, <3>4, <3>5, QuietData DEF IInv, TxInv
  <2> QED BY <2>1, <2>2, <2>3, <2>4, <2>5, <2>6, <2>7, <2>8 DEF Next
<1> QED BY <1>1, <1>2, PTL DEF Spec

(* However many requests race, no resource is promised to two live bookings for
   the same instant: the insert's exclusion constraint, which waits for every
   open transaction that wrote a rival row, is enough (Create). *)
THEOREM NoDoubleBookingHolds == Spec => []NoDoubleBooking
<1>1. IInv => NoDoubleBooking
  BY DEF IInv
<1> QED BY <1>1, Invariant, PTL

(* The audit records of a reservation spell the transitions that led to its
   state, each once and by somebody who was allowed to: the effects of transition
   commit with the change or not at all, and the row lock keeps what was checked
   of the row true until the UPDATE. *)
THEOREM AuditTellsTheStoryHolds == Spec => []AuditTellsTheStory
<1>1. IInv => AuditTellsTheStory
  BY DEF IInv
<1> QED BY <1>1, Invariant, PTL

(* An open booking never loses the job that will close it, through any number of
   retries, and no job speaks of a reservation that is not there
   (scheduleConfirmationAndReminder inside the transaction). *)
THEOREM EveryBookingHasItsCheckHolds == Spec => []EveryBookingHasItsCheck
<1>1. IInv => EveryBookingHasItsCheck
  BY DEF IInv
<1> QED BY <1>1, Invariant, PTL

(* A no-show is recorded only after its window has closed, and the holder is told
   exactly once whatever the sweeps of other jobs and the retries do
   (SweepNoShows). *)
THEOREM NoShowIsUncollectedHolds == Spec => []NoShowIsUncollected
<1>1. IInv => NoShowIsUncollected
  BY DEF IInv
<1> QED BY <1>1, Invariant, PTL

(* A request answered with success has its change committed, and its record is
   there for good (the handlers answer after InTx returns). *)
THEOREM AnswersAreTrueHolds == Spec => []AnswersAreTrue
<1>1. IInv => AnswersAreTrue
  BY DEF IInv
<1> QED BY <1>1, Invariant, PTL
=============================================================================
