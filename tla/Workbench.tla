----------------------------- MODULE Workbench -----------------------------
(***************************************************************************)
(* The reference application: shared resources, the reservations people    *)
(* make of them, and the background jobs a booking causes                  *)
(* (features/reservation, features/resource, and their HTTP handlers).     *)
(*                                                                         *)
(* Requests and workers are processes; each runs its statements inside a   *)
(* PostgreSQL transaction at READ COMMITTED, and several transactions are  *)
(* open at once.  What a transaction has written, the audit records, jobs  *)
(* and notifications included, is private (`tx`) until it commits, and     *)
(* gone if it rolls back.  The row lock of SELECT ... FOR UPDATE, the      *)
(* exclusion constraint that waits for a rival insert, and an UPDATE that  *)
(* takes its snapshot before it waits for a row are all here, because the  *)
(* application relies on exactly them.                                     *)
(***************************************************************************)
EXTENDS Integers, Sequences, FiniteSets

CONSTANTS Requests,          \* the requests; each is made at most once
          Workers,           \* the job workers
          Ids,               \* the identifiers reservations may get
          Users, Orgs, Resources,
          RolesOf,           \* RolesOf[u]: the names of the roles u was granted
          Members,           \* {<<user, org>>}: organization_members
          OrgOf,             \* OrgOf[r]: resources.org_id
          Windows,           \* the <<start, end>> people ask for
          MinWindow, MaxWindow, ReminderLeadTime,
          Nothing,           \* no row, no photo, no job, nobody
          MaxTime,           \* bound: the clock stops here
          MaxFaults          \* bound: failures of a statement or a process

VARIABLES now,
          rows,      \* rows[i]: the committed row of reservation i
          audit,     \* audit[i]: the committed audit records about i
          notified,  \* notified[i]: the notifications committed about i
          jobs,      \* the committed jobs that have not completed
          proc,      \* proc[p]: how far process p has come
          tx,        \* tx[p]: what p's open transaction has done
          faults

vars == <<now, rows, audit, notified, jobs, proc, tx, faults>>
effects == <<audit, notified, jobs>>

Procs == Requests \cup Workers

(* The permission catalog. *)
Permissions ==
  {"users.read", "users.manage", "roles.read", "roles.manage", "sessions.revoke",
   "audit.read", "system.read", "resources.read", "resources.manage",
   "resources.retire", "reservations.read", "reservations.create",
   "reservations.manage"}
RoleBundle ==
  [member |-> {"resources.read", "reservations.read", "reservations.create"},
   steward |-> {"resources.read", "resources.manage", "reservations.read",
                "reservations.create", "reservations.manage"},
   administrator |-> {"resources.read", "resources.manage", "resources.retire",
                      "reservations.read", "reservations.create",
                      "reservations.manage", "users.read", "users.manage",
                      "roles.read", "roles.manage", "sessions.revoke",
                      "audit.read", "system.read"},
   auditor |-> {"users.read", "roles.read", "audit.read", "resources.read",
                "reservations.read"}]

(* A role bundles nothing that is not declared; a grant that names no role of
   the catalog grants nothing. *)
NewCatalog == \A name \in DOMAIN RoleBundle : RoleBundle[name] \subseteq Permissions
Grants(names) == UNION {RoleBundle[name] : name \in names \cap DOMAIN RoleBundle}

(* The states of a reservation. *)
States == {"booked", "checked_out", "returned", "cancelled", "no_show"}

ASSUME WorkbenchAssumption ==
  /\ NewCatalog
  /\ Requests \cap Workers = {} /\ Ids /= {} /\ Nothing \notin Ids \cup Users
  /\ Nothing \notin [org : Orgs, resource : Resources, holder : Users,
                      start : Nat, end : Nat, state : States]
  /\ Members \subseteq Users \X Orgs /\ OrgOf \in [Resources -> Orgs]
  /\ Windows \subseteq Nat \X Nat
  /\ MinWindow \in Nat \ {0} /\ MaxWindow \in Nat
  /\ ReminderLeadTime \in Nat /\ MaxTime \in Nat /\ MaxFaults \in Nat

requireMember(u, o) == <<u, o>> \in Members
Has(held, permission) == permission \in held
requirePermission(u, permission) == Has(Grants(RolesOf[u]), permission)
mayManageReservations(u) == requirePermission(u, "reservations.manage")
\* Mutant: the holder is not compared.
AnyoneMayAct(u, row) == TRUE
mayAct(u, row) == mayManageReservations(u) \/ u = row.holder

(* What a use-case error becomes on the wire. *)
reservationFailure(err) ==
  CASE err = "ErrNotHolder" -> 403
    [] err = "ErrNotFound" -> 404
    [] err \in {"ErrConflict", "ErrNotStarted", "ErrWrongState"} -> 409
    [] err \in {"ErrResourceUnavailable", "ErrInvalid"} -> 400
    [] OTHER -> 500

validateWindow(s, e) == e > s /\ e - s >= MinWindow /\ e - s <= MaxWindow

(* during && during: half-open windows. *)
Overlap(a, b) == a.start < b.end /\ b.start < a.end
IsLive(row) == row.state \in {"booked", "checked_out"}
Conflicting(a, b) ==
  a.resource = b.resource /\ IsLive(a) /\ IsLive(b) /\ Overlap(a, b)

NoTx == [writes |-> [i \in {} |-> Nothing], lock |-> {}, audit |-> {}, jobs |-> {}, notes |-> {}]
Idle == [pc |-> "idle"]

-----------------------------------------------------------------------------
(* Transactions.  HeldByOther is what PostgreSQL makes p wait for. *)
HeldByOther(p, i) == \E q \in Procs \ {p} : i \in tx[q].lock
Committed(i) == rows[i] /= Nothing
VisibleRow(i, org) == Committed(i) /\ rows[i].org = org

(* The handler answers, and the transaction is over: committed by the caller
   of Succeed, rolled back by Refuse. *)
Refuse(p, status) ==
  /\ proc' = [proc EXCEPT ![p] = [pc |-> "done", status |-> status]]
  /\ tx' = [tx EXCEPT ![p] = NoTx]

Succeed(p) ==
  /\ proc' = [proc EXCEPT ![p] = [pc |-> "done", status |-> 200,
                                  op |-> proc[p].op, id |-> proc[p].id]]
  /\ tx' = [tx EXCEPT ![p] = NoTx]

Goto(p, label) == proc' = [proc EXCEPT ![p].pc = label]

Wrote(i, row) == [NoTx EXCEPT !.writes = [k \in {i} |-> row], !.lock = {i}]

(* One audit record for each changed row, by a person or, with no actor, by
   the system. *)
recordAndEnqueue(t, action, actor) ==
  [t EXCEPT !.audit = {[id |-> i, action |-> action, actor |-> actor]
                       : i \in DOMAIN t.writes}]

Job(kind, i, org, at) == [kind |-> kind, id |-> i, org |-> org, at |-> at]

\* Mutant: the check runs when the window opens.
ScheduleAtStart(t, i, row) ==
  [t EXCEPT !.jobs = @
     \cup {Job("confirmation", i, row.org, 0),
           Job("no_show_check", i, row.org, row.start)}]

scheduleConfirmationAndReminder(t, i, row) ==
  [t EXCEPT !.jobs = @
     \cup {Job("confirmation", i, row.org, 0)}
     \cup {Job("no_show_check", i, row.org, row.end)}
     \cup (IF row.start - ReminderLeadTime > now
           THEN {Job("reminder", i, row.org, row.start - ReminderLeadTime)}
           ELSE {})]

notifyNoShow(t) == [t EXCEPT !.notes = DOMAIN t.writes]

Applied(t) ==
  /\ rows' = [i \in Ids |-> IF i \in DOMAIN t.writes THEN t.writes[i] ELSE rows[i]]
  /\ audit' = [i \in Ids |->
       IF \E e \in t.audit : e.id = i
       THEN Append(audit[i], CHOOSE e \in t.audit : e.id = i) ELSE audit[i]]
  /\ jobs' = jobs \cup t.jobs
  /\ notified' = [i \in Ids |->
       IF i \in t.notes THEN notified[i] + 1 ELSE notified[i]]

-----------------------------------------------------------------------------
(* At first nothing is booked, or one member's booking is there already, as
   the transaction that made it left it, and its confirmation has been sent. *)
Init ==
  /\ now = 0 /\ faults = 0
  /\ proc = [p \in Procs |-> Idle]
  /\ tx = [p \in Procs |-> NoTx]
  /\ notified = [i \in Ids |-> 0]
  /\ \/ /\ rows = [i \in Ids |-> Nothing] /\ audit = [i \in Ids |-> << >>]
        /\ jobs = {}
     \/ \E r \in Resources, u \in Users, w \in Windows :
          LET i == CHOOSE first \in Ids : TRUE
              row == [org |-> OrgOf[r], resource |-> r, holder |-> u, start |-> w[1],
                      end |-> w[2], state |-> "booked"]
          IN /\ requireMember(u, OrgOf[r]) /\ ~ mayManageReservations(u)
             /\ validateWindow(w[1], w[2])
             /\ rows = [k \in Ids |-> IF k = i THEN row ELSE Nothing]
             /\ audit = [k \in Ids |-> IF k /= i THEN << >>
                  ELSE <<[id |-> i, action |-> "created", actor |-> u]>>]
             /\ jobs = {j \in scheduleConfirmationAndReminder(NoTx, i, row).jobs :
                          j.kind /= "confirmation"}

-----------------------------------------------------------------------------
(* Bound: there is an identifier left for one more insert. *)
RoomForAnother ==
  Cardinality({i \in Ids : ~ Committed(i)}) >
    Cardinality({q \in Requests : proc[q].pc \in {"insert", "commit"}
                                    /\ proc[q].op = "created"})

(* POST /orgs/{org}/reservations. *)
CreateReservation(p) ==
  \E u \in Users, org \in Orgs, r \in Resources, w \in Windows :
    /\ proc[p].pc = "idle" /\ RoomForAnother
    /\ requireMember(u, org) /\ requirePermission(u, "reservations.create")
    /\ validateWindow(w[1], w[2])
    /\ proc' = [proc EXCEPT ![p] =
         [pc |-> "insert", op |-> "created", user |-> u, id |-> Nothing,
          row |-> [org |-> org, resource |-> r, holder |-> u, start |-> w[1],
                   end |-> w[2], state |-> "booked"]]]
    /\ UNCHANGED <<now, rows, effects, tx, faults>>

(* An open transaction that has written a row which conflicts with this one,
   before or after the write. *)
\* Mutant: the insert reads before it writes.
NoRival(row, q) == FALSE
Rival(row, q) ==
  \E i \in DOMAIN tx[q].writes :
    \/ Conflicting(row, tx[q].writes[i])
    \/ Committed(i) /\ Conflicting(row, rows[i])

(* The INSERT: it waits while an open transaction has written a row it
   might conflict with; then the exclusion constraint, then the foreign key; then
   the effects, in the same transaction. *)
Insert(p) ==
  LET row == proc[p].row
  IN /\ proc[p].pc = "insert"
     /\ \A q \in Procs \ {p} : ~ Rival(row, q)
     /\ IF \E i \in Ids : Committed(i) /\ Conflicting(row, rows[i])
        THEN Refuse(p, reservationFailure("ErrConflict"))
        ELSE IF OrgOf[row.resource] /= row.org
        THEN Refuse(p, reservationFailure("ErrResourceUnavailable"))
        ELSE \E i \in Ids :
               /\ ~ Committed(i) /\ \A q \in Procs : i \notin tx[q].lock
               /\ tx' = [tx EXCEPT ![p] = scheduleConfirmationAndReminder(
                    recordAndEnqueue(Wrote(i, row), "created", row.holder), i, row)]
               /\ proc' = [proc EXCEPT ![p].pc = "commit", ![p].id = i]
     /\ UNCHANGED <<now, rows, effects, faults>>

(* check-out, return and cancel: the state each needs and the one it makes. *)
Required == [checked_out |-> "booked", returned |-> "checked_out",
             cancelled |-> "booked"]

Command(p) ==
  \E u \in Users, org \in Orgs, i \in Ids, op \in DOMAIN Required :
    /\ proc[p].pc = "idle"
    /\ requireMember(u, org) /\ Committed(i)
    /\ proc' = [proc EXCEPT ![p] =
         [pc |-> "lock", op |-> op, user |-> u, id |-> i, org |-> org]]
    /\ UNCHANGED <<now, rows, effects, tx, faults>>

(* GetReservationForUpdate, and what transition checks of the row it locks. *)
Lock(p) ==
  LET i == proc[p].id IN
  /\ proc[p].pc = "lock"
  /\ ~ HeldByOther(p, i)
  /\ IF ~ VisibleRow(i, proc[p].org)
     THEN Refuse(p, reservationFailure("ErrNotFound"))
     ELSE IF ~ mayAct(proc[p].user, rows[i])
     THEN Refuse(p, reservationFailure("ErrNotHolder"))
     ELSE IF rows[i].state /= Required[proc[p].op]
     THEN Refuse(p, reservationFailure("ErrWrongState"))
     ELSE /\ tx' = [tx EXCEPT ![p].lock = {i}]
          /\ Goto(p, "act")
  /\ UNCHANGED <<now, rows, effects, faults>>

(* The three UPDATEs: each WHERE names the state again. *)
checkOutReservation(row) ==
  IF row.state = "booked" THEN [row EXCEPT !.state = "checked_out"] ELSE Nothing
cancelReservation(row) ==
  IF row.state = "booked" THEN [row EXCEPT !.state = "cancelled"] ELSE Nothing
returnReservation(row) ==
  IF row.state = "checked_out" THEN [row EXCEPT !.state = "returned"] ELSE Nothing
Updated(op, row) ==
  CASE op = "checked_out" -> checkOutReservation(row)
    [] op = "cancelled" -> cancelReservation(row)
    [] op = "returned" -> returnReservation(row)

(* The command's own precondition and its UPDATE, which waits for any other
   writer of the row and then changes it or finds none. *)
Act(p) ==
  LET i == proc[p].id
      op == proc[p].op
  IN
  /\ proc[p].pc = "act"
  /\ ~ HeldByOther(p, i)
  /\ IF op = "checked_out" /\ now < rows[i].start
     THEN Refuse(p, reservationFailure("ErrNotStarted"))
     ELSE IF Updated(op, rows[i]) = Nothing
     THEN Refuse(p, reservationFailure("ErrWrongState"))
     ELSE /\ tx' = [tx EXCEPT ![p] = recordAndEnqueue(
               Wrote(i, Updated(op, rows[i])), op, proc[p].user)]
          /\ Goto(p, "commit")
  /\ UNCHANGED <<now, rows, effects, faults>>

Commit(p) ==
  /\ proc[p].pc = "commit" /\ p \in Requests
  /\ Applied(tx[p])
  /\ Succeed(p)
  /\ UNCHANGED <<now, faults>>

(* A statement fails: the transaction rolls back and the answer is 500. *)
\* Mutant: the error of the commit is not looked at.
FailUnnoticed(p) ==
  /\ p \in Requests /\ proc[p].pc = "commit"
  /\ faults < MaxFaults /\ faults' = faults + 1
  /\ Succeed(p)
  /\ UNCHANGED <<now, rows, effects>>

Fail(p) ==
  /\ p \in Requests /\ proc[p].pc \notin {"idle", "done"}
  /\ faults < MaxFaults /\ faults' = faults + 1
  /\ Refuse(p, 500)
  /\ UNCHANGED <<now, rows, effects>>

-----------------------------------------------------------------------------
(* Workers.  River runs a due job at least once: an error, or a process that
   dies, leaves the job to be run again. *)
registerReservationJobs == {"confirmation", "reminder", "no_show_check"}
Running == {proc[w].job : w \in {v \in Workers : proc[v].pc /= "idle"}}

(* Each worker re-reads the reservation first, in a transaction of its own. *)
Work(w) ==
  \E j \in jobs \ Running :
    /\ proc[w].pc = "idle" /\ j.at <= now /\ j.kind \in registerReservationJobs
    /\ proc' = [proc EXCEPT ![w] =
         [pc |-> IF ~ VisibleRow(j.id, j.org) THEN "complete"
                 ELSE IF j.kind /= "no_show_check" THEN "send"
                 ELSE IF rows[j.id].state /= "booked" THEN "complete" ELSE "scan",
          job |-> j]]
    /\ UNCHANGED <<now, rows, effects, tx, faults>>

(* EmailOf and mailer.Send; the message leaves the model. *)
send(w) ==
  /\ proc[w].pc = "send"
  /\ Goto(w, "complete")
  /\ UNCHANGED <<now, rows, effects, tx, faults>>

(* The job's cutoff is the end of its own reservation. *)
Cutoff(w) == rows[proc[w].job.id].end

\* Mutant: a window that ends at the cutoff is not closed.
MarkNoShowsEarlier(org, cutoff) ==
  {i \in Ids : VisibleRow(i, org) /\ rows[i].state = "booked"
                 /\ rows[i].end < cutoff}

MarkNoShows(org, cutoff) ==
  {i \in Ids : VisibleRow(i, org) /\ rows[i].state = "booked"
                 /\ rows[i].end <= cutoff}

(* The UPDATE's snapshot. *)
SweepScan(w) ==
  /\ proc[w].pc = "scan"
  /\ proc' = [proc EXCEPT ![w] =
       [pc |-> "mark", job |-> @.job,
        found |-> MarkNoShows(@.job.org, Cutoff(w))]]
  /\ UNCHANGED <<now, rows, effects, tx, faults>>

(* It waits for each row it found, and re-evaluates its WHERE on what the
   other transaction left. *)
SweepNoShows(w) ==
  LET marked == proc[w].found \cap MarkNoShows(proc[w].job.org, Cutoff(w))
      written == [NoTx EXCEPT
        !.writes = [i \in marked |-> [rows[i] EXCEPT !.state = "no_show"]],
        !.lock = marked]
  IN
  /\ proc[w].pc = "mark"
  /\ \A i \in proc[w].found : ~ HeldByOther(w, i)
  /\ tx' = [tx EXCEPT ![w] =
       notifyNoShow(recordAndEnqueue(written, "no_show", Nothing))]
  /\ Goto(w, "sweepcommit")
  /\ UNCHANGED <<now, rows, effects, faults>>

SweepCommit(w) ==
  /\ proc[w].pc = "sweepcommit"
  /\ Applied(tx[w])
  /\ tx' = [tx EXCEPT ![w] = NoTx]
  /\ Goto(w, "complete")
  /\ UNCHANGED <<now, faults>>

Complete(w) ==
  /\ proc[w].pc = "complete"
  /\ jobs' = jobs \ {proc[w].job}
  /\ proc' = [proc EXCEPT ![w] = Idle]
  /\ UNCHANGED <<now, rows, audit, notified, tx, faults>>

(* The worker's process dies, or Work returns an error: the job stays. *)
Retry(w) ==
  /\ w \in Workers /\ proc[w].pc /= "idle"
  /\ faults < MaxFaults /\ faults' = faults + 1
  /\ proc' = [proc EXCEPT ![w] = Idle]
  /\ tx' = [tx EXCEPT ![w] = NoTx]
  /\ UNCHANGED <<now, rows, effects>>

Tick ==
  /\ now < MaxTime /\ now' = now + 1
  /\ UNCHANGED <<rows, effects, proc, tx, faults>>

RequestStep(p) == \/ Insert(p) \/ Lock(p) \/ Act(p) \/ Commit(p)
WorkerStep(w) == \/ Work(w) \/ send(w) \/ SweepScan(w) \/ SweepNoShows(w)
                 \/ SweepCommit(w) \/ Complete(w)

Next ==
  \/ \E p \in Requests : \/ CreateReservation(p) \/ Command(p)
                         \/ RequestStep(p) \/ Fail(p)
  \/ \E w \in Workers : WorkerStep(w) \/ Retry(w)
  \/ Tick

(* The clock goes on, an open request is driven to its answer, and River
   keeps fetching due jobs; nobody has to make a request. *)
Fairness ==
  /\ WF_vars(Tick)
  /\ \A p \in Requests : WF_vars(RequestStep(p))
  /\ \A w \in Workers : WF_vars(WorkerStep(w))

Spec == Init /\ [][Next]_vars /\ Fairness
-----------------------------------------------------------------------------
(* What is promised. *)

(* However requests interleave, no resource is ever promised to two live
   bookings for the same instant (Create and the exclusion constraint). *)
NoDoubleBooking ==
  \A i, k \in Ids :
    /\ i /= k /\ Committed(i) /\ Committed(k)
    /\ rows[i].resource = rows[k].resource
    /\ {rows[i].state, rows[k].state} \subseteq {"booked", "checked_out"}
    => rows[i].end <= rows[k].start \/ rows[k].end <= rows[i].start

(* The audit records about a reservation spell exactly the transitions that
   led to its state, each once and by somebody who was allowed to: effects
   are visible if and only if the change committed (effects.go), and no two
   commands both take the same step (transition). *)
Story(state) ==
  CASE state = "booked" -> <<"created">>
    [] state = "checked_out" -> <<"created", "checked_out">>
    [] state = "returned" -> <<"created", "checked_out", "returned">>
    [] state = "cancelled" -> <<"created", "cancelled">>
    [] state = "no_show" -> <<"created", "no_show">>
Actions(records) == [n \in 1..Len(records) |-> records[n].action]
ByRight(e, row) ==
  IF e.action = "no_show" THEN e.actor = Nothing
  ELSE /\ mayManageReservations(e.actor) \/ e.actor = row.holder
       /\ requireMember(e.actor, row.org)
AuditTellsTheStory ==
  \A i \in Ids :
    IF ~ Committed(i) THEN audit[i] = << >>
    ELSE /\ Actions(audit[i]) = Story(rows[i].state)
         /\ \A n \in 1..Len(audit[i]) : ByRight(audit[i][n], rows[i])

(* A booking nobody has collected still has the job that will close it, and
   no job speaks of a booking that was rolled back
   (scheduleConfirmationAndReminder inside the transaction). *)
EveryBookingHasItsCheck ==
  /\ \A j \in jobs : VisibleRow(j.id, j.org)
  /\ \A i \in Ids : Committed(i) /\ rows[i].state = "booked" =>
       Job("no_show_check", i, rows[i].org, rows[i].end) \in jobs

(* A no-show is recorded only after the window has closed, and its holder is
   told exactly once, however often the job is retried and whichever other
   reservation's job swept it (SweepNoShows). *)
NoShowIsUncollected ==
  \A i \in Ids :
    /\ notified[i] = IF Committed(i) /\ rows[i].state = "no_show" THEN 1 ELSE 0
    /\ notified[i] = 1 => rows[i].end <= now

(* A 200 is given only for a change that is committed: the handler answers
   with the row its closure read, after the transaction has ended. *)
AnswersAreTrue ==
  \A p \in Requests :
    proc[p].pc = "done" /\ proc[p].status = 200 =>
      \E n \in 1..Len(audit[proc[p].id]) :
        audit[proc[p].id][n].action = proc[p].op

(* A booking does not stay booked for ever: it is collected, cancelled, or
   closed as a no-show by its job, through retries and crashes of workers. *)
BookingIsClosed ==
  \A i \in Ids : Committed(i) ~> Committed(i) /\ rows[i].state /= "booked"
-----------------------------------------------------------------------------
(* Why it holds: the inductive invariant behind the safety properties. *)
Ops == {"created", "checked_out", "returned", "cancelled"}
RowType == [org : Orgs, resource : Resources, holder : Users,
            start : Nat, end : Nat, state : States]
RecordType == [id : Ids, action : Ops \cup {"no_show"}, actor : Users \cup {Nothing}]
JobType == [kind : registerReservationJobs, id : Ids, org : Orgs, at : Int]

RequestType ==
  [pc : {"idle"}]
  \cup [pc : {"insert"}, op : {"created"}, user : Users, id : {Nothing}, row : RowType]
  \cup [pc : {"commit"}, op : {"created"}, user : Users, id : Ids, row : RowType]
  \cup [pc : {"lock", "act", "commit"}, op : DOMAIN Required, user : Users,
        id : Ids, org : Orgs]
  \cup [pc : {"done"}, status : {400, 403, 404, 409, 500}]
  \cup [pc : {"done"}, status : {200}, op : Ops, id : Ids]
WorkerType ==
  [pc : {"idle"}]
  \cup [pc : {"send", "scan", "complete"}, job : JobType]
  \cup [pc : {"mark", "sweepcommit", "complete"}, job : JobType, found : SUBSET Ids]

\* The types of the variables; what a transaction holds is said by TxInv.
TypeOK ==
  /\ now \in Nat /\ faults \in Nat
  /\ rows \in [Ids -> RowType \cup {Nothing}]
  /\ audit \in [Ids -> Seq(RecordType)]
  /\ notified \in [Ids -> Nat]
  /\ jobs \subseteq JobType
  /\ DOMAIN proc = Procs /\ DOMAIN tx = Procs
  /\ \A p \in Requests : proc[p] \in RequestType
  /\ \A w \in Workers : proc[w] \in WorkerType

(* What an insert, and what a change of the rows in S, leave in a transaction. *)
Inserted(t, i, row) ==
  /\ DOMAIN t.writes = {i} /\ t.writes[i] = row /\ t.lock = {i} /\ t.notes = {}
  /\ t.audit = {[id |-> i, action |-> "created", actor |-> row.holder]}
  /\ Job("no_show_check", i, row.org, row.end) \in t.jobs
  /\ \A j \in t.jobs : /\ j \in JobType /\ j.id = i /\ j.org = row.org
                       /\ j.kind = "no_show_check" => j.at = row.end
Moved(row, state) == [row EXCEPT !.state = state]
Changed(t, S, op, actor, notes) ==
  /\ DOMAIN t.writes = S /\ t.lock = S
  /\ \A k \in S : t.writes[k] = Moved(rows[k], op)
  /\ \A k \in S : [id |-> k, action |-> op, actor |-> actor] \in t.audit
  /\ \A e \in t.audit : e.id \in S /\ e = [id |-> e.id, action |-> op, actor |-> actor]
  /\ t.jobs = {} /\ t.notes = notes

(* How far a request has come is what its transaction holds, and what it has
   checked of a row stays true while it holds the row's lock. *)
RequestInv(p) ==
  /\ proc[p].pc \notin {"act", "commit"} => tx[p] = NoTx
  /\ proc[p].pc \in {"insert", "commit"} /\ proc[p].op = "created" =>
       /\ proc[p].row.state = "booked"
       /\ requireMember(proc[p].row.holder, proc[p].row.org)
  /\ proc[p].pc = "commit" /\ proc[p].op = "created" =>
       ~ Committed(proc[p].id) /\ Inserted(tx[p], proc[p].id, proc[p].row)
  /\ proc[p].pc \in {"lock", "act", "commit"} /\ proc[p].op /= "created" =>
       requireMember(proc[p].user, proc[p].org) /\ Committed(proc[p].id)
  /\ proc[p].pc \in {"act", "commit"} /\ proc[p].op /= "created" =>
       /\ rows[proc[p].id].org = proc[p].org
       /\ mayAct(proc[p].user, rows[proc[p].id])
       /\ rows[proc[p].id].state = Required[proc[p].op]
  /\ proc[p].pc = "act" => tx[p] = [NoTx EXCEPT !.lock = {proc[p].id}]
  /\ proc[p].pc = "commit" /\ proc[p].op /= "created" =>
       Changed(tx[p], {proc[p].id}, proc[p].op, proc[p].user, {})

(* A job speaks of a row that is there; a check is due when the row's window
   closes. *)
JobInv(j) ==
  /\ VisibleRow(j.id, j.org)
  /\ j.kind = "no_show_check" => j.at = rows[j.id].end

(* A worker whose check is about to be completed has closed its booking, or
   somebody else has. *)
WorkerInv(w) ==
  /\ proc[w].pc /= "sweepcommit" => tx[w] = NoTx
  /\ proc[w].pc /= "idle" => JobInv(proc[w].job) /\ proc[w].job.at <= now
  /\ proc[w].pc \in {"scan", "mark", "sweepcommit"} =>
       proc[w].job.kind = "no_show_check"
  /\ proc[w].pc = "send" => proc[w].job.kind /= "no_show_check"
  /\ proc[w].pc = "mark" /\ rows[proc[w].job.id].state = "booked" =>
       proc[w].job.id \in proc[w].found
  /\ proc[w].pc = "sweepcommit" =>
       /\ rows[proc[w].job.id].state = "booked" => proc[w].job.id \in tx[w].lock
       /\ tx[w].lock \subseteq MarkNoShows(proc[w].job.org, now)
       /\ Changed(tx[w], tx[w].lock, "no_show", Nothing, tx[w].lock)
  /\ proc[w].pc = "complete" /\ proc[w].job.kind = "no_show_check" =>
       rows[proc[w].job.id].state /= "booked"

(* A row has one writer. *)
LockInv == \A p, q \in Procs : p /= q => tx[p].lock \cap tx[q].lock = {}

(* A row that is about to be inserted conflicts with no committed row and with
   no other that is about to be. *)
Inserting(p) == proc[p].pc = "commit" /\ proc[p].op = "created"
RivalInv ==
  \A p \in Requests : Inserting(p) =>
    /\ \A i \in Ids : Committed(i) => ~ Conflicting(proc[p].row, rows[i])
    /\ \A q \in Requests \ {p} : Inserting(q) => ~ Conflicting(proc[p].row, proc[q].row)

TxInv ==
  /\ \A p \in Requests : RequestInv(p)
  /\ \A w \in Workers : WorkerInv(w)
  /\ LockInv /\ RivalInv
  /\ \A j \in jobs : JobInv(j)

IInv ==
  /\ TypeOK /\ TxInv
  /\ NoDoubleBooking /\ AuditTellsTheStory /\ EveryBookingHasItsCheck
  /\ NoShowIsUncollected /\ AnswersAreTrue
=============================================================================
