------------------------------ MODULE Uploads ------------------------------
(***************************************************************************)
(* The staged upload lifecycle (internal/features/uploads) over an object  *)
(* store (internal/platform/storage).                                      *)
(*                                                                         *)
(* Three kinds of actor share a row of the ledger and two object keys, and *)
(* no lock: requests (Write and Finalize, several at a time and possibly   *)
(* for one upload), clients that hold a presigned URL and write the        *)
(* quarantine key behind the application's back, and the periodic sweep.   *)
(* What keeps them apart is the order in which each touches the object and *)
(* the row, and the WHERE state = 'staged' of every update.                *)
(*                                                                         *)
(* Each call of the store and each transaction is one step; a request or a *)
(* sweep may fail, or its process die, before any of them.                 *)
(***************************************************************************)
EXTENDS Integers, FiniteSets

CONSTANTS Ids,               \* the uploads
          Calls,             \* the calls of Finalize; each is made at most once
          Sweepers,          \* the sweeps that may run at once
          Bodies,            \* what clients may send
          Types,             \* the media types http.DetectContentType knows
          Accepted,          \* AcceptedTypes
          Claims,            \* what clients may declare
          Backends,          \* the stores the application may be given
          Scanners,          \* whether it may be given a scanner
          NoObject,          \* a key that holds nothing
          MaxUploadBytes, PresignedLifetime, StagingLifetime,
          SweepBatch,
          MaxTime,           \* bound: the clock stops here
          MaxInFlight        \* bound: the bodies on their way to one key

Content == [size : Nat, type : Types, clean : BOOLEAN]
MinUploadBytes == 1

ASSUME UploadsAssumption ==
  /\ Bodies \subseteq Content /\ NoObject \notin Content
  /\ Accepted \subseteq Types
  /\ Claims \subseteq [size : Nat, type : Types]
  /\ Backends \subseteq {"local", "s3"} /\ Scanners \subseteq BOOLEAN
  /\ MaxUploadBytes \in Nat /\ SweepBatch \in Nat \ {0}
  /\ MaxTime \in Nat /\ MaxInFlight \in Nat
  /\ PresignedLifetime \in Nat /\ StagingLifetime \in Nat
  /\ PresignedLifetime < StagingLifetime

VARIABLES backend,    \* which Store the application was given
          scanner,    \* WithScanner was used
          now,        \* the clock
          state,      \* state[id]: the row's state, "none" before it is staged
          claim,      \* claim[id]: declared_size and declared_type
          expires,    \* expires[id]: expires_at
          checksum,   \* checksum[id]: what was hashed, of an available row
          quarantine, \* quarantine[id]: the object at the staged key
          final,      \* final[id]: the object at the final key
          inflight,   \* inflight[id]: the bodies on their way to quarantine
          pc,         \* pc[c]: how far the call c of Finalize has come
          target,     \* target[c]: the upload c is about
          found,      \* found[c]: what c read
          why,        \* why[c]: the reason for which c refuses
          answer,     \* answer[c]: what c returned
          batch,      \* batch[s]: the rows sweep s has listed and not done
          cleared,    \* cleared[s]: the rows whose object s has just deleted
          overtaken   \* overtaken[id]: a body arrived while a verdict on an
                      \* earlier one was being reached (history)

setup == <<backend, scanner>>
row == <<state, claim, expires, checksum>>
objects == <<quarantine, final, inflight>>
request == <<pc, target, found, why, answer>>
sweep == <<batch, cleared>>
vars == <<setup, now, row, objects, request, sweep, overtaken>>

Verdicts == {"available", "rejected", "expired"}
Steps == {"idle", "measure", "scan", "move", "copied", "mark", "delete",
          "reject", "done"}

\* The application starts with an empty ledger and an empty store.
Init == /\ backend \in Backends /\ scanner \in Scanners
        /\ now = 0
        /\ state = [i \in Ids |-> "none"]
        /\ claim = [i \in Ids |-> [size |-> 0, type |-> "none"]]
        /\ expires = [i \in Ids |-> 0]
        /\ checksum = [i \in Ids |-> NoObject]
        /\ quarantine = [i \in Ids |-> NoObject]
        /\ final = [i \in Ids |-> NoObject]
        /\ inflight = [i \in Ids |-> {}]
        /\ pc = [c \in Calls |-> "idle"]
        /\ target \in [Calls -> Ids]
        /\ found = [c \in Calls |-> NoObject]
        /\ why = [c \in Calls |-> "none"]
        /\ answer = [c \in Calls |-> "none"]
        /\ batch = [s \in Sweepers |-> {}]
        /\ cleared = [s \in Sweepers |-> {}]
        /\ overtaken = [i \in Ids |-> FALSE]

Goto(c, step) == pc' = [pc EXCEPT ![c] = step]

\* c goes on to reject, which deletes first; x is what it read.
Refuse(c, reason, x) == /\ Goto(c, "delete")
                        /\ why' = [why EXCEPT ![c] = reason]
                        /\ found' = [found EXCEPT ![c] = x]

Return(c, what) == /\ Goto(c, "done")
                   /\ answer' = [answer EXCEPT ![c] = what]
-----------------------------------------------------------------------------
(* Stage, and the bodies that reach the quarantine key.                    *)

Stage(i) ==
  /\ state[i] = "none"
  /\ \E d \in Claims :
       /\ d.size >= MinUploadBytes /\ d.size <= MaxUploadBytes /\ d.type \in Accepted
       /\ claim' = [claim EXCEPT ![i] = d]
  /\ state' = [state EXCEPT ![i] = "staged"]
  /\ expires' = [expires EXCEPT ![i] = now + StagingLifetime]
  /\ UNCHANGED <<setup, now, checksum, objects, request, sweep, overtaken>>

\* A Put of x under i's quarantine key begins; it may come to nothing (PutFails).
Send(i, x) == /\ x \notin inflight[i] /\ Cardinality(inflight[i]) < MaxInFlight
              /\ inflight' = [inflight EXCEPT ![i] = @ \cup {x}]

\* A client uses its presigned URL, which the service honours while it is
\* valid and whatever has become of the row.  The length and type are signed;
\* no more than the application, the model does not count on that.
PresignedPut(i, x) ==
  /\ backend = "s3" /\ state[i] # "none"
  /\ now + StagingLifetime <= expires[i] + PresignedLifetime
  /\ Send(i, x)
  /\ UNCHANGED <<setup, now, row, quarantine, final, request, sweep, overtaken>>

\* Write up to Put.  The reader is cut one byte over the declared size; S3's
\* Put fails unless the length is the declared one.
Write(i, x) ==
  LET most == claim[i].size + 1
      body == [x EXCEPT !.size = IF @ < most THEN @ ELSE most]
  IN  /\ state[i] = "staged"
      /\ backend = "s3" => body.size = claim[i].size
      /\ Send(i, body)
      /\ UNCHANGED <<setup, now, row, quarantine, final, request, sweep, overtaken>>

\* A Finalize that has read the object and not finished with it.
Judging == {"scan", "move", "copied", "mark", "reject"}

\* A verdict on i has been reached or is being reached.
Judged(i) == \/ state[i] \in Verdicts
             \/ \E c \in Calls : target[c] = i /\ pc[c] \in Judging
             \/ \E s \in Sweepers : i \in cleared[s]

\* Put completes, by a rename or in the service, and replaces what was there.
PutLands(i, x) ==
  /\ x \in inflight[i]
  /\ inflight' = [inflight EXCEPT ![i] = @ \ {x}]
  /\ quarantine' = [quarantine EXCEPT ![i] = x]
  /\ overtaken' = [overtaken EXCEPT ![i] = @ \/ Judged(i)]
  /\ UNCHANGED <<setup, now, row, final, request, sweep>>

PutFails(i, x) ==
  /\ x \in inflight[i]
  /\ inflight' = [inflight EXCEPT ![i] = @ \ {x}]
  /\ UNCHANGED <<setup, now, row, quarantine, final, request, sweep, overtaken>>
-----------------------------------------------------------------------------
(* Finalize.                                                               *)

\* load, the state and the staging window.
BeginFinalize(c) ==
  /\ pc[c] = "idle" /\ state[target[c]] = "staged"
  /\ IF now > expires[target[c]]
       THEN Refuse(c, "elapsed", NoObject)
       ELSE Goto(c, "measure") /\ UNCHANGED <<why, found>>
  /\ UNCHANGED <<setup, now, row, objects, target, answer, sweep, overtaken>>

\* The checks of what was measured against the limits and the claim.
Passes(x, d) == /\ x.size <= MaxUploadBytes /\ x.size <= d.size /\ x.size # 0
                /\ x.type \in Accepted /\ x.type = d.type

Measure(c) ==
  LET x == quarantine[target[c]] IN
  /\ pc[c] = "measure"
  /\ CASE x = NoObject -> Refuse(c, "missing", x)
       [] x # NoObject /\ ~Passes(x, claim[target[c]]) -> Refuse(c, "unacceptable", x)
       [] OTHER -> /\ found' = [found EXCEPT ![c] = x]
                   /\ Goto(c, IF scanner THEN "scan" ELSE "move")
                   /\ UNCHANGED why
  /\ UNCHANGED <<setup, now, row, objects, target, answer, sweep, overtaken>>

\* Mutant of Scan: an object that could not be scanned is let through.
ScanFailsOpen(c) ==
  LET x == quarantine[target[c]] IN
  /\ pc[c] = "scan"
  /\ \/ Goto(c, "move") /\ UNCHANGED <<why, found>>
     \/ x # NoObject /\ ~x.clean /\ Refuse(c, "scanner", x)
  /\ UNCHANGED <<setup, now, row, objects, target, answer, sweep, overtaken>>

\* scan reads the object again.  Every error but ErrScanUnavailable refuses the
\* upload, also the store's when the object cannot be read.
Scan(c) ==
  LET x == quarantine[target[c]] IN
  /\ pc[c] = "scan"
  /\ \/ /\ x # NoObject /\ x.clean
        /\ Goto(c, "move") /\ UNCHANGED <<why, found>>
     \/ x # NoObject /\ ~x.clean /\ Refuse(c, "scanner", x)
     \/ Refuse(c, "scanner", NoObject)
  /\ UNCHANGED <<setup, now, row, objects, target, answer, sweep, overtaken>>

\* Mutant of Move: as in Delete, a key that is not there is not an error.
MoveForgives(c) ==
  /\ pc[c] = "move"
  /\ final' = [final EXCEPT ![target[c]] = IF quarantine[target[c]] = NoObject
                                             THEN @ ELSE quarantine[target[c]]]
  /\ quarantine' = [quarantine EXCEPT ![target[c]] = NoObject]
  /\ Goto(c, "mark")
  /\ UNCHANGED <<setup, now, row, inflight, target, found, why, answer, sweep, overtaken>>

\* Store.Move: a rename, or S3's copy.  Without a source it is an error (Fail).
Move(c) ==
  /\ pc[c] = "move" /\ quarantine[target[c]] # NoObject
  /\ final' = [final EXCEPT ![target[c]] = quarantine[target[c]]]
  /\ IF backend = "local"
       THEN /\ quarantine' = [quarantine EXCEPT ![target[c]] = NoObject]
            /\ Goto(c, "mark")
       ELSE Goto(c, "copied") /\ UNCHANGED quarantine
  /\ UNCHANGED <<setup, now, row, inflight, target, found, why, answer, sweep, overtaken>>

\* Mutant of MoveDeletes: an error of the delete is not returned.
MoveDeletesAtBest(c) ==
  /\ pc[c] = "copied"
  /\ \E x \in {NoObject, quarantine[target[c]]} :
       quarantine' = [quarantine EXCEPT ![target[c]] = x]
  /\ Goto(c, "mark")
  /\ UNCHANGED <<setup, now, row, final, inflight, target, found, why, answer, sweep,
                 overtaken>>

\* S3's Move deletes the source after the copy.
MoveDeletes(c) ==
  /\ pc[c] = "copied"
  /\ quarantine' = [quarantine EXCEPT ![target[c]] = NoObject]
  /\ Goto(c, "mark")
  /\ UNCHANGED <<setup, now, row, final, inflight, target, found, why, answer, sweep,
                 overtaken>>

\* MarkUploadAvailable.  No staged row is an error; the answer to a commit may
\* be lost.
MarkAvailable(c) ==
  /\ pc[c] = "mark"
  /\ IF state[target[c]] = "staged"
       THEN /\ state' = [state EXCEPT ![target[c]] = "available"]
            /\ checksum' = [checksum EXCEPT ![target[c]] = found[c]]
            /\ \E what \in {"available", "error"} : Return(c, what)
       ELSE Return(c, "error") /\ UNCHANGED <<state, checksum>>
  /\ UNCHANGED <<setup, now, claim, expires, objects, target, found, why, sweep,
                 overtaken>>

\* reject: the object, then the row.
RejectDeletes(c) ==
  /\ pc[c] = "delete"
  /\ quarantine' = [quarantine EXCEPT ![target[c]] = NoObject]
  /\ Goto(c, "reject")
  /\ UNCHANGED <<setup, now, row, final, inflight, target, found, why, answer, sweep,
                 overtaken>>

\* MarkUploadRejected, in the same way.
MarkRejected(c) ==
  /\ pc[c] = "reject"
  /\ IF state[target[c]] = "staged"
       THEN /\ state' = [state EXCEPT ![target[c]] = "rejected"]
            /\ \E what \in {"rejected", "error"} : Return(c, what)
       ELSE Return(c, "error") /\ UNCHANGED state
  /\ UNCHANGED <<setup, now, claim, expires, checksum, objects, target, found, why,
                 sweep, overtaken>>

\* The store or the database fails, the scanner is unavailable, or the process
\* dies: the next step is not taken.
Fail(c) ==
  /\ pc[c] \notin {"idle", "done"}
  /\ Return(c, "error")
  /\ UNCHANGED <<setup, now, row, objects, target, found, why, sweep, overtaken>>
-----------------------------------------------------------------------------
(* Sweep.                                                                  *)

\* Mutant of Expired: only the rows whose object is there are listed.
ExpiredStored == {i \in Ids : /\ state[i] = "staged" /\ expires[i] <= now
                              /\ quarantine[i] # NoObject}

\* The rows ListExpiredStagedUploads selects.
Expired == {i \in Ids : state[i] = "staged" /\ expires[i] <= now}

\* ListExpiredStagedUploads: the SweepBatch oldest.
SweepLists(s) ==
  /\ batch[s] = {} /\ cleared[s] = {} /\ Expired # {}
  /\ \E b \in SUBSET Expired :
       /\ Cardinality(b) = SweepBatch \/ (b = Expired /\ Cardinality(b) < SweepBatch)
       /\ \A i \in b, j \in Expired \ b : expires[i] <= expires[j]
       /\ batch' = [batch EXCEPT ![s] = b]
  /\ UNCHANGED <<setup, now, row, objects, request, cleared, overtaken>>

\* The next row of the batch loses its object.
SweepDeletes(s, i) ==
  /\ cleared[s] = {} /\ i \in batch[s]
  /\ \A j \in batch[s] : expires[i] <= expires[j]
  /\ quarantine' = [quarantine EXCEPT ![i] = NoObject]
  /\ cleared' = [cleared EXCEPT ![s] = {i}]
  /\ UNCHANGED <<setup, now, row, final, inflight, request, batch, overtaken>>

\* Mutant of SweepMarks: the update does not look at the state.
SweepMarksAnyRow(s, i) ==
  /\ i \in cleared[s]
  /\ state' = [state EXCEPT ![i] = "expired"]
  /\ batch' = [batch EXCEPT ![s] = @ \ {i}]
  /\ cleared' = [cleared EXCEPT ![s] = {}]
  /\ UNCHANGED <<setup, now, claim, expires, checksum, objects, request, overtaken>>

\* MarkUploadExpired; a row that is staged no longer is passed over.
SweepMarks(s, i) ==
  /\ i \in cleared[s]
  /\ state' = [state EXCEPT ![i] = IF @ = "staged" THEN "expired" ELSE @]
  /\ batch' = [batch EXCEPT ![s] = @ \ {i}]
  /\ cleared' = [cleared EXCEPT ![s] = {}]
  /\ UNCHANGED <<setup, now, claim, expires, checksum, objects, request, overtaken>>

\* The first error, or a crash, ends the run of the sweep.
SweepFails(s) ==
  /\ batch[s] # {}
  /\ batch' = [batch EXCEPT ![s] = {}]
  /\ cleared' = [cleared EXCEPT ![s] = {}]
  /\ UNCHANGED <<setup, now, row, objects, request, overtaken>>
-----------------------------------------------------------------------------
Tick == /\ now < MaxTime
        /\ now' = now + 1
        /\ UNCHANGED <<setup, row, objects, request, sweep, overtaken>>

Next == \/ \E i \in Ids : \/ Stage(i)
                          \/ \E x \in Bodies : PresignedPut(i, x) \/ Write(i, x)
                          \/ \E x \in inflight[i] : PutLands(i, x) \/ PutFails(i, x)
        \/ \E c \in Calls : \/ BeginFinalize(c) \/ Measure(c) \/ Scan(c) \/ Move(c)
                            \/ MoveDeletes(c) \/ MarkAvailable(c)
                            \/ RejectDeletes(c) \/ MarkRejected(c) \/ Fail(c)
        \/ \E s \in Sweepers : \/ SweepLists(s) \/ SweepFails(s)
                               \/ \E i \in Ids : SweepDeletes(s, i) \/ SweepMarks(s, i)
        \/ Tick

Spec == Init /\ [][Next]_vars

\* The sweep is a periodic job: it keeps being run, and a store or a database
\* that fails does not fail for ever.  No request is obliged to go on.
FairSpec == /\ Spec
            /\ \A s \in Sweepers : WF_vars(SweepLists(s))
            /\ \A s \in Sweepers, i \in Ids : /\ SF_vars(SweepDeletes(s, i))
                                              /\ SF_vars(SweepMarks(s, i))
-----------------------------------------------------------------------------
TypeOK ==
  /\ backend \in {"local", "s3"} /\ scanner \in BOOLEAN /\ now \in Nat
  /\ state \in [Ids -> {"none", "staged"} \cup Verdicts]
  /\ claim \in [Ids -> [size : Nat, type : Types \cup {"none"}]]
  /\ expires \in [Ids -> Nat]
  /\ checksum \in [Ids -> Content \cup {NoObject}]
  /\ quarantine \in [Ids -> Content \cup {NoObject}]
  /\ final \in [Ids -> Content \cup {NoObject}]
  /\ inflight \in [Ids -> SUBSET Content]
  /\ pc \in [Calls -> Steps] /\ target \in [Calls -> Ids]
  /\ found \in [Calls -> Content \cup {NoObject}]
  /\ why \in [Calls -> {"none", "elapsed", "missing", "unacceptable", "scanner"}]
  /\ answer \in [Calls -> {"none", "available", "rejected", "error"}]
  /\ batch \in [Sweepers -> SUBSET Ids] /\ cleared \in [Sweepers -> SUBSET Ids]
  /\ overtaken \in [Ids -> BOOLEAN]

\* A row says available only of an object that is at its final key, whatever
\* other requests and the sweep did meanwhile and wherever a process died.
AvailableHasObject == \A i \in Ids : state[i] = "available" => final[i] # NoObject

\* What is served is what was verified: unless a body arrived while a verdict
\* was being reached or after it, the object of an available row is the one
\* that was hashed, it passed the checks, and the scanner found it clean.
ServedIsVerified ==
  \A i \in Ids : state[i] = "available" /\ ~overtaken[i] =>
    /\ final[i] = checksum[i]
    /\ Passes(checksum[i], claim[i])
    /\ scanner => checksum[i].clean

\* No row that nothing will look at again leaves an object in quarantine,
\* unless a body arrived while or after the verdict was reached.
QuarantineIsEmptied ==
  \A i \in Ids : state[i] \in Verdicts /\ ~overtaken[i] => quarantine[i] = NoObject

\* What Finalize answered stays true, whichever other request or sweep reaches
\* the row: the upload it called available is, with what it measured, and the
\* upload it called refused is rejected.
AnswerStands ==
  \A c \in Calls :
    /\ answer[c] = "available" => /\ state[target[c]] = "available"
                                  /\ checksum[target[c]] = found[c]
    /\ answer[c] = "rejected" => state[target[c]] = "rejected"

\* A staged upload whose window has elapsed does not stay staged, also when
\* sweeps fail midway and the batch is smaller than the backlog.
AbandonedIsSwept ==
  \A i \in Ids : (state[i] = "staged" /\ expires[i] <= now) ~> state[i] \in Verdicts
-----------------------------------------------------------------------------
(* The inductive invariant behind the four safety properties.              *)

\* A call that has begun is about a row that exists, and has returned if it
\* has answered.
CallInv == \A c \in Calls : /\ pc[c] # "idle" => state[target[c]] # "none"
                            /\ answer[c] # "none" => pc[c] = "done"

\* Whoever is about to write a verdict has emptied the quarantine key, and
\* nothing but a body that arrived since has filled it.
EmptiedInv ==
  /\ \A c \in Calls : pc[c] \in {"mark", "reject"} /\ ~overtaken[target[c]] =>
                       quarantine[target[c]] = NoObject
  /\ \A s \in Sweepers : \A i \in cleared[s] : ~overtaken[i] => quarantine[i] = NoObject

\* What a call has measured passed the checks and, unless a body arrived since,
\* is what it moves and what it has moved; what it has scanned is clean.
MeasuredInv ==
  \A c \in Calls :
    LET i == target[c] IN
    /\ pc[c] \in {"scan", "move", "copied", "mark"} =>
         found[c] \in Content /\ Passes(found[c], claim[i])
    /\ pc[c] \in {"copied", "mark"} => final[i] # NoObject
    /\ ~overtaken[i] =>
         /\ pc[c] \in {"scan", "move", "copied"} => quarantine[i] \in {found[c], NoObject}
         /\ pc[c] \in {"copied", "mark"} => final[i] = found[c]
         /\ pc[c] \in {"move", "copied", "mark"} /\ scanner => found[c].clean

\* The ledger, the two keys and the calls in progress agree.
IInv == /\ TypeOK /\ CallInv /\ EmptiedInv /\ MeasuredInv
        /\ AvailableHasObject /\ ServedIsVerified /\ QuarantineIsEmptied /\ AnswerStands
=============================================================================
