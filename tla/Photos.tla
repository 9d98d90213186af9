------------------------------- MODULE Photos -------------------------------
(***************************************************************************)
(* The photo a resource of the reference application shows: AttachPhoto    *)
(* (features/resource/photo.go) on top of the life of an upload (module    *)
(* Uploads), of which it sees only the state.                              *)
(***************************************************************************)
EXTENDS Integers

CONSTANTS Equipment, Editors, Objects, Nothing

VARIABLES inService,  \* inService[r]: resources.retired_at IS NULL
          photo,      \* photo[r]: resources.photo_key
          object,     \* object[u]: the state of an upload
          editor      \* editor[e]: how far AttachPhoto has come

pvars == <<inService, photo, object, editor>>

PInit ==
  /\ inService = [r \in Equipment |-> TRUE] /\ photo = [r \in Equipment |-> Nothing]
  /\ object = [u \in Objects |-> "staged"]
  /\ editor = [e \in Editors |-> [pc |-> "idle"]]

(* The resource is read, then the upload is finalized, then its key is
   recorded; each is a transaction of its own. *)
AttachPhoto(e) ==
  \E r \in Equipment, u \in Objects :
    /\ editor[e].pc = "idle" /\ inService[r]
    /\ editor' = [editor EXCEPT ![e] = [pc |-> "finalize", resource |-> r, upload |-> u]]
    /\ UNCHANGED <<inService, photo, object>>

(* Finalize accepts the object, refuses it, or cannot decide (a scanner that
   did not run) and leaves it staged; a verdict stands. *)
\* Mutant: an upload that could not be checked is recorded all the same.
FinalizeUnchecked(e) ==
  /\ editor[e].pc = "finalize"
  /\ editor' = [editor EXCEPT ![e].pc = IF object[editor[e].upload] = "rejected"
                                          THEN "idle" ELSE "record"]
  /\ UNCHANGED <<inService, photo, object>>
Finalize(e) ==
  \E verdict \in {"available", "rejected", "staged"} :
    LET u == editor[e].upload
    IN /\ editor[e].pc = "finalize"
       /\ object[u] /= "staged" => verdict = object[u]
       /\ object' = [object EXCEPT ![u] = verdict]
       /\ editor' = [editor EXCEPT ![e].pc = IF verdict = "available" THEN "record" ELSE "idle"]
       /\ UNCHANGED <<inService, photo>>

(* SetPhoto asks only that the row exists; an empty key removes the photo. *)
SetPhoto(e) ==
  /\ editor[e].pc = "record"
  /\ photo' = [photo EXCEPT ![editor[e].resource] = editor[e].upload]
  /\ editor' = [editor EXCEPT ![e] = [pc |-> "idle"]]
  /\ UNCHANGED <<inService, object>>
RemovePhoto(r) ==
  /\ photo[r] /= Nothing /\ photo' = [photo EXCEPT ![r] = Nothing]
  /\ UNCHANGED <<inService, object, editor>>

RetireResource(r) ==
  /\ inService[r] /\ inService' = [inService EXCEPT ![r] = FALSE]
  /\ UNCHANGED <<photo, object, editor>>

(* A staged upload whose window has passed is swept. *)
Sweep(u) ==
  /\ object[u] = "staged" /\ object' = [object EXCEPT ![u] = "rejected"]
  /\ UNCHANGED <<inService, photo, editor>>

PNext ==
  \/ \E e \in Editors : AttachPhoto(e) \/ Finalize(e) \/ SetPhoto(e)
  \/ \E r \in Equipment : RemovePhoto(r) \/ RetireResource(r)
  \/ \E u \in Objects : Sweep(u)

PSpec == PInit /\ [][PNext]_pvars

-----------------------------------------------------------------------------
\* A resource never shows an upload that was not accepted, though the upload
\* is swept, refused or finalized by another editor between the steps of
\* AttachPhoto ("there would be a window in which a resource pointed at a
\* quarantined object").
PhotoIsServable ==
  \A r \in Equipment : photo[r] /= Nothing => object[photo[r]] = "available"
=============================================================================
