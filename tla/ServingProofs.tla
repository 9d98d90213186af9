--------------------------- MODULE ServingProofs ---------------------------
(***************************************************************************)
(* Proofs about what a generated application serves: the photos of         *)
(* resources (Photos), the readiness probe (Probes), an account with its   *)
(* sessions and its second factor (Accounts) and the listings read page by *)
(* page (Catalogue), for every number of editors, uploads, resources,      *)
(* checks, requests, sessions, challenges, rows and readers.               *)
(***************************************************************************)
EXTENDS Accounts, Photos, Probes, Catalogue, FiniteSetTheorems, TLAPS

-----------------------------------------------------------------------------
(* Photos: an editor that is about to record an upload has seen it accepted,
   and an upload that was accepted stays accepted. *)
EditorType ==
  [pc : {"idle"}]
  \cup [pc : {"idle", "finalize", "record"}, resource : Equipment, upload : Objects]
PhotosInv ==
  /\ photo \in [Equipment -> Objects \cup {Nothing}]
  /\ object \in [Objects -> {"staged", "available", "rejected"}]
  /\ editor \in [Editors -> EditorType]
  /\ \A e \in Editors : editor[e].pc = "record" => object[editor[e].upload] = "available"
  /\ PhotoIsServable

(* A resource never shows an upload that was not accepted, though uploads are
   finalized and swept between the steps of AttachPhoto by any number of editors. *)
THEOREM PhotoIsServableHolds == PSpec => []PhotoIsServable
<1>1. PInit => PhotosInv
  BY DEF PInit, PhotosInv, PhotoIsServable, EditorType
<1>2. PhotosInv /\ [PNext]_pvars => PhotosInv'
  <2> SUFFICES ASSUME PhotosInv, [PNext]_pvars PROVE PhotosInv'
    OBVIOUS
  <2> USE DEF PhotosInv, PhotoIsServable
  <2>1. ASSUME NEW e \in Editors, AttachPhoto(e) PROVE PhotosInv'
    BY <2>1 DEF AttachPhoto, EditorType
  <2>2. ASSUME NEW e \in Editors, Finalize(e) PROVE PhotosInv'
    <3>1. PICK verdict \in {"available", "rejected", "staged"} :
            /\ editor[e].pc = "finalize"
            /\ object[editor[e].upload] /= "staged" => verdict = object[editor[e].upload]
            /\ object' = [object EXCEPT ![editor[e].upload] = verdict]
            /\ editor' = [editor EXCEPT ![e].pc = IF verdict = "available" THEN "record" ELSE "idle"]
            /\ UNCHANGED <<inService, photo>>
      BY <2>2 DEF Finalize
    <3>2. editor[e].upload \in Objects /\ editor[e].resource \in Equipment
      BY <3>1 DEF EditorType
    <3>3. editor' \in [Editors -> EditorType]
      BY <3>1, <3>2 DEF EditorType
    <3>4. \A u \in Objects : object[u] = "available" => object'[u] = "available"
      BY <3>1, <3>2
    <3>5. \A d \in Editors : editor[d].pc = "record" => editor[d].upload \in Objects
      BY DEF EditorType
    <3>6. \A d \in Editors : editor'[d].pc = "record" => object'[editor'[d].upload] = "available"
      BY <3>1, <3>2, <3>4, <3>5
    <3> QED BY <3>1, <3>2, <3>3, <3>4, <3>6
  <2>3. ASSUME NEW e \in Editors, SetPhoto(e) PROVE PhotosInv'
    <3>1. editor[e].pc = "record" /\ editor[e].upload \in Objects /\ editor[e].resource \in Equipment
      BY <2>3 DEF SetPhoto, EditorType
    <3> QED BY <2>3, <3>1 DEF SetPhoto, EditorType
  <2>4. ASSUME NEW r \in Equipment, RemovePhoto(r) PROVE PhotosInv'
    BY <2>4 DEF RemovePhoto
  <2>5. ASSUME NEW r \in Equipment, RetireResource(r) PROVE PhotosInv'
    BY <2>5 DEF RetireResource
  <2>6. ASSUME NEW u \in Objects, Sweep(u) PROVE PhotosInv'
    BY <2>6 DEF Sweep
  <2>7. CASE UNCHANGED pvars
    BY <2>7 DEF pvars
  <2> QED BY <2>1, <2>2, <2>3, <2>4, <2>5, <2>6, <2>7 DEF PNext
<1>3. PhotosInv => PhotoIsServable
  BY DEF PhotosInv
<1> QED BY <1>1, <1>2, <1>3, PTL DEF PSpec

-----------------------------------------------------------------------------
(* Probes: what a request has received as healthy has passed while it waited,
   and a request that asked the gate at the start found it open. *)
ProbeType ==
  [pc : {"idle", "probing", "ready", "unready"}, view : {"public", "report"},
   check : [Checks -> {"running", "healthy", "unhealthy"}],
   result : [Checks -> {"none", "healthy", "unhealthy"}],
   passed : SUBSET Checks, open : BOOLEAN]
ProbeInv(r) ==
  /\ r.pc = "idle" => r = Quiet
  /\ \A c \in Checks : r.check[c] = "healthy" \/ r.result[c] = "healthy" => c \in r.passed
  /\ r.pc = "probing" /\ r.view = "public" => r.open
  /\ r.pc = "ready" => r.open /\ r.passed = Checks
ProbesInv ==
  /\ gate \in BOOLEAN
  /\ probe \in [Probers -> ProbeType]
  /\ \A q \in Probers : ProbeInv(probe[q])

(* A step of one request is a step of its record. *)
LEMMA ProbeStep ==
  ASSUME ProbesInv, NEW q \in Probers, NEW r \in ProbeType, ProbeInv(r), gate' = gate,
         probe' = [probe EXCEPT ![q] = r]
  PROVE  ProbesInv'
BY DEF ProbesInv

LEMMA QuietIsBlank == Quiet \in ProbeType /\ ProbeInv(Quiet)
BY DEF Quiet, ProbeType, ProbeInv

(* An instance is called ready only if, while that very request waited, the gate
   was open and every check passed; a check that hangs, fails or is unread when
   the overall timeout fires is never taken for healthy (NewReadinessHandler,
   Probe). *)
THEOREM ReadyIsEarnedHolds == HSpec => []ReadyIsEarned
<1>1. HInit => ProbesInv
  BY QuietIsBlank DEF HInit, ProbesInv
<1>2. ProbesInv /\ [HNext]_probevars => ProbesInv'
  <2> SUFFICES ASSUME ProbesInv, [HNext]_probevars PROVE ProbesInv'
    OBVIOUS
  <2>1. CASE Set
    BY <2>1 DEF Set, ProbesInv
  <2>2. ASSUME NEW c \in Checks, DependencyChanges(c) PROVE ProbesInv'
    BY <2>2 DEF DependencyChanges, ProbesInv
  <2>3. ASSUME NEW q \in Probers, NewReadinessHandler(q) PROVE ProbesInv'
    <3>1. probe[q] = Quiet
      BY <2>3 DEF NewReadinessHandler, ProbesInv, ProbeInv
    <3> DEFINE r == [Quiet EXCEPT !.pc = "probing", !.open = TRUE]
               n == [Quiet EXCEPT !.pc = "unready"]
    <3>2. r \in ProbeType /\ ProbeInv(r) /\ n \in ProbeType /\ ProbeInv(n)
      BY DEF ProbeType, ProbeInv, Quiet
    <3>3. probe' = [probe EXCEPT ![q] = r] \/ probe' = [probe EXCEPT ![q] = n]
      BY <2>3, <3>1 DEF NewReadinessHandler, writeProbeResponse, ProbesInv
    <3>4. gate' = gate
      BY <2>3 DEF NewReadinessHandler
    <3> HIDE DEF r, n
    <3> QED BY <3>2, <3>3, <3>4, ProbeStep
  <2>4. ASSUME NEW q \in Probers, NewReadinessReportHandler(q) PROVE ProbesInv'
    <3>1. probe[q] = Quiet
      BY <2>4 DEF NewReadinessReportHandler, ProbesInv, ProbeInv
    <3> DEFINE r == [Quiet EXCEPT !.pc = "probing", !.view = "report"]
    <3>2. r \in ProbeType /\ ProbeInv(r)
      BY DEF ProbeType, ProbeInv, Quiet
    <3>3. probe' = [probe EXCEPT ![q] = r]
      BY <2>4, <3>1 DEF NewReadinessReportHandler, ProbesInv
    <3>4. gate' = gate
      BY <2>4 DEF NewReadinessReportHandler
    <3> HIDE DEF r
    <3> QED BY <3>2, <3>3, <3>4, ProbeStep
  <2>5. ASSUME NEW q \in Probers, Probe(q) PROVE ProbesInv'
    <3> DEFINE o == probe[q]
               r == [o EXCEPT !.pc = IF Report(q) /\ (o.view = "report" => gate)
                                     THEN "ready" ELSE "unready",
                              !.open = @ \/ gate]
    <3>1. o \in ProbeType /\ ProbeInv(o) /\ o.pc = "probing"
      BY <2>5 DEF Probe, ProbesInv
    <3>2. gate \in BOOLEAN /\ gate' = gate
      BY <2>5 DEF Probe, ProbesInv
    <3>3. Report(q) => Checks = o.passed
      BY <3>1 DEF Report, ProbeInv, ProbeType
    <3>4. r \in ProbeType /\ ProbeInv(r)
      BY <3>1, <3>2, <3>3 DEF ProbeType, ProbeInv
    <3>5. probe' = [probe EXCEPT ![q] = r]
      BY <2>5 DEF Probe, ProbesInv
    <3> HIDE DEF o, r
    <3> QED BY <3>2, <3>4, <3>5, ProbeStep
  <2>6. ASSUME NEW q \in Probers, NextRequest(q) PROVE ProbesInv'
    BY <2>6, QuietIsBlank, ProbeStep DEF NextRequest
  <2>7. ASSUME NEW q \in Probers, NEW c \in Checks, runCheck(q, c) PROVE ProbesInv'
    <3> DEFINE o == probe[q]
               r == [o EXCEPT !.check[c] = "healthy", !.passed = @ \cup {c}]
               n == [o EXCEPT !.check[c] = "unhealthy"]
    <3>1. o \in ProbeType /\ ProbeInv(o) /\ o.pc = "probing" /\ gate' = gate
      BY <2>7 DEF runCheck, ProbesInv
    <3>2. r \in ProbeType /\ ProbeInv(r)
      BY <3>1 DEF ProbeType, ProbeInv
    <3>3. n \in ProbeType /\ ProbeInv(n)
      BY <3>1 DEF ProbeType, ProbeInv
    <3>4. probe' = [probe EXCEPT ![q] = r] \/ probe' = [probe EXCEPT ![q] = n]
      <4>1. probe \in [Probers -> ProbeType]
        BY DEF ProbesInv
      <4>2. CASE probe' = [probe EXCEPT ![q].check[c] = "unhealthy"]
        BY <4>1, <4>2
      <4>3. CASE probe' = [probe EXCEPT
                   ![q].check[c] = IF up[c] THEN "healthy" ELSE "unhealthy",
                   ![q].passed = IF up[c] THEN @ \cup {c} ELSE @]
        <5>1. CASE up[c]
          BY <4>1, <4>3, <5>1
        <5>2. CASE ~ up[c]
          <6>1. [o EXCEPT !.check[c] = "unhealthy", !.passed = @] = n
            BY <3>1 DEF ProbeType
          <6>2. probe' = [probe EXCEPT ![q] = [o EXCEPT !.check[c] = "unhealthy", !.passed = @]]
            BY <4>1, <4>3, <5>2
          <6> QED BY <6>1, <6>2
        <5> QED BY <5>1, <5>2
      <4> QED BY <2>7, <4>2, <4>3 DEF runCheck
    <3> HIDE DEF o, r, n
    <3> QED BY <3>1, <3>2, <3>3, <3>4, ProbeStep
  <2>8. ASSUME NEW q \in Probers, NEW c \in Checks, Receive(q, c) PROVE ProbesInv'
    <3> DEFINE o == probe[q]
               r == [o EXCEPT !.result[c] = o.check[c]]
    <3>1. /\ o \in ProbeType /\ ProbeInv(o) /\ o.pc = "probing" /\ gate' = gate
          /\ o.check[c] \in {"healthy", "unhealthy"}
      BY <2>8 DEF Receive, ProbesInv
    <3>2. r \in ProbeType /\ ProbeInv(r)
      BY <3>1 DEF ProbeType, ProbeInv
    <3>3. probe' = [probe EXCEPT ![q] = r]
      BY <2>8, <3>1 DEF Receive, ProbesInv
    <3> HIDE DEF o, r
    <3> QED BY <3>1, <3>2, <3>3, ProbeStep
  <2>9. CASE UNCHANGED probevars
    BY <2>9 DEF probevars, ProbesInv
  <2> QED
    BY <2>1, <2>2, <2>3, <2>4, <2>5, <2>6, <2>7, <2>8, <2>9 DEF HNext
<1>3. ProbesInv => ReadyIsEarned
  BY DEF ProbesInv, ProbeInv, ReadyIsEarned
<1> QED BY <1>1, <1>2, <1>3, PTL DEF HSpec

-----------------------------------------------------------------------------
(* Accounts. *)
USE AccountsAssumption

(* A step after which every session is one that was there, perhaps touched,
   proven or ended. *)
Fades ==
  \A s \in Sids :
    /\ sess'[s] = None <=> sess[s] = None
    /\ sess[s] /= None =>
         /\ sess'[s].root = sess[s].root /\ sess'[s].with = sess[s].with
         /\ sess'[s].began = sess[s].began /\ sess'[s].expires = sess[s].expires
         /\ ~ sess'[s].revoked => ~ sess[s].revoked
    /\ Held(s) => sess'[s] = sess[s]

(* No rotation begins or goes on, no code is accepted and no wrong one is counted. *)
NoRotation(q) == proc'[q].pc \notin {"end", "commit"}
NoCode(q) == proc'[q].pc /= "close" /\ (proc'[q].pc = "issue" => proc'[q].code = None)
SameCount(q) ==
  proc'[q].pc = "count" \/ proc[q].pc = "count" =>
    proc'[q].pc = proc[q].pc /\ proc'[q].chal = proc[q].chal

(* What ends for good has no token that works. *)
Over(root) == \A s \in Sids : Live(s) => sess[s].root /= root
EndedKept == \A root \in ended' :
  root \in ended \/ (root \in Sids /\ sess[root] /= None /\ Over(root)')

(* A rotation that holds a session goes on holding it. *)
LEMMA HeldKept ==
  ASSUME HeldInv,
         \A q \in Requests : proc'[q].pc = "commit" =>
           proc'[q] = proc[q] /\ sess'[proc[q].sid] = sess[proc[q].sid]
  PROVE  HeldInv'
BY DEF HeldInv, Live

(* The sessions, when none is added. *)
LEMMA SessionsFade ==
  ASSUME IInv, TypeOK', Fades, EndedKept,
         \A q \in Requests : proc'[q] = proc[q] \/ NoRotation(q)
  PROVE  SessionsInv' /\ HeldInv' /\ OneTokenPerSignIn' /\ EndedForGood'
<1>1. TypeOK /\ SessionsInv /\ HeldInv /\ OneTokenPerSignIn /\ EndedForGood
      /\ \A q \in Requests : StepInv(proc[q])
  BY DEF IInv
<1>2. \A s \in Sids : sess[s] /= None => sess[s].root \in Sids
  BY <1>1 DEF TypeOK, SessionType
<1>3. \A s \in Sids : /\ Live(s)' => Live(s)
                      /\ sess'[s] /= None <=> sess[s] /= None
                      /\ Live(s)' => sess'[s].root = sess[s].root
  BY DEF Fades, Live
<1>4. \A root : Over(root) => Over(root)'
  BY <1>3 DEF Over
<1>5. OneTokenPerSignIn'
  BY <1>1, <1>3 DEF OneTokenPerSignIn, Fades
<1>6. \A root \in ended' : root \in Sids /\ sess[root] /= None /\ Over(root)'
  <2>1. \A root \in ended : root \in Sids /\ sess[root] /= None /\ Over(root)
    BY <1>1 DEF TypeOK, SessionsInv, EndedForGood, Over
  <2> QED BY <1>4, <2>1 DEF EndedKept
<1>7. EndedForGood'
  BY <1>6 DEF EndedForGood, Over
<1>8. \A s \in Sids : sess'[s] /= None => sess'[sess'[s].root] /= None
  BY <1>1, <1>2, <1>3 DEF SessionsInv, Fades
<1>9. HeldInv'
  <2>1. ASSUME NEW q \in Requests, proc'[q].pc = "commit"
        PROVE  proc'[q] = proc[q] /\ sess'[proc[q].sid] = sess[proc[q].sid]
    <3>1. proc'[q] = proc[q] /\ proc[q].sid \in Sids /\ Held(proc[q].sid)
      BY <1>1, <2>1 DEF NoRotation, StepInv, Held
    <3> QED BY <3>1 DEF Fades
  <2> QED BY <1>1, <2>1, HeldKept
<1>10. ASSUME NEW q \in Requests, proc'[q].pc \in {"end", "commit"}
       PROVE  /\ proc'[q] = proc[q] /\ proc[q].sid \in Sids /\ proc[q].new \in Sids
              /\ sess[proc[q].sid] /= None /\ proc[q].row.root = sess[proc[q].sid].root
              /\ proc[q].row.with = sess[proc[q].sid].with
              /\ proc[q].row.expires <= proc[q].row.began + Absolute
              /\ sess[proc[q].new] = None
  BY <1>1, <1>10 DEF NoRotation, StepInv, SessionsInv, Rotating
<1>11. ASSUME NEW q \in Requests, proc'[q].pc \in {"end", "commit"}
       PROVE  /\ sess'[proc'[q].sid] /= None /\ proc'[q].row.root = sess'[proc'[q].sid].root
              /\ proc'[q].row.with = sess'[proc'[q].sid].with
              /\ proc'[q].row.expires <= proc'[q].row.began + Absolute
              /\ sess'[proc'[q].new] = None
              /\ \A o \in Requests \ {q} : proc'[o].pc \in {"end", "commit"}
                   => proc'[o].new /= proc'[q].new
  <2>1. proc'[q] = proc[q]
        /\ \A o \in Requests : proc'[o].pc \in {"end", "commit"} => proc'[o] = proc[o]
    BY <1>10, <1>11
  <2>2. \A o \in Requests \ {q} : proc'[o].pc \in {"end", "commit"}
          => proc'[o].new /= proc'[q].new
    BY <1>1, <1>11, <2>1 DEF SessionsInv, Rotating
  <2>3. /\ sess'[proc[q].sid] /= None /\ sess'[proc[q].new] = None
        /\ sess'[proc[q].sid].root = sess[proc[q].sid].root
        /\ sess'[proc[q].sid].with = sess[proc[q].sid].with
    BY <1>10, <1>11 DEF Fades
  <2> QED BY <1>10, <1>11, <2>1, <2>2, <2>3
<1>12. \A root \in ended' : sess'[root] /= None
  BY <1>3, <1>6
<1> QED
  BY <1>5, <1>7, <1>8, <1>9, <1>11, <1>12 DEF SessionsInv, Rotating

(* The codes, when none is accepted and no session is added. *)
LEMMA CodesFade ==
  ASSUME IInv, TypeOK', Fades,
         \A q \in Requests : proc'[q] = proc[q] \/ NoCode(q),
         factor' = factor \/ factor' = None, unused' \subseteq unused
  PROVE  CodesInv' /\ OneSignInPerCode'
<1>1. TypeOK /\ CodesInv /\ OneSignInPerCode
  BY DEF IInv
<1>2. \A s \in Sids : /\ sess'[s] /= None <=> sess[s] /= None
                      /\ sess[s] /= None => sess'[s].with = sess[s].with /\ sess'[s].root = sess[s].root
  BY DEF Fades
<1>3. OneSignInPerCode'
  BY <1>1, <1>2 DEF OneSignInPerCode
<1>5. \A q \in Requests : \/ proc'[q] = proc[q]
                          \/ ~ Closing(q)' /\ ~ Finishing(q)' /\ (proc'[q].pc = "issue" => proc'[q].code = None)
  BY DEF NoCode, Closing, Finishing
<1>7. ASSUME NEW s \in Sids, sess'[s] /= None, sess'[s].with /= None
      PROVE  Behind(sess[s].with)'
  BY <1>1, <1>2, <1>7 DEF CodesInv, Behind
<1>8. ASSUME NEW q \in Requests, Finishing(q)'
      PROVE  Behind(proc[q].code)' /\ Fresh(q, proc[q].code)'
  <2>1. proc'[q] = proc[q] /\ Finishing(q) /\ proc[q].code /= None
    BY <1>5, <1>8 DEF Finishing
  <2>2. Behind(proc[q].code) /\ Fresh(q, proc[q].code)
    BY <1>1, <2>1 DEF CodesInv
  <2>3. Behind(proc[q].code)'
    BY <2>1, <2>2 DEF Behind
  <2>4. Fresh(q, proc[q].code)'
    BY <1>2, <1>5, <2>1, <2>2 DEF Fresh
  <2> QED BY <2>3, <2>4
<1>9. ASSUME NEW q \in Requests, Closing(q)'
      PROVE  /\ Fresh(q, proc[q].code)'
             /\ proc'[q].code.kind = "totp" /\ factor' /= None => factor'.last < proc'[q].code.value
             /\ \A o \in Requests \ {q} : Closing(o)' =>
                  /\ proc'[o].code /= proc'[q].code
                  /\ proc'[q].code.kind = "recovery" \/ proc'[o].code.kind = "recovery"
  <2>1. proc'[q] = proc[q] /\ Closing(q) /\ proc[q].code /= None
    <3>1. proc'[q] = proc[q] /\ Closing(q)
      BY <1>5, <1>9 DEF Closing
    <3>2. proc[q].code \in CodeType
      BY <3>1 DEF IInv, StepInv, Closing
    <3>3. None \notin CodeType
      OBVIOUS
    <3> QED BY <3>1, <3>2, <3>3
  <2>2. Fresh(q, proc[q].code)'
    <3>1. Fresh(q, proc[q].code)
      BY <1>1, <2>1 DEF CodesInv
    <3> QED BY <1>2, <1>5, <2>1, <3>1 DEF Fresh
  <2>3. \A o \in Requests : Closing(o)' => proc'[o] = proc[o] /\ Closing(o)
    BY <1>5 DEF Closing
  <2> QED BY <1>1, <2>1, <2>2, <2>3 DEF CodesInv
<1> QED
  BY <1>3, <1>7, <1>8, <1>9 DEF CodesInv

(* The budget, when no wrong code is looked at and none is charged. *)
LEMMA CountingIsFinite ==
  ASSUME NEW k PROVE IsFiniteSet(Counting(k)) /\ Cardinality(Counting(k)) \in Nat
<1>1. Counting(k) \subseteq Requests
  BY DEF Counting
<1> QED BY <1>1, FS_Subset, FS_CardinalityType

LEMMA BudgetKept ==
  ASSUME IInv, TypeOK', guesses' = guesses, faults <= faults',
         \A q \in Requests : SameCount(q),
         \A k \in Chals : chal'[k] /= None =>
           \/ chal[k] /= None /\ chal'[k].attempts = chal[k].attempts
           \/ guesses[k] = 0 /\ chal'[k].attempts = 0
  PROVE  BudgetIsCounted'
<1>1. SUFFICES ASSUME NEW k \in Chals, chal'[k] /= None
               PROVE  /\ guesses'[k] <= chal'[k].attempts + Cardinality(Counting(k)') + faults'
                      /\ chal'[k].attempts < MaxChallengeAttempts
  BY DEF BudgetIsCounted
<1>2. Counting(k)' = Counting(k)
  BY DEF Counting, SameCount
<1>3. Cardinality(Counting(k)) \in Nat
  BY CountingIsFinite
<1>4. guesses[k] \in Nat /\ faults \in Nat /\ faults' \in Nat /\ chal'[k].attempts \in Nat
  BY <1>1 DEF IInv, TypeOK
<1>5. CASE chal[k] /= None /\ chal'[k].attempts = chal[k].attempts
  BY <1>2, <1>3, <1>4, <1>5 DEF IInv, BudgetIsCounted
<1>6. CASE guesses[k] = 0 /\ chal'[k].attempts = 0
  BY <1>2, <1>3, <1>4, <1>6
<1> QED BY <1>1, <1>5, <1>6

(* A request goes on to the state r of its record. *)
LEMMA Onward ==
  ASSUME IInv, NEW p \in Requests, NEW r \in ProcType, StepInv(r),
         proc' = [proc EXCEPT ![p] = r]
  PROVE  /\ proc' \in [Requests -> ProcType] /\ \A q \in Requests : StepInv(proc'[q])
         /\ proc'[p] = r /\ \A q \in Requests \ {p} : proc'[q] = proc[q]
BY DEF IInv, TypeOK

LEMMA Known == /\ {"signin", "complete", "set", "account", None} \subseteq UseCases
                 /\ DOMAIN FirstStep \subseteq UseCases
BY DEF UseCases

LEMMA BlankIsTame == Blank \in ProcType /\ StepInv(Blank)
BY Known DEF Blank, ProcType, StepInv, Labels

(* A step of a request that begins no rotation, accepts no code, counts none and
   adds no session. *)
Tame(p, r) ==
  /\ r.pc \notin {"end", "commit", "close", "count"} /\ (r.pc = "issue" => r.code = None)
  /\ proc[p].pc /= "count"
ChalKept ==
  /\ chal' \in [Chals -> [expires : Int, attempts : Nat] \cup {None}]
  /\ guesses' = guesses
  /\ \A k \in Chals : chal'[k] /= None =>
       \/ chal[k] /= None /\ chal'[k].attempts = chal[k].attempts
       \/ guesses[k] = 0 /\ chal'[k].attempts = 0
SessKept == sess' \in [Sids -> SessionType \cup {None}] /\ Fades
FactorKept == (factor' = factor \/ factor' = None) /\ unused' \subseteq unused
ClockKept == now' \in Nat /\ faults' \in Nat /\ faults <= faults'

LEMMA TameSteps ==
  ASSUME IInv, proc' \in [Requests -> ProcType], \A q \in Requests : StepInv(proc'[q]),
         \A q \in Requests : proc'[q] = proc[q] \/ Tame(q, proc'[q]),
         ClockKept, EndedKept, FactorKept, ChalKept, SessKept
  PROVE  IInv'
<1>1. ended' \subseteq Sids
  BY DEF EndedKept, IInv, TypeOK, ProcType
<1>2. TypeOK'
  BY <1>1 DEF IInv, TypeOK, ClockKept, FactorKept, ChalKept, SessKept
<1>3. SessionsInv' /\ HeldInv' /\ OneTokenPerSignIn' /\ EndedForGood'
  <2>1. \A q \in Requests : proc'[q] = proc[q] \/ NoRotation(q)
    BY DEF NoRotation, Tame
  <2> QED BY <1>2, <2>1, SessionsFade DEF SessKept
<1>4. CodesInv' /\ OneSignInPerCode'
  <2>1. \A q \in Requests : proc'[q] = proc[q] \/ NoCode(q)
    BY DEF NoCode, Tame
  <2> QED BY <1>2, <2>1, CodesFade DEF FactorKept, SessKept
<1>5. BudgetIsCounted'
  <2>1. \A q \in Requests : SameCount(q)
    BY DEF SameCount, Tame
  <2> QED BY <1>2, <2>1, BudgetKept DEF ClockKept, ChalKept
<1> QED BY <1>2, <1>3, <1>4, <1>5 DEF IInv

LEMMA TameStep ==
  ASSUME IInv, NEW p \in Requests, NEW r \in ProcType, StepInv(r), Tame(p, r),
         proc' = [proc EXCEPT ![p] = r],
         ClockKept, EndedKept, FactorKept, ChalKept, SessKept
  PROVE  IInv'
<1>1. /\ proc' \in [Requests -> ProcType] /\ \A q \in Requests : StepInv(proc'[q])
      /\ proc'[p] = r /\ \A q \in Requests \ {p} : proc'[q] = proc[q]
  BY Onward
<1>2. \A q \in Requests : proc'[q] = proc[q] \/ Tame(q, proc'[q])
  BY <1>1
<1> QED BY <1>1, <1>2, TameSteps

(* What a step leaves alone is kept. *)
LEMMA Unchanged ==
  ASSUME IInv
  PROVE  /\ UNCHANGED <<chal, guesses>> => ChalKept
         /\ UNCHANGED sess => SessKept
         /\ UNCHANGED history => EndedKept
         /\ UNCHANGED <<factor, unused>> => FactorKept
         /\ UNCHANGED <<now, faults>> => ClockKept
BY DEF ChalKept, SessKept, Fades, EndedKept, FactorKept, ClockKept, IInv, TypeOK, history

(* The same, for a step that touches no session and no challenge. *)
LEMMA QuietRequest ==
  ASSUME IInv, NEW p \in Requests, NEW r \in ProcType, StepInv(r), Tame(p, r),
         proc' = [proc EXCEPT ![p] = r],
         UNCHANGED <<now, second, sess, history>>, faults' \in Nat, faults <= faults'
  PROVE  IInv'
<1>1. ChalKept /\ SessKept /\ EndedKept /\ FactorKept
  BY Unchanged DEF second
<1>2. ClockKept
  BY DEF ClockKept, IInv, TypeOK
<1> QED BY <1>1, <1>2, TameStep

(* The steps of a request. *)
LEMMA AnswerStep ==
  ASSUME IInv, NEW p \in Requests, proc[p].pc /= "count", Done(p),
         UNCHANGED <<now, second, sess, history>>, faults' \in Nat, faults <= faults'
  PROVE  IInv'
<1>1. Tame(p, Blank)
  BY DEF Tame, Blank
<1> QED BY <1>1, BlankIsTame, QuietRequest DEF Done

LEMMA GotoStep ==
  ASSUME IInv, NEW p \in Requests, NEW label \in Labels, Goto(p, label),
         proc[p].pc \notin {"verify", "close", "count", "issue"}, 
         label \notin {"end", "commit", "close", "count", "verify", "touch", "rotate"},
         label = "issue" => proc[p].code = None,
         UNCHANGED <<now, second, sess, history, faults>>
  PROVE  IInv'
<1> DEFINE r == [proc[p] EXCEPT !.pc = label]
<1>1. proc[p] \in ProcType /\ StepInv(proc[p]) /\ proc' = [proc EXCEPT ![p] = r]
  BY DEF IInv, TypeOK, Goto
<1>2. r \in ProcType
  BY <1>1 DEF ProcType
<1>3. /\ r.pc = label /\ r.code = proc[p].code
      /\ r.op = proc[p].op /\ r.sid = proc[p].sid
  BY <1>1 DEF ProcType
<1>4. StepInv(r)
  BY <1>1, <1>3 DEF StepInv
<1>5. Tame(p, r)
  BY <1>3 DEF Tame
<1>6. faults' \in Nat /\ faults <= faults'
  BY DEF IInv, TypeOK
<1> HIDE DEF r
<1> QED BY <1>1, <1>2, <1>4, <1>5, <1>6, QuietRequest

(* A request that has just come in carries nothing of an earlier one. *)
LEMMA ArrivalStep ==
  ASSUME IInv, NEW p \in Requests, Ready(p), NEW r \in ProcType, StepInv(r),
         r.pc \notin {"end", "commit", "close", "count", "issue"},
         proc' = [proc EXCEPT ![p] = r] \/ proc' = [proc EXCEPT ![p] = Blank],
         UNCHANGED <<now, second, sess, history, faults>>
  PROVE  IInv'
<1>1. Tame(p, r) /\ Tame(p, Blank)
  BY DEF Tame, Ready, Blank
<1>2. faults' \in Nat /\ faults <= faults'
  BY DEF IInv, TypeOK
<1> QED BY <1>1, <1>2, BlankIsTame, QuietRequest

LEMMA AuthenticateStep ==
  ASSUME IInv, NEW p \in Requests, Authenticate(p) PROVE IInv'
<1>1. PICK typed \in Passwords :
        /\ Ready(p)
        /\ proc' = [proc EXCEPT ![p] =
             IF typed = user.pw /\ user.active
             THEN [Blank EXCEPT !.op = "signin", !.typed = typed,
                                !.pc = IF user.stale THEN "rehash" ELSE "enrolled"]
             ELSE Blank]
        /\ UNCHANGED <<now, second, sess, history, faults>>
  BY DEF Authenticate
<1> DEFINE op == "signin"
           label == IF user.stale THEN "rehash" ELSE "enrolled"
           r == [Blank EXCEPT !.op = op, !.typed = typed, !.pc = label]
<1>2. op \in UseCases /\ label \in {"rehash", "enrolled"}
  BY Known
<1>3. proc' = [proc EXCEPT ![p] = r] \/ proc' = [proc EXCEPT ![p] = Blank]
  BY <1>1
<1> HIDE DEF op, label
<1>4. r \in ProcType /\ StepInv(r) /\ r.pc = label
  <2>1. r \in ProcType
    BY <1>2, BlankIsTame DEF ProcType, Labels
  <2>2. r.pc = label /\ r.code = None /\ r.chal = None
    BY DEF Blank
  <2> QED BY <1>2, <2>1, <2>2 DEF StepInv
<1> HIDE DEF r
<1> QED BY <1>1, <1>2, <1>3, <1>4, ArrivalStep

LEMMA CompleteStep ==
  ASSUME IInv, NEW p \in Requests, Complete(p) PROVE IInv'
<1>1. PICK k \in Chals, code \in CodesAt(now) :
        /\ Ready(p)
        /\ proc' = [proc EXCEPT ![p] =
             IF now >= chal[k].expires \/ chal[k].attempts >= MaxChallengeAttempts
                \/ ~user.active
             THEN Blank
             ELSE [Blank EXCEPT !.op = "complete", !.pc = "verify", !.at = now,
                                !.chal = k, !.code = code]]
        /\ UNCHANGED <<now, second, sess, history, faults>>
  BY DEF Complete
<1> DEFINE op == "complete"
           label == "verify"
           r == [Blank EXCEPT !.op = op, !.pc = label, !.at = now, !.chal = k, !.code = code]
<1>2. code \in CodeType /\ now \in Int
  <2>1. now \in Int
    BY DEF IInv, TypeOK
  <2> QED BY <2>1 DEF CodesAt, Typed, CodeType
<1>3. op \in UseCases /\ label \in {"verify"}
  BY Known
<1>4. proc' = [proc EXCEPT ![p] = r] \/ proc' = [proc EXCEPT ![p] = Blank]
  BY <1>1
<1> HIDE DEF op, label
<1>5. r \in ProcType /\ StepInv(r) /\ r.pc = label
  <2>1. r \in ProcType
    BY <1>2, <1>3, BlankIsTame DEF ProcType, Labels
  <2>2. r.pc = label /\ r.code = code /\ r.chal = k
    BY DEF Blank
  <2> QED BY <1>2, <1>3, <2>1, <2>2 DEF StepInv
<1> HIDE DEF r
<1> QED BY <1>1, <1>3, <1>4, <1>5, ArrivalStep

LEMMA SessionOfStep ==
  ASSUME IInv, NEW p \in Requests, SessionOf(p) PROVE IInv'
<1>1. PICK s \in Sids, op \in DOMAIN FirstStep, typed \in Passwords :
        /\ Ready(p) /\ sess[s] /= None
        /\ LET began == [Blank EXCEPT !.op = op, !.sid = s,
                 !.typed = IF op \in {"change", "reauth"} THEN typed ELSE None,
                 !.at = IF NeedsTouch(sess[s], now) THEN now ELSE 0,
                 !.proven = IF op = "disable" THEN sess[s].proven ELSE 0]
           IN proc' = [proc EXCEPT ![p] =
                IF Evaluate(sess[s], now) /= "active" \/ ~user.active
                THEN Blank
                ELSE [began EXCEPT !.pc = IF NeedsTouch(sess[s], now) THEN "touch"
                                          ELSE FirstStep[op]]]
        /\ UNCHANGED <<now, second, sess, history, faults>>
  BY DEF SessionOf
<1> DEFINE secret == IF op \in {"change", "reauth"} THEN typed ELSE None
           at == IF NeedsTouch(sess[s], now) THEN now ELSE 0
           proven == IF op = "disable" THEN sess[s].proven ELSE 0
           label == IF NeedsTouch(sess[s], now) THEN "touch" ELSE FirstStep[op]
           r == [[Blank EXCEPT !.op = op, !.sid = s, !.typed = secret, !.at = at,
                               !.proven = proven] EXCEPT !.pc = label]
<1>2. secret \in Passwords \cup {None} /\ at \in Int /\ proven \in Int
  BY <1>1 DEF IInv, TypeOK, SessionType
<1>3. label \in {"idle", "current", "revoke", "others", "remove", "touch"}
  BY DEF FirstStep
<1>4. proc' = [proc EXCEPT ![p] = r] \/ proc' = [proc EXCEPT ![p] = Blank]
  BY <1>1
<1> HIDE DEF secret, at, proven, label
<1>5. r \in ProcType /\ StepInv(r) /\ r.pc = label
  BY <1>2, <1>3, Known DEF Blank, ProcType, StepInv, Labels
<1> HIDE DEF r
<1> QED BY <1>1, <1>3, <1>4, <1>5, ArrivalStep

LEMMA SetPasswordStep ==
  ASSUME IInv, NEW p \in Requests, SetPassword(p) \/ ChangePassword(p) \/ RevokeForAccount(p)
  PROVE  IInv'
<1>1. /\ Ready(p) /\ UNCHANGED <<now, second, sess, history, faults>>
      /\ {"set", "change", "account"} \subseteq UseCases
  BY Known DEF SetPassword, ChangePassword, RevokeForAccount, FirstStep
<1>2. ASSUME NEW r \in ProcType, StepInv(r), r.pc \in {"store", "current", "others"},
             proc' = [proc EXCEPT ![p] = r]
      PROVE  IInv'
  BY <1>1, <1>2, ArrivalStep
<1>3. ASSUME NEW op \in {"set", "account"}, NEW label \in {"store", "others"},
             proc' = [proc EXCEPT ![p] = [Blank EXCEPT !.op = op, !.pc = label]]
      PROVE  IInv'
  <2> DEFINE r == [Blank EXCEPT !.op = op, !.pc = label]
  <2>1. r \in ProcType
    BY <1>1, BlankIsTame DEF ProcType, Labels
  <2>2. r.pc = label /\ r.code = None
    BY DEF Blank
  <2>3. StepInv(r)
    BY <2>2 DEF StepInv
  <2>4. proc' = [proc EXCEPT ![p] = r]
    BY <1>3
  <2> HIDE DEF r
  <2> QED BY <1>2, <2>1, <2>2, <2>3, <2>4
<1>4. ASSUME NEW typed \in Passwords,
             proc' = [proc EXCEPT ![p] =
               [Blank EXCEPT !.op = "change", !.typed = typed, !.pc = "current"]]
      PROVE  IInv'
  <2> DEFINE r == [Blank EXCEPT !.op = "change", !.typed = typed, !.pc = "current"]
  <2>1. r \in ProcType
    BY <1>1, BlankIsTame DEF ProcType, Labels
  <2>2. r.pc = "current" /\ r.code = None
    BY DEF Blank
  <2>3. StepInv(r)
    BY <2>2 DEF StepInv
  <2>4. proc' = [proc EXCEPT ![p] = r]
    BY <1>4
  <2> HIDE DEF r
  <2> QED BY <1>2, <2>1, <2>2, <2>3, <2>4
<1> QED BY <1>3, <1>4 DEF SetPassword, ChangePassword, RevokeForAccount

(* The upgrade of a hash, the read of the factor, the proof of the password and
   its change. *)
LEMMA PasswordSteps ==
  ASSUME IInv, NEW p \in Requests,
         rehash(p) \/ Enrolled(p) \/ reauthenticate(p) \/ UpdatePasswordHash(p)
  PROVE  IInv'
<1> USE DEF Labels
<1>1. faults \in Nat /\ (proc[p].pc = "enrolled" => proc[p].code = None)
  BY DEF IInv, TypeOK, StepInv
<1>2. CASE rehash(p)
  BY <1>1, <1>2, GotoStep DEF rehash
<1>3. CASE Enrolled(p)
  BY <1>1, <1>3, GotoStep DEF Enrolled
<1>4. CASE reauthenticate(p)
  BY <1>1, <1>4, GotoStep, AnswerStep DEF reauthenticate
<1>5. CASE UpdatePasswordHash(p)
  BY <1>1, <1>5, GotoStep DEF UpdatePasswordHash
<1> QED BY <1>2, <1>3, <1>4, <1>5

(* Ending sessions. *)
LEMMA EndAllFades ==
  ASSUME IInv, NEW which, EndAll(which), \A s \in which \cap Sids : ~ Held(s)
  PROVE  /\ SessKept
         /\ \A s \in Sids : Live(s)' => Live(s) /\ s \notin which /\ sess'[s] = sess[s]
<1>1. sess \in [Sids -> SessionType \cup {None}]
  BY DEF IInv, TypeOK
<1>2. ASSUME NEW s \in Sids
      PROVE  /\ sess'[s] \in SessionType \cup {None}
             /\ sess'[s] = None <=> sess[s] = None
             /\ sess[s] /= None =>
                  /\ sess'[s].root = sess[s].root /\ sess'[s].with = sess[s].with
                  /\ sess'[s].began = sess[s].began /\ sess'[s].expires = sess[s].expires
                  /\ ~ sess'[s].revoked => ~ sess[s].revoked
             /\ Held(s) => sess'[s] = sess[s]
             /\ Live(s)' => Live(s) /\ s \notin which /\ sess'[s] = sess[s]
  <2>1. CASE s \in which /\ Live(s)
    <3>1. sess'[s] = [sess[s] EXCEPT !.revoked = TRUE] /\ sess[s] \in SessionType
      BY <1>1, <2>1 DEF EndAll, Live
    <3>2. /\ sess'[s] \in SessionType /\ sess'[s].revoked
          /\ sess'[s].root = sess[s].root /\ sess'[s].with = sess[s].with
          /\ sess'[s].began = sess[s].began /\ sess'[s].expires = sess[s].expires
      BY <3>1 DEF SessionType
    <3>3. None \notin SessionType /\ ~ Held(s)
      BY <2>1
    <3> QED BY <3>1, <3>2, <3>3 DEF Live
  <2>2. CASE ~ (s \in which /\ Live(s))
    <3>1. sess'[s] = sess[s]
      BY <2>2 DEF EndAll
    <3> QED BY <1>1, <2>2, <3>1 DEF Live
  <2> QED BY <2>1, <2>2
<1>3. sess' = [s \in Sids |-> sess'[s]]
  BY DEF EndAll
<1>4. sess' \in [Sids -> SessionType \cup {None}]
  BY <1>2, <1>3
<1> QED BY <1>2, <1>4 DEF SessKept, Fades

LEMMA BlankTame == ASSUME NEW p, proc[p].pc /= "count" PROVE Tame(p, Blank)
BY DEF Tame, Blank

LEMMA BeginStep ==
  ASSUME IInv, NEW p \in Requests, Begin(p) PROVE IInv'
<1>1. PICK k \in Chals :
        /\ proc[p].pc = "begin" /\ chal[k] = None /\ guesses[k] = 0
        /\ chal' = [chal EXCEPT ![k] = [expires |-> now + ChallengeLifetime, attempts |-> 0]]
        /\ Done(p) /\ UNCHANGED <<now, factor, unused, guesses, sess, history, faults>>
  BY DEF Begin
<1>2. ChalKept
  <2>1. now \in Nat /\ ChallengeLifetime \in Nat
        /\ chal \in [Chals -> [expires : Int, attempts : Nat] \cup {None}]
    BY DEF IInv, TypeOK
  <2>2. [expires |-> now + ChallengeLifetime, attempts |-> 0] \in [expires : Int, attempts : Nat]
    BY <2>1
  <2> QED BY <1>1, <2>1, <2>2 DEF ChalKept
<1>3. ClockKept /\ EndedKept /\ FactorKept /\ SessKept
  BY <1>1, Unchanged
<1> QED BY <1>1, <1>2, <1>3, BlankTame, BlankIsTame, TameStep DEF Done

LEMMA RevokeStep ==
  ASSUME IInv, NEW p \in Requests, Revoke(p) PROVE IInv'
<1>1. proc[p].pc = "revoke" /\ SessKept /\ proc' = [proc EXCEPT ![p] = Blank]
  <2>1. \A s \in {proc[p].sid} \cap Sids : ~ Held(s)
    BY DEF Revoke
  <2> QED BY <2>1, EndAllFades DEF Revoke, Done
<1>2. ClockKept /\ EndedKept /\ FactorKept /\ ChalKept
  BY Unchanged DEF Revoke, second
<1> QED BY <1>1, <1>2, BlankTame, BlankIsTame, TameStep

LEMMA DisableStep ==
  ASSUME IInv, NEW p \in Requests, Disable(p) PROVE IInv'
<1>1. proc[p].pc = "remove" /\ FactorKept /\ proc' = [proc EXCEPT ![p] = Blank]
  BY DEF Disable, Done, FactorKept
<1>2. ClockKept /\ EndedKept /\ SessKept /\ ChalKept
  BY Unchanged DEF Disable
<1> QED BY <1>1, <1>2, BlankTame, BlankIsTame, TameStep

(* What happens to the account while requests are under way. *)
LEMMA BackgroundSteps ==
  ASSUME IInv, SetStatus \/ DeleteExpired \/ SweepChallenges \/ Tick
               \/ UNCHANGED vars
  PROVE  IInv'
<1>1. proc' = proc
  BY DEF SetStatus, DeleteExpired, SweepChallenges, Tick, vars
<1>2. /\ proc' \in [Requests -> ProcType] /\ \A q \in Requests : StepInv(proc'[q])
      /\ \A q \in Requests : proc'[q] = proc[q]
  BY <1>1 DEF IInv, TypeOK
<1>3. EndedKept /\ FactorKept
  BY Unchanged DEF SetStatus, DeleteExpired, SweepChallenges, Tick, vars, second, history
<1>4. ClockKept
  <2>1. CASE Tick
    BY <2>1 DEF Tick, ClockKept, IInv, TypeOK
  <2>2. CASE ~ Tick
    BY <2>2, Unchanged DEF SetStatus, DeleteExpired, SweepChallenges, vars
  <2> QED BY <2>1, <2>2
<1>5. SessKept
  <2>1. CASE DeleteExpired
    <3>1. PICK s \in Sids : ~ Held(s) /\ EndAll({s})
      BY <2>1 DEF DeleteExpired
    <3> QED BY <3>1, EndAllFades
  <2>2. CASE ~ DeleteExpired
    BY <2>2, Unchanged DEF SetStatus, SweepChallenges, Tick, vars
  <2> QED BY <2>1, <2>2
<1>6. ChalKept
  <2>1. CASE SweepChallenges
    BY <2>1 DEF SweepChallenges, ChalKept, IInv, TypeOK
  <2>2. CASE ~ SweepChallenges
    BY <2>2, Unchanged DEF SetStatus, DeleteExpired, Tick, vars, second
  <2> QED BY <2>1, <2>2
<1> QED BY <1>2, <1>3, <1>4, <1>5, <1>6, TameSteps

(* A session that is touched, or proven, stays the session it was. *)
LEMMA StampFades ==
  ASSUME IInv, NEW s \in Sids, sess[s] /= None, ~ Held(s), NEW t \in Int,
         sess' = [sess EXCEPT ![s].seen = t] \/ sess' = [sess EXCEPT ![s].proven = t]
  PROVE  SessKept
<1>1. sess \in [Sids -> SessionType \cup {None}] /\ sess[s] \in SessionType
  BY DEF IInv, TypeOK
<1>2. /\ sess'[s] \in SessionType
      /\ sess'[s].root = sess[s].root /\ sess'[s].with = sess[s].with
      /\ sess'[s].began = sess[s].began /\ sess'[s].expires = sess[s].expires
      /\ sess'[s].revoked = sess[s].revoked
  BY <1>1 DEF SessionType
<1>3. \A o \in Sids \ {s} : sess'[o] = sess[o]
  BY <1>1
<1>4. sess' \in [Sids -> SessionType \cup {None}]
  <2>1. sess' = [o \in Sids |-> sess'[o]]
    BY <1>1
  <2> QED BY <1>1, <1>2, <1>3, <2>1
<1>5. None \notin SessionType
  OBVIOUS
<1> QED BY <1>2, <1>3, <1>4, <1>5 DEF SessKept, Fades

LEMMA TouchSessionStep ==
  ASSUME IInv, NEW p \in Requests, TouchSession(p) PROVE IInv'
<1>1. /\ proc[p] \in ProcType /\ StepInv(proc[p]) /\ proc[p].pc = "touch"
  BY DEF IInv, TypeOK, TouchSession
<1>2. proc[p].op \in DOMAIN FirstStep /\ proc[p].sid \in Sids /\ proc[p].code = None
      /\ proc[p].at \in Int
  BY <1>1 DEF StepInv, ProcType
<1>3. ClockKept /\ EndedKept /\ FactorKept /\ ChalKept
  BY Unchanged DEF TouchSession, second
<1>4. CASE Live(proc[p].sid)
  <2> DEFINE label == FirstStep[proc[p].op]
             r == [proc[p] EXCEPT !.pc = label, !.at = 0]
  <2>1. label \in {"idle", "current", "revoke", "others", "remove"}
    BY <1>2 DEF FirstStep
  <2>2. proc' = [proc EXCEPT ![p] = r]
    BY <1>4 DEF TouchSession, IInv, TypeOK
  <2>3. SessKept
    BY <1>2, <1>4, StampFades DEF TouchSession, Live
  <2>a. label \in Labels
    BY <2>1 DEF Labels
  <2> HIDE DEF label
  <2>4. r \in ProcType
    <3>1. ASSUME NEW b \in ProcType, NEW l \in Labels, NEW t \in Int
          PROVE  [b EXCEPT !.pc = l, !.at = t] \in ProcType
      BY DEF ProcType
    <3>2. 0 \in Int
      OBVIOUS
    <3> QED BY ONLY <1>1, <2>a, <3>1, <3>2, Zenon
  <2>5. /\ r.pc = label /\ r.code = None /\ r.sid \in Sids
    BY <1>1, <1>2 DEF ProcType
  <2>6. StepInv(r) /\ Tame(p, r)
    BY <1>1, <2>1, <2>5 DEF StepInv, Tame
  <2> HIDE DEF r
  <2> QED BY <1>3, <2>2, <2>3, <2>4, <2>6, TameStep
<1>5. CASE ~ Live(proc[p].sid)
  <2>1. SessKept /\ proc' = [proc EXCEPT ![p] = Blank]
    BY <1>5, Unchanged DEF TouchSession, Done
  <2> QED BY <1>1, <1>3, <2>1, BlankTame, BlankIsTame, TameStep
<1> QED BY <1>4, <1>5

LEMMA RecordProofStep ==
  ASSUME IInv, NEW p \in Requests, RecordProof(p) PROVE IInv'
<1> DEFINE s == IF proc[p].op = "change" THEN proc[p].new ELSE proc[p].sid
<1>1. proc[p].pc = "prove" /\ proc' = [proc EXCEPT ![p] = Blank] /\ ~ Held(s)
  BY DEF RecordProof, Done
<1>2. ClockKept /\ FactorKept /\ ChalKept /\ EndedKept
  BY <1>1, Unchanged DEF RecordProof, second
<1>3. now \in Int /\ s \in Sids \cup {None}
  BY DEF IInv, TypeOK, ProcType
<1>4. SessKept
  <2>1. \/ sess' = sess
        \/ Live(s) /\ sess' = [sess EXCEPT ![s].proven = now]
    BY DEF RecordProof
  <2>2. CASE s \in Sids
    BY <1>1, <1>3, <2>1, <2>2, Unchanged, StampFades DEF Live
  <2>3. CASE s \notin Sids
    <3>1. sess' = sess
      BY <2>1, <2>3 DEF IInv, TypeOK
    <3> QED BY <3>1, Unchanged
  <2> QED BY <2>2, <2>3
<1> QED BY <1>1, <1>2, <1>4, BlankTame, BlankIsTame, TameStep

(* A revocation takes its snapshot, and then ends what it finds live of it. *)
LEMMA RevokeForUserStep ==
  ASSUME IInv, NEW p \in Requests, revokeForUser(p) PROVE IInv'
<1> DEFINE others == {s \in Sids : Live(s)} \ {proc[p].sid}
           r == [proc[p] EXCEPT !.others = others, !.pc = "update"]
<1>1. proc[p] \in ProcType /\ StepInv(proc[p]) /\ proc[p].pc = "others"
  BY DEF IInv, TypeOK, revokeForUser
<1>2. proc' = [proc EXCEPT ![p] = r] /\ UNCHANGED <<now, second, sess, history, faults>>
  BY DEF revokeForUser, IInv, TypeOK
<1>3. others \in SUBSET Sids
  OBVIOUS
<1> HIDE DEF others
<1>4. r \in ProcType
  BY <1>1, <1>3 DEF ProcType, Labels
<1>5. r.pc = "update" /\ r.code = proc[p].code
  BY <1>1 DEF ProcType
<1>6. StepInv(r) /\ Tame(p, r)
  BY <1>1, <1>5 DEF StepInv, Tame
<1>7. faults' \in Nat /\ faults <= faults'
  BY <1>2 DEF IInv, TypeOK
<1> HIDE DEF r
<1> QED BY <1>2, <1>4, <1>6, <1>7, QuietRequest

LEMMA RevokeUserSessionsStep ==
  ASSUME IInv, NEW p \in Requests, RevokeUserSessions(p) PROVE IInv'
<1> DEFINE others == proc[p].others
           live == {s \in others : Live(s)}
           r == [proc[p] EXCEPT !.pc = "rotate", !.others = {}]
<1>1. /\ proc[p] \in ProcType /\ StepInv(proc[p]) /\ proc[p].pc = "update"
      /\ others \subseteq Sids
  BY DEF IInv, TypeOK, RevokeUserSessions, ProcType
<1>2. /\ SessKept
      /\ \A s \in Sids : Live(s)' => Live(s) /\ s \notin others /\ sess'[s] = sess[s]
  BY EndAllFades DEF RevokeUserSessions
<1>3. ClockKept /\ FactorKept /\ ChalKept
  BY Unchanged DEF RevokeUserSessions, second
<1>4. ASSUME NEW s \in live
      PROVE  \E root : root = sess[s].root /\ root \in Sids /\ sess[root] /= None /\ Over(root)'
  <2>1. s \in Sids /\ Live(s)
    BY <1>1
  <2>2. sess[s].root \in Sids /\ sess[sess[s].root] /= None
    BY <2>1 DEF IInv, TypeOK, SessionType, SessionsInv, Live
  <2>3. PICK root : root = sess[s].root
    OBVIOUS
  <2>4. ASSUME NEW t \in Sids, Live(t)' PROVE sess'[t].root /= root
    <3>1. Live(t) /\ t /= s /\ sess'[t] = sess[t]
      BY <1>2, <2>4
    <3> QED BY <2>1, <2>3, <3>1 DEF IInv, OneTokenPerSignIn
  <2>5. Over(root)'
    BY <2>4 DEF Over
  <2> QED BY <2>2, <2>3, <2>5
<1>5. EndedKept
  <2>1. ASSUME NEW root \in ended'
        PROVE  root \in ended \/ (root \in Sids /\ sess[root] /= None /\ Over(root)')
    <3>1. root \in ended \/ root \in Roots(live)
      BY DEF RevokeUserSessions
    <3>2. CASE root \in Roots(live)
      <4>1. PICK s \in live : root = sess[s].root
        BY <3>2 DEF Roots
      <4> QED BY <1>4, <4>1
    <3> QED BY <3>1, <3>2
  <2> QED BY <2>1 DEF EndedKept
<1>6. CASE proc[p].op = "change" /\ proc[p].sid /= None
  <2>1. proc' = [proc EXCEPT ![p] = r]
    BY <1>6 DEF RevokeUserSessions
  <2>2. r \in ProcType
    BY <1>1 DEF ProcType, Labels
  <2>3. /\ r.pc = "rotate" /\ r.code = proc[p].code /\ r.sid = proc[p].sid
        /\ r.op = "change" /\ r.sid \in Sids
    BY <1>1, <1>6 DEF ProcType
  <2>4. StepInv(r) /\ Tame(p, r)
    BY <1>1, <2>3 DEF StepInv, Tame, FirstStep
  <2> HIDE DEF r
  <2> QED BY <1>2, <1>3, <1>5, <2>1, <2>2, <2>4, TameStep
<1>7. CASE ~ (proc[p].op = "change" /\ proc[p].sid /= None)
  <2>1. proc' = [proc EXCEPT ![p] = Blank]
    BY <1>7 DEF RevokeUserSessions
  <2> QED BY <1>1, <1>2, <1>3, <1>5, <2>1, BlankTame, BlankIsTame, TameStep
<1> QED BY <1>6, <1>7

(* Rotation: the successor is a copy of a session that is there, under an
   identifier nobody has. *)
LEMMA RotateSessionStep ==
  ASSUME IInv, NEW p \in Requests, RotateSession(p) PROVE IInv'
<1>1. PICK s \in Sids :
        /\ proc[p].pc = "rotate" /\ FreeSid(s)
        /\ IF Live(proc[p].sid)
           THEN proc' = [proc EXCEPT ![p].new = s, ![p].pc = "end",
                                     ![p].row = Successor(sess[proc[p].sid])]
           ELSE Done(p)
        /\ UNCHANGED <<now, second, sess, history, faults>>
  BY DEF RotateSession
<1>2. proc[p] \in ProcType /\ StepInv(proc[p]) /\ proc[p].sid \in Sids
      /\ proc[p].op \in DOMAIN FirstStep /\ proc[p].code = None
  BY <1>1 DEF IInv, TypeOK, StepInv
<1>3. ClockKept /\ EndedKept /\ FactorKept /\ ChalKept /\ SessKept
  BY <1>1, Unchanged DEF second
<1>4. CASE Live(proc[p].sid)
  <2> DEFINE old == sess[proc[p].sid]
             row == Successor(old)
             r == [proc[p] EXCEPT !.new = s, !.pc = "end", !.row = row]
  <2>1. proc' = [proc EXCEPT ![p] = r]
    BY <1>1, <1>4 DEF IInv, TypeOK
  <2>2. old \in SessionType /\ old /= None /\ now \in Int
    <3>1. sess \in [Sids -> SessionType \cup {None}] /\ now \in Int
      BY DEF IInv, TypeOK
    <3>2. old /= None
      BY <1>4 DEF Live
    <3> QED BY <1>2, <3>1, <3>2
  <2>3. /\ row \in SessionType /\ row.root = old.root /\ row.with = old.with
        /\ row.began = old.began /\ row.expires = old.expires
    BY <2>2 DEF SessionType, Successor
  <2>4. row.expires <= row.began + Absolute
    BY <1>2, <2>2, <2>3 DEF IInv, OneTokenPerSignIn
  <2>5. sess[s] = None /\ \A q \in Requests : proc[q].new /= s
    BY <1>1 DEF FreeSid, Unused
  <2> HIDE DEF row, old
  <2>6. r \in ProcType
    <3>1. ASSUME NEW b \in ProcType, NEW n \in Sids, NEW l \in Labels, NEW o \in SessionType
          PROVE  [b EXCEPT !.new = n, !.pc = l, !.row = o] \in ProcType
      BY DEF ProcType
    <3>2. "end" \in Labels
      BY DEF Labels
    <3> QED BY ONLY <1>1, <1>2, <2>3, <3>1, <3>2, Zenon
  <2>7. /\ r.pc = "end" /\ r.new = s /\ r.row = row /\ r.code = None /\ r.op = proc[p].op
        /\ r.sid = proc[p].sid
    BY <1>2 DEF ProcType
  <2>8. StepInv(r)
    BY <1>2, <2>3, <2>7 DEF StepInv
  <2> HIDE DEF r
  <2>9. /\ proc' \in [Requests -> ProcType] /\ \A q \in Requests : StepInv(proc'[q])
        /\ proc'[p] = r /\ \A q \in Requests \ {p} : proc'[q] = proc[q]
    BY <2>1, <2>6, <2>8, Onward
  <2>10. TypeOK'
    BY <1>1, <2>9 DEF IInv, TypeOK, second, history
  <2>11. \A q \in Requests : proc'[q] = proc[q] \/ NoCode(q)
    BY <2>7, <2>9 DEF NoCode
  <2>12. CodesInv' /\ OneSignInPerCode'
    BY <1>3, <2>10, <2>11, CodesFade DEF FactorKept, SessKept
  <2>13. \A q \in Requests : SameCount(q)
    BY <1>1, <2>7, <2>9 DEF SameCount
  <2>14. BudgetIsCounted'
    BY <1>3, <2>10, <2>13, BudgetKept DEF ClockKept, ChalKept
  <2>15. sess' = sess /\ ended' = ended
    BY <1>1 DEF history
  <2>16. OneTokenPerSignIn' /\ EndedForGood'
    BY <2>15 DEF IInv, OneTokenPerSignIn, EndedForGood, Live
  <2>17. SessionsInv'
    <3>1. \A q \in Requests \ {p} : proc'[q].pc \in {"end", "commit"} =>
            /\ sess[proc[q].sid] /= None /\ proc[q].row.root = sess[proc[q].sid].root
            /\ proc[q].row.with = sess[proc[q].sid].with
            /\ proc[q].row.expires <= proc[q].row.began + Absolute
            /\ sess[proc[q].new] = None
            /\ \A o \in Requests \ {q} : proc[o].pc \in {"end", "commit"}
                 => proc[o].new /= proc[q].new
      BY <2>9 DEF IInv, SessionsInv, Rotating
    <3>2. ASSUME NEW q \in Requests, proc'[q].pc \in {"end", "commit"}
          PROVE  /\ sess[proc'[q].sid] /= None /\ proc'[q].row.root = sess[proc'[q].sid].root
                 /\ proc'[q].row.with = sess[proc'[q].sid].with
                 /\ proc'[q].row.expires <= proc'[q].row.began + Absolute
                 /\ sess[proc'[q].new] = None
                 /\ \A o \in Requests \ {q} : proc'[o].pc \in {"end", "commit"}
                      => proc'[o].new /= proc'[q].new
      <4>1. CASE q = p
        BY <2>2, <2>3, <2>4, <2>5, <2>7, <2>9, <4>1 DEF old
      <4>2. CASE q /= p
        <5>1. proc'[q] = proc[q]
          BY <2>9, <4>2
        <5>2. \A o \in Requests \ {q} : proc'[o].pc \in {"end", "commit"}
                => proc'[o].new /= proc'[q].new
          BY <2>5, <2>7, <2>9, <3>1, <3>2, <4>2
        <5> QED BY <3>1, <3>2, <4>2, <5>1, <5>2
      <4> QED BY <4>1, <4>2
    <3>3. /\ \A o \in Sids : sess'[o] /= None => sess'[sess'[o].root] /= None
          /\ \A root \in ended' : sess'[root] /= None
      BY <2>15 DEF IInv, SessionsInv
    <3> QED BY <2>15, <3>2, <3>3 DEF SessionsInv, Rotating
  <2>18. HeldInv'
    BY <2>7, <2>9, <2>15, HeldKept DEF IInv
  <2> QED BY <2>9, <2>10, <2>12, <2>14, <2>16, <2>17, <2>18 DEF IInv
<1>5. CASE ~ Live(proc[p].sid)
  BY <1>1, <1>3, <1>5, BlankTame, BlankIsTame, TameStep DEF Done
<1> QED BY <1>4, <1>5

(* A session is added under an identifier nobody has, and nothing is left of
   what its request carried. *)
FadesBut(n) ==
  \A s \in Sids \ {n} :
    /\ sess'[s] = None <=> sess[s] = None
    /\ sess[s] /= None =>
         /\ sess'[s].root = sess[s].root /\ sess'[s].with = sess[s].with
         /\ sess'[s].began = sess[s].began /\ sess'[s].expires = sess[s].expires
         /\ ~ sess'[s].revoked => ~ sess[s].revoked
Unclaimed(n) == sess[n] = None /\ sess'[n] \in SessionType /\ FadesBut(n)
OthersStay(p) == \A q \in Requests \ {p} : proc'[q] = proc[q]

LEMMA SessionAdded ==
  ASSUME IInv, TypeOK', NEW n \in Sids, Unclaimed(n), ended' = ended,
         NEW p \in Requests, OthersStay(p), proc'[p].pc \notin {"end", "commit"},
         \A q \in Requests \ {p} : proc[q].pc \in {"end", "commit"} => proc[q].new /= n,
         sess'[n].expires <= sess'[n].began + Absolute,
         sess'[sess'[n].root] /= None,
         \A s \in Sids \ {n} : Live(s)' => sess'[s].root /= sess'[n].root,
         sess'[n].root \notin ended
  PROVE  SessionsInv' /\ OneTokenPerSignIn' /\ EndedForGood'
<1>1. TypeOK /\ SessionsInv /\ OneTokenPerSignIn /\ EndedForGood
      /\ \A q \in Requests : StepInv(proc[q])
  BY DEF IInv
<1>2. None \notin SessionType
  OBVIOUS
<1>3. sess'[n] /= None /\ sess[n] = None
  BY <1>2 DEF Unclaimed
<1>4. \A s \in Sids \ {n} :
        /\ sess'[s] /= None <=> sess[s] /= None
        /\ sess[s] /= None => /\ sess'[s].root = sess[s].root
                               /\ sess'[s].with = sess[s].with
                               /\ sess'[s].began = sess[s].began
                               /\ sess'[s].expires = sess[s].expires
        /\ Live(s)' => Live(s)
  BY DEF Unclaimed, FadesBut, Live
<1>5. \A s \in Sids : sess[s] /= None => s /= n /\ sess'[s] /= None /\ sess[s].root \in Sids
  BY <1>1, <1>3, <1>4 DEF TypeOK, SessionType
<1>6. OneTokenPerSignIn'
  <2>1. ASSUME NEW s \in Sids, NEW t \in Sids, Live(s)', Live(t)', sess'[s].root = sess'[t].root
        PROVE  s = t
    <3>1. CASE s = n \/ t = n
      BY <2>1, <3>1
    <3>2. CASE s /= n /\ t /= n
      <4>1. Live(s) /\ Live(t) /\ sess[s].root = sess[t].root
        BY <1>4, <2>1, <3>2 DEF Live
      <4> QED BY <1>1, <4>1 DEF OneTokenPerSignIn
    <3> QED BY <3>1, <3>2
  <2>2. ASSUME NEW s \in Sids, sess'[s] /= None
        PROVE  sess'[s].expires <= sess'[s].began + Absolute
    <3>1. CASE s = n
      BY <3>1
    <3>2. CASE s /= n
      BY <1>1, <1>4, <2>2, <3>2 DEF OneTokenPerSignIn
    <3> QED BY <3>1, <3>2
  <2> QED BY <2>1, <2>2 DEF OneTokenPerSignIn
<1>7. EndedForGood'
  <2>1. ASSUME NEW s \in Sids, Live(s)' PROVE sess'[s].root \notin ended'
    <3>1. CASE s = n
      BY <3>1
    <3>2. CASE s /= n
      <4>1. Live(s) /\ sess'[s].root = sess[s].root
        BY <1>4, <2>1, <3>2 DEF Live
      <4> QED BY <1>1, <4>1 DEF EndedForGood
    <3> QED BY <3>1, <3>2
  <2> QED BY <2>1 DEF EndedForGood
<1>8. \A s \in Sids : sess'[s] /= None => sess'[sess'[s].root] /= None
  <2>1. ASSUME NEW s \in Sids, sess'[s] /= None PROVE sess'[sess'[s].root] /= None
    <3>1. CASE s = n
      BY <3>1
    <3>2. CASE s /= n
      <4>1. sess[s] /= None /\ sess'[s].root = sess[s].root /\ sess[s].root \in Sids
        BY <1>4, <1>5, <2>1, <3>2
      <4>2. sess[sess[s].root] /= None
        BY <1>1, <4>1 DEF SessionsInv
      <4> QED BY <1>5, <4>1, <4>2
    <3> QED BY <3>1, <3>2
  <2> QED BY <2>1
<1>9. \A root \in ended' : sess'[root] /= None
  BY <1>1, <1>5 DEF SessionsInv, TypeOK
<1>11. ASSUME NEW q \in Requests, proc'[q].pc \in {"end", "commit"}
       PROVE  /\ sess'[proc'[q].sid] /= None /\ proc'[q].row.root = sess'[proc'[q].sid].root
              /\ proc'[q].row.with = sess'[proc'[q].sid].with
              /\ proc'[q].row.expires <= proc'[q].row.began + Absolute
              /\ sess'[proc'[q].new] = None
              /\ \A o \in Requests \ {q} : proc'[o].pc \in {"end", "commit"} => proc'[o].new /= proc'[q].new
  <2>1. q /= p /\ proc'[q] = proc[q] /\ proc[q].pc \in {"end", "commit"}
    BY <1>11 DEF OthersStay
  <2>2. /\ proc[q].sid \in Sids /\ proc[q].new \in Sids /\ proc[q].new /= n
        /\ sess[proc[q].sid] /= None /\ proc[q].row.root = sess[proc[q].sid].root
        /\ proc[q].row.with = sess[proc[q].sid].with
        /\ proc[q].row.expires <= proc[q].row.began + Absolute
        /\ sess[proc[q].new] = None
        /\ \A o \in Requests \ {q} : proc[o].pc \in {"end", "commit"} => proc[o].new /= proc[q].new
    BY <1>1, <2>1 DEF StepInv, SessionsInv, Rotating
  <2>3. \A o \in Requests \ {q} : proc'[o].pc \in {"end", "commit"} => proc'[o].new /= proc'[q].new
    BY <2>1, <2>2 DEF OthersStay
  <2>4. sess'[proc[q].sid] /= None /\ sess'[proc[q].new] = None
        /\ sess'[proc[q].sid].root = sess[proc[q].sid].root
        /\ sess'[proc[q].sid].with = sess[proc[q].sid].with
    BY <1>4, <1>5, <2>2
  <2> QED BY <2>1, <2>2, <2>3, <2>4
<1> QED BY <1>6, <1>7, <1>8, <1>9, <1>11 DEF SessionsInv, Rotating

LEMMA CodesAdded ==
  ASSUME IInv, TypeOK', NEW n \in Sids, Unclaimed(n),
         NEW p \in Requests, OthersStay(p), proc'[p].pc \notin {"close", "issue"},
         factor' = factor, unused' = unused,
         sess'[n].with /= None =>
           /\ Behind(sess'[n].with)
           /\ \A q \in Requests \ {p} :
                proc[q].pc \in {"issue", "close"} => proc[q].code /= sess'[n].with
           /\ \A s \in Sids : sess[s] /= None /\ sess[s].with = sess'[n].with
                              => sess[s].root = sess'[n].root
  PROVE  CodesInv' /\ OneSignInPerCode'
<1>1. CodesInv /\ OneSignInPerCode
  BY DEF IInv
<1>2. None \notin SessionType /\ None \notin CodeType
  OBVIOUS
<1>3. sess'[n] /= None /\ sess[n] = None
  BY <1>2 DEF Unclaimed
<1>4. \A s \in Sids \ {n} :
        /\ sess'[s] /= None <=> sess[s] /= None
        /\ sess[s] /= None => sess'[s].root = sess[s].root /\ sess'[s].with = sess[s].with
  BY DEF Unclaimed, FadesBut
<1>5. OneSignInPerCode'
  <2>1. ASSUME NEW s \in Sids, NEW t \in Sids, sess'[s] /= None, sess'[t] /= None,
               sess'[s].with /= None, sess'[s].with = sess'[t].with
        PROVE  sess'[s].root = sess'[t].root
    <3>1. CASE s = n /\ t = n
      BY <3>1
    <3>2. CASE s = n /\ t /= n
      BY <1>4, <2>1, <3>2
    <3>3. CASE s /= n /\ t = n
      BY <1>4, <2>1, <3>3
    <3>4. CASE s /= n /\ t /= n
      BY <1>1, <1>4, <2>1, <3>4 DEF OneSignInPerCode
    <3> QED BY <3>1, <3>2, <3>3, <3>4
  <2> QED BY <2>1 DEF OneSignInPerCode
<1>7. ASSUME NEW s \in Sids, sess'[s] /= None, sess'[s].with /= None
      PROVE  Behind(sess[s].with)'
  <2>1. Behind(sess'[s].with)
    <3>1. CASE s = n
      BY <1>7, <3>1
    <3>2. CASE s /= n
      BY <1>1, <1>4, <1>7, <3>2 DEF CodesInv
    <3> QED BY <3>1, <3>2
  <2> QED BY <2>1 DEF Behind
<1>8. ASSUME NEW q \in Requests \ {p}, proc[q].pc \in {"issue", "close"},
             proc[q].code /= None, Fresh(q, proc[q].code)
      PROVE  Fresh(q, proc[q].code)'
  <2>1. proc'[q] = proc[q]
    BY DEF OthersStay
  <2>2. \A s \in Sids : sess'[s] /= None => sess'[s].with /= proc[q].code
    <3>1. \A s \in Sids \ {n} : sess'[s] /= None => sess'[s].with /= proc[q].code
      BY <1>4, <1>8 DEF Fresh
    <3>2. sess'[n].with /= proc[q].code
      BY <1>8
    <3> QED BY <3>1, <3>2
  <2>3. \A o \in Requests \ {q} : proc'[o].pc = "issue" => proc'[o].code /= proc[q].code
    BY <1>8 DEF Fresh, OthersStay
  <2> QED BY <2>1, <2>2, <2>3 DEF Fresh
<1>9. ASSUME NEW q \in Requests, Finishing(q)'
      PROVE  Behind(proc[q].code)' /\ Fresh(q, proc[q].code)'
  <2>1. q /= p /\ proc'[q] = proc[q] /\ Finishing(q)
    BY <1>9 DEF OthersStay, Finishing
  <2>2. Behind(proc[q].code) /\ Fresh(q, proc[q].code)
    BY <1>1, <2>1 DEF CodesInv
  <2>3. Behind(proc[q].code)'
    BY <2>1, <2>2 DEF Behind
  <2>4. Fresh(q, proc[q].code)'
    BY <1>8, <2>1, <2>2 DEF Finishing
  <2> QED BY <2>3, <2>4
<1>10. ASSUME NEW q \in Requests, Closing(q)'
      PROVE  /\ Fresh(q, proc[q].code)'
             /\ proc'[q].code.kind = "totp" /\ factor' /= None => factor'.last < proc'[q].code.value
             /\ \A o \in Requests \ {q} : Closing(o)' =>
                  /\ proc'[o].code /= proc'[q].code
                  /\ proc'[q].code.kind = "recovery" \/ proc'[o].code.kind = "recovery"
  <2>1. q /= p /\ proc'[q] = proc[q] /\ Closing(q)
    BY <1>10 DEF OthersStay, Closing
  <2>2. proc[q].code \in CodeType
    BY <2>1 DEF IInv, StepInv, Closing
  <2>3. proc[q].code /= None /\ Fresh(q, proc[q].code)
    BY <1>1, <1>2, <2>1, <2>2 DEF CodesInv
  <2>4. Fresh(q, proc[q].code)'
    BY <1>8, <2>1, <2>3 DEF Closing
  <2>5. \A o \in Requests : Closing(o)' => proc'[o] = proc[o] /\ Closing(o)
    BY DEF Closing, OthersStay
  <2> QED BY <1>1, <2>1, <2>4, <2>5 DEF CodesInv
<1> QED BY <1>5, <1>7, <1>9, <1>10 DEF CodesInv

LEMMA IssueStep ==
  ASSUME IInv, NEW p \in Requests, Issue(p) PROVE IInv'
<1>1. PICK s \in Sids :
        /\ proc[p].pc = "issue" /\ FreeSid(s)
        /\ sess' = [sess EXCEPT ![s] = Row(s, proc[p].code, now)]
        /\ Done(p) /\ UNCHANGED <<now, second, history, faults>>
  BY DEF Issue
<1> DEFINE row == Row(s, proc[p].code, now)
<1>2. TypeOK /\ proc[p] \in ProcType /\ SessionsInv /\ CodesInv
  BY DEF IInv, TypeOK
<1>3. /\ row \in SessionType /\ row.root = s /\ row.with = proc[p].code
      /\ row.expires = row.began + Absolute /\ row.expires \in Int
  <2>1. now \in Int /\ now + Absolute \in Int /\ proc[p].code \in CodeType \cup {None}
    BY <1>2 DEF TypeOK, ProcType
  <2> QED BY <2>1 DEF Row, SessionType
<1>4. sess'[s] = row /\ \A o \in Sids \ {s} : sess'[o] = sess[o]
  BY <1>1, <1>2 DEF TypeOK
<1> HIDE DEF row
<1>5. sess[s] = None /\ \A q \in Requests : proc[q].new /= s
  BY <1>1 DEF FreeSid, Unused
<1>6. Unclaimed(s)
  BY <1>3, <1>4, <1>5 DEF Unclaimed, FadesBut
<1>7. /\ proc' \in [Requests -> ProcType] /\ \A q \in Requests : StepInv(proc'[q])
      /\ proc'[p] = Blank /\ \A q \in Requests \ {p} : proc'[q] = proc[q]
  BY <1>1, BlankIsTame, Onward DEF Done
<1>8. OthersStay(p) /\ proc'[p].pc = "idle" 
  BY <1>7 DEF OthersStay, Blank
<1>9. TypeOK'
  <2>1. sess' \in [Sids -> SessionType \cup {None}]
    BY <1>1, <1>2, <1>3, <1>4 DEF TypeOK, row
  <2> QED BY <1>1, <1>2, <1>7, <2>1 DEF TypeOK, second, history
<1>10. sess'[s].root = s /\ sess'[s] /= None
  <2>1. None \notin SessionType
    OBVIOUS
  <2> QED BY <1>3, <1>4, <2>1
<1>11. SessionsInv' /\ OneTokenPerSignIn' /\ EndedForGood'
  <2>1. \A o \in Sids \ {s} : Live(o)' => sess'[o].root /= sess'[s].root
    <3>1. ASSUME NEW o \in Sids \ {s}, Live(o)' PROVE sess'[o].root /= s
      <4>1. sess'[o] = sess[o] /\ sess[o] /= None
        BY <1>4, <3>1 DEF Live
      <4>2. sess[sess[o].root] /= None
        BY <1>2, <4>1 DEF SessionsInv
      <4> QED BY <1>5, <4>1, <4>2
    <3> QED BY <1>10, <3>1
  <2>2. s \notin ended
    BY <1>2, <1>5 DEF SessionsInv
  <2>3. sess'[s].expires <= sess'[s].began + Absolute
    BY <1>3, <1>4
  <2>4. ended' = ended /\ sess'[sess'[s].root] /= None /\ sess'[s].root = s
    BY <1>1, <1>10 DEF history
  <2>5. \A q \in Requests \ {p} : proc[q].pc \in {"end", "commit"} => proc[q].new /= s
    BY <1>5
  <2> QED BY <1>6, <1>8, <1>9, <2>1, <2>2, <2>3, <2>4, <2>5, SessionAdded
<1>12. CodesInv' /\ OneSignInPerCode'
  <2>1. sess'[s].with = proc[p].code /\ factor' = factor /\ unused' = unused
    BY <1>1, <1>3, <1>4 DEF second
  <2>2. ASSUME proc[p].code /= None
        PROVE  /\ Behind(proc[p].code)
               /\ \A q \in Requests \ {p} :
                    proc[q].pc \in {"issue", "close"} => proc[q].code /= proc[p].code
               /\ \A o \in Sids : sess[o] /= None => sess[o].with /= proc[p].code
    <3>1. Finishing(p)
      BY <1>1, <2>2 DEF Finishing
    <3>2. Behind(proc[p].code) /\ Fresh(p, proc[p].code)
      BY <1>2, <3>1 DEF CodesInv
    <3>3. \A q \in Requests \ {p} : Closing(q) => Fresh(q, proc[q].code)
      BY <1>2 DEF CodesInv
    <3> QED BY <1>1, <3>2, <3>3 DEF Fresh, Closing
  <2> QED BY <1>6, <1>8, <1>9, <2>1, <2>2, CodesAdded
<1>13. BudgetIsCounted'
  <2>1. \A q \in Requests : SameCount(q)
    BY <1>1, <1>7, <1>8 DEF SameCount
  <2>2. ClockKept /\ ChalKept
    BY <1>1, Unchanged DEF second
  <2> QED BY <1>9, <2>1, <2>2, BudgetKept DEF ClockKept, ChalKept
<1>14. HeldInv'
  <2>1. ASSUME NEW q \in Requests, proc'[q].pc = "commit"
        PROVE  proc'[q] = proc[q] /\ sess'[proc[q].sid] = sess[proc[q].sid]
    <3>1. proc'[q] = proc[q] /\ proc[q].sid \in Sids /\ Live(proc[q].sid)
      BY <1>7, <1>8, <2>1 DEF IInv, StepInv, HeldInv
    <3> QED BY <1>4, <1>5, <3>1 DEF Live
  <2> QED BY <2>1, HeldKept DEF IInv
<1> QED BY <1>7, <1>9, <1>11, <1>12, <1>13, <1>14 DEF IInv

(* The rotation ends the old session, and holds it from then on. *)
LEMMA RotateEndsStep ==
  ASSUME IInv, NEW p \in Requests, RotateEnds(p) PROVE IInv'
<1>1. proc[p] \in ProcType /\ StepInv(proc[p])
  BY DEF IInv, TypeOK
<1>2. /\ proc[p].pc = "end" /\ ~ Held(proc[p].sid)
      /\ UNCHANGED <<now, second, sess, history, faults>>
  BY DEF RotateEnds
<1>3. ClockKept /\ EndedKept /\ FactorKept /\ ChalKept /\ SessKept
  BY <1>2, Unchanged DEF second
<1>4. CASE ~ Live(proc[p].sid)
  <2>1. proc' = [proc EXCEPT ![p] = Blank]
    BY <1>4 DEF RotateEnds, Done
  <2> QED BY <1>2, <1>3, <2>1, BlankTame, BlankIsTame, TameStep
<1>5. CASE Live(proc[p].sid)
  <2> DEFINE r == [proc[p] EXCEPT !.pc = "commit"]
  <2>1. proc' = [proc EXCEPT ![p] = r]
    BY <1>5 DEF RotateEnds, Goto, IInv, TypeOK
  <2>2. r \in ProcType
    BY <1>1 DEF ProcType, Labels
  <2>3. /\ r.pc = "commit" /\ r.sid = proc[p].sid /\ r.new = proc[p].new
        /\ r.row = proc[p].row /\ r.op = proc[p].op /\ r.code = proc[p].code
    BY <1>1 DEF ProcType
  <2>4. StepInv(r)
    BY <1>1, <1>2, <2>3 DEF StepInv
  <2> HIDE DEF r
  <2>5. /\ proc' \in [Requests -> ProcType] /\ \A q \in Requests : StepInv(proc'[q])
        /\ proc'[p] = r /\ \A q \in Requests \ {p} : proc'[q] = proc[q]
    BY <2>1, <2>2, <2>4, Onward
  <2>6. TypeOK'
    BY <1>2, <2>5 DEF IInv, TypeOK, second, history
  <2>7. OneSignInPerCode' /\ CodesInv'
    <3>1. \A q \in Requests : proc'[q] = proc[q] \/ NoCode(q)
      BY <2>3, <2>5 DEF NoCode
    <3> QED BY <1>3, <2>6, <3>1, CodesFade DEF FactorKept, SessKept
  <2>8. BudgetIsCounted'
    <3>1. \A q \in Requests : SameCount(q)
      BY <1>2, <2>3, <2>5 DEF SameCount
    <3> QED BY <1>3, <2>6, <3>1, BudgetKept DEF ClockKept, ChalKept
  <2>9. sess' = sess /\ ended' = ended
    BY <1>2 DEF history
  <2>10. OneTokenPerSignIn' /\ EndedForGood'
    BY <2>9 DEF IInv, OneTokenPerSignIn, EndedForGood, Live
  <2>11. \A q \in Requests :
           /\ (Rotating(q)' <=> Rotating(q)) /\ proc'[q].sid = proc[q].sid
           /\ proc'[q].new = proc[q].new /\ proc'[q].row = proc[q].row
    BY <1>2, <2>3, <2>5 DEF Rotating
  <2>12. SessionsInv'
    <3>1. SessionsInv
      BY DEF IInv
    <3>2. ASSUME NEW q \in Requests, Rotating(q)'
          PROVE  /\ sess'[proc'[q].sid] /= None /\ proc'[q].row.root = sess'[proc'[q].sid].root
                 /\ proc'[q].row.with = sess'[proc'[q].sid].with
                 /\ proc'[q].row.expires <= proc'[q].row.began + Absolute
                 /\ sess'[proc'[q].new] = None
                 /\ \A o \in Requests \ {q} : Rotating(o)' => proc'[o].new /= proc'[q].new
      BY <2>9, <2>11, <3>1, <3>2 DEF SessionsInv
    <3> QED BY <2>9, <3>1, <3>2 DEF SessionsInv
  <2>13. HeldInv'
    <3>1. HeldInv /\ \A s \in Sids : Live(s)' <=> Live(s)
      BY <2>9 DEF IInv, Live
    <3>2. ASSUME NEW q \in Requests, proc'[q].pc = "commit"
          PROVE  /\ Live(proc[q].sid)
                 /\ \A o \in Requests \ {q} : proc'[o].pc = "commit" => proc[o].sid /= proc[q].sid
      BY <1>2, <1>5, <2>5, <3>1, <3>2 DEF HeldInv, Held
    <3>3. ASSUME NEW q \in Requests, proc'[q].pc = "commit"
          PROVE  /\ Live(proc[q].sid)'
                 /\ \A o \in Requests \ {q} : proc'[o].pc = "commit" => proc'[o].sid /= proc'[q].sid
      <4>1. proc'[q].sid = proc[q].sid
        BY <2>11
      <4>2. Live(proc[q].sid)'
        BY <2>9, <3>2, <3>3, <4>1 DEF Live
      <4> QED BY <2>11, <3>2, <3>3, <4>2
    <3> QED BY <3>3 DEF HeldInv
  <2> QED BY <2>5, <2>6, <2>7, <2>8, <2>10, <2>12, <2>13 DEF IInv
<1> QED BY <1>4, <1>5

LEMMA RotateCommitsStep ==
  ASSUME IInv, NEW p \in Requests, RotateCommits(p) PROVE IInv'
<1> DEFINE old == proc[p].sid
           n == proc[p].new
           row == proc[p].row
<1>1. TypeOK /\ proc[p] \in ProcType /\ StepInv(proc[p]) /\ SessionsInv /\ CodesInv
      /\ OneSignInPerCode /\ OneTokenPerSignIn /\ EndedForGood
  BY DEF IInv, TypeOK
<1>2. proc[p].pc = "commit" /\ UNCHANGED <<now, second, history, faults>>
  BY DEF RotateCommits
<1>3. /\ old \in Sids /\ n \in Sids /\ row \in SessionType /\ proc[p].code = None
      /\ sess[old] /= None /\ row.root = sess[old].root /\ row.with = sess[old].with
      /\ row.expires <= row.began + Absolute /\ sess[n] = None
      /\ \A q \in Requests \ {p} : proc[q].pc \in {"end", "commit"} => proc[q].new /= n
  BY <1>1, <1>2 DEF StepInv, SessionsInv, Rotating
<1>4. ClockKept /\ EndedKept /\ FactorKept /\ ChalKept
  BY <1>2, Unchanged DEF second
<1>5. Live(old)
  BY <1>2 DEF IInv, HeldInv
<1> QED
  <2> DEFINE r == [proc[p] EXCEPT !.pc = "prove", !.row = None]
  <2>1. /\ sess' = [sess EXCEPT ![n] = row, ![old].revoked = TRUE]
        /\ proc' = [proc EXCEPT ![p] = r]
    BY <1>1, <1>5 DEF RotateCommits, TypeOK
  <2>2. old /= n
    BY <1>3
  <2>3. /\ sess'[n] = row /\ sess'[old] = [sess[old] EXCEPT !.revoked = TRUE]
        /\ \A o \in Sids \ {n, old} : sess'[o] = sess[o]
    BY <1>1, <1>3, <2>1, <2>2 DEF TypeOK
  <2>4. sess[old] \in SessionType
    BY <1>1, <1>3 DEF TypeOK
  <2>5. /\ sess'[old] \in SessionType /\ sess'[old].revoked
        /\ sess'[old].root = sess[old].root /\ sess'[old].with = sess[old].with
        /\ sess'[old].began = sess[old].began /\ sess'[old].expires = sess[old].expires
    BY <2>3, <2>4 DEF SessionType
  <2>6. None \notin SessionType
    OBVIOUS
  <2>7. sess'[n] /= None /\ sess'[old] /= None
    BY <1>3, <2>3, <2>5, <2>6
  <2>8. Unclaimed(n)
    BY <1>3, <2>3, <2>5, <2>7 DEF Unclaimed, FadesBut
  <2>9. r \in ProcType
    <3>1. ASSUME NEW b \in ProcType, NEW l \in Labels
          PROVE  [b EXCEPT !.pc = l, !.row = None] \in ProcType
      BY DEF ProcType
    <3>2. "prove" \in Labels
      BY DEF Labels
    <3> QED BY ONLY <1>1, <3>1, <3>2, Zenon
  <2>10. r.pc = "prove" /\ r.code = None
    BY <1>1, <1>3 DEF ProcType
  <2>11. StepInv(r)
    BY <2>10 DEF StepInv
  <2> HIDE DEF r
  <2>12. /\ proc' \in [Requests -> ProcType] /\ \A q \in Requests : StepInv(proc'[q])
        /\ proc'[p] = r /\ \A q \in Requests \ {p} : proc'[q] = proc[q]
    BY <2>1, <2>9, <2>11, Onward
  <2>13. OthersStay(p) /\ proc'[p].pc = "prove"
    BY <2>10, <2>12 DEF OthersStay
  <2>14. TypeOK'
    <3>1. sess' \in [Sids -> SessionType \cup {None}]
      <4>1. sess' = [o \in Sids |-> sess'[o]]
        BY <1>1, <2>1 DEF TypeOK
      <4>2. \A o \in Sids : sess'[o] \in SessionType \cup {None}
        BY <1>1, <1>3, <2>3, <2>5 DEF TypeOK
      <4> QED BY <4>1, <4>2
    <3> QED BY <1>1, <1>2, <2>12, <3>1 DEF TypeOK, second, history
  <2>15. SessionsInv' /\ OneTokenPerSignIn' /\ EndedForGood'
    <3>1. ASSUME NEW o \in Sids \ {n}, Live(o)' PROVE sess'[o].root /= sess'[n].root
      <4>1. o /= old /\ sess'[o] = sess[o] /\ Live(o)
        BY <2>3, <2>5, <3>1 DEF Live
      <4> QED BY <1>1, <1>3, <1>5, <2>3, <4>1 DEF OneTokenPerSignIn
    <3>2. sess'[sess'[n].root] /= None
      <4>1. sess[row.root] /= None /\ row.root \in Sids
        BY <1>1, <1>3 DEF SessionsInv, SessionType
      <4> QED BY <2>3, <2>7, <4>1
    <3>3. sess'[n].root \notin ended
      BY <1>1, <1>3, <1>5, <2>3 DEF EndedForGood
    <3>4. ended' = ended /\ sess'[n].expires <= sess'[n].began + Absolute
      BY <1>2, <1>3, <2>3 DEF history
    <3> HIDE DEF n, old, row
    <3> QED BY <1>3, <2>8, <2>13, <2>14, <3>1, <3>2, <3>3, <3>4, SessionAdded
  <2>16. CodesInv' /\ OneSignInPerCode'
    <3>1. factor' = factor /\ unused' = unused
      BY <1>2 DEF second
    <3>2. ASSUME sess'[n].with /= None
          PROVE  /\ Behind(sess'[n].with)
                 /\ \A q \in Requests \ {p} :
                      proc[q].pc \in {"issue", "close"} => proc[q].code /= sess'[n].with
                 /\ \A s \in Sids : sess[s] /= None /\ sess[s].with = sess'[n].with
                                    => sess[s].root = sess'[n].root
      <4>1. sess'[n].with = sess[old].with /\ sess'[n].root = sess[old].root
        BY <1>3, <2>3
      <4>2. Behind(sess[old].with)
        BY <1>1, <1>3, <3>2, <4>1 DEF CodesInv
      <4>3. \A q \in Requests : Closing(q) \/ Finishing(q) => Fresh(q, proc[q].code)
        BY <1>1 DEF CodesInv
      <4>4. \A q \in Requests : proc[q].pc \in {"issue", "close"} =>
              proc[q].code /= sess[old].with
        BY <1>3, <3>2, <4>1, <4>3 DEF Fresh, Closing, Finishing
      <4>5. \A s \in Sids : sess[s] /= None /\ sess[s].with = sess[old].with
                            => sess[s].root = sess[old].root
        BY <1>1, <1>3, <3>2, <4>1 DEF OneSignInPerCode
      <4> QED BY <4>1, <4>2, <4>4, <4>5
    <3> HIDE DEF n, old, row
    <3> QED BY <1>3, <2>8, <2>13, <2>14, <3>1, <3>2, CodesAdded
  <2>17. BudgetIsCounted'
    <3>1. \A q \in Requests : SameCount(q)
      BY <1>2, <2>12, <2>13 DEF SameCount
    <3> QED BY <1>4, <2>14, <3>1, BudgetKept DEF ClockKept, ChalKept
  <2>18. HeldInv'
    <3>1. ASSUME NEW q \in Requests, proc'[q].pc = "commit"
          PROVE  proc'[q] = proc[q] /\ sess'[proc[q].sid] = sess[proc[q].sid]
      <4>1. q /= p /\ proc'[q] = proc[q]
        BY <2>10, <2>12, <3>1
      <4>2. proc[q].sid \in Sids /\ Live(proc[q].sid) /\ proc[q].sid /= old
        BY <1>2, <3>1, <4>1 DEF IInv, StepInv, HeldInv
      <4> QED BY <1>3, <2>3, <4>1, <4>2 DEF Live
    <3> QED BY <3>1, HeldKept DEF IInv
  <2> QED BY <2>12, <2>14, <2>15, <2>16, <2>17, <2>18 DEF IInv


(* A code that is neither wrong nor a recovery code is one of the generator's. *)
LEMMA CodeKinds ==
  ASSUME NEW c \in CodeType
  PROVE  c /= None /\ c.kind \in {"totp", "recovery", "wrong"}
         /\ (c.kind = "totp" => c.value \in Int)
<1>1. None \notin CodeType
  OBVIOUS
<1> QED BY <1>1 DEF CodeType

(* The second factor: a code is accepted. *)
LEMMA AcceptStep ==
  ASSUME IInv, NEW p \in Requests, verify(p), Goto(p, "close") PROVE IInv'
<1> DEFINE code == proc[p].code
           r == [proc[p] EXCEPT !.pc = "close"]
<1>1. TypeOK /\ proc[p] \in ProcType /\ StepInv(proc[p]) /\ SessionsInv /\ CodesInv
  BY DEF IInv, TypeOK
<1>2. proc' = [proc EXCEPT ![p] = r]
  BY <1>1 DEF Goto, TypeOK
<1>3. r \in ProcType
  BY <1>1 DEF ProcType, Labels
<1>4. r.pc = "close" /\ r.code = code /\ r.chal = proc[p].chal
  BY <1>1 DEF ProcType
<1>5. /\ proc[p].pc = "verify" /\ ~ HeldByOther(p, code)
      /\ UNCHANGED <<now, factor, unused, chal, sess, history, faults>>
  BY DEF verify
<1> HIDE DEF r
<1>6. /\ proc'[p] = r /\ \A q \in Requests \ {p} : proc'[q] = proc[q]
  BY <1>1, <1>2 DEF TypeOK
<1>7. /\ UNCHANGED guesses
      /\ \/ code.kind = "recovery" /\ ConsumeRecoveryCode(code.value)
         \/ code.kind = "totp" /\ AdvanceStep(code.value)
  <2>1. ASSUME Goto(p, "count") PROVE FALSE
    <3>1. proc'[p] = [proc[p] EXCEPT !.pc = "count"]
      BY <1>1, <2>1 DEF Goto, TypeOK
    <3>2. proc'[p].pc = "count"
      BY <1>1, <3>1 DEF ProcType
    <3> QED BY <1>4, <1>6, <3>2
  <2> QED BY <2>1 DEF verify
<1>8. code \in CodeType /\ proc[p].chal \in Chals
  BY <1>1, <1>5 DEF StepInv
<1>9. StepInv(r)
  BY <1>4, <1>7, <1>8 DEF StepInv
<1>10. proc' \in [Requests -> ProcType] /\ \A q \in Requests : StepInv(proc'[q])
  BY <1>2, <1>3, <1>9, Onward
<1>11. ClockKept /\ EndedKept /\ FactorKept /\ ChalKept /\ SessKept
  BY <1>5, <1>7, Unchanged
<1>12. TypeOK'
  BY <1>1, <1>5, <1>7, <1>10 DEF TypeOK, history
<1>13. SessionsInv' /\ HeldInv' /\ OneTokenPerSignIn' /\ EndedForGood'
  <2>1. \A q \in Requests : proc'[q] = proc[q] \/ NoRotation(q)
    BY <1>4, <1>6 DEF NoRotation
  <2> QED BY <1>11, <1>12, <2>1, SessionsFade DEF SessKept
<1>14. BudgetIsCounted'
  <2>1. \A q \in Requests : SameCount(q)
    BY <1>4, <1>5, <1>6 DEF SameCount
  <2> QED BY <1>11, <1>12, <2>1, BudgetKept DEF ClockKept, ChalKept
<1>15. OneSignInPerCode'
  BY <1>5 DEF IInv, OneSignInPerCode
<1>16. ~ Behind(code) /\ (code.kind = "totp" /\ factor /= None => factor.last < code.value)
  <2>1. CASE code.kind = "recovery"
    BY <1>7, <2>1 DEF Behind, ConsumeRecoveryCode
  <2>2. CASE code.kind = "totp"
    <3>1. factor /= None /\ factor.last < code.value
      BY <1>7, <2>2 DEF AdvanceStep
    <3>2. factor.last \in Int /\ code.value \in Int
      BY <1>1, <1>8, <2>2, <3>1, CodeKinds DEF TypeOK
    <3> QED BY <2>2, <3>1, <3>2 DEF Behind
  <2> QED BY <1>7, <2>1, <2>2
<1>17. code /= None
  BY <1>8, CodeKinds
<1>18. Fresh(p, code)
  <2>1. \A s \in Sids : sess[s] /= None => sess[s].with /= code
    BY <1>1, <1>16, <1>17 DEF CodesInv
  <2>2. \A q \in Requests \ {p} : proc[q].pc = "issue" => proc[q].code /= code
    BY <1>1, <1>16, <1>17 DEF CodesInv, Finishing
  <2> QED BY <2>1, <2>2 DEF Fresh
<1>19. ASSUME NEW q \in Requests \ {p}, proc[q].pc = "close"
       PROVE  /\ proc[q].code /= code
              /\ proc[q].code.kind = "recovery" \/ code.kind = "recovery"
  <2>1. proc[q].code \in CodeType /\ proc[q].code.kind /= "wrong"
    BY <1>19 DEF IInv, StepInv
  <2>2. proc[q].code.kind \in {"totp", "recovery"}
    BY <2>1, CodeKinds
  <2> QED BY <1>5, <1>7, <1>19, <2>2 DEF HeldByOther
<1>20. \A c : \A q \in Requests : Fresh(q, c) =>
         /\ \A s \in Sids : sess'[s] /= None => sess'[s].with /= c
         /\ \A o \in Requests \ {q} : proc'[o].pc = "issue" => proc'[o].code /= c
  BY <1>4, <1>5, <1>6 DEF Fresh
<1>21. CodesInv'
  <2>1. ASSUME NEW s \in Sids, sess'[s] /= None, sess'[s].with /= None
        PROVE  Behind(sess[s].with)'
    BY <1>1, <1>5, <2>1 DEF CodesInv, Behind
  <2>2. ASSUME NEW q \in Requests, Finishing(q)'
        PROVE  Behind(proc[q].code)' /\ Fresh(q, proc[q].code)'
    <3>1. proc'[q] = proc[q] /\ Finishing(q)
      BY <1>4, <1>6, <2>2 DEF Finishing
    <3>2. Behind(proc[q].code) /\ Fresh(q, proc[q].code)
      BY <1>1, <3>1 DEF CodesInv
    <3>3. Behind(proc[q].code)'
      BY <1>5, <3>1, <3>2 DEF Behind
    <3>4. Fresh(q, proc[q].code)'
      <4>1. PICK c : c = proc[q].code
        OBVIOUS
      <4>2. Fresh(q, c)'
        BY <1>20, <3>2, <4>1 DEF Fresh
      <4> QED BY <3>1, <4>1, <4>2
    <3> QED BY <3>3, <3>4
  <2>3. ASSUME NEW q \in Requests, Closing(q)'
        PROVE  /\ Fresh(q, proc[q].code)'
               /\ proc'[q].code.kind = "totp" /\ factor' /= None => factor'.last < proc'[q].code.value
               /\ \A o \in Requests \ {q} : Closing(o)' =>
                    /\ proc'[o].code /= proc'[q].code
                    /\ proc'[q].code.kind = "recovery" \/ proc'[o].code.kind = "recovery"
    <3>1. proc'[q].code = proc[q].code
      BY <1>4, <1>6
    <3>2. Fresh(q, proc[q].code)
      BY <1>1, <1>6, <1>18, <2>3 DEF CodesInv, Closing
    <3>3. Fresh(q, proc[q].code)'
      <4>1. PICK c : c = proc[q].code
        OBVIOUS
      <4>2. Fresh(q, c)'
        BY <1>20, <3>2, <4>1 DEF Fresh
      <4> QED BY <3>1, <4>1, <4>2
    <3>4. proc'[q].code.kind = "totp" /\ factor' /= None => factor'.last < proc'[q].code.value
      BY <1>1, <1>5, <1>6, <1>16, <2>3, <3>1 DEF CodesInv, Closing
    <3>5. ASSUME NEW o \in Requests \ {q}, Closing(o)'
          PROVE  /\ proc'[o].code /= proc'[q].code
                 /\ proc'[q].code.kind = "recovery" \/ proc'[o].code.kind = "recovery"
      <4>1. proc'[o].code = proc[o].code
        BY <1>4, <1>6
      <4>2. CASE q = p
        BY <1>6, <1>19, <3>1, <3>5, <4>1, <4>2 DEF Closing
      <4>3. CASE o = p
        BY <1>6, <1>19, <2>3, <3>1, <3>5, <4>1, <4>3 DEF Closing
      <4>4. CASE q /= p /\ o /= p
        BY <1>1, <1>6, <2>3, <3>5, <4>4 DEF CodesInv, Closing
      <4> QED BY <4>2, <4>3, <4>4
    <3> QED BY <3>3, <3>4, <3>5
  <2> QED BY <2>1, <2>2, <2>3 DEF CodesInv
<1> QED BY <1>10, <1>12, <1>13, <1>14, <1>15, <1>21 DEF IInv

(* The challenge is closed and the code is spent. *)
LEMMA CloseStep ==
  ASSUME IInv, NEW p \in Requests, Close(p) PROVE IInv'
<1> DEFINE code == proc[p].code
           r == [proc[p] EXCEPT !.pc = "issue"]
<1>1. TypeOK /\ proc[p] \in ProcType /\ StepInv(proc[p]) /\ SessionsInv /\ CodesInv
  BY DEF IInv, TypeOK
<1>2. proc[p].pc = "close" /\ proc' = [proc EXCEPT ![p] = r]
      /\ chal' = [chal EXCEPT ![proc[p].chal] = None]
      /\ UNCHANGED <<now, guesses, sess, history, faults>>
  BY <1>1 DEF Close, Goto, TypeOK
<1>3. r \in ProcType
  BY <1>1 DEF ProcType, Labels
<1>4. r.pc = "issue" /\ r.code = code
  BY <1>1 DEF ProcType
<1>5. code \in CodeType /\ proc[p].chal \in Chals /\ code.kind \in {"totp", "recovery"}
      /\ code /= None /\ (code.kind = "totp" => code.value \in Int)
  BY <1>1, <1>2, CodeKinds DEF StepInv
<1>6. StepInv(r)
  BY <1>4 DEF StepInv
<1> HIDE DEF r
<1>7. /\ proc' \in [Requests -> ProcType] /\ \A q \in Requests : StepInv(proc'[q])
      /\ proc'[p] = r /\ \A q \in Requests \ {p} : proc'[q] = proc[q]
  BY <1>2, <1>3, <1>6, Onward
<1>8. factor' \in [last : Int] \cup {None} /\ unused' \subseteq unused
      /\ (factor = None => factor' = None)
      /\ (code.kind = "totp" /\ factor /= None => factor'.last = code.value)
      /\ (code.kind = "recovery" => factor' = factor /\ code.value \notin unused')
  <2>1. CASE code.kind = "recovery"
    BY <1>1, <2>1 DEF Close, TypeOK
  <2>2. CASE code.kind = "totp" /\ factor = None
    BY <2>2 DEF Close
  <2>3. CASE code.kind = "totp" /\ factor /= None
    <3>1. factor \in [last : Int] /\ code.value \in Int
      BY <1>1, <1>5, <2>3 DEF TypeOK
    <3>2. factor' = [factor EXCEPT !.last = code.value] /\ unused' = unused
      BY <2>3 DEF Close
    <3> QED BY <2>3, <3>1, <3>2
  <2> QED BY <1>5, <2>1, <2>2, <2>3
<1>9. ChalKept
  BY <1>1, <1>2 DEF ChalKept, TypeOK
<1>10. ClockKept /\ EndedKept /\ SessKept
  BY <1>2, Unchanged
<1>11. TypeOK'
  BY <1>1, <1>2, <1>7, <1>8, <1>9 DEF TypeOK, ChalKept, history
<1>12. SessionsInv' /\ HeldInv' /\ OneTokenPerSignIn' /\ EndedForGood'
  <2>1. \A q \in Requests : proc'[q] = proc[q] \/ NoRotation(q)
    BY <1>4, <1>7 DEF NoRotation
  <2> QED BY <1>10, <1>11, <2>1, SessionsFade DEF SessKept
<1>13. BudgetIsCounted'
  <2>1. \A q \in Requests : SameCount(q)
    BY <1>2, <1>4, <1>7 DEF SameCount
  <2> QED BY <1>9, <1>10, <1>11, <2>1, BudgetKept DEF ClockKept, ChalKept
<1>14. OneSignInPerCode'
  BY <1>2 DEF IInv, OneSignInPerCode
<1>15. /\ Fresh(p, code)
       /\ code.kind = "totp" /\ factor /= None => factor.last < code.value
       /\ \A q \in Requests \ {p} : proc[q].pc = "close" =>
            /\ proc[q].code /= code
            /\ code.kind = "recovery" \/ proc[q].code.kind = "recovery"
  BY <1>1, <1>2 DEF CodesInv, Closing
<1>16. ASSUME NEW c, Behind(c), c.kind = "totp" => c.value \in Int
       PROVE  Behind(c)'
  <2>1. CASE code.kind = "totp" /\ factor /= None
    <3>1. factor.last \in Int /\ factor.last < code.value /\ factor'.last = code.value
          /\ code.value \in Int
      BY <1>1, <1>5, <1>8, <1>15, <2>1 DEF TypeOK
    <3> QED BY <1>8, <1>16, <2>1, <3>1 DEF Behind
  <2>2. CASE ~ (code.kind = "totp" /\ factor /= None)
    BY <1>5, <1>8, <1>16, <2>2 DEF Behind
  <2> QED BY <2>1, <2>2
<1>17. ASSUME NEW s \in Sids, sess'[s] /= None, sess'[s].with /= None
       PROVE  Behind(sess[s].with)'
  <2>1. Behind(sess[s].with) /\ sess[s].with \in CodeType
    BY <1>1, <1>2, <1>17 DEF CodesInv, TypeOK, SessionType
  <2>2. PICK c : c = sess[s].with
    OBVIOUS
  <2>3. Behind(c)'
    BY <1>16, <2>1, <2>2, CodeKinds
  <2> QED BY <1>2, <2>2, <2>3
<1>18. \A q \in Requests : proc'[q].code = proc[q].code
  BY <1>4, <1>7
<1>19. ASSUME NEW q \in Requests, Finishing(q)'
       PROVE  Behind(proc[q].code)' /\ Fresh(q, proc[q].code)'
  <2>1. PICK c : c = proc[q].code
    OBVIOUS
  <2>2. CASE q = p
    <3>1. Behind(c)'
      BY <1>5, <1>8, <2>1, <2>2 DEF Behind
    <3>2. Fresh(q, c)'
      BY <1>2, <1>7, <1>15, <2>1, <2>2 DEF Fresh
    <3> QED BY <1>18, <2>1, <3>1, <3>2
  <2>3. CASE q /= p
    <3>1. Finishing(q) /\ proc'[q] = proc[q]
      BY <1>7, <1>19, <2>3 DEF Finishing
    <3>2. Behind(c) /\ Fresh(q, c) /\ c \in CodeType
      <4>1. Behind(c) /\ Fresh(q, c)
        BY <1>1, <2>1, <3>1 DEF CodesInv
      <4>2. c \in CodeType
        BY <1>1, <2>1, <3>1 DEF Finishing, TypeOK, ProcType
      <4> QED BY <4>1, <4>2
    <3>3. Behind(c)'
      BY <1>16, <3>2, CodeKinds
    <3>4. code /= c
      BY <1>15, <2>1, <2>3, <3>1 DEF Fresh, Finishing
    <3>5. Fresh(q, c)'
      BY <1>2, <1>4, <1>7, <3>2, <3>4 DEF Fresh
    <3> QED BY <1>18, <2>1, <3>3, <3>5
  <2> QED BY <2>2, <2>3
<1>20. ASSUME NEW q \in Requests, Closing(q)'
       PROVE  /\ Fresh(q, proc[q].code)'
              /\ proc'[q].code.kind = "totp" /\ factor' /= None => factor'.last < proc'[q].code.value
              /\ \A o \in Requests \ {q} : Closing(o)' =>
                   /\ proc'[o].code /= proc'[q].code
                   /\ proc'[q].code.kind = "recovery" \/ proc'[o].code.kind = "recovery"
  <2>1. q /= p /\ proc'[q] = proc[q] /\ Closing(q)
    BY <1>4, <1>7, <1>20 DEF Closing
  <2>2. PICK c : c = proc[q].code
    OBVIOUS
  <2>3. /\ Fresh(q, c) /\ c /= code /\ (code.kind = "recovery" \/ c.kind = "recovery")
    BY <1>1, <1>15, <2>1, <2>2 DEF CodesInv, Closing
  <2>4. Fresh(q, c)'
    BY <1>2, <1>4, <1>7, <2>3 DEF Fresh
  <2>5. c.kind = "totp" /\ factor' /= None => factor'.last < c.value
    BY <1>1, <1>8, <2>1, <2>2, <2>3 DEF CodesInv
  <2>6. \A o \in Requests : Closing(o)' => proc'[o] = proc[o] /\ Closing(o)
    BY <1>4, <1>7 DEF Closing
  <2>7. \A o \in Requests \ {q} : Closing(o)' =>
          /\ proc'[o].code /= proc'[q].code
          /\ proc'[q].code.kind = "recovery" \/ proc'[o].code.kind = "recovery"
    BY <1>1, <2>1, <2>6 DEF CodesInv
  <2> QED BY <2>1, <2>2, <2>4, <2>5, <2>7
<1>21. CodesInv'
  BY <1>17, <1>19, <1>20 DEF CodesInv
<1> QED BY <1>7, <1>11, <1>12, <1>13, <1>14, <1>21 DEF IInv

(* The budget of a challenge while a wrong code is looked at, charged or lost. *)
CountOf(k) == Cardinality(Counting(k))

LEMMA CountGrows ==
  ASSUME NEW p \in Requests, proc[p].pc /= "count", proc'[p].pc = "count", OthersStay(p), NEW k
  PROVE  Cardinality(Counting(k)') = IF proc'[p].chal = k THEN CountOf(k) + 1 ELSE CountOf(k)
<1>1. IsFiniteSet(Counting(k)) /\ p \notin Counting(k)
  BY CountingIsFinite DEF Counting
<1>2. CASE proc'[p].chal = k
  <2>1. Counting(k)' = Counting(k) \cup {p}
    BY <1>2 DEF Counting, OthersStay
  <2> QED BY <1>1, <1>2, <2>1, FS_AddElement DEF CountOf
<1>3. CASE proc'[p].chal /= k
  <2>1. Counting(k)' = Counting(k)
    BY <1>3 DEF Counting, OthersStay
  <2> QED BY <1>3, <2>1 DEF CountOf
<1> QED BY <1>2, <1>3

LEMMA CountShrinks ==
  ASSUME NEW p \in Requests, proc[p].pc = "count", proc'[p].pc /= "count", OthersStay(p), NEW k
  PROVE  Cardinality(Counting(k)') = IF proc[p].chal = k THEN CountOf(k) - 1 ELSE CountOf(k)
<1>1. IsFiniteSet(Counting(k))
  BY CountingIsFinite
<1>2. CASE proc[p].chal = k
  <2>1. Counting(k)' = Counting(k) \ {p} /\ p \in Counting(k)
    BY <1>2 DEF Counting, OthersStay
  <2> QED BY <1>1, <1>2, <2>1, FS_RemoveElement DEF CountOf
<1>3. CASE proc[p].chal /= k
  <2>1. Counting(k)' = Counting(k)
    BY <1>3 DEF Counting, OthersStay
  <2> QED BY <1>3, <2>1 DEF CountOf
<1> QED BY <1>2, <1>3

(* A step of a request that begins or ends the charging of a wrong code. *)
LEMMA CountStep ==
  ASSUME IInv, NEW p \in Requests, NEW r \in ProcType, StepInv(r),
         proc' = [proc EXCEPT ![p] = r],
         r.pc \in {"count", "idle"},
         UNCHANGED <<factor, unused, sess, history>>, ClockKept,
         chal' \in [Chals -> [expires : Int, attempts : Nat] \cup {None}],
         guesses' \in [Chals -> Nat], BudgetIsCounted'
  PROVE  IInv'
<1>1. /\ proc' \in [Requests -> ProcType] /\ \A q \in Requests : StepInv(proc'[q])
      /\ proc'[p] = r /\ \A q \in Requests \ {p} : proc'[q] = proc[q]
  BY Onward
<1>2. TypeOK'
  BY <1>1 DEF IInv, TypeOK, ClockKept, history
<1>3. EndedKept /\ FactorKept /\ SessKept
  BY Unchanged
<1>4. SessionsInv' /\ HeldInv' /\ OneTokenPerSignIn' /\ EndedForGood'
  <2>1. \A q \in Requests : proc'[q] = proc[q] \/ NoRotation(q)
    BY <1>1 DEF NoRotation
  <2> QED BY <1>2, <1>3, <2>1, SessionsFade DEF SessKept
<1>5. CodesInv' /\ OneSignInPerCode'
  <2>1. \A q \in Requests : proc'[q] = proc[q] \/ NoCode(q)
    BY <1>1 DEF NoCode
  <2> QED BY <1>2, <1>3, <2>1, CodesFade DEF FactorKept, SessKept
<1> QED BY <1>1, <1>2, <1>4, <1>5 DEF IInv

LEMMA RefuseStep ==
  ASSUME IInv, NEW p \in Requests, verify(p), ~ Goto(p, "close") PROVE IInv'
<1> DEFINE r == [proc[p] EXCEPT !.pc = "count"]
           c == proc[p].chal
<1>1. TypeOK /\ proc[p] \in ProcType /\ StepInv(proc[p]) /\ BudgetIsCounted
  BY DEF IInv, TypeOK
<1>2. /\ proc[p].pc = "verify" /\ proc' = [proc EXCEPT ![p] = r]
      /\ guesses' = [guesses EXCEPT ![c] = @ + 1]
      /\ UNCHANGED <<now, factor, unused, chal, sess, history, faults>>
  BY <1>1 DEF verify, Goto, TypeOK
<1>3. r \in ProcType
  BY <1>1 DEF ProcType, Labels
<1>4. /\ r.pc = "count" /\ r.code = proc[p].code
      /\ r.chal = c /\ c \in Chals /\ proc[p].code \in CodeType
  BY <1>1, <1>2 DEF ProcType, StepInv
<1>5. StepInv(r)
  BY <1>4 DEF StepInv
<1> HIDE DEF r, c
<1>6. proc'[p] = r /\ OthersStay(p)
  BY <1>1, <1>2 DEF TypeOK, OthersStay
<1>7. guesses' \in [Chals -> Nat]
  BY <1>1, <1>2, <1>4 DEF TypeOK
<1>8. ASSUME NEW k \in Chals, chal'[k] /= None
      PROVE  /\ guesses'[k] <= chal'[k].attempts + Cardinality(Counting(k)') + faults'
             /\ chal'[k].attempts < MaxChallengeAttempts
  <2>1. Cardinality(Counting(k)') = IF c = k THEN CountOf(k) + 1 ELSE CountOf(k)
    BY <1>2, <1>4, <1>6, CountGrows
  <2>2. CountOf(k) \in Nat
    BY CountingIsFinite DEF CountOf
  <2>3. guesses'[k] = IF c = k THEN guesses[k] + 1 ELSE guesses[k]
    BY <1>1, <1>2, <1>4 DEF TypeOK
  <2>4. /\ guesses[k] <= chal[k].attempts + CountOf(k) + faults
        /\ chal[k].attempts < MaxChallengeAttempts
    BY <1>1, <1>2, <1>8 DEF BudgetIsCounted, CountOf
  <2>5. guesses[k] \in Nat /\ chal[k].attempts \in Nat /\ faults \in Nat
    BY <1>1, <1>2, <1>8 DEF TypeOK
  <2> QED BY <1>2, <2>1, <2>2, <2>3, <2>4, <2>5
<1>9. BudgetIsCounted'
  BY <1>8 DEF BudgetIsCounted
<1>10. ClockKept /\ chal' \in [Chals -> [expires : Int, attempts : Nat] \cup {None}]
  BY <1>1, <1>2, Unchanged DEF TypeOK
<1> QED BY <1>2, <1>3, <1>4, <1>5, <1>7, <1>9, <1>10, CountStep

LEMMA CountAttemptStep ==
  ASSUME IInv, NEW p \in Requests, countAttempt(p) PROVE IInv'
<1> DEFINE c == proc[p].chal
<1>1. TypeOK /\ proc[p] \in ProcType /\ StepInv(proc[p]) /\ BudgetIsCounted
  BY DEF IInv, TypeOK
<1>2. /\ proc[p].pc = "count" /\ proc' = [proc EXCEPT ![p] = Blank]
      /\ chal' = [chal EXCEPT ![c] =
           IF chal[c] = None \/ chal[c].attempts + 1 >= MaxChallengeAttempts THEN None
           ELSE [chal[c] EXCEPT !.attempts = chal[c].attempts + 1]]
      /\ UNCHANGED <<now, factor, unused, guesses, sess, history, faults>>
  BY DEF countAttempt, Done
<1>3. c \in Chals
  BY <1>1, <1>2 DEF StepInv
<1> HIDE DEF c
<1>4. \A k \in Chals : chal[k] /= None => chal[k].attempts \in Nat /\ chal[k] \in [expires : Int, attempts : Nat]
  BY <1>1 DEF TypeOK
<1>5. /\ \A k \in Chals \ {c} : chal'[k] = chal[k]
      /\ chal'[c] = None \/ (/\ chal[c] /= None /\ chal[c].attempts + 1 < MaxChallengeAttempts
                            /\ chal'[c] = [chal[c] EXCEPT !.attempts = chal[c].attempts + 1])
  BY <1>1, <1>2, <1>3, <1>4 DEF TypeOK
<1>6. chal'[c] = None \/ (/\ chal[c] /= None /\ chal[c].attempts + 1 < MaxChallengeAttempts
                          /\ chal'[c].attempts = chal[c].attempts + 1
                          /\ chal'[c] \in [expires : Int, attempts : Nat])
  BY <1>3, <1>4, <1>5
<1>7. chal' \in [Chals -> [expires : Int, attempts : Nat] \cup {None}]
  <2>1. chal' = [k \in Chals |-> chal'[k]]
    BY <1>1, <1>2 DEF TypeOK
  <2>2. \A k \in Chals : chal'[k] \in [expires : Int, attempts : Nat] \cup {None}
    BY <1>1, <1>5, <1>6 DEF TypeOK
  <2> QED BY <2>1, <2>2
<1>8. proc'[p] = Blank /\ OthersStay(p) /\ Blank.pc = "idle"
  BY <1>1, <1>2 DEF TypeOK, OthersStay, Blank
<1>9. ASSUME NEW k \in Chals, chal'[k] /= None
      PROVE  /\ guesses'[k] <= chal'[k].attempts + Cardinality(Counting(k)') + faults'
             /\ chal'[k].attempts < MaxChallengeAttempts
  <2>1. Cardinality(Counting(k)') = IF c = k THEN CountOf(k) - 1 ELSE CountOf(k)
    BY <1>2, <1>8, CountShrinks DEF c
  <2>2. CountOf(k) \in Nat
    BY CountingIsFinite DEF CountOf
  <2>3. chal[k] /= None
    BY <1>5, <1>6, <1>9
  <2>4. /\ guesses[k] <= chal[k].attempts + CountOf(k) + faults
        /\ chal[k].attempts < MaxChallengeAttempts
    BY <1>1, <2>3 DEF BudgetIsCounted, CountOf
  <2>5. guesses[k] \in Nat /\ chal[k].attempts \in Nat /\ faults \in Nat
    BY <1>1, <1>4, <2>3 DEF TypeOK
  <2>6. guesses' = guesses /\ faults' = faults
    BY <1>2
  <2> QED BY <1>5, <1>6, <1>9, <2>1, <2>2, <2>4, <2>5, <2>6
<1>10. BudgetIsCounted'
  BY <1>9 DEF BudgetIsCounted
<1>11. ClockKept /\ guesses' \in [Chals -> Nat] /\ UNCHANGED <<factor, unused, sess, history>>
  BY <1>1, <1>2, Unchanged DEF TypeOK
<1> QED BY <1>2, <1>7, <1>8, <1>10, <1>11, BlankIsTame, CountStep

LEMMA FailStep ==
  ASSUME IInv, NEW p \in Requests, Fail(p) PROVE IInv'
<1>1. TypeOK /\ BudgetIsCounted
  BY DEF IInv
<1>2. /\ faults' = faults + 1 /\ faults \in Nat /\ Done(p)
      /\ UNCHANGED <<now, second, sess, history>>
  BY <1>1 DEF Fail, TypeOK
<1>3. CASE proc[p].pc /= "count"
  BY <1>2, <1>3, AnswerStep
<1>4. CASE proc[p].pc = "count"
  <2>1. proc' = [proc EXCEPT ![p] = Blank]
        /\ UNCHANGED <<now, factor, unused, chal, guesses, sess, history>>
    BY <1>2 DEF Done, second
  <2>2. proc'[p] = Blank /\ OthersStay(p) /\ Blank.pc = "idle"
    BY <1>1, <2>1 DEF TypeOK, OthersStay, Blank
  <2>3. ASSUME NEW k \in Chals, chal'[k] /= None
        PROVE  /\ guesses'[k] <= chal'[k].attempts + Cardinality(Counting(k)') + faults'
               /\ chal'[k].attempts < MaxChallengeAttempts
    <3>1. Cardinality(Counting(k)') \in {CountOf(k) - 1, CountOf(k)}
      BY <1>4, <2>2, CountShrinks
    <3>2. CountOf(k) \in Nat
      BY CountingIsFinite DEF CountOf
    <3>3. /\ guesses[k] <= chal[k].attempts + CountOf(k) + faults
          /\ chal[k].attempts < MaxChallengeAttempts
      BY <1>1, <2>1, <2>3 DEF BudgetIsCounted, CountOf
    <3>4. guesses[k] \in Nat /\ chal[k].attempts \in Nat
      BY <1>1, <2>1, <2>3 DEF TypeOK
    <3>5. guesses' = guesses /\ chal' = chal
      BY <2>1
    <3> QED BY <1>2, <3>1, <3>2, <3>3, <3>4, <3>5
  <2>4. BudgetIsCounted'
    BY <2>3 DEF BudgetIsCounted
  <2>5. ClockKept
    BY <1>1, <1>2 DEF ClockKept, TypeOK
  <2>6. /\ guesses' \in [Chals -> Nat] /\ UNCHANGED <<factor, unused, sess, history>>
        /\ chal' \in [Chals -> [expires : Int, attempts : Nat] \cup {None}]
    BY <1>1, <2>1 DEF TypeOK
  <2> QED BY <2>1, <2>2, <2>4, <2>5, <2>6, BlankIsTame, CountStep
<1> QED BY <1>3, <1>4

LEMMA VerifyStepKept ==
  ASSUME IInv, NEW p \in Requests, verify(p) PROVE IInv'
BY AcceptStep, RefuseStep

(* The account before the first request. *)
LEMMA AccountsInit == Init => IInv
<1> SUFFICES ASSUME Init PROVE IInv
  OBVIOUS
<1>1. /\ now = 0 /\ faults = 0 /\ ended = {}
      /\ factor \in {None, [last |-> -1]} /\ unused = IF factor = None THEN {} ELSE Recovery
      /\ chal = [k \in Chals |-> None] /\ guesses = [k \in Chals |-> 0]
      /\ sess = [s \in Sids |-> IF factor = None /\ s <= 2 THEN Row(s, None, -1) ELSE None]
      /\ proc = [q \in Requests |-> Blank]
  BY DEF Init
<1>2. ASSUME NEW s \in Sids
      PROVE  /\ sess[s] \in SessionType \cup {None}
             /\ sess[s] /= None =>
                  /\ sess[s].root = s /\ sess[s].with = None
                  /\ sess[s].expires <= sess[s].began + Absolute
  <2>1. -1 + Absolute \in Int /\ -1 \in Int
    OBVIOUS
  <2>2. /\ Row(s, None, -1) \in SessionType /\ Row(s, None, -1).root = s
        /\ Row(s, None, -1).with = None
        /\ Row(s, None, -1).expires = Row(s, None, -1).began + Absolute
        /\ Row(s, None, -1).expires \in Int
    BY <2>1 DEF Row, SessionType
  <2>3. sess[s] = Row(s, None, -1) \/ sess[s] = None
    BY <1>1
  <2> QED BY <2>2, <2>3
<1>3. /\ Blank.pc = "idle"
      /\ \A q \in Requests : proc[q] = Blank
  BY <1>1 DEF Blank
<1>4. TypeOK
  <2>1. sess \in [Sids -> SessionType \cup {None}]
    BY <1>1, <1>2
  <2>2. proc \in [Requests -> ProcType]
    BY <1>1, BlankIsTame
  <2>3. factor \in [last : Int] \cup {None} /\ unused \subseteq Recovery
    BY <1>1
  <2> QED BY <1>1, <2>1, <2>2, <2>3 DEF TypeOK
<1>5. \A q \in Requests : StepInv(proc[q])
  BY <1>3, BlankIsTame
<1>6. SessionsInv
  BY <1>1, <1>2, <1>3 DEF SessionsInv, Rotating
<1>a. HeldInv
  BY <1>3 DEF HeldInv
<1>7. CodesInv /\ OneSignInPerCode
  BY <1>2, <1>3 DEF CodesInv, OneSignInPerCode, Closing, Finishing
<1>8. OneTokenPerSignIn /\ EndedForGood
  BY <1>1, <1>2 DEF OneTokenPerSignIn, EndedForGood, Live
<1>9. BudgetIsCounted
  BY <1>1 DEF BudgetIsCounted
<1> QED BY <1>4, <1>5, <1>6, <1>a, <1>7, <1>8, <1>9 DEF IInv

LEMMA AccountsNext == IInv /\ [Next]_vars => IInv'
<1> SUFFICES ASSUME IInv, [Next]_vars PROVE IInv'
  OBVIOUS
<1>1. ASSUME NEW p \in Requests, Request(p) PROVE IInv'
  <2>1. CASE \/ Authenticate(p) \/ Complete(p) \/ SessionOf(p)
             \/ SetPassword(p) \/ ChangePassword(p) \/ RevokeForAccount(p)
    BY <2>1, AuthenticateStep, CompleteStep, SessionOfStep, SetPasswordStep
  <2>2. CASE rehash(p) \/ Enrolled(p) \/ reauthenticate(p) \/ UpdatePasswordHash(p)
    BY <2>2, PasswordSteps
  <2>3. CASE Begin(p) \/ Issue(p) \/ verify(p) \/ Close(p) \/ countAttempt(p)
    BY <2>3, BeginStep, IssueStep, VerifyStepKept, CloseStep, CountAttemptStep
  <2>4. CASE \/ TouchSession(p) \/ revokeForUser(p) \/ RevokeUserSessions(p)
             \/ RotateSession(p) \/ RotateEnds(p) \/ RotateCommits(p)
    BY <2>4, TouchSessionStep, RevokeForUserStep, RevokeUserSessionsStep,
       RotateSessionStep, RotateEndsStep, RotateCommitsStep
  <2>5. CASE RecordProof(p) \/ Revoke(p) \/ Disable(p) \/ Fail(p)
    BY <2>5, RecordProofStep, RevokeStep, DisableStep, FailStep
  <2> QED BY <1>1, <2>1, <2>2, <2>3, <2>4, <2>5 DEF Request
<1> QED BY <1>1, BackgroundSteps DEF Next

\* However the requests of an account interleave, fail, and meet the sweeps and
\* the administrator, its sessions, its codes and its challenges stay in the
\* states IInv describes.
THEOREM AccountsInvariant == Spec => []IInv
BY AccountsInit, AccountsNext, PTL DEF Spec

\* One sign-in never has two tokens that work, whatever rotates it, and none
\* outlives its deadline (auth.Rotate), for any number of requests and sessions.
THEOREM OneTokenPerSignInHolds == Spec => []OneTokenPerSignIn
<1>1. IInv => OneTokenPerSignIn
  BY DEF IInv
<1> QED BY <1>1, AccountsInvariant, PTL

\* What a revocation has ended (ChangePassword, SetPassword, RevokeForAccount)
\* never works again, and nothing rotated from it does, for any number of
\* concurrent revocations and rotations (sessions.revokeForUser, Rotate).
THEOREM EndedForGoodHolds == Spec => []EndedForGood
<1>1. IInv => EndedForGood
  BY DEF IInv
<1> QED BY <1>1, AccountsInvariant, PTL

\* No one-time code and no recovery code finishes two sign-ins, and no step
\* after the last accepted one ever did, for any number of requests that check
\* codes at once (mfa.Verify, AdvanceStep).
THEOREM CodesAreSpentOnceHolds == Spec => []CodesAreSpentOnce
<1>1. IInv => CodesAreSpentOnce
  BY DEF IInv, CodesAreSpentOnce, LastIsTheLatest, CodesInv, Behind
<1> QED BY <1>1, AccountsInvariant, PTL

\* Every wrong code is charged to its challenge or is about to be, and an open
\* challenge has budget left (countAttempt), for any number of requests.
THEOREM BudgetIsCountedHolds == Spec => []BudgetIsCounted
<1>1. IInv => BudgetIsCounted
  BY DEF IInv
<1> QED BY <1>1, AccountsInvariant, PTL

-----------------------------------------------------------------------------
(* Listings.  Rows are put in order by counting the ones before each: no two
   rows have the same rank, and every rank below the number of rows is taken. *)
Keyed(found) == found \in SUBSET Ids /\ \A i \in found : SortKey(rows[i]) \in Int

LEMMA UnixNanoType == \A instant \in Int : UnixNano(instant) \in Int
  BY CatalogueAssumption DEF UnixNano

LEMMA RowsHaveKeys ==
  ASSUME CTypeOK, NEW i \in Ids, rows[i] /= Nil
  PROVE  /\ SortKey(rows[i]) \in Int /\ encodeCursor(i) \in PositionType
         /\ encodeCursor(i).id = i
<1>1. rows[i] \in RowType
  BY DEF CTypeOK
<1>2. CASE rows[i] \in [table : {"resources"}, org : Orgs, name : Names, retired : BOOLEAN]
  <2>1. rows[i].table = "resources" /\ rows[i].name \in Names
    BY <1>2
  <2>2. SortKey(rows[i]) \in Int /\ CursorKey(rows[i]) \in Int
    BY <2>1, CatalogueAssumption DEF SortKey, CursorKey
  <2>3. (4 * (Bytes[rows[i].name] + 1 + UUIDBytes) + 2) \div 3 \in Int
    <3>1. Bytes[rows[i].name] \in Nat
      BY <2>1, CatalogueAssumption
    <3> QED BY <3>1 DEF UUIDBytes
  <2> QED BY <2>1, <2>2, <2>3 DEF encodeCursor, PositionType
<1>3. CASE rows[i] \in [table : {"reservations"}, org : Orgs, start : Starts,
                         state : {"booked", "cancelled"}]
  <2>1. rows[i].table = "reservations" /\ rows[i].start \in Int
    BY <1>3, CatalogueAssumption
  <2>2. SortKey(rows[i]) \in Int /\ CursorKey(rows[i]) \in Int
    BY <2>1, UnixNanoType DEF SortKey, CursorKey
  <2> QED BY <2>1, <2>2 DEF encodeCursor, PositionType
<1> QED BY <1>1, <1>2, <1>3 DEF RowType

LEMMA BeforeIsAnOrder ==
  ASSUME NEW found, Keyed(found)
  PROVE  /\ \A i \in found : ~ Before(i, i)
         /\ \A i, j \in found : i = j \/ Before(i, j) \/ Before(j, i)
         /\ \A i, j, k \in found : Before(i, j) /\ Before(j, k) => Before(i, k)
<1>1. \A i \in found : i \in Int /\ SortKey(rows[i]) \in Int
  BY CatalogueAssumption DEF Keyed
<1> QED BY <1>1 DEF Before

LEMMA RankFacts ==
  ASSUME NEW found, Keyed(found)
  PROVE  /\ IsFiniteSet(found) /\ Cardinality(found) \in Nat
         /\ \A i \in found : Rank(found, i) \in 0..(Cardinality(found) - 1)
         /\ \A i, j \in found : Before(i, j) <=> Rank(found, i) < Rank(found, j)
         /\ \A i, j \in found : Rank(found, i) = Rank(found, j) => i = j
         /\ \A n \in 0..(Cardinality(found) - 1) : \E i \in found : Rank(found, i) = n
<1> DEFINE B(i) == {j \in found : Before(j, i)}
<1>1. IsFiniteSet(found) /\ Cardinality(found) \in Nat
  <2>1. found \in SUBSET Ids /\ IsFiniteSet(Ids)
    BY CatalogueAssumption DEF Keyed
  <2>2. IsFiniteSet(found)
    BY <2>1, FS_Subset
  <2> QED BY <2>2, FS_CardinalityType
<1>2. \A i \in found : IsFiniteSet(B(i)) /\ Cardinality(B(i)) \in Nat /\ Rank(found, i) = Cardinality(B(i))
  <2> TAKE i \in found
  <2>1. B(i) \in SUBSET found
    OBVIOUS
  <2>2. IsFiniteSet(B(i))
    BY <1>1, <2>1, FS_Subset
  <2> QED BY <2>2, FS_CardinalityType DEF Rank
<1>3. \A i \in found : Rank(found, i) \in 0..(Cardinality(found) - 1)
  <2> TAKE i \in found
  <2>1. B(i) \in SUBSET found /\ B(i) # found
    BY BeforeIsAnOrder
  <2>2. Cardinality(B(i)) <= Cardinality(found) /\ Cardinality(found) # Cardinality(B(i))
    BY <1>1, <2>1, FS_Subset
  <2> QED BY <1>1, <1>2, <2>2
<1>4. \A i, j \in found : Before(i, j) => Rank(found, i) < Rank(found, j)
  <2> TAKE i, j \in found
  <2> HAVE Before(i, j)
  <2>1. B(i) \in SUBSET B(j) /\ i \in B(j) /\ i \notin B(i)
    BY BeforeIsAnOrder
  <2>2. Cardinality(B(i)) <= Cardinality(B(j)) /\ Cardinality(B(j)) # Cardinality(B(i))
    BY <1>2, <2>1, FS_Subset
  <2>3. /\ Rank(found, i) = Cardinality(B(i)) /\ Rank(found, j) = Cardinality(B(j))
        /\ Cardinality(B(i)) \in Nat /\ Cardinality(B(j)) \in Nat
    BY <1>2
  <2>4. \A m, n \in Nat : m <= n /\ n # m => m < n
    OBVIOUS
  <2> QED BY <2>2, <2>3, <2>4
<1>5. \A i, j \in found : Rank(found, i) = Rank(found, j) => i = j
  <2> TAKE i, j \in found
  <2>1. Rank(found, i) \in Int /\ Rank(found, j) \in Int
    BY <1>3
  <2> QED BY <1>4, <2>1, BeforeIsAnOrder
<1>6. \A i, j \in found : Rank(found, i) < Rank(found, j) => Before(i, j)
  <2> TAKE i, j \in found
  <2>1. Rank(found, i) \in Int /\ Rank(found, j) \in Int
    BY <1>3
  <2> QED BY <1>4, <2>1, BeforeIsAnOrder
<1>7. \A n \in 0..(Cardinality(found) - 1) : \E i \in found : Rank(found, i) = n
  <2>1. PICK f : f = [i \in found |-> Rank(found, i)]
    OBVIOUS
  <2>2. PICK T : T = 0..(Cardinality(found) - 1)
    OBVIOUS
  <2>3. f \in Injection(found, T)
    BY <1>3, <1>5, <2>1, <2>2 DEF Injection, IsInjective
  <2>4. IsFiniteSet(T) /\ Cardinality(T) = Cardinality(found)
    BY <1>1, <2>2, FS_Interval
  <2>5. f \in Surjection(found, T)
    BY <2>3, <2>4, FS_Injection
  <2> QED BY <2>1, <2>2, <2>5 DEF Surjection
<1> QED BY <1>1, <1>3, <1>4, <1>5, <1>6, <1>7

\* ORDER BY and LIMIT: the n-th row has rank n - 1.
Lists(all, found, limit) ==
  /\ all \in Seq(found) /\ Len(all) \in Nat /\ Cardinality(found) \in Nat
  /\ Len(all) = IF Cardinality(found) > limit THEN limit ELSE Cardinality(found)
  /\ \A n \in 1..Len(all) : all[n] \in found /\ Rank(found, all[n]) = n - 1
  /\ \A i \in found : Rank(found, i) < Len(all) => all[Rank(found, i) + 1] = i
LEMMA OrderedFacts ==
  ASSUME NEW found, Keyed(found), NEW limit \in Nat, NEW all, all = Ordered(found, limit)
  PROVE  Lists(all, found, limit)
<1>1. PICK k : k = IF Cardinality(found) > limit THEN limit ELSE Cardinality(found)
  OBVIOUS
<1>2. PICK pick : pick = [n \in 1..k |-> CHOOSE i \in found : Rank(found, i) = n - 1]
  OBVIOUS
<1>3. all = pick
  BY <1>1, <1>2 DEF Ordered
<1>4. Cardinality(found) \in Nat /\ k \in Nat /\ k <= Cardinality(found)
  BY <1>1, RankFacts
<1>5. \A n \in 1..k : pick[n] \in found /\ Rank(found, pick[n]) = n - 1
  <2> TAKE n \in 1..k
  <2>1. n - 1 \in 0..(Cardinality(found) - 1)
    BY <1>4
  <2>2. \E i \in found : Rank(found, i) = n - 1
    BY <2>1, RankFacts
  <2>3. pick[n] = CHOOSE i \in found : Rank(found, i) = n - 1
    BY <1>2
  <2> QED BY <2>2, <2>3, Zenon
<1>6. pick \in Seq(found) /\ Len(pick) = k
  <2>1. pick \in [1..k -> found]
    BY <1>2, <1>5
  <2> QED BY <1>4, <2>1
<1>7. \A i \in found : Rank(found, i) < k => pick[Rank(found, i) + 1] = i
  <2> TAKE i \in found
  <2> HAVE Rank(found, i) < k
  <2>1. Rank(found, i) \in Nat /\ Rank(found, i) + 1 \in 1..k
    BY <1>4, RankFacts
  <2>2. pick[Rank(found, i) + 1] \in found /\ Rank(found, pick[Rank(found, i) + 1]) = Rank(found, i)
    BY <1>5, <2>1
  <2> QED BY <2>2, RankFacts
<1> QED BY <1>1, <1>3, <1>4, <1>5, <1>6, <1>7 DEF Lists

\* A page shows the first rows found.  There is a next one unless it shows them
\* all, and its cursor is the position of the last row shown.
Shown(page) == {page.items[n] : n \in DOMAIN page.items}
PageOf(page, found) ==
  /\ Shown(page) \subseteq found
  /\ page.next = Nil => Shown(page) = found
  /\ page.next /= Nil =>
       \E last \in found : /\ page.next = encodeCursor(last)
                           /\ \A i \in found : i \in Shown(page) <=> ~ Before(last, i)
LEMMA PageFacts ==
  ASSUME CTypeOK, NEW found \in SUBSET Ids, \A i \in found : rows[i] /= Nil,
         NEW size \in Nat \ {0}, NEW page, page = Cut(Ordered(found, size + 1), size)
  PROVE  PageOf(page, found)
<1>1. Keyed(found)
  BY RowsHaveKeys DEF Keyed
<1>2. PICK all : all = Ordered(found, size + 1)
  OBVIOUS
<1>3. /\ all \in Seq(found) /\ Len(all) \in Nat /\ Cardinality(found) \in Nat
      /\ Len(all) = IF Cardinality(found) > size + 1 THEN size + 1 ELSE Cardinality(found)
      /\ \A n \in 1..Len(all) : all[n] \in found /\ Rank(found, all[n]) = n - 1
      /\ \A i \in found : Rank(found, i) < Len(all) => all[Rank(found, i) + 1] = i
  <2>1. PICK limit \in Nat : limit = size + 1
    OBVIOUS
  <2>2. all = Ordered(found, limit)
    BY <1>2, <2>1
  <2>3. Lists(all, found, limit)
    BY <1>1, <2>1, <2>2, OrderedFacts
  <2> QED BY <2>1, <2>3 DEF Lists
<1>4. /\ page.items = IF Len(all) > size THEN SubSeq(all, 1, size) ELSE all
      /\ page.next = IF Len(all) > size THEN encodeCursor(all[size]) ELSE Nil
  BY <1>2 DEF Cut
<1>5. PICK k \in Nat : k = IF Len(all) > size THEN size ELSE Len(all)
  BY <1>3
<1>6. DOMAIN page.items = 1..k /\ \A n \in 1..k : page.items[n] = all[n]
  <2>1. CASE Len(all) > size
    <3>0. size \in 0..Len(all)
      BY <1>3, <2>1
    <3>1. page.items = SubSeq(all, 1, size) /\ size \in 0..Len(all) /\ all \in Seq(found)
      BY <1>3, <1>4, <2>1, <3>0
    <3>2. Len(page.items) = size /\ page.items \in Seq(found)
      BY <3>1
    <3>3. \A n \in 1..size : page.items[n] = all[n]
      BY <3>1
    <3> QED BY <1>5, <2>1, <3>2, <3>3
  <2>2. CASE ~ (Len(all) > size)
    BY <1>3, <1>4, <1>5, <2>2
  <2> QED BY <2>1, <2>2
<1>7. k <= Len(all) /\ k <= size /\ k <= Cardinality(found)
  BY <1>3, <1>5
<1>8. \A i \in found : i \in Shown(page) <=> Rank(found, i) < k
  <2> TAKE i \in found
  <2>1. Rank(found, i) \in Nat
    BY <1>1, RankFacts
  <2>2. ASSUME Rank(found, i) < k PROVE i \in Shown(page)
    <3>1. Rank(found, i) + 1 \in 1..k /\ all[Rank(found, i) + 1] = i
      BY <1>3, <1>7, <2>1, <2>2
    <3> QED BY <1>6, <3>1 DEF Shown
  <2>3. ASSUME i \in Shown(page) PROVE Rank(found, i) < k
    <3>1. PICK n \in 1..k : i = all[n]
      BY <1>6, <2>3 DEF Shown
    <3>2. Rank(found, i) = n - 1
      BY <1>3, <1>7, <3>1
    <3> QED BY <3>2
  <2> QED BY <2>2, <2>3
<1>9. Shown(page) \subseteq found
  <2>1. \A n \in 1..k : all[n] \in found
    BY <1>3, <1>7
  <2> QED BY <1>6, <2>1 DEF Shown
<1>10. CASE Len(all) > size
  <2>1. k = size /\ size \in 1..Len(all) /\ all[size] \in found /\ Rank(found, all[size]) = size - 1
    <3>1. k = size
      BY <1>5, <1>10
    <3>2. size \in 1..Len(all)
      <4>1. Len(all) \in Nat
        BY <1>3
      <4> QED BY <1>10, <4>1
    <3> QED BY <1>3, <3>1, <3>2
  <2>2. page.next = encodeCursor(all[size]) /\ page.next /= Nil
    <3>1. page.next = encodeCursor(all[size])
      BY <1>4, <1>10
    <3>2. encodeCursor(all[size]) \in PositionType
      BY <2>1, RowsHaveKeys
    <3> QED BY <3>1, <3>2, CatalogueAssumption
  <2>3. \A i \in found : i \in Shown(page) <=> ~ Before(all[size], i)
    <3> TAKE i \in found
    <3>1. Rank(found, i) \in Nat
      BY <1>1, RankFacts
    <3>2. Before(all[size], i) <=> size - 1 < Rank(found, i)
      BY <1>1, <2>1, RankFacts
    <3>3. i \in Shown(page) <=> Rank(found, i) < size
      BY <1>8, <2>1
    <3> QED BY <3>1, <3>2, <3>3
  <2> QED BY <1>9, <2>1, <2>2, <2>3 DEF PageOf
<1>11. CASE ~ (Len(all) > size)
  <2>1. page.next = Nil /\ k = Cardinality(found)
    BY <1>3, <1>4, <1>5, <1>11
  <2>2. \A i \in found : Rank(found, i) < k
    BY <1>1, <2>1, RankFacts
  <2> QED BY <1>8, <1>9, <2>1, <2>2 DEF PageOf
<1> QED BY <1>10, <1>11

\* A report skips the rows of the pages before it.
LEMMA ReportFacts ==
  ASSUME NEW binding, Keyed(TakenRows(binding)), NEW report \in ReportType,
         NEW shown, shown = {rowsAt(binding, report)[n] : n \in DOMAIN rowsAt(binding, report)}
  PROVE  /\ Offset(report) \in Nat
         /\ shown \subseteq TakenRows(binding)
         /\ \A i \in TakenRows(binding) :
              i \in shown <=> /\ Offset(report) <= Rank(TakenRows(binding), i)
                              /\ Rank(TakenRows(binding), i) < Offset(report) + report.size
<1>0. PICK found : found = TakenRows(binding)
  OBVIOUS
<1>1. PICK o : o = Offset(report)
  OBVIOUS
<1>2. PICK size : size = report.size
  OBVIOUS
<1>3. o \in Nat /\ size \in Nat \ {0}
  <2>1. report.number \in Nat \ {0} /\ report.size \in Nat \ {0}
    BY DEF ReportType
  <2>2. report.number - 1 \in Nat
    BY <2>1
  <2> QED BY <1>1, <1>2, <2>1, <2>2 DEF Offset
<1>4. PICK all : all = Ordered(found, o + size)
  OBVIOUS
<1>5. /\ all \in Seq(found) /\ Len(all) \in Nat /\ Cardinality(found) \in Nat
      /\ Len(all) <= o + size
      /\ Len(all) = Cardinality(found) \/ Len(all) = o + size
      /\ \A n \in 1..Len(all) : all[n] \in found /\ Rank(found, all[n]) = n - 1
      /\ \A i \in found : Rank(found, i) < Len(all) => all[Rank(found, i) + 1] = i
      /\ \A i \in found : Rank(found, i) \in 0..(Cardinality(found) - 1)
  <2>1. PICK limit \in Nat : limit = o + size
    BY <1>3
  <2>2. all = Ordered(found, limit)
    BY <1>4, <2>1
  <2>3. Keyed(found)
    BY <1>0
  <2>4. Lists(all, found, limit)
    BY <2>1, <2>2, <2>3, OrderedFacts
  <2>5. Len(all) <= o + size /\ (Len(all) = Cardinality(found) \/ Len(all) = o + size)
    BY <1>3, <2>1, <2>4 DEF Lists
  <2>6. \A i \in found : Rank(found, i) \in 0..(Cardinality(found) - 1)
    BY <2>3, RankFacts
  <2> QED BY <2>4, <2>5, <2>6 DEF Lists
<1>6. PICK page : page = SubSeq(all, o + 1, Len(all))
  OBVIOUS
<1>7. rowsAt(binding, report) = page
  BY <1>0, <1>1, <1>2, <1>4, <1>6 DEF rowsAt, TakenRows
<1>8. /\ page \in Seq(found)
      /\ Len(page) = IF o + 1 <= Len(all) THEN Len(all) - o ELSE 0
      /\ \A n \in 1..Len(page) : page[n] = all[o + n]
  <2>1. CASE o + 1 <= Len(all)
    <3>1. o + 1 \in 1..Len(all) + 1
      BY <1>3, <1>5, <2>1
    <3>2. page \in Seq(found) /\ Len(page) = Len(all) - o
      BY <1>3, <1>5, <1>6, <2>1
    <3>3. ASSUME NEW n \in 1..Len(page) PROVE page[n] = all[o + n]
      <4>1. n \in 1..(Len(all) - (o + 1) + 1)
        BY <1>3, <1>5, <3>2
      <4>2. PICK m : m = o + 1
        OBVIOUS
      <4>3. m \in 1..Len(all) /\ page = SubSeq(all, m, Len(all)) /\ n \in 1..(Len(all) - m + 1)
        BY <1>3, <1>5, <1>6, <2>1, <4>1, <4>2
      <4>4. page[n] = all[m + n - 1]
        BY <1>5, <4>3
      <4>5. m + n - 1 = o + n
        BY <1>3, <4>2
      <4> QED BY <4>4, <4>5
    <3> QED BY <2>1, <3>2, <3>3
  <2>2. CASE ~ (o + 1 <= Len(all))
    BY <1>3, <1>5, <1>6, <2>2
  <2> QED BY <2>1, <2>2
<1>9. shown = {page[n] : n \in 1..Len(page)}
  BY <1>7, <1>8
<1>10. shown \subseteq found
  <2>1. \A n \in 1..Len(page) : page[n] \in found
    BY <1>8
  <2> QED BY <1>9, <2>1
<1>11. \A i \in found : i \in shown <=> o <= Rank(found, i) /\ Rank(found, i) < o + size
  <2> TAKE i \in found
  <2>1. Rank(found, i) \in Nat /\ Rank(found, i) < Cardinality(found)
    BY <1>5
  <2>2. ASSUME o <= Rank(found, i), Rank(found, i) < o + size PROVE i \in shown
    <3>1. Rank(found, i) < Len(all) /\ all[Rank(found, i) + 1] = i
      BY <1>3, <1>5, <2>1, <2>2
    <3>2. PICK n : n = Rank(found, i) + 1 - o
      OBVIOUS
    <3>3. n \in 1..Len(page) /\ o + n = Rank(found, i) + 1
      <4>1. o + 1 <= Len(all)
        BY <1>3, <1>5, <2>1, <2>2, <3>1
      <4>2. Len(page) = Len(all) - o
        BY <1>8, <4>1
      <4>3. PICK r \in Nat : r = Rank(found, i)
        BY <2>1
      <4>4. r \in Nat /\ o <= r /\ r < Len(all) /\ n = r + 1 - o /\ o \in Nat /\ Len(all) \in Nat
        BY <1>3, <1>5, <2>2, <3>1, <3>2, <4>3
      <4>5. n \in 1..(Len(all) - o) /\ o + n = r + 1
        BY <4>4
      <4> QED BY <4>2, <4>3, <4>5
    <3>4. page[n] = i
      BY <1>8, <3>1, <3>3
    <3> QED BY <1>9, <3>3, <3>4
  <2>3. ASSUME i \in shown PROVE o <= Rank(found, i) /\ Rank(found, i) < o + size
    <3>1. PICK n \in 1..Len(page) : i = page[n]
      BY <1>9, <2>3
    <3>2. o + n \in 1..Len(all) /\ i = all[o + n]
      BY <1>3, <1>5, <1>8, <3>1
    <3>3. Rank(found, i) = o + n - 1
      <4>1. PICK m : m = o + n
        OBVIOUS
      <4>2. Rank(found, all[m]) = m - 1
        BY <1>5, <3>2, <4>1
      <4>3. i = all[m] /\ o + n - 1 = m - 1
        BY <1>3, <3>1, <3>2, <4>1
      <4> QED BY <4>2, <4>3
    <3> QED BY <1>3, <1>5, <3>2, <3>3
  <2> QED BY <2>2, <2>3
<1> QED BY <1>0, <1>1, <1>2, <1>3, <1>10, <1>11

\* A request that is understood asks for a page of one row or more, and goes on
\* with a cursor only of the listing that issued it.
LEMMA ForwardFacts ==
  ASSUME NEW binding, NEW token, NEW size, NEW first \in BOOLEAN,
         parseForward(binding, token, size, first)
  PROVE  size \in Nat \ {0} /\ (~ first => token.binding = binding)
<1>1. PICK query : query = [limit |-> <<size>>, before |-> << >>,
                            after |-> IF first THEN << >> ELSE <<token>>]
  OBVIOUS
<1>2. ParsePage(binding, query, Cardinality(Ids)) = "ok"
  BY <1>1 DEF parseForward
<1>3. query.limit = <<size>> /\ query.before = << >>
      /\ query.after = IF first THEN << >> ELSE <<token>>
  BY <1>1
<1>4. parseLimit(query.limit, Cardinality(Ids))
  BY <1>2 DEF ParsePage
<1>5. Cardinality(Ids) \in Nat
  BY CatalogueAssumption, FS_CardinalityType
<1>6. size \in Nat \ {0}
  <2>1. 1 \in DOMAIN <<size>> /\ <<size>>[1] = size
    OBVIOUS
  <2>2. size \in 1..Cardinality(Ids)
    BY <1>3, <1>4, <2>1 DEF parseLimit
  <2> QED BY <1>5, <2>2
<1>7. ASSUME ~ first PROVE token.binding = binding
  <2>1. query.after = <<token>> /\ query.after /= << >> /\ query.before = << >>
    BY <1>3, <1>7
  <2>2. Head(query.after \o query.before) = token
    BY <2>1
  <2>3. Decode(binding, token) = "ok"
    <3>1. PICK verdict : verdict = Decode(binding, token)
      OBVIOUS
    <3>2. CASE verdict = "ok"
      BY <3>1, <3>2
    <3>3. CASE verdict /= "ok"
      <4>1. ParsePage(binding, query, Cardinality(Ids)) \in
              {"ErrInvalidLimit", "ErrRepeatedParameter", "ErrConflictingCursors", verdict}
        BY <2>1, <2>2, <3>1, <3>3 DEF ParsePage
      <4> QED BY <1>2, <3>3, <4>1
    <3> QED BY <3>2, <3>3
  <2> QED BY <2>3 DEF Decode
<1> QED BY <1>6, <1>7

\* A walk that has been stopped has nothing to account for.
LEMMA StoppedWalks ==
  /\ {Stopped, paginationProblem, InternalServerError} \subseteq WalkType
  /\ \A w \in {Stopped, paginationProblem, InternalServerError} : WalkInv(w)
<1>1. /\ Stopped \in WalkType /\ Stopped.steady = {} /\ Stopped.token = Nil /\ Stopped.report = Nil
      /\ Stopped.times = [i \in Ids |-> 0]
  BY DEF Stopped, WalkType, Repeatedly
<1>2. PICK B, T, R : B = BindingType \cup {Nil} /\ T = TokenType \cup {Nil} /\ R = ReportType \cup {Nil}
  OBVIOUS
<1>3. PICK M, S, U : M = [Ids -> 0..Repeatedly] /\ S = SUBSET Ids /\ U = {200, 400, 500}
  OBVIOUS
<1>4. WalkType = [binding : B, token : T, report : R, times : M, steady : S, astray : BOOLEAN, status : U]
  BY <1>2, <1>3 DEF WalkType
<1>5. Stopped \in [binding : B, token : T, report : R, times : M, steady : S, astray : BOOLEAN, status : U]
  BY <1>1, <1>4
<1>6. 400 \in U /\ 500 \in U
  BY <1>3
<1>7. ASSUME NEW n \in U, NEW w, w = [Stopped EXCEPT !.status = n]
      PROVE  w \in WalkType /\ w.steady = {} /\ w.token = Nil /\ w.report = Nil
  <2>1. w \in [binding : B, token : T, report : R, times : M, steady : S, astray : BOOLEAN, status : U]
    BY <1>5, <1>7
  <2>2. w.steady = Stopped.steady /\ w.token = Stopped.token /\ w.report = Stopped.report
    BY <1>5, <1>7
  <2> QED BY <1>1, <1>4, <2>1, <2>2
<1>8. paginationProblem \in WalkType /\ paginationProblem.steady = {}
      /\ paginationProblem.token = Nil /\ paginationProblem.report = Nil
  BY <1>6, <1>7 DEF paginationProblem
<1>9. InternalServerError \in WalkType /\ InternalServerError.steady = {}
      /\ InternalServerError.token = Nil /\ InternalServerError.report = Nil
  BY <1>6, <1>7 DEF InternalServerError
<1> QED BY <1>1, <1>8, <1>9 DEF WalkInv

\* What a walk begins with, and what it has shown before its next page.
Begun(c, binding, first) ==
  IF first THEN [Stopped EXCEPT !.steady = TakenRows(binding)] ELSE walk[c]
LEMMA BegunFacts ==
  ASSUME NEW binding, NEW b, b = [Stopped EXCEPT !.steady = TakenRows(binding)]
  PROVE  /\ b \in WalkType /\ b.steady = TakenRows(binding) /\ b.token = Nil /\ b.report = Nil
         /\ ~ b.astray /\ \A i \in Ids : b.times[i] = 0
<1>1. PICK S, steady : S = SUBSET Ids /\ steady = TakenRows(binding)
  OBVIOUS
<1>2. steady \in S
  BY <1>1 DEF TakenRows
<1>3. PICK B, T, R : B = BindingType \cup {Nil} /\ T = TokenType \cup {Nil} /\ R = ReportType \cup {Nil}
  OBVIOUS
<1>4. PICK M, U : M = [Ids -> 0..Repeatedly] /\ U = {200, 400, 500}
  OBVIOUS
<1>5. WalkType = [binding : B, token : T, report : R, times : M, steady : S, astray : BOOLEAN, status : U]
  BY <1>1, <1>3, <1>4 DEF WalkType
<1>6. Stopped \in [binding : B, token : T, report : R, times : M, steady : S, astray : BOOLEAN, status : U]
  BY <1>5, StoppedWalks
<1>7. b = [Stopped EXCEPT !.steady = steady]
  BY <1>1
<1>8. b \in [binding : B, token : T, report : R, times : M, steady : S, astray : BOOLEAN, status : U]
  BY <1>2, <1>6, <1>7
<1>9. /\ b.steady = steady /\ b.token = Stopped.token /\ b.report = Stopped.report
      /\ b.astray = Stopped.astray /\ b.times = Stopped.times
  BY <1>6, <1>7
<1>10. Stopped.token = Nil /\ Stopped.report = Nil /\ ~ Stopped.astray
       /\ \A i \in Ids : Stopped.times[i] = 0
  BY DEF Stopped
<1> QED BY <1>1, <1>5, <1>8, <1>9, <1>10

\* A page is counted once for every row it shows.
LEMMA CountedFacts ==
  ASSUME NEW before \in [Ids -> 0..Repeatedly], NEW shown, NEW times, times = Counted(before, shown)
  PROVE  /\ times \in [Ids -> 0..Repeatedly]
         /\ \A i \in Ids : before[i] \in {0, 1} =>
              times[i] = before[i] + (IF i \in shown THEN 1 ELSE 0)
  BY DEF Counted, Repeatedly

WalkFields(w, binding, token, report, times, steady, astray) ==
  /\ w.binding = binding /\ w.token = token /\ w.report = report
  /\ w.times = times /\ w.steady = steady /\ w.astray = astray
Turned(b, binding, times, token, astray) ==
  [b EXCEPT !.binding = binding, !.times = times, !.token = token,
            !.astray = @ \/ astray, !.report = Nil]
LEMMA WalkUpdate ==
  ASSUME NEW b \in WalkType, NEW binding \in BindingType, NEW times \in [Ids -> 0..Repeatedly],
         NEW token \in TokenType \cup {Nil}, NEW astray \in BOOLEAN, NEW w,
         w = Turned(b, binding, times, token, astray)
  PROVE  w \in WalkType /\ WalkFields(w, binding, token, Nil, times, b.steady, b.astray \/ astray)
<1>1. PICK B, T, R : B = BindingType \cup {Nil} /\ T = TokenType \cup {Nil} /\ R = ReportType \cup {Nil}
  OBVIOUS
<1>2. PICK M, S, U : M = [Ids -> 0..Repeatedly] /\ S = SUBSET Ids /\ U = {200, 400, 500}
  OBVIOUS
<1>3. WalkType = [binding : B, token : T, report : R, times : M, steady : S, astray : BOOLEAN, status : U]
  BY <1>1, <1>2 DEF WalkType
<1>4. b \in [binding : B, token : T, report : R, times : M, steady : S, astray : BOOLEAN, status : U]
  BY <1>3
<1>5. binding \in B /\ times \in M /\ token \in T /\ Nil \in R
  BY <1>1, <1>2
<1>6. PICK new \in BOOLEAN : new = (b.astray \/ astray)
  OBVIOUS
<1>7. w = [b EXCEPT !.binding = binding, !.times = times, !.token = token, !.astray = new,
                    !.report = Nil]
  BY <1>4, <1>6 DEF Turned
<1>8. w \in [binding : B, token : T, report : R, times : M, steady : S, astray : BOOLEAN, status : U]
  BY <1>4, <1>5, <1>7
<1>9. WalkFields(w, binding, token, Nil, times, b.steady, new)
  BY <1>4, <1>7 DEF WalkFields
<1> QED BY <1>3, <1>6, <1>8, <1>9

Paged(b, binding, times, report) ==
  [b EXCEPT !.binding = binding, !.times = times, !.report = report]
LEMMA WalkKept ==
  ASSUME NEW b \in WalkType, NEW binding \in BindingType \cup {Nil},
         NEW times \in [Ids -> 0..Repeatedly], NEW report \in ReportType \cup {Nil}, NEW w,
         w = Paged(b, binding, times, report)
  PROVE  w \in WalkType /\ WalkFields(w, binding, b.token, report, times, b.steady, b.astray)
<1>1. PICK B, T, R : B = BindingType \cup {Nil} /\ T = TokenType \cup {Nil} /\ R = ReportType \cup {Nil}
  OBVIOUS
<1>2. PICK M, S, U : M = [Ids -> 0..Repeatedly] /\ S = SUBSET Ids /\ U = {200, 400, 500}
  OBVIOUS
<1>3. WalkType = [binding : B, token : T, report : R, times : M, steady : S, astray : BOOLEAN, status : U]
  BY <1>1, <1>2 DEF WalkType
<1>4. b \in [binding : B, token : T, report : R, times : M, steady : S, astray : BOOLEAN, status : U]
  BY <1>3
<1>5. binding \in B /\ times \in M /\ report \in R
  BY <1>1, <1>2
<1>6. w \in [binding : B, token : T, report : R, times : M, steady : S, astray : BOOLEAN, status : U]
  BY <1>4, <1>5 DEF Paged
<1>7. WalkFields(w, binding, b.token, report, times, b.steady, b.astray)
  BY <1>4 DEF WalkFields, Paged
<1> QED BY <1>3, <1>6, <1>7

\* The next page of a cursor's walk shows the rows beyond the cursor, up to the
\* new one.
LEMMA CursorStep ==
  ASSUME CInv, NEW c \in Clients, NEW binding \in BindingType, NEW size,
         NEW first \in BOOLEAN, NEW token, token = walk[c].token, first \/ token /= Nil,
         parseForward(binding, token, size, first),
         NEW position, position = cursorText(token, first),
         NEW found, found = {i \in Ids : Taken(binding, i) /\ Beyond(i, position)},
         NEW page, page = Cut(Ordered(found, size + 1), size),
         NEW w, w = issueCursorPage(c, binding, page, first)
  PROVE  w \in WalkType /\ WalkInv(w)
<1>0. CTypeOK /\ walk[c] \in WalkType /\ WalkInv(walk[c])
  BY DEF CInv, CTypeOK
<1>1. size \in Nat \ {0} /\ (~ first => token.binding = binding)
  BY ForwardFacts
<1>2. PICK b : b = Begun(c, binding, first)
  OBVIOUS
<1>3. /\ b \in WalkType /\ \A i \in b.steady : i \in Ids /\ Taken(binding, i)
      /\ ~ b.astray => \A i \in b.steady : b.times[i] = IF Beyond(i, position) THEN 0 ELSE 1
  <2>1. CASE first
    <3>1. b = [Stopped EXCEPT !.steady = TakenRows(binding)]
      BY <1>2, <2>1 DEF Begun
    <3>2. position = Nil
      BY <2>1 DEF cursorText
    <3>3. b \in WalkType /\ b.steady = TakenRows(binding) /\ \A i \in Ids : b.times[i] = 0
      BY <3>1, BegunFacts
    <3>4. \A i \in TakenRows(binding) : i \in Ids /\ Taken(binding, i)
      BY DEF TakenRows
    <3>5. \A i \in Ids : Beyond(i, position)
      BY <3>2 DEF Beyond
    <3> QED BY <3>3, <3>4, <3>5
  <2>2. CASE ~ first
    <3>1. b = walk[c] /\ position = walk[c].token.position /\ token /= Nil
      BY <1>2, <2>2 DEF Begun, cursorText
    <3>2. b.steady \subseteq Ids
      BY <1>0, <3>1 DEF WalkType
    <3>3. walk[c].binding = binding
      BY <1>0, <1>1, <2>2, <3>1 DEF WalkInv
    <3> QED BY <1>0, <3>1, <3>2, <3>3 DEF WalkInv
  <2> QED BY <2>1, <2>2
<1>4. first \/ position \in PositionType
  BY <1>0 DEF cursorText, WalkType, TokenType
<1>5. position = Nil \/ (position.key \in Int /\ position.id \in Int)
  BY <1>4, CatalogueAssumption DEF PositionType, cursorText
<1>6. found \in SUBSET Ids /\ \A i \in found : rows[i] /= Nil
  BY DEF Taken, Visible
<1>7. /\ Shown(page) \subseteq found
      /\ page.next = Nil => Shown(page) = found
      /\ page.next /= Nil =>
           \E last \in found : /\ page.next = encodeCursor(last)
                               /\ \A i \in found : i \in Shown(page) <=> ~ Before(last, i)
  <2>1. PageOf(page, found)
    BY <1>0, <1>1, <1>6, PageFacts
  <2> QED BY <2>1 DEF PageOf
<1>8. CASE page.next /= Nil /\ ~ checkValues(page.next.bytes)
  <2>1. w = InternalServerError
    BY <1>8 DEF issueCursorPage
  <2> QED BY <2>1, StoppedWalks
<1>9. CASE ~ (page.next /= Nil /\ ~ checkValues(page.next.bytes))
  <2>1. PICK times : times = Counted(b.times, Shown(page))
    OBVIOUS
  <2>2. PICK next : next = IF page.next = Nil THEN Nil ELSE Encode(binding, "forward", page.next)
    OBVIOUS
  <2>a. PICK astray \in BOOLEAN :
          astray = (page.next /= Nil /\ page.next.key /= SortKey(rows[page.next.id]))
    OBVIOUS
  <2>3. w = Turned(b, binding, times, next, astray)
    BY <1>2, <1>9, <2>1, <2>2, <2>a DEF issueCursorPage, Begun, Shown, TakenRows, Turned
  <2>b. b.times \in [Ids -> 0..Repeatedly]
    BY <1>3 DEF WalkType
  <2>4. /\ times \in [Ids -> 0..Repeatedly]
        /\ \A i \in Ids : b.times[i] \in {0, 1} =>
             times[i] = b.times[i] + (IF i \in Shown(page) THEN 1 ELSE 0)
    <3>1. PICK shown : shown = Shown(page)
      OBVIOUS
    <3> QED BY <2>1, <2>b, <3>1, CountedFacts
  <2>5. page.next /= Nil => next \in TokenType /\ next.binding = binding /\ next.position = page.next
    <3> HAVE page.next /= Nil
    <3>1. page.next \in PositionType
      BY <1>0, <1>6, <1>7, RowsHaveKeys
    <3>2. clock + TTL \in Int /\ ring.active \in Keys
      BY <1>0, CatalogueAssumption DEF CTypeOK
    <3> QED BY <2>2, <3>1, <3>2 DEF Encode, TokenType
  <2>6. next \in TokenType \cup {Nil} /\ (page.next /= Nil <=> next /= Nil)
    BY <2>2, <2>5, CatalogueAssumption
  <2>7. /\ w \in WalkType /\ w.binding = binding /\ w.times = times /\ w.token = next
        /\ w.report = Nil /\ w.steady = b.steady /\ (~ w.astray => ~ b.astray /\ ~ astray)
    <3>1. w \in WalkType /\ WalkFields(w, binding, next, Nil, times, b.steady, b.astray \/ astray)
      BY <1>3, <2>3, <2>4, <2>6, WalkUpdate
    <3> QED BY <3>1, Zenon DEF WalkFields
  <2>8. ASSUME ~ b.astray, ~ astray, NEW i \in b.steady
        PROVE  /\ page.next = Nil => times[i] = 1
               /\ page.next /= Nil => times[i] = IF Beyond(i, page.next) THEN 0 ELSE 1
    <3>1. /\ i \in Ids /\ Taken(binding, i) /\ rows[i] /= Nil
          /\ b.times[i] = IF Beyond(i, position) THEN 0 ELSE 1
          /\ i \in found <=> Beyond(i, position)
      BY <1>3, <2>8 DEF Taken, Visible
    <3>a. times[i] = b.times[i] + (IF i \in Shown(page) THEN 1 ELSE 0)
      <4>1. b.times[i] \in {0, 1}
        BY <3>1
      <4> QED BY <2>4, <3>1, <4>1
    <3>2. CASE page.next = Nil
      BY <1>7, <3>1, <3>a, <3>2
    <3>3. CASE page.next /= Nil
      <4>1. PICK last \in found : /\ page.next = encodeCursor(last)
                                  /\ \A j \in found : j \in Shown(page) <=> ~ Before(last, j)
        BY <1>7, <3>3
      <4>a. page.next.id = last
        BY <1>0, <1>6, <4>1, RowsHaveKeys
      <4>b. page.next.key = SortKey(rows[last])
        BY <2>8, <2>a, <3>3, <4>a
      <4>2. /\ SortKey(rows[last]) \in Int /\ SortKey(rows[i]) \in Int /\ last \in Int /\ i \in Int
            /\ page.next.key = SortKey(rows[last]) /\ page.next.id = last
        BY <1>0, <1>6, <3>1, <4>1, <4>a, <4>b, RowsHaveKeys, CatalogueAssumption
      <4>3. Beyond(i, page.next) <=> Before(last, i)
        BY <3>3, <4>2 DEF Beyond, Before
      <4>4. Beyond(last, position)
        OBVIOUS
      <4>5. ~ Beyond(i, position) => ~ Before(last, i)
        BY <1>5, <4>2, <4>4 DEF Beyond, Before
      <4> QED BY <1>7, <3>1, <3>a, <3>3, <4>1, <4>3, <4>5
    <3> QED BY <3>2, <3>3
  <2>9. WalkInv(w)
    BY <1>3, <2>5, <2>6, <2>7, <2>8 DEF WalkInv
  <2> QED BY <2>7, <2>9
<1> QED BY <1>8, <1>9

\* Pages of a report are counted right: when no page follows, this one reaches the
\* last row, and otherwise the next one begins where it ends.
LEMMA PagesReachTheEnd ==
  ASSUME NEW number \in Nat \ {0}, NEW size \in Nat \ {0}, NEW total \in Nat, NEW pages,
         pages = total \div size + (IF total % size /= 0 THEN 1 ELSE 0), number >= pages
  PROVE  total <= (number - 1) * size + size
<1>1. PICK q, m : q = total \div size /\ m = total % size
  OBVIOUS
<1>2. q \in Nat /\ m \in 0..(size - 1) /\ total = size * q + m
  BY <1>1
<1>3. (number - 1) * size + size = number * size
  OBVIOUS
<1>4. CASE m = 0
  <2>1. q <= number
    BY <1>1, <1>2, <1>4
  <2>2. q * size <= number * size
    BY <1>2, <2>1
  <2> QED BY <1>2, <1>3, <1>4, <2>2
<1>5. CASE m /= 0
  <2>1. q + 1 <= number
    BY <1>1, <1>2, <1>5
  <2>2. (q + 1) * size <= number * size
    BY <1>2, <2>1
  <2>3. (q + 1) * size = size * q + size
    BY <1>2
  <2> QED BY <1>2, <1>3, <2>2, <2>3
<1> QED BY <1>4, <1>5

LEMMA NextPageFollows ==
  ASSUME NEW report \in ReportType, NEW next, next = [report EXCEPT !.number = @ + 1]
  PROVE  next \in ReportType /\ Offset(next) = Offset(report) + report.size
<1>1. next \in ReportType /\ next.number = report.number + 1 /\ next.size = report.size
  BY DEF ReportType
<1>2. report.number \in Int /\ report.size \in Int
  BY DEF ReportType
<1>3. \A n, s \in Int : ((n + 1) - 1) * s = (n - 1) * s + s
  OBVIOUS
<1> QED BY <1>1, <1>2, <1>3 DEF Offset

\* The next page of a report shows the rows of its ranks.
LEMMA ReportStep ==
  ASSUME CInv, NEW c \in Clients, NEW binding \in BindingType \cup {Nil},
         NEW report \in ReportType, NEW first \in BOOLEAN,
         first => report.number = 1,
         ~ first => walk[c].report = report /\ walk[c].binding = binding,
         NEW w, w = issueReportPage(c, binding, report, first)
  PROVE  w \in WalkType /\ WalkInv(w)
<1>0. CTypeOK /\ walk[c] \in WalkType /\ WalkInv(walk[c])
  BY DEF CInv, CTypeOK
<1>1. PICK found : found = TakenRows(binding)
  OBVIOUS
<1>2. Keyed(found)
  <2>1. \A i \in found : i \in Ids /\ rows[i] /= Nil
    BY <1>1 DEF TakenRows, Taken, Visible
  <2> QED BY <1>0, <2>1, RowsHaveKeys DEF Keyed
<1>3. report.number \in Nat \ {0} /\ report.size \in Nat \ {0} /\ report /= Nil
  BY CatalogueAssumption DEF ReportType
<1>4. PICK b : b = Begun(c, binding, first)
  OBVIOUS
<1>5. PICK shown : shown = {rowsAt(binding, report)[n] : n \in DOMAIN rowsAt(binding, report)}
  OBVIOUS
<1>6. PICK o : o = Offset(report)
  OBVIOUS
<1>7. /\ o \in Nat /\ shown \subseteq found
      /\ \A i \in found : i \in shown <=> o <= Rank(found, i) /\ Rank(found, i) < o + report.size
  BY <1>1, <1>2, <1>5, <1>6, ReportFacts
<1>8. /\ b \in WalkType /\ b.token = Nil /\ ~ b.astray
      /\ \A i \in b.steady : i \in found /\ i \in Ids
                             /\ b.times[i] = IF Rank(found, i) < o THEN 1 ELSE 0
  <2>1. CASE first
    <3>1. b = [Stopped EXCEPT !.steady = TakenRows(binding)]
      BY <1>4, <2>1 DEF Begun
    <3>2. /\ b \in WalkType /\ b.steady = found /\ b.token = Nil /\ ~ b.astray
          /\ \A i \in Ids : b.times[i] = 0
      BY <1>1, <3>1, BegunFacts
    <3>3. o = 0
      BY <1>3, <1>6, <2>1 DEF Offset
    <3>4. \A i \in found : i \in Ids /\ ~ (Rank(found, i) < o)
      <4>1. \A i \in found : Rank(found, i) \in 0..(Cardinality(found) - 1)
        BY <1>2, RankFacts
      <4>2. Cardinality(found) \in Nat
        BY <1>2, RankFacts
      <4>3. \A i \in found : ~ (Rank(found, i) < o)
        BY <3>3, <4>1, <4>2
      <4> QED BY <1>2, <4>3 DEF Keyed
    <3> QED BY <3>2, <3>4
  <2>2. CASE ~ first
    <3>1. b = walk[c] /\ walk[c].report = report /\ walk[c].binding = binding
      BY <1>4, <2>2 DEF Begun
    <3>2. walk[c].token = Nil /\ ~ walk[c].astray
      BY <1>0, <1>3, <3>1 DEF WalkInv
    <3>3. b.steady \subseteq Ids
      BY <1>0, <3>1 DEF WalkType
    <3>4. \A i \in b.steady : i \in found
      BY <1>0, <1>1, <3>1, <3>3 DEF WalkInv, TakenRows
    <3>5. \A i \in b.steady : b.times[i] = IF Rank(found, i) < o THEN 1 ELSE 0
      BY <1>0, <1>1, <1>3, <1>6, <3>1 DEF WalkInv
    <3> QED BY <1>0, <3>1, <3>2, <3>3, <3>4, <3>5
  <2> QED BY <2>1, <2>2
<1>9. PICK times : times = Counted(b.times, shown)
  OBVIOUS
<1>10. PICK next : next = IF Totals(report, countRows(binding)).more
                          THEN [report EXCEPT !.number = @ + 1] ELSE Nil
  OBVIOUS
<1>11. w = Paged(b, binding, times, next)
  BY <1>4, <1>5, <1>9, <1>10 DEF issueReportPage, Begun, TakenRows, Paged
<1>12. /\ times \in [Ids -> 0..Repeatedly]
       /\ \A i \in Ids : b.times[i] \in {0, 1} =>
            times[i] = b.times[i] + (IF i \in shown THEN 1 ELSE 0)
  <2>1. b.times \in [Ids -> 0..Repeatedly]
    BY <1>8 DEF WalkType
  <2> QED BY <1>9, <2>1, CountedFacts
<1>13. next \in ReportType \cup {Nil} /\ (next /= Nil => Offset(next) = o + report.size)
  BY <1>6, <1>10, NextPageFollows
<1>14. /\ w \in WalkType /\ w.binding = binding /\ w.times = times /\ w.token = Nil
       /\ w.report = next /\ w.steady = b.steady /\ ~ w.astray
  <2>1. w \in WalkType /\ WalkFields(w, binding, b.token, next, times, b.steady, b.astray)
    BY <1>8, <1>11, <1>12, <1>13, WalkKept
  <2> QED BY <1>8, <2>1, Zenon DEF WalkFields
<1>15. next = Nil => \A i \in found : Rank(found, i) < o + report.size
  <2> HAVE next = Nil
  <2>1. ~ Totals(report, countRows(binding)).more
    <3>1. [report EXCEPT !.number = @ + 1] \in ReportType
      BY NextPageFollows
    <3> QED BY <1>10, <3>1, CatalogueAssumption
  <2>2. PICK total \in Nat : total = Cardinality(found)
    BY <1>2, RankFacts
  <2>3. PICK pages : pages = total \div report.size + (IF total % report.size /= 0 THEN 1 ELSE 0)
    OBVIOUS
  <2>4. countRows(binding) = total
    BY <1>1, <2>2 DEF countRows, TakenRows
  <2>5. ~ (report.number < pages)
    BY <2>1, <2>3, <2>4 DEF Totals
  <2>6. pages \in Int /\ report.number >= pages
    BY <1>3, <2>2, <2>3, <2>5
  <2>7. total <= (report.number - 1) * report.size + report.size
    <3>1. PICK number \in Nat \ {0}, size \in Nat \ {0} : number = report.number /\ size = report.size
      BY <1>3
    <3>2. pages = total \div size + (IF total % size /= 0 THEN 1 ELSE 0) /\ number >= pages
      BY <2>3, <2>6, <3>1
    <3>3. total <= (number - 1) * size + size
      BY <3>2, PagesReachTheEnd
    <3> QED BY <3>1, <3>3
  <2>8. total <= o + report.size
    BY <1>6, <2>7 DEF Offset
  <2>9. \A i \in found : Rank(found, i) \in 0..(total - 1)
    BY <1>2, <2>2, RankFacts
  <2> QED BY <1>3, <1>7, <2>2, <2>8, <2>9
<1>16. \A i \in b.steady : times[i] = IF Rank(found, i) < o + report.size THEN 1 ELSE 0
  <2> TAKE i \in b.steady
  <2>1. i \in Ids /\ i \in found /\ b.times[i] = IF Rank(found, i) < o THEN 1 ELSE 0
    BY <1>8
  <2>2. Rank(found, i) \in Nat
    BY <1>2, <2>1, RankFacts
  <2>3. times[i] = b.times[i] + (IF i \in shown THEN 1 ELSE 0)
    <3>1. b.times[i] \in {0, 1}
      BY <2>1
    <3> QED BY <1>12, <2>1, <3>1
  <2>4. i \in shown <=> o <= Rank(found, i) /\ Rank(found, i) < o + report.size
    BY <1>7, <2>1
  <2> QED BY <1>3, <1>7, <2>1, <2>2, <2>3, <2>4
<1>17. \A i \in w.steady : Taken(w.binding, i)
  BY <1>1, <1>8, <1>14 DEF TakenRows
<1>18. WalkInv(w)
  BY <1>1, <1>8, <1>13, <1>14, <1>15, <1>16, <1>17 DEF WalkInv
<1> QED BY <1>14, <1>18

\* A write keeps the account of every walk: what it moves is no longer steady.
Narrowed(b, steady) == [b EXCEPT !.steady = steady]
LEMMA NarrowedFacts ==
  ASSUME NEW b \in WalkType, NEW steady \in SUBSET Ids, NEW w, w = Narrowed(b, steady)
  PROVE  /\ w \in WalkType /\ w.steady = steady /\ w.binding = b.binding /\ w.token = b.token
         /\ w.report = b.report /\ w.times = b.times /\ w.astray = b.astray
<1>1. PICK B, T, R : B = BindingType \cup {Nil} /\ T = TokenType \cup {Nil} /\ R = ReportType \cup {Nil}
  OBVIOUS
<1>2. PICK M, S, U : M = [Ids -> 0..Repeatedly] /\ S = SUBSET Ids /\ U = {200, 400, 500}
  OBVIOUS
<1>3. WalkType = [binding : B, token : T, report : R, times : M, steady : S, astray : BOOLEAN, status : U]
  BY <1>1, <1>2 DEF WalkType
<1>4. b \in [binding : B, token : T, report : R, times : M, steady : S, astray : BOOLEAN, status : U] /\ steady \in S
  BY <1>2, <1>3
<1>5. w \in [binding : B, token : T, report : R, times : M, steady : S, astray : BOOLEAN, status : U]
  BY <1>4 DEF Narrowed
<1>6. w.steady = steady /\ w.binding = b.binding /\ w.token = b.token
      /\ w.report = b.report /\ w.times = b.times /\ w.astray = b.astray
  BY <1>4 DEF Narrowed
<1> QED BY <1>3, <1>5, <1>6

Stays(after) ==
  /\ after \in [Ids -> RowType \cup {Nil}]
  /\ \A i \in Ids : rows[i] /= Nil => /\ after[i] /= Nil /\ after[i].table = rows[i].table
                                      /\ after[i].org = rows[i].org
LEMMA WriteStep ==
  ASSUME CInv, NEW after, Stays(after), Write(after)
  PROVE  CInv'
<1>0. CTypeOK
  BY DEF CInv
<1>1. rows' = after /\ clock' = clock /\ ring' = ring
  BY DEF Write
<1>2. ASSUME NEW c \in Clients PROVE walk'[c] \in WalkType /\ WalkInv(walk[c])'
  <2>1. walk[c] \in WalkType /\ WalkInv(walk[c])
    BY <1>0 DEF CInv, CTypeOK
  <2>2. PICK steady : steady =
          {i \in walk[c].steady :
             /\ walk[c].report = Nil /\ SortKey(after[i]) = SortKey(rows[i])
             /\ IF after[i].table = "resources"
                THEN MatchesResource(after[i], walk[c].binding.filter)
                ELSE MatchesReservation(after[i], walk[c].binding.filter)}
    OBVIOUS
  <2>3. walk'[c] = Narrowed(walk[c], steady)
    BY <2>2 DEF Write, Narrowed
  <2>4. steady \in SUBSET Ids
    BY <2>1, <2>2 DEF WalkType
  <2>5. /\ walk'[c] \in WalkType /\ walk'[c].steady = steady
        /\ walk'[c].binding = walk[c].binding /\ walk'[c].token = walk[c].token
        /\ walk'[c].report = walk[c].report /\ walk'[c].times = walk[c].times
        /\ walk'[c].astray = walk[c].astray
    BY <2>1, <2>3, <2>4, NarrowedFacts
  <2>6. ASSUME NEW i \in steady
        PROVE  /\ i \in walk[c].steady /\ walk[c].report = Nil /\ Taken(walk[c].binding, i)'
               /\ \A position : Beyond(i, position)' <=> Beyond(i, position)
    <3>1. i \in Ids /\ i \in walk[c].steady /\ walk[c].report = Nil
          /\ SortKey(after[i]) = SortKey(rows[i])
      BY <2>2, <2>4
    <3>2. Taken(walk[c].binding, i)
      BY <2>1, <3>1 DEF WalkInv
    <3>3. /\ after[i] /= Nil /\ after[i].table = walk[c].binding.table
          /\ after[i].org = walk[c].binding.org
      BY <3>1, <3>2 DEF Taken, Visible, Stays
    <3>4. IF walk[c].binding.table = "resources"
          THEN MatchesResource(after[i], walk[c].binding.filter)
          ELSE MatchesReservation(after[i], walk[c].binding.filter)
      BY <2>2, <3>3
    <3>5. Taken(walk[c].binding, i)'
      BY <1>1, <2>5, <3>3, <3>4 DEF Taken, Visible, MatchesResource, MatchesReservation
    <3>6. \A position : Beyond(i, position)' <=> Beyond(i, position)
      BY <1>1, <3>1 DEF Beyond, SortKey
    <3> QED BY <3>1, <3>5, <3>6
  <2>7. \A i \in walk'[c].steady : Taken(walk[c].binding, i)'
    BY <2>5, <2>6
  <2>8. /\ walk'[c].token /= Nil =>
             walk'[c].report = Nil /\ walk'[c].token.binding = walk'[c].binding
        /\ walk'[c].token /= Nil /\ ~ walk'[c].astray =>
             \A i \in walk'[c].steady :
               walk'[c].times[i] = IF Beyond(i, walk[c].token.position)' THEN 0 ELSE 1
    BY <2>1, <2>5, <2>6 DEF WalkInv
  <2>9. walk'[c].report /= Nil => walk'[c].steady = {} /\ ~ walk'[c].astray
    BY <2>1, <2>5, <2>6 DEF WalkInv
  <2>10. walk'[c].token = Nil /\ walk'[c].report = Nil /\ ~ walk'[c].astray =>
           \A i \in walk'[c].steady : walk'[c].times[i] = 1
    BY <2>1, <2>5, <2>6 DEF WalkInv
  <2> QED BY <2>5, <2>7, <2>8, <2>9, <2>10 DEF WalkInv
<1>3. walk' \in [Clients -> WalkType]
  BY <1>2 DEF Write
<1>4. CTypeOK'
  BY <1>0, <1>1, <1>3 DEF CTypeOK, Stays
<1> QED BY <1>2, <1>4 DEF CInv

\* Every write leaves a row in its table and with its tenant.
LEMMA RowChange ==
  ASSUME CTypeOK, NEW i \in Ids, NEW row \in RowType, NEW after, after = [rows EXCEPT ![i] = row],
         rows[i] /= Nil => row.table = rows[i].table /\ row.org = rows[i].org
  PROVE  Stays(after)
<1>1. row /= Nil
  BY CatalogueAssumption
<1> QED BY <1>1 DEF CTypeOK, Stays

LEMMA WritesStep ==
  ASSUME CInv, Create \/ Update \/ Retire \/ Book \/ CloseReservation
  PROVE  CInv'
<1>0. CTypeOK
  BY DEF CInv
<1>1. CASE Create
  <2>1. PICK i \in Ids, org \in Orgs, name \in Names :
          rows[i] = Nil /\ Write([rows EXCEPT ![i] = Resource(org, name)])
    BY <1>1 DEF Create
  <2>2. Resource(org, name) \in RowType
    BY DEF Resource, RowType
  <2> QED BY <1>0, <2>1, <2>2, RowChange, WriteStep
<1>2. CASE Book
  <2>1. PICK i \in Ids, org \in Orgs, start \in Starts :
          rows[i] = Nil /\ Write([rows EXCEPT ![i] = Reservation(org, start)])
    BY <1>2 DEF Book
  <2>2. Reservation(org, start) \in RowType
    BY DEF Reservation, RowType
  <2> QED BY <1>0, <2>1, <2>2, RowChange, WriteStep
<1>3. CASE Update
  <2>1. PICK i \in Ids, name \in Names :
          rows[i] /= Nil /\ InService(rows[i]) /\ Write([rows EXCEPT ![i].name = name])
    BY <1>3 DEF Update, updateResource
  <2>2. PICK row : row = [rows[i] EXCEPT !.name = name]
    OBVIOUS
  <2>3. rows[i] \in [table : {"resources"}, org : Orgs, name : Names, retired : BOOLEAN]
    BY <1>0, <2>1 DEF CTypeOK, RowType, InService
  <2>4. row \in RowType /\ row.table = rows[i].table /\ row.org = rows[i].org
    BY <2>2, <2>3 DEF RowType
  <2>5. [rows EXCEPT ![i].name = name] = [rows EXCEPT ![i] = row]
    BY <2>2
  <2> QED BY <1>0, <2>1, <2>4, <2>5, RowChange, WriteStep
<1>4. CASE Retire
  <2>1. PICK i \in Ids :
          rows[i] /= Nil /\ InService(rows[i]) /\ Write([rows EXCEPT ![i].retired = TRUE])
    BY <1>4 DEF Retire, retireResource
  <2>2. PICK row : row = [rows[i] EXCEPT !.retired = TRUE]
    OBVIOUS
  <2>3. rows[i] \in [table : {"resources"}, org : Orgs, name : Names, retired : BOOLEAN]
    BY <1>0, <2>1 DEF CTypeOK, RowType, InService
  <2>4. row \in RowType /\ row.table = rows[i].table /\ row.org = rows[i].org
    BY <2>2, <2>3 DEF RowType
  <2>5. [rows EXCEPT ![i].retired = TRUE] = [rows EXCEPT ![i] = row]
    BY <2>2
  <2> QED BY <1>0, <2>1, <2>4, <2>5, RowChange, WriteStep
<1>5. CASE CloseReservation
  <2>1. PICK i \in Ids : /\ rows[i] /= Nil /\ rows[i].table = "reservations"
                         /\ Write([rows EXCEPT ![i].state = "cancelled"])
    BY <1>5 DEF CloseReservation
  <2>2. PICK row : row = [rows[i] EXCEPT !.state = "cancelled"]
    OBVIOUS
  <2>3. rows[i] \in [table : {"reservations"}, org : Orgs, start : Starts,
                      state : {"booked", "cancelled"}]
    BY <1>0, <2>1 DEF CTypeOK, RowType
  <2>4. row \in RowType /\ row.table = rows[i].table /\ row.org = rows[i].org
    BY <2>2, <2>3 DEF RowType
  <2>5. [rows EXCEPT ![i].state = "cancelled"] = [rows EXCEPT ![i] = row]
    BY <2>2
  <2> QED BY <1>0, <2>1, <2>4, <2>5, RowChange, WriteStep
<1> QED BY <1>1, <1>2, <1>3, <1>4, <1>5

\* The account of a walk depends on the walk and on the rows.
LEMMA AccountStands ==
  ASSUME NEW d, NEW v, v = walk'[d], UNCHANGED rows
  PROVE  WalkInv(v) => WalkInv(walk[d])'
<1>1. \A binding, i : Taken(binding, i)' <=> Taken(binding, i)
  BY DEF Taken, Visible, MatchesResource, MatchesReservation
<1>2. \A i, position : Beyond(i, position)' <=> Beyond(i, position)
  BY DEF Beyond, SortKey
<1>3. \A found, i : Rank(found, i)' = Rank(found, i)
  BY DEF Rank, Before, SortKey
<1>4. \A binding : TakenRows(binding)' = TakenRows(binding)
  BY <1>1 DEF TakenRows
<1> QED BY <1>1, <1>2, <1>3, <1>4 DEF WalkInv, Offset

\* A request changes one walk, and nothing that another one depends on.
LEMMA OneWalk ==
  ASSUME CInv, NEW c \in Clients, NEW w \in WalkType, WalkInv(w),
         walk' = [walk EXCEPT ![c] = w], UNCHANGED <<clock, rows, ring>>
  PROVE  CInv'
<1>1. walk \in [Clients -> WalkType] /\ \A d \in Clients : WalkInv(walk[d])
  BY DEF CInv, CTypeOK
<1>2. walk' \in [Clients -> WalkType] /\ \A d \in Clients : walk'[d] = IF d = c THEN w ELSE walk[d]
  BY <1>1
<1>3. ASSUME NEW d \in Clients PROVE WalkInv(walk[d])'
  <2>1. PICK v : v = walk'[d]
    OBVIOUS
  <2>2. WalkInv(v)
    BY <1>1, <1>2, <2>1
  <2>3. WalkInv(v) => WalkInv(walk[d])'
    BY <2>1, AccountStands
  <2> QED BY <2>2, <2>3
<1>4. CTypeOK'
  BY <1>2 DEF CInv, CTypeOK
<1> QED BY <1>3, <1>4 DEF CInv

LEMMA ListResourcesStep ==
  ASSUME CInv, NEW c \in Clients, ListResources(c)
  PROVE  CInv'
<1>1. PICK org \in Orgs, filter \in Listings.resources, size \in Sizes, first \in BOOLEAN :
        LET binding == NewBinding("resources", org, filter)
            token == walk[c].token
            position == cursorText(token, first)
        IN /\ first \/ token /= Nil
           /\ walk' = [walk EXCEPT ![c] =
                IF /\ parseForward(binding, token, size, first)
                   /\ decodeCursor(position)
                THEN issueCursorPage(c, binding, List(binding, position, size), first)
                ELSE paginationProblem]
           /\ UNCHANGED <<clock, rows, ring, writes>>
  BY DEF ListResources
<1>2. PICK binding : binding = NewBinding("resources", org, filter)
  OBVIOUS
<1>3. PICK token : token = walk[c].token
  OBVIOUS
<1>4. PICK position : position = cursorText(token, first)
  OBVIOUS
<1>5. PICK found : found = {i \in Ids : Taken(binding, i) /\ Beyond(i, position)}
  OBVIOUS
<1>6. PICK page : page = Cut(Ordered(found, size + 1), size)
  OBVIOUS
<1>7. binding \in BindingType /\ binding.table = "resources"
  BY <1>2, CatalogueAssumption DEF NewBinding, BindingType
<1>8. List(binding, position, size) = page
  BY <1>5, <1>6, <1>7 DEF List, listResources, Taken
<1>9. PICK w : w = IF parseForward(binding, token, size, first) /\ decodeCursor(position)
                   THEN issueCursorPage(c, binding, page, first) ELSE paginationProblem
  OBVIOUS
<1>10. first \/ token /= Nil
  BY <1>1, <1>3
<1>11. walk' = [walk EXCEPT ![c] = w] /\ UNCHANGED <<clock, rows, ring>>
  BY <1>1, <1>2, <1>3, <1>4, <1>8, <1>9
<1>12. w \in WalkType /\ WalkInv(w)
  <2>1. CASE parseForward(binding, token, size, first) /\ decodeCursor(position)
    BY <1>3, <1>4, <1>5, <1>6, <1>7, <1>9, <1>10, <2>1, CursorStep
  <2>2. CASE ~ (parseForward(binding, token, size, first) /\ decodeCursor(position))
    BY <1>9, <2>2, StoppedWalks
  <2> QED BY <2>1, <2>2
<1> QED BY <1>11, <1>12, OneWalk

LEMMA ListReservationsStep ==
  ASSUME CInv, NEW c \in Clients, ListReservations(c)
  PROVE  CInv'
<1>1. PICK org \in Orgs, filter \in Listings.reservations, size \in Sizes, first \in BOOLEAN :
        LET binding == NewBinding("reservations", org, filter)
            token == walk[c].token
            position == cursorText(token, first)
        IN /\ first \/ token /= Nil
           /\ walk' = [walk EXCEPT ![c] =
                IF /\ parseForward(binding, token, size, first)
                   /\ params(binding) /\ decodeCursor(position)
                THEN issueCursorPage(c, binding, ListReservationPage(binding, position, size), first)
                ELSE paginationProblem]
           /\ UNCHANGED <<clock, rows, ring, writes>>
  BY DEF ListReservations
<1>2. PICK binding : binding = NewBinding("reservations", org, filter)
  OBVIOUS
<1>3. PICK token : token = walk[c].token
  OBVIOUS
<1>4. PICK position : position = cursorText(token, first)
  OBVIOUS
<1>5. PICK found : found = {i \in Ids : Taken(binding, i) /\ Beyond(i, position)}
  OBVIOUS
<1>6. PICK page : page = Cut(Ordered(found, size + 1), size)
  OBVIOUS
<1>7. binding \in BindingType /\ binding.table = "reservations"
  BY <1>2, CatalogueAssumption DEF NewBinding, BindingType
<1>8. ListReservationPage(binding, position, size) = page
  BY <1>5, <1>6, <1>7 DEF ListReservationPage, listReservations, Taken
<1>9. PICK w : w = IF /\ parseForward(binding, token, size, first)
                      /\ params(binding) /\ decodeCursor(position)
                   THEN issueCursorPage(c, binding, page, first) ELSE paginationProblem
  OBVIOUS
<1>10. first \/ token /= Nil
  BY <1>1, <1>3
<1>11. walk' = [walk EXCEPT ![c] = w] /\ UNCHANGED <<clock, rows, ring>>
  BY <1>1, <1>2, <1>3, <1>4, <1>8, <1>9
<1>12. w \in WalkType /\ WalkInv(w)
  <2>1. CASE /\ parseForward(binding, token, size, first)
             /\ params(binding) /\ decodeCursor(position)
    BY <1>3, <1>4, <1>5, <1>6, <1>7, <1>9, <1>10, <2>1, CursorStep
  <2>2. CASE ~ (/\ parseForward(binding, token, size, first)
                /\ params(binding) /\ decodeCursor(position))
    BY <1>9, <2>2, StoppedWalks
  <2> QED BY <2>1, <2>2
<1> QED BY <1>11, <1>12, OneWalk

\* What ReadReport makes of the parameters of a page.
LEMMA ReportOfFacts ==
  ASSUME NEW query, ParseReport(query) = "ok",
         NewReportLimits(Policy.default, Policy.max, Policy.maxOffset)
  PROVE  /\ query.page = << >> => ReportOf(query).number = 1
         /\ \A n : query.page = <<n>> => ReportOf(query).number = n /\ n \in Nat \ {0}
         /\ query.size = << >> => ReportOf(query).size \in Nat \ {0}
         /\ \A n : query.size = <<n>> => ReportOf(query).size = n /\ n \in Nat \ {0}
         /\ ReportOf(query) = [number |-> ReportOf(query).number, size |-> ReportOf(query).size]
<1>1. /\ parseBoundedParameter(query.page, MaxReportPage)
      /\ parseBoundedParameter(query.size, Policy.max)
  BY DEF ParseReport
<1>2. Policy.max \in Nat /\ Policy.default \in Nat \ {0} /\ MaxReportPage \in Nat
  BY DEF NewReportLimits, MaxPageLimit, MaxReportPage
<1>3. ASSUME NEW n, NEW high \in Nat, parseBoundedParameter(<<n>>, high) PROVE n \in Nat \ {0}
  <2>1. 1 \in DOMAIN <<n>> /\ <<n>>[1] = n
    OBVIOUS
  <2> QED BY <1>3, <2>1 DEF parseBoundedParameter
<1>4. \A n : <<n>> /= << >> /\ Head(<<n>>) = n
  OBVIOUS
<1> QED BY <1>1, <1>2, <1>3, <1>4 DEF ReportOf

LEMMA ReadReportStep ==
  ASSUME CInv, NEW c \in Clients, ReadReport(c)
  PROVE  CInv'
<1>0. CTypeOK /\ walk[c] \in WalkType
  BY DEF CInv, CTypeOK
<1>a. PICK org \in Orgs, size \in {<< >>} \cup {<<n>> : n \in Sizes}, first \in BOOLEAN,
           table \in DOMAIN Listings, others \in {{}, {"limit"}, {"after"}, {"before"}} :
        \E filter \in Listings[table] :
          LET binding == IF first THEN NewBinding(table, org, filter) ELSE walk[c].binding
              query == [page |-> IF first THEN << >> ELSE <<walk[c].report.number>>,
                        size |-> IF first THEN size ELSE <<walk[c].report.size>>,
                        others |-> others]
          IN /\ NewReportLimits(Policy.default, Policy.max, Policy.maxOffset)
             /\ first \/ walk[c].report /= Nil
             /\ params(binding)
             /\ walk' = [walk EXCEPT ![c] =
                  IF ParseReport(query) = "ok"
                  THEN issueReportPage(c, binding, ReportOf(query), first)
                  ELSE paginationProblem]
             /\ UNCHANGED <<clock, rows, ring, writes>>
  BY DEF ReadReport
<1>1. PICK filter \in Listings[table] :
        LET binding == IF first THEN NewBinding(table, org, filter) ELSE walk[c].binding
            query == [page |-> IF first THEN << >> ELSE <<walk[c].report.number>>,
                      size |-> IF first THEN size ELSE <<walk[c].report.size>>,
                      others |-> others]
        IN /\ NewReportLimits(Policy.default, Policy.max, Policy.maxOffset)
           /\ first \/ walk[c].report /= Nil
           /\ params(binding)
           /\ walk' = [walk EXCEPT ![c] =
                IF ParseReport(query) = "ok"
                THEN issueReportPage(c, binding, ReportOf(query), first)
                ELSE paginationProblem]
           /\ UNCHANGED <<clock, rows, ring, writes>>
  BY <1>a
<1>2. PICK binding : binding = IF first THEN NewBinding(table, org, filter) ELSE walk[c].binding
  OBVIOUS
<1>3. PICK query : query = [page |-> IF first THEN << >> ELSE <<walk[c].report.number>>,
                            size |-> IF first THEN size ELSE <<walk[c].report.size>>,
                            others |-> others]
  OBVIOUS
<1>4. binding \in BindingType \cup {Nil}
  <2>1. CASE first
    <3>1. filter \in Listings.resources \cup Listings.reservations
      BY <1>1, CatalogueAssumption
    <3> QED BY <1>2, <2>1, <3>1 DEF NewBinding, BindingType
  <2>2. CASE ~ first
    BY <1>0, <1>2, <2>2 DEF WalkType
  <2> QED BY <2>1, <2>2
<1>5. PICK w : w = IF ParseReport(query) = "ok"
                   THEN issueReportPage(c, binding, ReportOf(query), first)
                   ELSE paginationProblem
  OBVIOUS
<1>6. walk' = [walk EXCEPT ![c] = w] /\ UNCHANGED <<clock, rows, ring>>
  BY <1>1, <1>2, <1>3, <1>5
<1>7. (first \/ walk[c].report /= Nil) /\ NewReportLimits(Policy.default, Policy.max, Policy.maxOffset)
  BY <1>1
<1>8. CASE ParseReport(query) = "ok"
  <2>1. PICK report : report = ReportOf(query)
    OBVIOUS
  <2>2. /\ query.page = IF first THEN << >> ELSE <<walk[c].report.number>>
        /\ query.size = IF first THEN size ELSE <<walk[c].report.size>>
    BY <1>3
  <2>3. /\ query.page = << >> => report.number = 1
        /\ \A n : query.page = <<n>> => report.number = n /\ n \in Nat \ {0}
        /\ query.size = << >> => report.size \in Nat \ {0}
        /\ \A n : query.size = <<n>> => report.size = n /\ n \in Nat \ {0}
        /\ report = [number |-> report.number, size |-> report.size]
    BY <1>7, <1>8, <2>1, ReportOfFacts
  <2>4. CASE first
    <3>1. report.number = 1 /\ report.size \in Nat \ {0}
      BY <1>1, <2>2, <2>3, <2>4
    <3>2. report \in ReportType
      BY <2>3, <3>1 DEF ReportType
    <3>3. w = issueReportPage(c, binding, report, first)
      BY <1>5, <1>8, <2>1
    <3> QED BY <1>4, <1>6, <2>4, <3>1, <3>2, <3>3, ReportStep, OneWalk
  <2>5. CASE ~ first
    <3>1. walk[c].report \in ReportType
      BY <1>0, <1>7, <2>5 DEF WalkType
    <3>2. report.number = walk[c].report.number /\ report.size = walk[c].report.size
      BY <2>2, <2>3, <2>5
    <3>3. report = walk[c].report
      BY <2>3, <3>1, <3>2 DEF ReportType
    <3>4. w = issueReportPage(c, binding, report, first) /\ binding = walk[c].binding
      BY <1>2, <1>5, <1>8, <2>1, <2>5
    <3> QED BY <1>4, <1>6, <2>5, <3>1, <3>3, <3>4, ReportStep, OneWalk
  <2> QED BY <2>4, <2>5
<1>9. CASE ParseReport(query) /= "ok"
  BY <1>5, <1>6, <1>9, StoppedWalks, OneWalk
<1> QED BY <1>8, <1>9

LEMMA CatalogueInit == CInit => CInv
<1> SUFFICES ASSUME CInit PROVE CInv
  OBVIOUS
<1>1. PICK table \in DOMAIN Listings, name \in Names, start \in Starts :
        rows = Seeded(table, name, start)
  BY DEF CInit
<1>2. (CHOOSE o \in Orgs : TRUE) \in Orgs /\ (CHOOSE k \in Keys : TRUE) \in Keys
  BY CatalogueAssumption
<1>3. ring.active \in Keys /\ clock \in Nat
  BY <1>2 DEF CInit
<1>4. PICK org \in Orgs : org = CHOOSE o \in Orgs : TRUE
  BY <1>2
<1>5. rows \in [Ids -> RowType \cup {Nil}]
  <2>1. \A retired \in BOOLEAN : [Resource(org, name) EXCEPT !.retired = retired] \in RowType
    BY DEF Resource, RowType
  <2>2. Reservation(org, start) \in RowType
    BY DEF Reservation, RowType
  <2>3. \A i \in Ids : (Cardinality({j \in Ids : j < i}) > 0) \in BOOLEAN
    OBVIOUS
  <2> QED BY <1>1, <1>4, <2>1, <2>2, <2>3 DEF Seeded
<1>6. walk \in [Clients -> WalkType] /\ \A c \in Clients : WalkInv(walk[c])
  BY StoppedWalks DEF CInit
<1> QED BY <1>3, <1>5, <1>6 DEF CInv, CTypeOK

\* Nothing that a walk depends on changes.
LEMMA CatalogueStands ==
  ASSUME CInv, UNCHANGED <<rows, walk>>, clock' \in Nat, ring'.active \in Keys
  PROVE  CInv'
<1>1. CTypeOK'
  BY DEF CInv, CTypeOK
<1>2. ASSUME NEW c \in Clients PROVE WalkInv(walk[c])'
  BY DEF CInv, WalkInv, Taken, Visible, MatchesResource, MatchesReservation, Beyond, SortKey,
         Rank, Before, TakenRows, Offset
<1> QED BY <1>1, <1>2 DEF CInv

LEMMA CatalogueNext == CInv /\ [CNext]_cvars => CInv'
<1> SUFFICES ASSUME CInv, [CNext]_cvars PROVE CInv'
  OBVIOUS
<1>0. clock \in Nat /\ ring.active \in Keys
  BY DEF CInv, CTypeOK
<1>1. ASSUME NEW c \in Clients, ListResources(c) PROVE CInv'
  BY <1>1, ListResourcesStep
<1>2. ASSUME NEW c \in Clients, ListReservations(c) PROVE CInv'
  BY <1>2, ListReservationsStep
<1>3. ASSUME NEW c \in Clients, ReadReport(c) PROVE CInv'
  BY <1>3, ReadReportStep
<1>4. CASE Create \/ Update \/ Retire \/ Book \/ CloseReservation
  BY <1>4, WritesStep
<1>5. CASE RotateKey
  <2>1. UNCHANGED <<rows, walk>> /\ clock' = clock /\ ring'.active \in Keys
    BY <1>5 DEF RotateKey
  <2> QED BY <1>0, <2>1, CatalogueStands
<1>6. CASE Pass
  <2>1. UNCHANGED <<rows, walk>> /\ clock' \in Nat /\ ring' = ring
    BY <1>0, <1>6 DEF Pass
  <2> QED BY <1>0, <2>1, CatalogueStands
<1>7. CASE UNCHANGED cvars
  BY <1>0, <1>7, CatalogueStands DEF cvars
<1> QED BY <1>1, <1>2, <1>3, <1>4, <1>5, <1>6, <1>7 DEF CNext

\* A walk has shown exactly the steady rows that its cursor, or the number of its
\* next report page, has left behind.
THEOREM CatalogueInvariant == CSpec => []CInv
  BY CatalogueInit, CatalogueNext, PTL DEF CSpec

\* Whoever follows the cursors, or the numbers of a report, to the end sees every
\* row that stayed in place exactly once, and none of them twice on the way, for
\* any rows, page sizes, filters and readers, whatever is written, rotated or
\* expires meanwhile, and for any two spellings of lower case and any width of
\* instant, unless a cursor's key is not the one its row was sorted by.
THEOREM WalkSeesEveryRowOnceHolds == CSpec => []WalkSeesEveryRowOnce
<1>1. CInv => WalkSeesEveryRowOnce
  <2> SUFFICES ASSUME CInv, NEW c \in Clients, ~ walk[c].astray, NEW i \in walk[c].steady
               PROVE  /\ walk[c].times[i] <= 1
                      /\ walk[c].token = Nil /\ walk[c].report = Nil => walk[c].times[i] = 1
    BY DEF WalkSeesEveryRowOnce
  <2>1. WalkInv(walk[c])
    BY DEF CInv
  <2> QED BY <2>1 DEF WalkInv
<1> QED BY <1>1, CatalogueInvariant, PTL
=============================================================================
