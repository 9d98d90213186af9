------------------------------ MODULE Accounts ------------------------------
(***************************************************************************)
(* One account of a generated application: its password, its sessions and  *)
(* its second factor (features/auth, features/mfa, runtime/session,        *)
(* modules/totp).                                                          *)
(*                                                                         *)
(* A request runs one use case.  A use case is a sequence of transactions, *)
(* and between two of them, or between two statements of one, any other    *)
(* request may run; a request may also fail between them.  What a          *)
(* transaction has written and not committed is kept in its process        *)
(* (`code`, `new`, `row`), invisible to the others, and a statement that   *)
(* would change a row such a transaction holds waits for its end and looks *)
(* at the row again.  A token is the identity of its row: only the digest  *)
(* of a token is ever compared.                                            *)
(***************************************************************************)
EXTENDS Integers, FiniteSets

CONSTANTS Requests, Sids, Chals,      \* processes; sessions; challenges
          Passwords, Recovery,        \* secrets; recovery codes
          Idle, Absolute, TouchInterval,       \* session.Lifetime
          Window, LongWindow,         \* WindowEscalation, WindowAdministrative
          ChallengeLifetime, MaxChallengeAttempts, Skew,
          None,
          MaxTime, MaxRequests, MaxFaults   \* bounds

(* What NewLifetime accepts. *)
NewLifetime(idle, absolute, touch) ==
  0 < idle /\ idle <= absolute /\ 0 < touch /\ 2 * touch <= idle

(* What people type, and a row of sessions: `root` is the session its sign-in
   issued, `began` when that was, and `with` the code it was finished with. *)
CodeType == [kind : {"totp"}, value : Int] \cup [kind : {"recovery"}, value : Recovery]
            \cup [kind : {"wrong"}, value : {None}]
SessionType == [root : Sids, began : Int, with : CodeType \cup {None}, seen : Int,
                expires : Int, proven : Int, revoked : BOOLEAN]

ASSUME AccountsAssumption ==
  /\ NewLifetime(Idle, Absolute, TouchInterval) /\ {Idle, Absolute, TouchInterval} \subseteq Nat
  /\ IsFiniteSet(Requests) /\ None \notin SessionType \cup CodeType
  /\ Window \in Nat \ {0} /\ LongWindow \in Nat \ {0} /\ ChallengeLifetime \in Nat \ {0}
  /\ MaxChallengeAttempts \in Nat \ {0} /\ Skew \in Nat
  /\ Sids \subseteq Nat \ {0}
  /\ None \notin Sids /\ None \notin Passwords /\ None \notin Recovery /\ None \notin Chals
  /\ MaxTime \in Nat /\ MaxRequests \in Nat /\ MaxFaults \in Nat

VARIABLES now,
          user,      \* the row of users: password hash, its age, status
          chosen,    \* the password last stored by a change of it
          factor,    \* the confirmed row of totp_secrets, or None
          unused,    \* the recovery codes that are not spent
          chal,      \* chal[k]: the row of mfa_challenges, or None
          guesses,   \* guesses[k]: the wrong codes that were looked at
          sess,      \* sess[s]: the row of sessions, or None
          proc,      \* proc[p]: how far request p has come
          ended,     \* the sign-ins that a revocation found live and ended
          claimed,   \* the sign-ins a revocation's snapshot held
          made, faults

vars == <<now, user, chosen, factor, unused, chal, guesses, sess, proc, ended,
          claimed, made, faults>>
second == <<factor, unused, chal, guesses>>
account == <<user, chosen>>
history == <<ended, claimed>>

Blank == [pc |-> "idle", op |-> None, sid |-> None, typed |-> None, at |-> 0, proven |-> 0,
          chal |-> None, code |-> None, others |-> {}, new |-> None,
          row |-> None]
Ready(p) == proc[p].pc = "idle" /\ made < MaxRequests
Goto(p, label) == proc' = [proc EXCEPT ![p].pc = label]
(* The answer is given, and the server is ready for another request. *)
Done(p) == proc' = [proc EXCEPT ![p] = Blank]

(* The row a sign-in inserts. *)
Row(s, with, t) ==
  [root |-> s, began |-> t, with |-> with,
   seen |-> t, expires |-> t + Absolute, proven |-> t, revoked |-> FALSE]

Init ==
  /\ now = 0 /\ faults = 0 /\ made = 0 /\ ended = {} /\ claimed = {}
  /\ \E stale \in BOOLEAN :
       user = [pw |-> CHOOSE w \in Passwords : TRUE, stale |-> stale, active |-> TRUE]
  /\ chosen = user.pw
  /\ factor \in {None, [last |-> -1]}
  /\ unused = IF factor = None THEN {} ELSE Recovery
  /\ chal = [k \in Chals |-> None] /\ guesses = [k \in Chals |-> 0]
  /\ sess = [s \in Sids |-> IF factor = None /\ s <= 2 THEN Row(s, None, -1) ELSE None]
  /\ proc = [p \in Requests |-> Blank]

-----------------------------------------------------------------------------
(* runtime/session. *)
Evaluate(row, t) ==
  IF row.revoked THEN "revoked"
  ELSE IF t >= row.expires THEN "expired"
  ELSE IF t - row.seen >= Idle THEN "idle" ELSE "active"
NeedsTouch(row, t) == t - row.seen >= TouchInterval
Satisfied(window, provenAt, t) == window /= 0 /\ t - provenAt < window

(* Which actions need a recent proof of identity, and how recent; one that is
   not declared is refused. *)
DefaultMatrix ==
  [roles_grant |-> Window, second_factor_disable |-> Window,
   users_enable |-> LongWindow, invitations_create |-> LongWindow,
   resources_retire |-> LongWindow]
Freshness(action) == IF action \in DOMAIN DefaultMatrix THEN DefaultMatrix[action] ELSE 0
Require(action, provenAt, t) == Satisfied(Freshness(action), provenAt, t)

(* modules/totp: the steps a code may belong to. *)
VerifyStep(step, t) == step \in t - Skew .. t + Skew

Live(s) == sess[s] /= None /\ ~sess[s].revoked
(* The row is updated by a rotation that has not committed. *)
Held(s) == \E q \in Requests : proc[q].pc = "commit" /\ proc[q].sid = s
(* The identifier the next session gets; they are taken in order. *)
Unused(s) == sess[s] = None /\ \A p \in Requests : proc[p].new /= s
FreeSid(s) == Unused(s) /\ \A t \in Sids : Unused(t) => s <= t

-----------------------------------------------------------------------------
(* Sign-in: read the credential, verify, upgrade an old hash, ask for the
   second factor, and issue. *)
Authenticate(p) ==
  \E typed \in Passwords :
    /\ Ready(p) /\ made' = made + 1
    /\ proc' = [proc EXCEPT ![p] =
         IF typed = user.pw /\ user.active
         THEN [Blank EXCEPT !.op = "signin", !.typed = typed,
                            !.pc = IF user.stale THEN "rehash" ELSE "enrolled"]
         ELSE Blank]
    /\ UNCHANGED <<now, account, second, sess, history, faults>>

(* The upgrade of the hash may fail, which is only logged. *)
rehash(p) ==
  /\ proc[p].pc = "rehash"
  /\ \/ user' = [user EXCEPT !.pw = proc[p].typed, !.stale = FALSE]
     \/ UNCHANGED user
  /\ Goto(p, IF proc[p].op = "signin" THEN "enrolled" ELSE "prove")
  /\ UNCHANGED <<now, chosen, second, sess, history, made, faults>>

Enrolled(p) ==
  /\ proc[p].pc = "enrolled"
  /\ Goto(p, IF factor /= None THEN "begin" ELSE "issue")
  /\ UNCHANGED <<now, account, second, sess, history, made, faults>>

Begin(p) ==
  \E k \in Chals :
    /\ proc[p].pc = "begin" /\ chal[k] = None /\ guesses[k] = 0
    /\ \A q \in Requests : proc[q].chal /= k
    /\ chal' = [chal EXCEPT ![k] = [expires |-> now + ChallengeLifetime, attempts |-> 0]]
    /\ Done(p)
    /\ UNCHANGED <<now, account, factor, unused, guesses, sess, history, made, faults>>

Issue(p) ==
  \E s \in Sids :
    /\ proc[p].pc = "issue" /\ FreeSid(s)
    /\ sess' = [sess EXCEPT ![s] = Row(s, proc[p].code, now)]
    /\ Done(p)
    /\ UNCHANGED <<now, account, second, history, made, faults>>

(* What people type: the code of a step, a recovery code, or a wrong one. *)
Typed(kind, value) == [kind |-> kind, value |-> value]
CodesAt(t) == {Typed("totp", step) : step \in t - Skew .. t + Skew}
              \cup {Typed("recovery", c) : c \in Recovery} \cup {Typed("wrong", None)}

(* The second step: find the challenge, check the code, close the challenge,
   and only then, in another transaction, issue the session. *)
Complete(p) ==
  \E k \in Chals, code \in CodesAt(now) :
    /\ Ready(p) /\ made' = made + 1 /\ chal[k] /= None
    /\ proc' = [proc EXCEPT ![p] =
         IF now >= chal[k].expires \/ chal[k].attempts >= MaxChallengeAttempts
            \/ ~user.active
         THEN Blank
         ELSE [Blank EXCEPT !.op = "complete", !.pc = "verify", !.at = now,
                            !.chal = k, !.code = code]]
    /\ UNCHANGED <<now, account, second, sess, history, faults>>

(* A row another transaction has updated and not committed is waited for. *)
HeldByOther(p, code) ==
  \E q \in Requests \ {p} :
    /\ proc[q].pc = "close" /\ proc[q].code.kind = code.kind
    /\ code.kind = "recovery" => proc[q].code = code

\* Mutant: the step is stored without being compared.
AdvanceAnyStep(step) == factor /= None
AdvanceStep(step) == factor /= None /\ factor.last < step
ConsumeRecoveryCode(code) == factor /= None /\ code \in unused

verify(p) ==
  LET code == proc[p].code
      right == \/ code.kind = "recovery" /\ ConsumeRecoveryCode(code.value)
               \/ /\ code.kind = "totp" /\ VerifyStep(code.value, proc[p].at)
                  /\ AdvanceStep(code.value)
  IN /\ proc[p].pc = "verify" /\ ~HeldByOther(p, code)
     /\ IF right THEN Goto(p, "close") /\ UNCHANGED guesses
        ELSE /\ Goto(p, "count")
             /\ guesses' = [guesses EXCEPT ![proc[p].chal] = @ + 1]
     /\ UNCHANGED <<now, account, factor, unused, chal, sess, history, made, faults>>

(* DeleteChallenge and the commit; how many rows were deleted is not asked. *)
Close(p) ==
  LET code == proc[p].code
  IN /\ proc[p].pc = "close"
     /\ chal' = [chal EXCEPT ![proc[p].chal] = None]
     /\ IF code.kind = "recovery"
        THEN unused' = unused \ {code.value} /\ UNCHANGED factor
        ELSE /\ factor' = IF factor = None THEN None ELSE [factor EXCEPT !.last = code.value]
             /\ UNCHANGED unused
     /\ Goto(p, "issue")
     /\ UNCHANGED <<now, account, guesses, sess, history, made, faults>>

\* Mutant: the count is made in the transaction that is rolled back.
CountRolledBack(p) ==
  /\ proc[p].pc = "count" /\ Done(p)
  /\ UNCHANGED <<now, account, second, sess, history, made, faults>>

countAttempt(p) ==
  LET k == proc[p].chal
  IN /\ proc[p].pc = "count"
     /\ chal' = [chal EXCEPT ![k] =
          IF @ = None \/ @.attempts + 1 >= MaxChallengeAttempts THEN None
          ELSE [@ EXCEPT !.attempts = chal[k].attempts + 1]]
     /\ Done(p)
     /\ UNCHANGED <<now, account, factor, unused, guesses, sess, history, made, faults>>

-----------------------------------------------------------------------------
(* A request with a session: the row is found and evaluated, and touched when
   its idle window has slid far enough; then the use case begins. *)
FirstStep == [visit |-> "idle", change |-> "current", reauth |-> "current",
              signout |-> "revoke", elsewhere |-> "others", disable |-> "remove"]

SessionOf(p) ==
  \E s \in Sids, op \in DOMAIN FirstStep, typed \in Passwords :
    /\ Ready(p) /\ made' = made + 1 /\ sess[s] /= None
    /\ op \in {"change", "reauth"} \/ typed = user.pw
    /\ LET began == [Blank EXCEPT !.op = op, !.sid = s,
             !.typed = IF op \in {"change", "reauth"} THEN typed ELSE None,
             !.at = IF NeedsTouch(sess[s], now) THEN now ELSE 0,
             !.proven = IF op = "disable" THEN sess[s].proven ELSE 0]
       IN proc' = [proc EXCEPT ![p] =
            IF Evaluate(sess[s], now) /= "active" \/ ~user.active
            THEN Blank
            ELSE [began EXCEPT !.pc = IF NeedsTouch(sess[s], now) THEN "touch"
                                      ELSE FirstStep[op]]]
    /\ UNCHANGED <<now, account, second, sess, history, faults>>

\* Mutant: the touch writes the row back as it was read.
TouchWritesBack(p) ==
  LET s == proc[p].sid
  IN /\ proc[p].pc = "touch"
     /\ sess' = [sess EXCEPT ![s].seen = proc[p].at, ![s].revoked = FALSE]
     /\ proc' = [proc EXCEPT ![p].pc = FirstStep[proc[p].op], ![p].at = 0]
     /\ UNCHANGED <<now, account, second, history, made, faults>>

TouchSession(p) ==
  LET s == proc[p].sid
  IN /\ proc[p].pc = "touch" /\ ~Held(s)
     /\ IF Live(s)
        THEN /\ sess' = [sess EXCEPT ![s].seen = proc[p].at]
             /\ proc' = [proc EXCEPT ![p].pc = FirstStep[proc[p].op], ![p].at = 0]
        ELSE Done(p) /\ UNCHANGED sess
     /\ UNCHANGED <<now, account, second, history, made, faults>>

(* Reauthenticate and ChangePassword prove the current password. *)
reauthenticate(p) ==
  /\ proc[p].pc = "current"
  /\ IF user.pw = proc[p].typed /\ (user.active \/ proc[p].op = "change")
     THEN Goto(p, IF proc[p].op = "change" THEN "store"
                  ELSE IF user.stale THEN "rehash" ELSE "prove")
     ELSE Done(p)
  /\ UNCHANGED <<now, account, second, sess, history, made, faults>>

UpdatePasswordHash(p) ==
  \E next \in Passwords :
    /\ proc[p].pc = "store"
    /\ user' = [user EXCEPT !.pw = next, !.stale = FALSE] /\ chosen' = next
    /\ Goto(p, "others")
    /\ UNCHANGED <<now, second, sess, history, made, faults>>

SetPassword(p) ==
  /\ Ready(p) /\ made' = made + 1
  /\ proc' = [proc EXCEPT ![p] = [Blank EXCEPT !.op = "set", !.pc = "store"]]
  /\ UNCHANGED <<now, account, second, sess, history, faults>>

(* ChangePassword with no session to keep. *)
ChangePassword(p) ==
  \E typed \in Passwords :
    /\ Ready(p) /\ made' = made + 1
    /\ proc' = [proc EXCEPT ![p] =
         [Blank EXCEPT !.op = "change", !.typed = typed, !.pc = "current"]]
    /\ UNCHANGED <<now, account, second, sess, history, faults>>

(* An administrator ends the sessions of the account. *)
RevokeForAccount(p) ==
  /\ Ready(p) /\ made' = made + 1
  /\ proc' = [proc EXCEPT ![p] = [Blank EXCEPT !.op = "account", !.pc = "others"]]
  /\ UNCHANGED <<now, account, second, sess, history, faults>>

EndAll(which) ==
  sess' = [s \in Sids |-> IF s \in which /\ Live(s)
                          THEN [sess[s] EXCEPT !.revoked = TRUE] ELSE sess[s]]

(* One UPDATE.  Its snapshot is every committed session but the one that is
   kept; it waits for the rows of them that a rotation holds, and ends those
   that are live still.  What was committed meanwhile is not in its snapshot. *)
revokeForUser(p) ==
  /\ proc[p].pc = "others"
  /\ proc' = [proc EXCEPT ![p].others = {s \in Sids : Live(s)} \ {proc[p].sid},
                          ![p].pc = "update"]
  /\ UNCHANGED <<now, account, second, sess, history, made, faults>>

Roots(which) == {sess[s].root : s \in which}
RevokeUserSessions(p) ==
  LET others == proc[p].others
  IN /\ proc[p].pc = "update" /\ \A s \in others : ~Held(s)
     /\ EndAll(others)
     /\ ended' = ended \cup Roots({s \in others : Live(s)})
     /\ claimed' = claimed \cup Roots(others)
     /\ proc' = [proc EXCEPT ![p] =
          IF proc[p].op = "change" /\ proc[p].sid /= None
          THEN [proc[p] EXCEPT !.pc = "rotate", !.others = {}] ELSE Blank]
     /\ UNCHANGED <<now, account, second, made, faults>>

(* Rotate: the successor is inserted as a copy of the live row, its deadline
   included; then the old row is ended if it still is live, and both commit,
   or neither. *)
Successor(row) == [row EXCEPT !.seen = now]
RotateSession(p) ==
  \E s \in Sids :
    /\ proc[p].pc = "rotate" /\ FreeSid(s)
    /\ IF Live(proc[p].sid)
       THEN proc' = [proc EXCEPT ![p].new = s, ![p].pc = "end",
                                 ![p].row = Successor(sess[proc[p].sid])]
       ELSE Done(p)
    /\ UNCHANGED <<now, account, second, sess, history, made, faults>>

\* Mutant: the number of rows that were ended is not asked.
RotateUnasked(p) ==
  /\ proc[p].pc = "end" /\ ~Held(proc[p].sid)
  /\ Goto(p, "commit")
  /\ UNCHANGED <<now, account, second, sess, history, made, faults>>

RotateEnds(p) ==
  /\ proc[p].pc = "end" /\ ~Held(proc[p].sid)
  /\ IF Live(proc[p].sid) THEN Goto(p, "commit") ELSE Done(p)
  /\ UNCHANGED <<now, account, second, sess, history, made, faults>>

RotateCommits(p) ==
  /\ proc[p].pc = "commit"
  /\ sess' = [sess EXCEPT ![proc[p].new] = proc[p].row, ![proc[p].sid].revoked = TRUE]
  /\ proc' = [proc EXCEPT ![p].pc = "prove", ![p].row = None]
  /\ UNCHANGED <<now, account, second, history, made, faults>>

(* The proof of identity moves forward only, on one live session.  After a
   change of the password its failure is only logged. *)
RecordProof(p) ==
  LET s == IF proc[p].op = "change" THEN proc[p].new ELSE proc[p].sid
      stamped == Live(s) /\ sess[s].proven <= now
  IN /\ proc[p].pc = "prove" /\ ~Held(s)
     /\ sess' = IF stamped THEN [sess EXCEPT ![s].proven = now] ELSE sess
     /\ Done(p)
     /\ UNCHANGED <<now, account, second, history, made, faults>>

Revoke(p) ==
  /\ proc[p].pc = "revoke" /\ ~Held(proc[p].sid)
  /\ EndAll({proc[p].sid}) /\ Done(p)
  /\ UNCHANGED <<now, account, second, history, made, faults>>

-----------------------------------------------------------------------------
(* Disable asks for a recent proof of identity, as the session carried it when
   the request came in. *)
Disable(p) ==
  /\ proc[p].pc = "remove"
  /\ IF Require("second_factor_disable", proc[p].proven, now) /\ factor /= None
     THEN factor' = None /\ unused' = {} /\ Done(p)
     ELSE UNCHANGED <<factor, unused>> /\ Done(p)
  /\ UNCHANGED <<now, account, chal, guesses, sess, history, made, faults>>

(* An administrator, who has to have proved who they are to turn an account on
   and not to turn it off, does either. *)
SetStatus ==
  /\ ~ user.active => \E proven \in 0..now : Require("users_enable", proven, now)
  /\ user' = [user EXCEPT !.active = ~ @]
  /\ UNCHANGED <<now, chosen, second, sess, proc, history, made, faults>>

(* The periodic sweeps; each deletes rows that are past their time.  Its
   identifier is never used again, and a token that finds no row is refused
   like one whose row is revoked. *)
DeleteExpired ==
  \E s \in Sids :
    /\ Live(s) /\ sess[s].expires <= now /\ ~Held(s)
    /\ EndAll({s})
    /\ UNCHANGED <<now, account, second, proc, history, made, faults>>

SweepChallenges ==
  \E k \in Chals :
    /\ chal[k] /= None /\ chal[k].expires <= now
    /\ chal' = [chal EXCEPT ![k] = None]
    /\ UNCHANGED <<now, account, factor, unused, guesses, sess, proc, history, made, faults>>

(* A statement or the process fails: the open transaction is rolled back and
   the use case goes no further. *)
Fail(p) ==
  /\ proc[p].pc /= "idle" /\ faults < MaxFaults
  /\ faults' = faults + 1
  /\ Done(p)
  /\ UNCHANGED <<now, account, second, sess, history, made>>

Tick ==
  /\ now < MaxTime /\ now' = now + 1
  /\ UNCHANGED <<account, second, sess, proc, history, made, faults>>

Request(p) ==
  \/ Authenticate(p) \/ rehash(p) \/ Enrolled(p) \/ Begin(p) \/ Issue(p)
  \/ Complete(p) \/ verify(p) \/ Close(p) \/ countAttempt(p)
  \/ SessionOf(p) \/ TouchSession(p) \/ reauthenticate(p) \/ UpdatePasswordHash(p)
  \/ SetPassword(p) \/ ChangePassword(p) \/ RevokeForAccount(p)
  \/ revokeForUser(p) \/ RevokeUserSessions(p)
  \/ RotateSession(p) \/ RotateEnds(p) \/ RotateCommits(p)
  \/ RecordProof(p) \/ Revoke(p) \/ Disable(p) \/ Fail(p)

Next ==
  \/ \E p \in Requests : Request(p)
  \/ SetStatus \/ DeleteExpired \/ SweepChallenges \/ Tick

Spec == Init /\ [][Next]_vars

-----------------------------------------------------------------------------
\* However often a session is rotated, and by however many requests at once,
\* one sign-in has at most one token that works, and none of its tokens
\* outlives the deadline the sign-in set (Rotate: "there is no instant in
\* which both tokens work").
OneTokenPerSignIn ==
  /\ \A s, t \in Sids : Live(s) /\ Live(t) /\ sess[s].root = sess[t].root => s = t
  /\ \A s \in Sids : sess[s] /= None => sess[s].expires <= sess[s].began + Absolute

\* A sign-in that a revocation has ended (a change of the password, a reset, an
\* administrator's) stays ended: neither a rotation that had copied the session
\* before it was ended, nor a touch or a proof that had read it, brings back a
\* token of it, whatever the requests and the failures in between.
EndedForGood ==
  \A s \in Sids : Live(s) => sess[s].root \notin ended

\* What the comments promise of revokeForUser (RevokeForAccount "ends every
\* session another account holds", ChangePassword "ends every other session the
\* account holds"): no token of a sign-in that its snapshot held is left when
\* its statement has committed.
EveryOtherIsEnded ==
  \A s \in Sids : Live(s) => sess[s].root \notin claimed

\* No one-time code and no recovery code finishes two sign-ins, though two
\* requests check it at the same moment; and no session came from a step after
\* the last one accepted, which a step accepted out of order would leave.
OneSignInPerCode ==
  \A s, t \in Sids :
    /\ sess[s] /= None /\ sess[t] /= None /\ sess[s].with /= None
    /\ sess[s].with = sess[t].with
    => sess[s].root = sess[t].root
LastIsTheLatest ==
  \A s \in Sids :
    /\ sess[s] /= None /\ sess[s].with /= None /\ factor /= None
    /\ sess[s].with.kind = "totp"
    => sess[s].with.value <= factor.last
CodesAreSpentOnce == OneSignInPerCode /\ LastIsTheLatest

\* Every wrong code is charged to its challenge, whatever the transaction that
\* looked at it did: a challenge that is open has been charged, or is about to
\* be, for each, and is closed when the budget is spent, so that only requests
\* in flight at that moment can exceed it.
Counting(k) == {p \in Requests : proc[p].pc = "count" /\ proc[p].chal = k}
BudgetIsCounted ==
  \A k \in Chals : chal[k] /= None =>
    /\ guesses[k] <= chal[k].attempts + Cardinality(Counting(k)) + faults
    /\ chal[k].attempts < MaxChallengeAttempts

\* rehash "rewrites a stored hash under the current parameters": it never
\* changes which password is stored, so the password is the one last chosen.
PasswordIsTheChosenOne == user.pw = chosen
-----------------------------------------------------------------------------
(* Why it holds: the inductive invariant behind the safety properties. *)
Labels == {"idle", "rehash", "enrolled", "begin", "issue", "verify", "close", "count",
           "touch", "current", "store", "others", "update", "rotate", "end", "commit",
           "prove", "revoke", "remove"}
UseCases == DOMAIN FirstStep \cup {"signin", "complete", "set", "account", None}
ProcType ==
  [pc : Labels, op : UseCases,
   sid : Sids \cup {None}, typed : Passwords \cup {None}, at : Int, proven : Int,
   chal : Chals \cup {None}, code : CodeType \cup {None}, others : SUBSET Sids,
   new : Sids \cup {None}, row : SessionType \cup {None}]

\* The types of what the sessions, the codes and the budget are about.
TypeOK ==
  /\ now \in Nat /\ faults \in Nat /\ ended \subseteq Sids
  /\ factor \in [last : Int] \cup {None} /\ unused \subseteq Recovery
  /\ chal \in [Chals -> [expires : Int, attempts : Nat] \cup {None}]
  /\ guesses \in [Chals -> Nat]
  /\ sess \in [Sids -> SessionType \cup {None}]
  /\ proc \in [Requests -> ProcType]

(* What a request carries at each of its steps. *)
StepInv(r) ==
  /\ r.pc \in {"touch", "rotate", "end", "commit"} => r.op \in DOMAIN FirstStep /\ r.sid \in Sids
  /\ r.pc \in {"verify", "close", "count"} => r.chal \in Chals /\ r.code \in CodeType
  /\ r.pc \notin {"verify", "close", "count", "issue"} => r.code = None
  /\ r.pc = "close" => r.code.kind /= "wrong"
  /\ r.pc \in {"end", "commit"} => r.new \in Sids /\ r.row \in SessionType

(* The sessions that come from sign-in `root`; nothing gets an identifier that
   was a root, and a rotation under way is a rotation of a session that was
   there, into one that is not there yet. *)
Rotating(p) == proc[p].pc \in {"end", "commit"}
SessionsInv ==
  /\ \A s \in Sids : sess[s] /= None => sess[sess[s].root] /= None
  /\ \A p \in Requests : Rotating(p) =>
       LET old == sess[proc[p].sid]
       IN /\ old /= None /\ proc[p].row.root = old.root /\ proc[p].row.with = old.with
          /\ proc[p].row.expires <= proc[p].row.began + Absolute
          /\ sess[proc[p].new] = None
          /\ \A q \in Requests \ {p} : Rotating(q) => proc[q].new /= proc[p].new
  /\ \A root \in ended : sess[root] /= None

(* A session that a rotation holds is live, and no other rotation holds it. *)
HeldInv ==
  \A p \in Requests : proc[p].pc = "commit" =>
    /\ Live(proc[p].sid)
    /\ \A q \in Requests \ {p} : proc[q].pc = "commit" => proc[q].sid /= proc[p].sid

(* A code that finished a sign-in, or is about to, is behind the factor; one
   that is being accepted is not yet, and nobody else is accepting a code of
   the same row. *)
Behind(code) ==
  /\ code.kind = "totp" /\ factor /= None => code.value <= factor.last
  /\ code.kind = "recovery" => code.value \notin unused
  /\ code.kind /= "wrong"
Fresh(p, code) ==
  /\ \A s \in Sids : sess[s] /= None => sess[s].with /= code
  /\ \A q \in Requests \ {p} : proc[q].pc = "issue" => proc[q].code /= code
Closing(p) == proc[p].pc = "close"
Finishing(p) == proc[p].pc = "issue" /\ proc[p].code /= None
CodesInv ==
  /\ \A s \in Sids : sess[s] /= None /\ sess[s].with /= None => Behind(sess[s].with)
  /\ \A p \in Requests : Finishing(p) => Behind(proc[p].code) /\ Fresh(p, proc[p].code)
  /\ \A p \in Requests : Closing(p) =>
       /\ Fresh(p, proc[p].code)
       /\ proc[p].code.kind = "totp" /\ factor /= None => factor.last < proc[p].code.value
       /\ \A q \in Requests \ {p} : Closing(q) =>
            /\ proc[q].code /= proc[p].code
            /\ proc[p].code.kind = "recovery" \/ proc[q].code.kind = "recovery"

IInv ==
  /\ TypeOK /\ \A p \in Requests : StepInv(proc[p])
  /\ SessionsInv /\ HeldInv /\ CodesInv
  /\ OneTokenPerSignIn /\ EndedForGood /\ OneSignInPerCode /\ BudgetIsCounted
=============================================================================
