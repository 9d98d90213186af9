--------------------------- MODULE UploadsProofs ---------------------------
(***************************************************************************)
(* The lifecycle of uploads keeps its ledger, its two keys and its answers *)
(* in agreement, for any number of uploads, calls of Finalize, sweeps and  *)
(* bodies in flight, and any lifetimes.                                    *)
(***************************************************************************)
EXTENDS Uploads, TLAPS

USE UploadsAssumption DEF Verdicts

\* The empty ledger satisfies the invariant.
LEMMA InitIInv == Init => IInv
  BY DEF Init, IInv, TypeOK, CallInv, EmptiedInv, MeasuredInv, AvailableHasObject,
         ServedIsVerified, QuarantineIsEmptied, AnswerStands, Steps

\* Every step of a client, of Finalize, of the sweep and of the clock keeps
\* every variable in its type.
LEMMA TypeStep == ASSUME TypeOK, Next PROVE TypeOK'
<1> USE DEF TypeOK, Steps, setup, row, objects, request, sweep
<1>1. ASSUME NEW i \in Ids, Stage(i) PROVE TypeOK'
  BY <1>1 DEF Stage
<1>2. ASSUME NEW i \in Ids, NEW x \in Bodies, PresignedPut(i, x) PROVE TypeOK'
  BY <1>2 DEF PresignedPut, Send
<1>3. ASSUME NEW i \in Ids, NEW x \in Bodies, Write(i, x) PROVE TypeOK'
  <2>1. claim[i].size \in Nat /\ x \in Content
    OBVIOUS
  <2> DEFINE most == claim[i].size + 1
             body == [x EXCEPT !.size = IF @ < most THEN @ ELSE most]
  <2>2. body \in Content
    <3>1. x.size \in Nat /\ most \in Nat
      BY <2>1 DEF Content
    <3>2. \A n \in Nat : [x EXCEPT !.size = n] \in Content
      BY <2>1 DEF Content
    <3> QED
      BY <3>1, <3>2
  <2>3. Send(i, body)
    BY <1>3 DEF Write
  <2>4. inflight' \in [Ids -> SUBSET Content]
    BY <2>2, <2>3 DEF Send
  <2> QED
    BY <1>3, <2>4 DEF Write
<1>4. ASSUME NEW i \in Ids, NEW x \in inflight[i], PutLands(i, x) PROVE TypeOK'
  BY <1>4 DEF PutLands, Judged
<1>5. ASSUME NEW i \in Ids, NEW x \in inflight[i], PutFails(i, x) PROVE TypeOK'
  BY <1>5 DEF PutFails
<1>6. ASSUME NEW c \in Calls, BeginFinalize(c) PROVE TypeOK'
  <2>1. \/ UNCHANGED <<why, found>> /\ Goto(c, "measure")
        \/ Refuse(c, "elapsed", NoObject)
    BY <1>6 DEF BeginFinalize
  <2>2. pc' \in [Calls -> Steps]
    BY <2>1 DEF Goto, Refuse, Steps
  <2>3. found' = found \/ found' = [found EXCEPT ![c] = NoObject]
    BY <2>1 DEF Refuse
  <2>4. found' \in [Calls -> Content \cup {NoObject}]
    BY <2>3
  <2>5. why' = why \/ why' = [why EXCEPT ![c] = "elapsed"]
    BY <2>1 DEF Refuse
  <2>6. why' \in [Calls -> {"none", "elapsed", "missing", "unacceptable", "scanner"}]
    BY <2>5
  <2> QED
    BY <1>6, <2>2, <2>4, <2>6 DEF BeginFinalize
<1>7. ASSUME NEW c \in Calls, Measure(c) PROVE TypeOK'
  <2>1. /\ \E step \in {"delete", "scan", "move"} : Goto(c, step)
        /\ found' = [found EXCEPT ![c] = quarantine[target[c]]]
    BY <1>7 DEF Measure, Refuse
  <2>2. pc' \in [Calls -> Steps]
    BY <2>1 DEF Goto, Steps
  <2>3. quarantine[target[c]] \in Content \cup {NoObject}
    OBVIOUS
  <2>4. found' \in [Calls -> Content \cup {NoObject}]
    BY <2>1, <2>3
  <2>5. UNCHANGED why \/ \E r \in {"missing", "unacceptable"} : why' = [why EXCEPT ![c] = r]
    BY <1>7 DEF Measure, Refuse
  <2>6. why' \in [Calls -> {"none", "elapsed", "missing", "unacceptable", "scanner"}]
    BY <2>5
  <2> QED
    BY <1>7, <2>2, <2>4, <2>6 DEF Measure
<1>8. ASSUME NEW c \in Calls, Scan(c) PROVE TypeOK'
  BY <1>8 DEF Scan, Goto, Refuse
<1>9. ASSUME NEW c \in Calls, Move(c) PROVE TypeOK'
  BY <1>9 DEF Move, Goto
<1>10. ASSUME NEW c \in Calls, MoveDeletes(c) PROVE TypeOK'
  BY <1>10 DEF MoveDeletes, Goto
<1>11. ASSUME NEW c \in Calls, MarkAvailable(c) PROVE TypeOK'
  <2>1. /\ \/ state' = state
           \/ state' = [state EXCEPT ![target[c]] = "available"]
        /\ checksum' = checksum \/ checksum' = [checksum EXCEPT ![target[c]] = found[c]]
        /\ \E what \in {"available", "error"} : Return(c, what)
    BY <1>11 DEF MarkAvailable
  <2>2. state' \in [Ids -> {"none", "staged"} \cup Verdicts]
    BY <2>1
  <2>3. checksum' \in [Ids -> Content \cup {NoObject}]
    BY <2>1
  <2>4. /\ pc' \in [Calls -> Steps]
        /\ answer' \in [Calls -> {"none", "available", "rejected", "error"}]
    BY <2>1 DEF Return, Goto
  <2> QED
    BY <1>11, <2>2, <2>3, <2>4 DEF MarkAvailable
<1>12. ASSUME NEW c \in Calls, RejectDeletes(c) PROVE TypeOK'
  BY <1>12 DEF RejectDeletes, Goto
<1>13. ASSUME NEW c \in Calls, MarkRejected(c) PROVE TypeOK'
  <2>1. /\ \/ state' = state
           \/ state' = [state EXCEPT ![target[c]] = "rejected"]
        /\ \E what \in {"rejected", "error"} : Return(c, what)
    BY <1>13 DEF MarkRejected
  <2> QED
    BY <1>13, <2>1 DEF MarkRejected, Return, Goto
<1>14. ASSUME NEW c \in Calls, Fail(c) PROVE TypeOK'
  BY <1>14 DEF Fail, Return, Goto
<1>15. ASSUME NEW s \in Sweepers, SweepLists(s) PROVE TypeOK'
  <2>1. PICK b \in SUBSET Expired : batch' = [batch EXCEPT ![s] = b]
    BY <1>15 DEF SweepLists
  <2> QED
    BY <1>15, <2>1 DEF SweepLists, Expired
<1>16. ASSUME NEW s \in Sweepers, SweepFails(s) PROVE TypeOK'
  BY <1>16 DEF SweepFails
<1>17. ASSUME NEW s \in Sweepers, NEW i \in Ids, SweepDeletes(s, i) PROVE TypeOK'
  BY <1>17 DEF SweepDeletes
<1>18. ASSUME NEW s \in Sweepers, NEW i \in Ids, SweepMarks(s, i) PROVE TypeOK'
  BY <1>18 DEF SweepMarks
<1>19. CASE Tick
  BY <1>19 DEF Tick
<1> QED
  BY <1>1, <1>2, <1>3, <1>4, <1>5, <1>6, <1>7, <1>8, <1>9, <1>10,
     <1>11, <1>12, <1>13, <1>14, <1>15, <1>16, <1>17, <1>18, <1>19 DEF Next

\* The invariant does not speak of the clock, of bodies in flight or of the
\* rows a sweep has listed.
LEMMA Frame ==
  ASSUME IInv, TypeOK',
         UNCHANGED <<scanner, state, claim, checksum, quarantine, final, pc, target,
                     found, answer, overtaken>>,
         \A s \in Sweepers : cleared'[s] \subseteq cleared[s]
  PROVE  IInv'
  BY DEF IInv, CallInv, EmptiedInv, MeasuredInv, AvailableHasObject, ServedIsVerified,
         QuarantineIsEmptied, AnswerStands, Passes

\* Every step preserves the invariant.
LEMMA Step == ASSUME IInv, [Next]_vars PROVE IInv'
<1> USE DEF setup, row, objects, request, sweep
<1>1. CASE UNCHANGED vars
  BY <1>1, Frame DEF vars, IInv, TypeOK
<1> SUFFICES ASSUME Next PROVE IInv'
  BY <1>1
<1>2. TypeOK /\ TypeOK'
  BY TypeStep DEF IInv
<1>3. ASSUME NEW i \in Ids, Stage(i) PROVE IInv'
  <2>1. CallInv'
    BY <1>2, <1>3 DEF IInv, TypeOK, CallInv, Stage
  <2>2. EmptiedInv'
    BY <1>2, <1>3 DEF IInv, TypeOK, EmptiedInv, Stage
  <2>3. MeasuredInv'
    BY <1>2, <1>3 DEF IInv, TypeOK, MeasuredInv, CallInv, Stage
  <2>4. AvailableHasObject'
    BY <1>2, <1>3 DEF IInv, TypeOK, AvailableHasObject, Stage
  <2>5. ServedIsVerified'
    BY <1>2, <1>3 DEF IInv, TypeOK, ServedIsVerified, Stage
  <2>6. QuarantineIsEmptied'
    BY <1>2, <1>3 DEF IInv, TypeOK, QuarantineIsEmptied, Stage
  <2>7. AnswerStands'
    BY <1>2, <1>3 DEF IInv, TypeOK, AnswerStands, Stage
  <2> QED
    BY <1>2, <2>1, <2>2, <2>3, <2>4, <2>5, <2>6, <2>7 DEF IInv
<1>4. ASSUME NEW i \in Ids, NEW x \in Bodies, PresignedPut(i, x) \/ Write(i, x)
      PROVE  IInv'
  BY <1>2, <1>4, Frame DEF PresignedPut, Write
<1>5. ASSUME NEW i \in Ids, NEW x \in inflight[i], PutFails(i, x) PROVE IInv'
  BY <1>2, <1>5, Frame DEF PutFails
<1>6. ASSUME NEW i \in Ids, NEW x \in inflight[i], PutLands(i, x) PROVE IInv'
  <2>1. /\ overtaken'[i] = (overtaken[i] \/ Judged(i))
        /\ \A j \in Ids \ {i} : overtaken'[j] = overtaken[j] /\ quarantine'[j] = quarantine[j]
    BY <1>2, <1>6 DEF TypeOK, PutLands
  <2>2. CallInv'
    BY <1>2, <1>6, <2>1 DEF IInv, TypeOK, CallInv, PutLands
  <2>3. EmptiedInv'
    <3>1. ASSUME NEW d \in Calls PROVE overtaken'[i] \/ target[d] # i \/ pc[d] \notin Judging
      BY <2>1 DEF Judged
    <3>2. ASSUME NEW s \in Sweepers PROVE overtaken'[i] \/ i \notin cleared[s]
      BY <2>1 DEF Judged
    <3>3. UNCHANGED <<pc, target, cleared>>
      BY <1>6 DEF PutLands
    <3>4. ASSUME NEW d \in Calls, pc[d] \in {"mark", "reject"}, ~overtaken'[target[d]]
          PROVE  quarantine'[target[d]] = NoObject
      BY <1>2, <2>1, <3>1, <3>4 DEF IInv, TypeOK, EmptiedInv, Judging
    <3>5. ASSUME NEW s \in Sweepers, NEW j \in cleared[s], ~overtaken'[j]
          PROVE  quarantine'[j] = NoObject
      <4>1. j \in Ids /\ j # i
        BY <1>2, <3>2, <3>5 DEF TypeOK
      <4>2. quarantine'[j] = quarantine[j] /\ ~overtaken[j]
        BY <2>1, <3>5, <4>1
      <4> QED
        BY <3>5, <4>2 DEF IInv, EmptiedInv
    <3> QED
      BY <3>3, <3>4, <3>5 DEF EmptiedInv
  <2>4. MeasuredInv'
    <3>1. ASSUME NEW d \in Calls PROVE overtaken'[i] \/ target[d] # i \/ pc[d] \notin Judging
      BY <2>1 DEF Judged
    <3>2. UNCHANGED <<pc, target, found, final, claim, scanner>>
      BY <1>6 DEF PutLands
    <3> QED
      BY <1>2, <2>1, <3>1, <3>2 DEF IInv, TypeOK, MeasuredInv, Judging, Passes
  <2>5. AvailableHasObject'
    BY <1>2, <1>6, <2>1 DEF IInv, TypeOK, AvailableHasObject, PutLands
  <2>6. ServedIsVerified'
    BY <1>2, <1>6, <2>1 DEF IInv, TypeOK, ServedIsVerified, Judged, Judging,
       PutLands
  <2>7. QuarantineIsEmptied'
    BY <1>2, <1>6, <2>1 DEF IInv, TypeOK, QuarantineIsEmptied, Judged, Judging,
       PutLands
  <2>8. AnswerStands'
    BY <1>2, <1>6, <2>1 DEF IInv, TypeOK, AnswerStands, PutLands
  <2> QED
    BY <1>2, <2>2, <2>3, <2>4, <2>5, <2>6, <2>7, <2>8 DEF IInv
<1>7. ASSUME NEW c \in Calls, BeginFinalize(c) PROVE IInv'
  <2>1. CallInv'
    BY <1>2, <1>7 DEF IInv, TypeOK, CallInv, BeginFinalize, Goto, Refuse
  <2>2. EmptiedInv'
    BY <1>2, <1>7 DEF IInv, TypeOK, EmptiedInv, BeginFinalize, Goto, Refuse
  <2>3. MeasuredInv'
    BY <1>2, <1>7 DEF IInv, TypeOK, MeasuredInv, BeginFinalize, Goto, Refuse
  <2>4. AvailableHasObject'
    BY <1>2, <1>7 DEF IInv, TypeOK, AvailableHasObject, BeginFinalize, Goto, Refuse
  <2>5. ServedIsVerified'
    BY <1>2, <1>7 DEF IInv, TypeOK, ServedIsVerified, BeginFinalize, Goto, Refuse
  <2>6. QuarantineIsEmptied'
    BY <1>2, <1>7 DEF IInv, TypeOK, QuarantineIsEmptied, BeginFinalize, Goto, Refuse
  <2>7. AnswerStands'
    BY <1>2, <1>7 DEF IInv, TypeOK, AnswerStands, BeginFinalize, Goto, Refuse
  <2> QED
    BY <1>2, <2>1, <2>2, <2>3, <2>4, <2>5, <2>6, <2>7 DEF IInv
<1>8. ASSUME NEW c \in Calls, Measure(c) PROVE IInv'
  <2>1. CallInv'
    BY <1>2, <1>8 DEF IInv, TypeOK, CallInv, Measure, Goto, Refuse
  <2>2. EmptiedInv'
    BY <1>2, <1>8 DEF IInv, TypeOK, EmptiedInv, Measure, Goto, Refuse
  <2>3. MeasuredInv'
    BY <1>2, <1>8 DEF IInv, TypeOK, MeasuredInv, Measure, Goto, Refuse
  <2>4. AvailableHasObject'
    BY <1>2, <1>8 DEF IInv, TypeOK, AvailableHasObject, Measure, Goto, Refuse
  <2>5. ServedIsVerified'
    BY <1>2, <1>8 DEF IInv, TypeOK, ServedIsVerified, Measure, Goto, Refuse
  <2>6. QuarantineIsEmptied'
    BY <1>2, <1>8 DEF IInv, TypeOK, QuarantineIsEmptied, Measure, Goto, Refuse
  <2>7. AnswerStands'
    <3>1. answer[c] = "none" /\ UNCHANGED <<answer, state, checksum, target>>
      BY <1>8 DEF IInv, CallInv, Measure
    <3>2. \A d \in Calls \ {c} : found'[d] = found[d]
      BY <1>2, <1>8 DEF TypeOK, Measure, Refuse
    <3> QED
      BY <3>1, <3>2 DEF IInv, AnswerStands
  <2> QED
    BY <1>2, <2>1, <2>2, <2>3, <2>4, <2>5, <2>6, <2>7 DEF IInv
<1>9. ASSUME NEW c \in Calls, Scan(c) PROVE IInv'
  <2>1. CallInv'
    BY <1>2, <1>9 DEF IInv, TypeOK, CallInv, Scan, Goto, Refuse
  <2>2. EmptiedInv'
    BY <1>2, <1>9 DEF IInv, TypeOK, EmptiedInv, Scan, Goto, Refuse
  <2>3. MeasuredInv'
    BY <1>2, <1>9 DEF IInv, TypeOK, MeasuredInv, Scan, Goto, Refuse
  <2>4. AvailableHasObject'
    BY <1>2, <1>9 DEF IInv, TypeOK, AvailableHasObject, Scan, Goto, Refuse
  <2>5. ServedIsVerified'
    BY <1>2, <1>9 DEF IInv, TypeOK, ServedIsVerified, Scan, Goto, Refuse
  <2>6. QuarantineIsEmptied'
    BY <1>2, <1>9 DEF IInv, TypeOK, QuarantineIsEmptied, Scan, Goto, Refuse
  <2>7. AnswerStands'
    <3>1. answer[c] = "none" /\ UNCHANGED <<state, checksum, target, answer>>
      BY <1>2, <1>9 DEF IInv, TypeOK, CallInv, Scan
    <3>2. \A d \in Calls : d # c => found'[d] = found[d]
      BY <1>2, <1>9 DEF IInv, TypeOK, Scan, Refuse
    <3> QED
      BY <3>1, <3>2 DEF IInv, AnswerStands
  <2> QED
    BY <1>2, <2>1, <2>2, <2>3, <2>4, <2>5, <2>6, <2>7 DEF IInv
<1>10. ASSUME NEW c \in Calls, Move(c) PROVE IInv'
  <2>1. CallInv'
    BY <1>2, <1>10 DEF IInv, TypeOK, CallInv, Move, Goto
  <2>2. EmptiedInv'
    BY <1>2, <1>10 DEF IInv, TypeOK, EmptiedInv, Move, Goto
  <2>3. MeasuredInv'
    BY <1>2, <1>10 DEF IInv, TypeOK, MeasuredInv, EmptiedInv, Move, Goto
  <2>4. AvailableHasObject'
    BY <1>2, <1>10 DEF IInv, TypeOK, AvailableHasObject, Move, Goto
  <2>5. ServedIsVerified'
    BY <1>2, <1>10 DEF IInv, TypeOK, ServedIsVerified, QuarantineIsEmptied, Move,
       Goto
  <2>6. QuarantineIsEmptied'
    BY <1>2, <1>10 DEF IInv, TypeOK, QuarantineIsEmptied, Move, Goto
  <2>7. AnswerStands'
    BY <1>2, <1>10 DEF IInv, TypeOK, AnswerStands, Move, Goto
  <2> QED
    BY <1>2, <2>1, <2>2, <2>3, <2>4, <2>5, <2>6, <2>7 DEF IInv
<1>11. ASSUME NEW c \in Calls, MoveDeletes(c) PROVE IInv'
  <2>1. CallInv'
    BY <1>2, <1>11 DEF IInv, TypeOK, CallInv, MoveDeletes, Goto
  <2>2. EmptiedInv'
    BY <1>2, <1>11 DEF IInv, TypeOK, EmptiedInv, MoveDeletes, Goto
  <2>3. MeasuredInv'
    BY <1>2, <1>11 DEF IInv, TypeOK, MeasuredInv, MoveDeletes, Goto
  <2>4. AvailableHasObject'
    BY <1>2, <1>11 DEF IInv, TypeOK, AvailableHasObject, MoveDeletes, Goto
  <2>5. ServedIsVerified'
    BY <1>2, <1>11 DEF IInv, TypeOK, ServedIsVerified, MoveDeletes, Goto
  <2>6. QuarantineIsEmptied'
    BY <1>2, <1>11 DEF IInv, TypeOK, QuarantineIsEmptied, MoveDeletes, Goto
  <2>7. AnswerStands'
    BY <1>2, <1>11 DEF IInv, TypeOK, AnswerStands, MoveDeletes, Goto
  <2> QED
    BY <1>2, <2>1, <2>2, <2>3, <2>4, <2>5, <2>6, <2>7 DEF IInv
<1>12. ASSUME NEW c \in Calls, MarkAvailable(c) PROVE IInv'
  <2>1. CallInv'
    BY <1>2, <1>12 DEF IInv, TypeOK, CallInv, MarkAvailable, Goto, Return
  <2>2. EmptiedInv'
    BY <1>2, <1>12 DEF IInv, TypeOK, EmptiedInv, MarkAvailable, Goto, Return
  <2>3. MeasuredInv'
    BY <1>2, <1>12 DEF IInv, TypeOK, MeasuredInv, MarkAvailable, Goto, Return
  <2>4. AvailableHasObject'
    BY <1>2, <1>12 DEF IInv, TypeOK, AvailableHasObject, MeasuredInv, MarkAvailable,
       Goto, Return
  <2>5. ServedIsVerified'
    <3>1. ASSUME NEW j \in Ids, j # target[c]
          PROVE  state'[j] = state[j] /\ checksum'[j] = checksum[j]
      BY <1>2, <1>12, <3>1 DEF TypeOK, MarkAvailable
    <3>2. CASE state[target[c]] = "staged"
      <4>1. checksum'[target[c]] = found[c]
        BY <1>2, <1>12, <3>2 DEF TypeOK, MarkAvailable
      <4>2. ~overtaken[target[c]] => /\ final[target[c]] = found[c]
                                     /\ Passes(found[c], claim[target[c]])
                                     /\ scanner => found[c].clean
        BY <1>12 DEF IInv, MeasuredInv, MarkAvailable
      <4> QED
        BY <1>12, <3>1, <4>1, <4>2 DEF IInv, ServedIsVerified, MarkAvailable, Passes
    <3>3. CASE state[target[c]] # "staged"
      BY <1>12, <3>3 DEF IInv, ServedIsVerified, MarkAvailable, Passes
    <3> QED
      BY <3>2, <3>3
  <2>6. QuarantineIsEmptied'
    BY <1>2, <1>12 DEF IInv, TypeOK, QuarantineIsEmptied, EmptiedInv, MarkAvailable,
       Goto, Return
  <2>7. AnswerStands'
    BY <1>2, <1>12 DEF IInv, TypeOK, AnswerStands, CallInv, MarkAvailable, Goto,
       Return
  <2> QED
    BY <1>2, <2>1, <2>2, <2>3, <2>4, <2>5, <2>6, <2>7 DEF IInv
<1>13. ASSUME NEW c \in Calls, RejectDeletes(c) PROVE IInv'
  <2>1. CallInv'
    BY <1>2, <1>13 DEF IInv, TypeOK, CallInv, RejectDeletes, Goto
  <2>2. EmptiedInv'
    BY <1>2, <1>13 DEF IInv, TypeOK, EmptiedInv, RejectDeletes, Goto
  <2>3. MeasuredInv'
    BY <1>2, <1>13 DEF IInv, TypeOK, MeasuredInv, RejectDeletes, Goto
  <2>4. AvailableHasObject'
    BY <1>2, <1>13 DEF IInv, TypeOK, AvailableHasObject, RejectDeletes, Goto
  <2>5. ServedIsVerified'
    BY <1>2, <1>13 DEF IInv, TypeOK, ServedIsVerified, RejectDeletes, Goto
  <2>6. QuarantineIsEmptied'
    BY <1>2, <1>13 DEF IInv, TypeOK, QuarantineIsEmptied, RejectDeletes, Goto
  <2>7. AnswerStands'
    BY <1>2, <1>13 DEF IInv, TypeOK, AnswerStands, RejectDeletes, Goto
  <2> QED
    BY <1>2, <2>1, <2>2, <2>3, <2>4, <2>5, <2>6, <2>7 DEF IInv
<1>14. ASSUME NEW c \in Calls, MarkRejected(c) PROVE IInv'
  <2>1. CallInv'
    BY <1>2, <1>14 DEF IInv, TypeOK, CallInv, MarkRejected, Goto, Return
  <2>2. EmptiedInv'
    BY <1>2, <1>14 DEF IInv, TypeOK, EmptiedInv, MarkRejected, Goto, Return
  <2>3. MeasuredInv'
    BY <1>2, <1>14 DEF IInv, TypeOK, MeasuredInv, MarkRejected, Goto, Return
  <2>4. AvailableHasObject'
    BY <1>2, <1>14 DEF IInv, TypeOK, AvailableHasObject, MarkRejected, Goto, Return
  <2>5. ServedIsVerified'
    BY <1>2, <1>14 DEF IInv, TypeOK, ServedIsVerified, MarkRejected, Goto, Return
  <2>6. QuarantineIsEmptied'
    BY <1>2, <1>14 DEF IInv, TypeOK, QuarantineIsEmptied, EmptiedInv, MarkRejected,
       Goto, Return
  <2>7. AnswerStands'
    <3>1. ASSUME NEW d \in Calls, d # c
          PROVE  /\ answer'[d] = answer[d] /\ found'[d] = found[d] /\ target'[d] = target[d]
                 /\ answer[d] \in {"available", "rejected"} => state'[target[d]] = state[target[d]]
      BY <1>2, <1>14, <3>1 DEF IInv, TypeOK, AnswerStands, MarkRejected, Return
    <3>2. answer'[c] = "rejected" => state'[target[c]] = "rejected"
      BY <1>2, <1>14 DEF TypeOK, MarkRejected, Return
    <3>3. answer'[c] # "available" /\ UNCHANGED <<target, checksum>>
      BY <1>2, <1>14 DEF TypeOK, MarkRejected, Return
    <3> QED
      BY <3>1, <3>2, <3>3 DEF IInv, AnswerStands
  <2> QED
    BY <1>2, <2>1, <2>2, <2>3, <2>4, <2>5, <2>6, <2>7 DEF IInv
<1>15. ASSUME NEW c \in Calls, Fail(c) PROVE IInv'
  <2>1. CallInv'
    BY <1>2, <1>15 DEF IInv, TypeOK, CallInv, Fail, Goto, Return
  <2>2. EmptiedInv'
    BY <1>2, <1>15 DEF IInv, TypeOK, EmptiedInv, Fail, Goto, Return
  <2>3. MeasuredInv'
    BY <1>2, <1>15 DEF IInv, TypeOK, MeasuredInv, Fail, Goto, Return
  <2>4. AvailableHasObject'
    BY <1>2, <1>15 DEF IInv, TypeOK, AvailableHasObject, Fail, Goto, Return
  <2>5. ServedIsVerified'
    BY <1>2, <1>15 DEF IInv, TypeOK, ServedIsVerified, Fail, Goto, Return
  <2>6. QuarantineIsEmptied'
    BY <1>2, <1>15 DEF IInv, TypeOK, QuarantineIsEmptied, Fail, Goto, Return
  <2>7. AnswerStands'
    BY <1>2, <1>15 DEF IInv, TypeOK, AnswerStands, Fail, Goto, Return
  <2> QED
    BY <1>2, <2>1, <2>2, <2>3, <2>4, <2>5, <2>6, <2>7 DEF IInv
<1>16. ASSUME NEW s \in Sweepers, SweepLists(s) \/ SweepFails(s) PROVE IInv'
  <2>1. \A t \in Sweepers : cleared'[t] \subseteq cleared[t]
    <3>1. cleared' = cleared \/ cleared' = [cleared EXCEPT ![s] = {}]
      BY <1>16 DEF SweepLists, SweepFails
    <3>2. cleared \in [Sweepers -> SUBSET Ids]
      BY <1>2 DEF IInv, TypeOK
    <3> QED
      BY <3>1, <3>2
  <2> QED
    BY <1>2, <1>16, <2>1, Frame DEF SweepLists, SweepFails
<1>17. ASSUME NEW s \in Sweepers, NEW i \in Ids, SweepDeletes(s, i) PROVE IInv'
  <2>1. CallInv'
    BY <1>2, <1>17 DEF IInv, TypeOK, CallInv, SweepDeletes
  <2>2. EmptiedInv'
    BY <1>2, <1>17 DEF IInv, TypeOK, EmptiedInv, SweepDeletes
  <2>3. MeasuredInv'
    BY <1>2, <1>17 DEF IInv, TypeOK, MeasuredInv, SweepDeletes
  <2>4. AvailableHasObject'
    BY <1>2, <1>17 DEF IInv, TypeOK, AvailableHasObject, SweepDeletes
  <2>5. ServedIsVerified'
    BY <1>2, <1>17 DEF IInv, TypeOK, ServedIsVerified, SweepDeletes
  <2>6. QuarantineIsEmptied'
    BY <1>2, <1>17 DEF IInv, TypeOK, QuarantineIsEmptied, SweepDeletes
  <2>7. AnswerStands'
    BY <1>2, <1>17 DEF IInv, TypeOK, AnswerStands, SweepDeletes
  <2> QED
    BY <1>2, <2>1, <2>2, <2>3, <2>4, <2>5, <2>6, <2>7 DEF IInv
<1>18. ASSUME NEW s \in Sweepers, NEW i \in Ids, SweepMarks(s, i) PROVE IInv'
  <2>1. CallInv'
    BY <1>2, <1>18 DEF IInv, TypeOK, CallInv, SweepMarks
  <2>2. EmptiedInv'
    BY <1>2, <1>18 DEF IInv, TypeOK, EmptiedInv, SweepMarks
  <2>3. MeasuredInv'
    BY <1>2, <1>18 DEF IInv, TypeOK, MeasuredInv, SweepMarks
  <2>4. AvailableHasObject'
    BY <1>2, <1>18 DEF IInv, TypeOK, AvailableHasObject, SweepMarks
  <2>5. ServedIsVerified'
    BY <1>2, <1>18 DEF IInv, TypeOK, ServedIsVerified, SweepMarks
  <2>6. QuarantineIsEmptied'
    BY <1>2, <1>18 DEF IInv, TypeOK, QuarantineIsEmptied, EmptiedInv, SweepMarks
  <2>7. AnswerStands'
    BY <1>2, <1>18 DEF IInv, TypeOK, AnswerStands, SweepMarks
  <2> QED
    BY <1>2, <2>1, <2>2, <2>3, <2>4, <2>5, <2>6, <2>7 DEF IInv
<1>19. CASE Tick
  BY <1>2, <1>19, Frame DEF Tick
<1> QED
  BY <1>3, <1>4, <1>5, <1>6, <1>7, <1>8, <1>9, <1>10, <1>11,
     <1>12, <1>13, <1>14, <1>15, <1>16, <1>17, <1>18, <1>19 DEF Next

\* The ledger, the two keys and the calls in progress agree in every reachable
\* state.
THEOREM Invariant == Spec => []IInv
  BY InitIInv, Step, PTL DEF Spec

\* A row that says available has its object, whatever requests and sweeps
\* overlapped and wherever one of them stopped.
THEOREM AvailableIsThere == Spec => []AvailableHasObject
<1>1. IInv => AvailableHasObject
  BY DEF IInv
<1> QED
  BY Invariant, <1>1, PTL

\* What is served is what was measured and scanned, unless a body arrived while
\* the verdict was being reached or later.
THEOREM VerifiedIsServed == Spec => []ServedIsVerified
<1>1. IInv => ServedIsVerified
  BY DEF IInv
<1> QED
  BY Invariant, <1>1, PTL

\* A verdict leaves nothing in quarantine, with the same exception.
THEOREM VerdictEmptiesQuarantine == Spec => []QuarantineIsEmptied
<1>1. IInv => QuarantineIsEmptied
  BY DEF IInv
<1> QED
  BY Invariant, <1>1, PTL

\* What one Finalize answered, no other request and no sweep takes back.
THEOREM AnswersStand == Spec => []AnswerStands
<1>1. IInv => AnswerStands
  BY DEF IInv
<1> QED
  BY Invariant, <1>1, PTL
=============================================================================
