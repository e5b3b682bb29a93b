---------------------------- MODULE ReviewProofs ----------------------------
(***************************************************************************)
(* Proofs about Review, for any paper, any bodies, any number of requests  *)
(* and appeals: the audit-first promises, as an invariant and as a         *)
(* refinement of AuditFirst.                                               *)
(***************************************************************************)
EXTENDS ReviewInvariant, SequenceTheorems, TLAPS

USE DEF At, End

---------------------------------------------------------------------------
(***************************************************************************)
(* Events and commands.                                                    *)
(***************************************************************************)

\* An event is known by its action and its value.
LEMMA EventParts ==
  ASSUME NEW action, NEW value
  PROVE  Event(action, value).action = action /\ Event(action, value).value = value
BY DEF Event

\* The events of an action are those with a value among its values.
LEMMA ValuesAudited ==
  ASSUME NEW action, NEW value, Audited(action, value)
  PROVE  value \in EventValues(action)
BY EventParts DEF Audited, EventValues

\* Only a regrade command leads to a marking pass.
LEMMA OnlyRegrade ==
  ASSUME NEW cur, NEW command \in {"approve", "publish", "export", "regrade"},
         NextState(cur, StageToEvent(command), {}) = "grading"
  PROVE  command = "regrade"
<1>1. StageToEvent(command) =
        CASE command = "approve" -> "ApproveByTeacher"
          [] command = "publish" -> "Publish"
          [] command = "export"  -> "Export"
          [] command = "regrade" -> "Regrade"
  BY DEF StageToEvent, ResultStages
<1>2. computeNext(cur, StageToEvent(command), {}) = "grading"
  BY DEF NextState, Err
<1> QED BY <1>1, <1>2 DEF computeNext, Err

---------------------------------------------------------------------------
(***************************************************************************)
(* The invariant.                                                          *)
(***************************************************************************)
LEMMA InitIInv == Init => IInv
<1> SUFFICES ASSUME Init PROVE IInv
  OBVIOUS
<1>1. Shape
  BY DEF Init, Shape, Statuses
<1>2. WritesAudited
  BY DEF Init, WritesAudited, AppealsAudited
<1> QED BY <1>1, <1>2 DEF IInv

\* A request that moves on keeps the shape of the state, if it keeps its own.
LEMMA ShapeStep ==
  ASSUME Shape, NEW r \in Slots, NEW y,
         req' = [req EXCEPT ![r] = y],
         y # NoReq => RequestShape(y),
         commands' \in Seq({"approve", "publish", "export", "regrade"}),
         appeals' \in [Appeals -> Statuses]
  PROVE  Shape'
BY DEF Shape

\* Requests that do not move stay audited: the trail only grows.
LEMMA StayAudited ==
  ASSUME WritesAudited, audit \subseteq audit',
         marking' = "due" =>
           marking = "due" \/ \E a \in Appeals : Regraded(a),
         NEW s \in Slots, req'[s] = req[s], req[s] # NoReq
  PROVE  (WriteAudited(req[s]) /\ RequestGrounded(req[s]))'
<1>1. WriteAudited(req[s]) /\ RequestGrounded(req[s])
  BY DEF WritesAudited
<1>2. WriteAudited(req[s])'
  BY <1>1 DEF WriteAudited, Audited, Regraded
<1>3. RequestGrounded(req[s])'
  BY <1>1 DEF RequestGrounded, Audited, Regraded
<1> QED BY <1>2, <1>3

\* What appeals and marking passes rest on stays on the trail as well.
LEMMA AppealsStayAudited ==
  ASSUME WritesAudited, audit \subseteq audit', UNCHANGED appeals,
         marking' = "due" /\ paper' # NoPaper =>
           \/ marking = "due" /\ paper # NoPaper
           \/ \E a \in Appeals : Regraded(a)
  PROVE  AppealsAudited'
BY DEF WritesAudited, AppealsAudited, Audited, Regraded

\* A step of one request that leaves commands and appeals alone keeps the
\* invariant, if the request still has what it writes on the trail.
LEMMA RequestOnly ==
  ASSUME IInv, NEW r \in Slots, NEW y,
         req' = [req EXCEPT ![r] = y],
         y # NoReq => RequestShape(y),
         audit \subseteq audit',
         UNCHANGED <<marking, commands, appeals>>,
         marking = "due" /\ paper' # NoPaper =>
           paper # NoPaper \/ \E a \in Appeals : Regraded(a),
         req'[r] # NoReq => (WriteAudited(req[r]) /\ RequestGrounded(req[r]))'
  PROVE  IInv'
<1>1. Shape'
  BY ShapeStep DEF IInv, Shape
<1>2. ASSUME NEW s \in Slots, req'[s] # NoReq
      PROVE  (WriteAudited(req[s]) /\ RequestGrounded(req[s]))'
  <2>1. CASE s = r
    BY <1>2, <2>1
  <2>2. CASE s # r
    <3>1. req'[s] = req[s]
      BY <2>2 DEF IInv, Shape
    <3> QED BY <1>2, <3>1, StayAudited DEF IInv
  <2> QED BY <2>1, <2>2
<1>3. AppealsAudited'
  BY AppealsStayAudited DEF IInv
<1>4. ((\E i \in DOMAIN commands : commands[i] = "regrade")
         => \E a \in Appeals : Regraded(a))'
  BY DEF IInv, WritesAudited, Regraded, Audited
<1> QED BY <1>1, <1>2, <1>3, <1>4 DEF IInv, WritesAudited

\* A request that starts has nothing to write yet.
LEMMA OpenIInv ==
  ASSUME IInv, NEW r \in Slots, NEW op \in Ops, NEW step, NEW body, NEW a,
         step \in {"load", "audit"},
         step = "load" => op \in {"patch", "approve", "regenerate"},
         op = "regenerate" => step = "load",
         op \in {"file", "resolve", "regrade"} => a \in Appeals,
         Open(r, op, step, body, a)
  PROVE  IInv'
<1> DEFINE y == [op |-> op, at |-> step, body |-> body,
                 appeal |-> a, doc |-> NoPaper, row |-> NoRow]
<1>1. /\ req' = [req EXCEPT ![r] = y]
      /\ UNCHANGED <<marking, commands, appeals, audit, paper>>
  BY DEF Open, pipelineVars, recordVars
<1>2. RequestShape(y)
  BY DEF RequestShape, IsRequest
<1>3. req'[r] = y
  BY <1>1 DEF IInv, Shape
<1>4. (WriteAudited(req[r]) /\ RequestGrounded(req[r]))'
  BY <1>3 DEF WriteAudited, RequestGrounded
<1> HIDE DEF y
<1> QED BY <1>1, <1>2, <1>4, RequestOnly

\* So does every kind of request.
LEMMA CallIInv ==
  ASSUME IInv, NEW r \in Slots, Call(r)
  PROVE  IInv'
<1>1. CASE PatchQuestion(r)
  BY <1>1, OpenIInv DEF PatchQuestion, Ops
<1>2. CASE Approve(r)
  BY <1>2, OpenIInv DEF Approve, Ops
<1>3. CASE Publish(r)
  BY <1>3, OpenIInv DEF Publish, Ops
<1>4. CASE Export(r)
  BY <1>4, OpenIInv DEF Export, Ops
<1>5. CASE Regenerate(r)
  BY <1>5, OpenIInv DEF Regenerate, Ops
<1>6. CASE FileAppeal(r)
  BY <1>6, OpenIInv DEF FileAppeal, Ops
<1>7. CASE ResolveAppeal(r)
  BY <1>7, OpenIInv DEF ResolveAppeal, Ops
<1>8. CASE RegradeAppeal(r)
  BY <1>8, OpenIInv DEF RegradeAppeal, Ops
<1> QED BY <1>1, <1>2, <1>3, <1>4, <1>5, <1>6, <1>7, <1>8 DEF Call

\* A request whose next call and whose paper change is still a request.
LEMMA Moved ==
  ASSUME NEW x, IsRequest(x), NEW step, NEW doc
  PROVE  [x EXCEPT !.at = step, !.doc = doc] =
           [op |-> x.op, at |-> step, body |-> x.body,
            appeal |-> x.appeal, doc |-> doc, row |-> x.row]
<1>1. [x EXCEPT !.at = step] =
        [op |-> x.op, at |-> step, body |-> x.body,
         appeal |-> x.appeal, doc |-> x.doc, row |-> x.row]
  BY DEF IsRequest
<1>2. [[op |-> x.op, at |-> step, body |-> x.body,
        appeal |-> x.appeal, doc |-> x.doc, row |-> x.row]
         EXCEPT !.doc = doc] =
        [op |-> x.op, at |-> step, body |-> x.body,
         appeal |-> x.appeal, doc |-> doc, row |-> x.row]
  OBVIOUS
<1>3. [x EXCEPT !.at = step, !.doc = doc] =
        [[x EXCEPT !.at = step] EXCEPT !.doc = doc]
  OBVIOUS
<1> QED BY <1>1, <1>2, <1>3

\* The reads and writes of a request that leave commands and appeals alone.
LEMMA ReadIInv ==
  ASSUME IInv, NEW r \in Slots,
         LoadPaper(r) \/ ListTeacherReviews(r) \/ DraftFeedback(r)
  PROVE  IInv'
<1>1. /\ req[r] # NoReq /\ RequestShape(req[r])
      /\ WriteAudited(req[r]) /\ RequestGrounded(req[r])
      /\ UNCHANGED <<marking, commands, appeals, audit, paper>>
  BY DEF LoadPaper, ListTeacherReviews, DraftFeedback, IInv, Shape,
         WritesAudited, pipelineVars, recordVars
<1>2. CASE LoadPaper(r)
  <2>1. CASE paper = NoPaper /\ End(r)
    <3>1. req'[r] = NoReq
      BY <2>1 DEF IInv, Shape
    <3> QED BY <1>1, <2>1, <3>1, RequestOnly
  <2>2. CASE paper # NoPaper
    <3> DEFINE step == IF req[r].op = "regenerate" THEN "draft" ELSE "list"
               y    == [req[r] EXCEPT !.at = step, !.doc = paper]
    <3>1. req' = [req EXCEPT ![r] = y]
      BY <1>2, <2>2 DEF LoadPaper, IInv, Shape
    <3>2. /\ RequestShape(y)
          /\ y.op = req[r].op /\ y.appeal = req[r].appeal
          /\ y.at \in {"draft", "list"}
      <4>1. req[r].at = "load"
        BY <1>2 DEF LoadPaper
      <4>2. /\ IsRequest(req[r])
            /\ req[r].op \in Ops \cap {"patch", "approve", "regenerate"}
        BY <1>1, <4>1 DEF RequestShape
      <4>3. y = [op |-> req[r].op, at |-> step, body |-> req[r].body,
                 appeal |-> req[r].appeal, doc |-> paper, row |-> req[r].row]
        BY <4>2, Moved
      <4> HIDE DEF y
      <4> QED BY <4>2, <4>3 DEF RequestShape, IsRequest
    <3>3. req'[r] = y
      BY <3>1 DEF IInv, Shape
    <3>4. marking = "due" => \E a \in Appeals : Regraded(a)
      BY <2>2 DEF IInv, WritesAudited, AppealsAudited, Regraded, Audited
    <3>5. (WriteAudited(req[r]) /\ RequestGrounded(req[r]))'
      BY <1>1, <3>2, <3>3, <3>4
      DEF WriteAudited, RequestGrounded, Regraded, Audited
    <3> HIDE DEF y
    <3> QED BY <1>1, <3>1, <3>2, <3>5, RequestOnly
  <2> QED BY <1>2, <2>1, <2>2 DEF LoadPaper
<1>3. CASE ListTeacherReviews(r) \/ DraftFeedback(r)
  <2> DEFINE y == req'[r]
  <2>1. /\ req' = [req EXCEPT ![r] = y]
        /\ RequestShape(y)
        /\ y.op = req[r].op /\ y.appeal = req[r].appeal /\ y.at = "audit"
        /\ req[r].at \in {"list", "draft"}
    <3>1. CASE ListTeacherReviews(r)
      BY <1>1, <3>1 DEF ListTeacherReviews, RequestShape, IsRequest, IInv, Shape
    <3>2. CASE DraftFeedback(r)
      <4>1. PICK doc : y = [req[r] EXCEPT !.at = "audit", !.doc = doc]
        BY <3>2 DEF DraftFeedback, IInv, Shape
      <4>2. req' = [req EXCEPT ![r] = y] /\ req[r].at = "draft"
        BY <3>2 DEF DraftFeedback, IInv, Shape
      <4>3. IsRequest(req[r]) /\ req[r].op \in Ops
        BY <1>1 DEF RequestShape
      <4>4. y = [op |-> req[r].op, at |-> "audit", body |-> req[r].body,
                 appeal |-> req[r].appeal, doc |-> doc, row |-> req[r].row]
        BY <4>1, <4>3, Moved
      <4> HIDE DEF y
      <4> QED BY <4>2, <4>3, <4>4 DEF RequestShape, IsRequest
    <3> QED BY <1>3, <3>1, <3>2
  <2>2. (WriteAudited(req[r]) /\ RequestGrounded(req[r]))'
    BY <1>1, <2>1 DEF WriteAudited, RequestGrounded, Regraded, Audited
  <2> HIDE DEF y
  <2> QED BY <1>1, <2>1, <2>2, RequestOnly DEF y
<1> QED BY <1>2, <1>3

\* A request that ends has nothing left to write.
LEMMA EndIInv ==
  ASSUME IInv, NEW r \in Slots, End(r), UNCHANGED <<marking, commands, appeals, audit>>,
         marking = "due" /\ paper' # NoPaper =>
           paper # NoPaper \/ \E a \in Appeals : Regraded(a)
  PROVE  IInv'
<1>1. req'[r] = NoReq
  BY DEF IInv, Shape
<1> QED BY <1>1, RequestOnly

\* A request that goes on to its next call changes nothing else.
LEMMA GotoStep ==
  ASSUME IInv, NEW r \in Slots, NEW step, req[r] # NoReq, Goto(r, step)
  PROVE  \E y : /\ req' = [req EXCEPT ![r] = y]
                /\ req'[r] = y
                /\ IsRequest(y)
                /\ y.op = req[r].op /\ y.at = step /\ y.doc = req[r].doc
                /\ y.row = req[r].row /\ y.appeal = req[r].appeal
<1> DEFINE y == [req[r] EXCEPT !.at = step]
<1>1. req' = [req EXCEPT ![r] = y]
  BY DEF Goto
<1>2. req'[r] = y
  BY <1>1 DEF IInv, Shape
<1>3. IsRequest(req[r])
  BY DEF IInv, Shape, RequestShape
<1>4. y = [op |-> req[r].op, at |-> step, body |-> req[r].body,
           appeal |-> req[r].appeal, doc |-> req[r].doc, row |-> req[r].row]
  BY <1>3 DEF IsRequest
<1> HIDE DEF y
<1>5. /\ IsRequest(y)
      /\ y.op = req[r].op /\ y.at = step /\ y.doc = req[r].doc
      /\ y.row = req[r].row /\ y.appeal = req[r].appeal
  BY <1>4 DEF IsRequest
<1> QED BY <1>1, <1>2, <1>5

\* A request records its event, with the value it is about to write.
LEMMA AuditIInv ==
  ASSUME IInv, NEW r \in Slots, InsertAuditEvent(r)
  PROVE  IInv'
<1>1. /\ req[r] # NoReq /\ RequestShape(req[r]) /\ RequestGrounded(req[r])
      /\ req[r].at = "audit"
      /\ Goto(r, AfterAudit(req[r].op))
      /\ audit' = audit \cup {EventOf(req[r])}
      /\ UNCHANGED <<marking, commands, appeals, paper>>
  BY DEF InsertAuditEvent, IInv, Shape, WritesAudited, pipelineVars
<1>2. PICK y : /\ req' = [req EXCEPT ![r] = y]
               /\ req'[r] = y
               /\ IsRequest(y)
               /\ y.op = req[r].op /\ y.at = AfterAudit(req[r].op)
               /\ y.doc = req[r].doc
               /\ y.row = req[r].row /\ y.appeal = req[r].appeal
  BY <1>1, GotoStep
<1>3. req[r].op \in Ops
  BY <1>1 DEF RequestShape
<1>4. RequestShape(y)
  BY <1>2, <1>3 DEF RequestShape, AfterAudit, Ops
<1>5. EventOf(req[r]) \in audit'
  BY <1>1
<1>6. WriteAudited(req[r])'
  <2>1. CASE y.op = "patch"
    BY <1>2, <1>5, <2>1
    DEF WriteAudited, Audited, AfterAudit, EventOf
  <2>2. CASE y.op = "approve"
    BY <1>2, <1>5, <2>2
    DEF WriteAudited, Audited, AfterAudit, EventOf
  <2>3. CASE y.op \in {"resolve", "regrade"}
    BY <1>2, <1>5, <2>3
    DEF WriteAudited, Audited, Regraded, AfterAudit, EventOf
  <2>4. CASE y.op \in {"regenerate", "file", "publish", "export"}
    BY <1>2, <2>4 DEF WriteAudited, AfterAudit
  <2> QED BY <1>2, <1>3, <2>1, <2>2, <2>3, <2>4 DEF Ops
<1>7. RequestGrounded(req[r])'
  BY <1>1, <1>2 DEF RequestGrounded, Regraded, Audited
<1>8. audit \subseteq audit'
  BY <1>1
<1> QED BY <1>1, <1>2, <1>4, <1>6, <1>7, <1>8, RequestOnly

\* The writes keep the invariant: what they store is on the trail already.
LEMMA StoreIInv ==
  ASSUME IInv, NEW r \in Slots,
         InsertTeacherReview(r) \/ PutSnapshot(r) \/ InsertFinalGrade(r)
           \/ PutPaper(r) \/ RequestFails(r)
  PROVE  IInv'
<1>1. CASE InsertTeacherReview(r)
  BY <1>1, EndIInv DEF InsertTeacherReview, pipelineVars
<1>2. CASE RequestFails(r)
  BY <1>2, EndIInv DEF RequestFails, pipelineVars, recordVars
<1>3. CASE PutPaper(r)
  <2>1. marking = "due" => \E a \in Appeals : Regraded(a)
    BY <1>3 DEF PutPaper, IInv, Shape, WritesAudited, RequestShape, RequestGrounded
  <2> QED BY <1>3, <2>1, EndIInv DEF PutPaper, pipelineVars, recordVars
<1>4. ASSUME NEW step \in {"row", "send"}, Goto(r, step),
             req[r] # NoReq, step = "row" => req[r].at = "snapshot",
             step = "send" => req[r].at = "row",
             UNCHANGED <<marking, commands, appeals, audit, paper>>
      PROVE  IInv'
  <2>1. PICK y : /\ req' = [req EXCEPT ![r] = y]
                 /\ req'[r] = y
                 /\ IsRequest(y)
                 /\ y.op = req[r].op /\ y.at = step /\ y.doc = req[r].doc
                 /\ y.row = req[r].row /\ y.appeal = req[r].appeal
    BY <1>4, GotoStep
  <2>2. /\ RequestShape(req[r])
        /\ WriteAudited(req[r]) /\ RequestGrounded(req[r])
    BY <1>4 DEF IInv, Shape, WritesAudited
  <2>3. req[r].op = "approve"
    BY <1>4, <2>2 DEF RequestShape
  <2>4. RequestShape(y)
    BY <1>4, <2>1, <2>3 DEF RequestShape, Ops
  <2>5. WriteAudited(req[r])'
    BY <1>4, <2>1, <2>2, <2>3 DEF WriteAudited, Audited
  <2>6. RequestGrounded(req[r])'
    BY <2>1, <2>3 DEF RequestGrounded
  <2> QED BY <1>4, <2>1, <2>4, <2>5, <2>6, RequestOnly
<1>5. CASE PutSnapshot(r)
  BY <1>4, <1>5 DEF PutSnapshot, pipelineVars
<1>6. CASE InsertFinalGrade(r)
  BY <1>4, <1>6 DEF InsertFinalGrade, pipelineVars
<1> QED BY <1>1, <1>2, <1>3, <1>5, <1>6

\* A command that is sent has its event on record.
LEMMA SendIInv ==
  ASSUME IInv, NEW r \in Slots, SendCommand(r)
  PROVE  IInv'
<1>1. /\ req[r] # NoReq /\ req[r].at = "send"
      /\ RequestShape(req[r])
      /\ WriteAudited(req[r]) /\ RequestGrounded(req[r])
      /\ commands' = Append(commands, req[r].op)
      /\ IF req[r].op = "regrade" THEN Goto(r, "status") ELSE End(r)
      /\ UNCHANGED <<marking, paper, appeals, audit>>
  BY DEF SendCommand, IInv, Shape, WritesAudited, recordVars
<1>2. req[r].op \in {"approve", "publish", "export", "regrade"}
  BY <1>1 DEF RequestShape
<1>3. PICK y : /\ req' = [req EXCEPT ![r] = y]
               /\ req'[r] = y
               /\ y # NoReq => /\ IsRequest(y)
                               /\ y.op = "regrade" /\ y.at = "status"
                               /\ req[r].op = "regrade"
                               /\ y.appeal = req[r].appeal
  <2>1. CASE req[r].op = "regrade"
    BY <1>1, <2>1, GotoStep
  <2>2. CASE req[r].op # "regrade"
    BY <1>1, <2>2 DEF IInv, Shape
  <2> QED BY <2>1, <2>2
<1>4. commands \in Seq({"approve", "publish", "export", "regrade"})
  BY DEF IInv, Shape
<1>5. commands' \in Seq({"approve", "publish", "export", "regrade"})
  BY <1>1, <1>2, <1>4, AppendProperties
<1>6. Shape'
  <2>1. y # NoReq => RequestShape(y)
    BY <1>3 DEF RequestShape, Ops
  <2> QED BY <1>1, <1>3, <1>5, <2>1, ShapeStep DEF IInv, Shape
<1>7. ASSUME NEW s \in Slots, req'[s] # NoReq
      PROVE  (WriteAudited(req[s]) /\ RequestGrounded(req[s]))'
  <2>1. CASE s = r
    BY <1>1, <1>3, <1>7, <2>1
    DEF WriteAudited, RequestGrounded, Regraded, Audited
  <2>2. CASE s # r
    <3>1. req'[s] = req[s]
      BY <1>3, <2>2 DEF IInv, Shape
    <3> QED BY <1>1, <1>7, <3>1, StayAudited DEF IInv
  <2> QED BY <2>1, <2>2
<1>8. ((\E i \in DOMAIN commands : commands[i] = "regrade")
         => \E a \in Appeals : Regraded(a))'
  <2> SUFFICES ASSUME NEW i \in DOMAIN commands', commands'[i] = "regrade"
               PROVE  \E a \in Appeals : Regraded(a)'
    OBVIOUS
  <2>1. CASE i \in DOMAIN commands
    <3>1. commands[i] = "regrade"
      BY <1>1, <1>2, <1>4, <2>1, AppendProperties
    <3> QED BY <1>1, <2>1, <3>1 DEF IInv, WritesAudited, Regraded, Audited
  <2>2. CASE i \notin DOMAIN commands
    <3>1. req[r].op = "regrade"
      BY <1>1, <1>2, <1>4, <2>2, AppendProperties
    <3> QED BY <1>1, <3>1 DEF WriteAudited, RequestGrounded, Regraded, Audited
  <2> QED BY <2>1, <2>2
<1>9. AppealsAudited'
  BY <1>1, AppealsStayAudited DEF IInv
<1> QED BY <1>6, <1>7, <1>8, <1>9 DEF IInv, WritesAudited

\* An appeal is decided, or taken under review, on its own event.
LEMMA AppealIInv ==
  ASSUME IInv, NEW r \in Slots, CreateAppeal(r) \/ UpdateAppealStatus(r)
  PROVE  IInv'
<1> DEFINE a == req[r].appeal
<1>1. PICK status \in Statuses :
        /\ appeals' = [appeals EXCEPT ![a] = status]
        /\ status = "under_review" => Regraded(a)
        /\ status \in {"resolved", "rejected"} => Audited("appeal_resolve", a)
        /\ req[r] # NoReq
  <2>1. CASE CreateAppeal(r)
    BY <2>1 DEF CreateAppeal, Statuses
  <2>2. CASE UpdateAppealStatus(r)
    <3>1. /\ req[r] # NoReq /\ req[r].at = "status"
          /\ RequestShape(req[r]) /\ WriteAudited(req[r])
      BY <2>2 DEF UpdateAppealStatus, IInv, Shape, WritesAudited
    <3>2. CASE req[r].op = "regrade"
      BY <2>2, <3>1, <3>2 DEF UpdateAppealStatus, WriteAudited, Statuses
    <3>3. CASE req[r].op # "regrade"
      BY <2>2, <3>1, <3>3 DEF UpdateAppealStatus, WriteAudited, Statuses
    <3> QED BY <3>2, <3>3
  <2> QED BY <2>1, <2>2
<1>2. UNCHANGED <<marking, commands, audit, paper>> /\ End(r)
  BY DEF CreateAppeal, UpdateAppealStatus, pipelineVars
<1>3. /\ appeals \in [Appeals -> Statuses]
      /\ commands' \in Seq({"approve", "publish", "export", "regrade"})
  BY <1>2 DEF IInv, Shape
<1>4. appeals' \in [Appeals -> Statuses]
  BY <1>1, <1>3
<1>5. Shape'
  BY <1>2, <1>3, <1>4, ShapeStep DEF IInv
<1>6. ASSUME NEW s \in Slots, req'[s] # NoReq
      PROVE  (WriteAudited(req[s]) /\ RequestGrounded(req[s]))'
  <2>1. req'[s] = req[s]
    BY <1>2, <1>6 DEF IInv, Shape
  <2> QED BY <1>2, <1>6, <2>1, StayAudited DEF IInv
<1>7. AppealsAudited'
  <2> HIDE DEF a
  <2>1. (marking = "due" /\ paper # NoPaper =>
           \E b \in Appeals : Event("appeal_regrade", b) \in audit)'
    BY <1>2 DEF IInv, WritesAudited, AppealsAudited
  <2>2. ASSUME NEW b \in Appeals
        PROVE  (/\ appeals[b] = "under_review"
                     => Event("appeal_regrade", b) \in audit
                /\ appeals[b] \in {"resolved", "rejected"}
                     => Event("appeal_resolve", b) \in audit)'
    <3>1. /\ appeals[b] = "under_review" => Event("appeal_regrade", b) \in audit
          /\ appeals[b] \in {"resolved", "rejected"}
               => Event("appeal_resolve", b) \in audit
      BY DEF IInv, WritesAudited, AppealsAudited
    <3>2. appeals'[b] = IF b = a THEN status ELSE appeals[b]
      BY <1>1, <1>3
    <3> QED BY <1>1, <1>2, <3>1, <3>2 DEF Regraded, Audited
  <2> QED BY <2>1, <2>2 DEF AppealsAudited
<1>8. ((\E i \in DOMAIN commands : commands[i] = "regrade")
         => \E b \in Appeals : Regraded(b))'
  BY <1>2 DEF IInv, WritesAudited, Regraded, Audited
<1> QED BY <1>5, <1>6, <1>7, <1>8 DEF IInv, WritesAudited

\* The pipeline: a marking pass becomes due on a regrade command only, and
\* every such command has an event on record.
LEMMA PipelineIInv ==
  ASSUME IInv, Apply \/ StorePaper \/ Graded
  PROVE  IInv'
<1>1. UNCHANGED <<req, appeals, audit>>
  BY DEF Apply, StorePaper, Graded, recordVars
<1>2. commands \in Seq({"approve", "publish", "export", "regrade"})
  BY DEF IInv, Shape
<1>3. CASE Apply
  <2>1. /\ commands # <<>> /\ commands' = Tail(commands) /\ paper' = paper
        /\ Head(commands) \in {"approve", "publish", "export", "regrade"}
    BY <1>2, <1>3, HeadTailProperties DEF Apply
  <2>2. commands' \in Seq({"approve", "publish", "export", "regrade"})
    BY <1>2, <2>1, HeadTailProperties
  <2>3. marking' = "due" => marking = "due" \/ \E a \in Appeals : Regraded(a)
    <3> SUFFICES ASSUME marking' = "due", marking # "due"
                 PROVE  \E a \in Appeals : Regraded(a)
      OBVIOUS
    <3>1. Decided(Head(commands)) = "grading"
      BY <1>3 DEF Apply
    <3>2. Head(commands) = "regrade"
      BY <2>1, <3>1, OnlyRegrade DEF Decided
    <3>3. 1 \in DOMAIN commands /\ commands[1] = "regrade"
      BY <1>2, <2>1, <3>2, HeadTailProperties, EmptySeq
    <3> QED BY <3>3 DEF IInv, WritesAudited
  <2>4. ((\E i \in DOMAIN commands : commands[i] = "regrade")
           => \E a \in Appeals : Regraded(a))'
    <3> SUFFICES ASSUME NEW i \in DOMAIN commands', commands'[i] = "regrade"
                 PROVE  \E a \in Appeals : Regraded(a)'
      OBVIOUS
    <3>1. i + 1 \in DOMAIN commands /\ commands[i + 1] = "regrade"
      BY <1>2, <2>1, HeadTailProperties
    <3> QED BY <1>1, <3>1 DEF IInv, WritesAudited, Regraded, Audited
  <2>5. Shape'
    BY <1>1, <2>2 DEF IInv, Shape
  <2>6. ASSUME NEW s \in Slots, req'[s] # NoReq
        PROVE  (WriteAudited(req[s]) /\ RequestGrounded(req[s]))'
    BY <1>1, <2>3, <2>6, StayAudited DEF IInv
  <2>7. AppealsAudited'
    BY <1>1, <2>1, <2>3, AppealsStayAudited DEF IInv
  <2> QED BY <2>4, <2>5, <2>6, <2>7 DEF IInv, WritesAudited
<1>4. CASE StorePaper \/ Graded
  <2>1. commands' = commands /\ marking' # "due"
    BY <1>4 DEF StorePaper, Graded
  <2>2. Shape'
    BY <1>1, <2>1 DEF IInv, Shape
  <2>3. ASSUME NEW s \in Slots, req'[s] # NoReq
        PROVE  (WriteAudited(req[s]) /\ RequestGrounded(req[s]))'
    BY <1>1, <2>1, <2>3, StayAudited DEF IInv
  <2>4. AppealsAudited'
    BY <1>1, <2>1, AppealsStayAudited DEF IInv
  <2>5. ((\E i \in DOMAIN commands : commands[i] = "regrade")
           => \E a \in Appeals : Regraded(a))'
    BY <1>1, <2>1 DEF IInv, WritesAudited, Regraded, Audited
  <2> QED BY <2>2, <2>3, <2>4, <2>5 DEF IInv, WritesAudited
<1> QED BY <1>3, <1>4

\* No step breaks the invariant.
LEMMA NextIInv == IInv /\ [Next]_vars => IInv'
<1> SUFFICES ASSUME IInv, [Next]_vars PROVE IInv'
  OBVIOUS
<1>1. CASE UNCHANGED vars
  BY <1>1 DEF vars, pipelineVars, recordVars, IInv, Shape, WritesAudited,
    WriteAudited, RequestGrounded, AppealsAudited, Regraded, Audited
<1>2. CASE Apply \/ StorePaper \/ Graded
  BY <1>2, PipelineIInv
<1>3. ASSUME NEW r \in Slots, Call(r) \/ RequestStep(r)
      PROVE  IInv'
  <2>1. CASE Call(r)
    BY <2>1, CallIInv
  <2>2. CASE LoadPaper(r) \/ ListTeacherReviews(r) \/ DraftFeedback(r)
    BY <2>2, ReadIInv
  <2>3. CASE InsertAuditEvent(r)
    BY <2>3, AuditIInv
  <2>4. CASE \/ InsertTeacherReview(r) \/ PutSnapshot(r) \/ InsertFinalGrade(r)
             \/ PutPaper(r) \/ RequestFails(r)
    BY <2>4, StoreIInv
  <2>5. CASE SendCommand(r)
    BY <2>5, SendIInv
  <2>6. CASE CreateAppeal(r) \/ UpdateAppealStatus(r)
    BY <2>6, AppealIInv
  <2> QED BY <1>3, <2>1, <2>2, <2>3, <2>4, <2>5, <2>6 DEF RequestStep
<1> QED BY <1>1, <1>2, <1>3 DEF Next

LEMMA Invariance == Spec => []IInv
BY InitIInv, NextIInv, PTL DEF Spec

---------------------------------------------------------------------------
(***************************************************************************)
(* Theorems.                                                               *)
(***************************************************************************)

\* Whatever a handler, a command or a marking pass is still to change has its
\* event on the audit trail already.
THEOREM WritesInvariance == Spec => []WritesAudited
<1>1. IInv => WritesAudited
  BY DEF IInv
<1> QED BY <1>1, Invariance, PTL

\* Initially there are no records.
LEMMA InitRecords == Init => Records!RecordsInit
BY DEF Init, Records!RecordsInit, EventValues

\* The trail that grows holds every value it held.
LEMMA ValuesGrow ==
  ASSUME audit \subseteq audit', NEW action
  PROVE  EventValues(action) \subseteq EventValues(action)'
BY DEF EventValues

\* Every step audits, stores what is audited, or leaves the records alone.
LEMMA NextRecords ==
  ASSUME IInv, [Next]_vars
  PROVE  [Records!Audit \/ Records!StoreOverride \/ Records!StoreGrade]_Records!recordVars
<1> USE DEF Records!recordVars
<1>1. CASE UNCHANGED <<audit, reviews, final>>
  BY <1>1 DEF EventValues
<1>2. ASSUME NEW r \in Slots, InsertAuditEvent(r)
      PROVE  Records!Audit
  <2>1. audit \subseteq audit' /\ UNCHANGED <<reviews, final>>
    BY <1>2 DEF InsertAuditEvent
  <2> QED BY <2>1, ValuesGrow DEF Records!Audit
<1>3. ASSUME NEW r \in Slots, InsertTeacherReview(r)
      PROVE  Records!StoreOverride
  <2>1. /\ Audited("override_question", req[r].row)
        /\ reviews' = Append(reviews, req[r].row)
        /\ UNCHANGED <<audit, final>>
    BY <1>3 DEF InsertTeacherReview, IInv, WritesAudited, WriteAudited
  <2> QED BY <2>1, ValuesAudited DEF Records!StoreOverride, EventValues
<1>4. ASSUME NEW r \in Slots, InsertFinalGrade(r)
      PROVE  Records!StoreGrade
  <2>1. /\ Audited("approve", recomputeEffectiveTotals(req[r].doc))
        /\ final' = recomputeEffectiveTotals(req[r].doc)
        /\ UNCHANGED <<audit, reviews>>
    BY <1>4 DEF InsertFinalGrade, IInv, WritesAudited, WriteAudited
  <2> QED BY <2>1, ValuesAudited DEF Records!StoreGrade, EventValues
<1>5. ASSUME NEW r \in Slots, Call(r)
      PROVE  UNCHANGED <<audit, reviews, final>>
  BY <1>5 DEF Call, PatchQuestion, Approve, Publish, Export, Regenerate,
    FileAppeal, ResolveAppeal, RegradeAppeal, Open, recordVars
<1>6. ASSUME NEW r \in Slots,
             \/ LoadPaper(r) \/ ListTeacherReviews(r) \/ DraftFeedback(r)
             \/ PutSnapshot(r) \/ PutPaper(r) \/ SendCommand(r) \/ CreateAppeal(r)
             \/ UpdateAppealStatus(r) \/ RequestFails(r)
      PROVE  UNCHANGED <<audit, reviews, final>>
  BY <1>6 DEF LoadPaper, ListTeacherReviews, DraftFeedback, PutSnapshot, PutPaper,
    SendCommand, CreateAppeal, UpdateAppealStatus, RequestFails, recordVars
<1>7. CASE Apply \/ StorePaper \/ Graded
  BY <1>1, <1>7 DEF Apply, StorePaper, Graded, recordVars
<1>8. CASE UNCHANGED vars
  BY <1>1, <1>8 DEF vars, recordVars
<1> QED BY <1>1, <1>2, <1>3, <1>4, <1>5, <1>6, <1>7, <1>8 DEF Next, RequestStep

\* Review implements AuditFirst: an override and a final grade are stored only
\* with their audit event on record, overrides are never withdrawn, and the
\* trail keeps every earlier value.
THEOREM RecordsRefinement == Spec => RecordsSpec
<1>1. Init => Records!RecordsInit
  BY InitRecords
<1>2. IInv /\ [Next]_vars =>
        [Records!Audit \/ Records!StoreOverride \/ Records!StoreGrade]_Records!recordVars
  BY NextRecords
<1> QED BY <1>1, <1>2, Invariance, PTL DEF Spec, RecordsSpec, Records!RecordsSpec
=============================================================================
