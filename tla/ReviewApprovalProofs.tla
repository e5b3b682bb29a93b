----------------------- MODULE ReviewApprovalProofs -----------------------
(***************************************************************************)
(* Proofs about Review, for any paper, any bodies, any number of requests  *)
(* and appeals: the types, the marks within their maxima, and the final    *)
(* grade that is of one approval with the paper beside it.                 *)
(***************************************************************************)
EXTENDS ReviewApproval, ReviewProofs, Counting

USE DEF At, End

---------------------------------------------------------------------------
(***************************************************************************)
(* Papers, overrides and totals.                                           *)
(***************************************************************************)

\* Every question of an overlaid paper has its own maximum, and the mark and
\* the feedback of the stored paper or of a row about that question.
IsOverlaid(p, rows, q, mark, text) ==
  /\ overlayReviews(p, rows)[q] = [max |-> p[q].max, mark |-> mark, text |-> text]
  /\ mark = p[q].mark \/ \E i \in DOMAIN rows : rows[i].q = q /\ mark = rows[i].new
  /\ text = p[q].text \/ \E i \in DOMAIN rows : text = rows[i].text

LEMMA OverlaidQuestion ==
  ASSUME NEW p, NEW rows \in Seq(Rows), NEW q \in Questions
  PROVE  \E mark, text : IsOverlaid(p, rows, q, mark, text)
<1> DEFINE own   == {i \in DOMAIN rows : rows[i].q = q}
           texts == {i \in own : rows[i].text # NoText}
           mark  == IF own = {} THEN p[q].mark ELSE rows[Max(own)].new
           text  == IF texts = {} THEN p[q].text ELSE rows[Max(texts)].text
<1>1. overlayReviews(p, rows)[q] = [max |-> p[q].max, mark |-> mark, text |-> text]
  BY DEF overlayReviews
<1>2. Len(rows) \in Nat /\ own \subseteq 0..Len(rows) /\ texts \subseteq 0..Len(rows)
  OBVIOUS
<1>3. own # {} => Max(own) \in own
  <2> HIDE DEF own
  <2> QED BY <1>2, GreatestPosition
<1>4. texts # {} => Max(texts) \in texts
  <2> HIDE DEF texts
  <2> QED BY <1>2, GreatestPosition
<1>5. mark = p[q].mark \/ \E i \in DOMAIN rows : rows[i].q = q /\ mark = rows[i].new
  BY <1>3
<1>6. text = p[q].text \/ \E i \in DOMAIN rows : text = rows[i].text
  BY <1>4
<1> HIDE DEF mark, text
<1> QED BY <1>1, <1>5, <1>6 DEF IsOverlaid

\* An overlaid paper is a graded paper.
LEMMA OverlaidPaper ==
  ASSUME NEW p \in GradedPapers, NEW rows \in Seq(Rows)
  PROVE  overlayReviews(p, rows) \in GradedPapers
<1>1. ASSUME NEW q \in Questions
      PROVE  overlayReviews(p, rows)[q] \in GradedQuestions
  <2>1. PICK mark, text : IsOverlaid(p, rows, q, mark, text)
    BY OverlaidQuestion
  <2>2. p[q] \in GradedQuestions
    BY DEF GradedPapers
  <2>3. \A i \in DOMAIN rows : rows[i] \in Rows
    OBVIOUS
  <2>4. mark \in Nat
    BY <2>1, <2>2, <2>3 DEF IsOverlaid, GradedQuestions, Rows
  <2>5. text \in Texts \cup {NoText}
    BY <2>1, <2>2, <2>3 DEF IsOverlaid, GradedQuestions, Rows
  <2>6. p[q].max \in Nat
    BY <2>2 DEF GradedQuestions
  <2> QED BY <2>1, <2>4, <2>5, <2>6 DEF IsOverlaid, GradedQuestions
<1>2. overlayReviews(p, rows) = [q \in Questions |-> overlayReviews(p, rows)[q]]
  BY DEF overlayReviews
<1> QED BY <1>1, <1>2, Zenon DEF GradedPapers

\* A clamped mark lies between 0 and the maximum.
LEMMA Clamped ==
  ASSUME NEW n \in Int, NEW max \in Nat
  PROVE  Clamp(n, max) \in Nat /\ Clamp(n, max) <= max
BY DEF Clamp

\* The row of a PATCH is about its question; its mark is clamped or kept.
LEMMA OverrideRow ==
  ASSUME NEW p \in GradedPapers, NEW body \in Bodies
  PROVE  /\ Override(p, body) \in Rows
         /\ Override(p, body).q \in Questions
         /\ p[body.q].mark <= p[body.q].max
              => Override(p, body).new <= p[Override(p, body).q].max
<1>1. /\ body \in PatchBodies /\ body.q \in Questions
      /\ body.mark \in SUBSET Int /\ body.text \in SUBSET (Texts \cup {NoText})
  BY BodiesAssumption DEF PatchBodies
<1>2. p[body.q] \in GradedQuestions
  BY <1>1 DEF GradedPapers
<1>3. p[body.q].mark \in Nat /\ p[body.q].max \in Nat /\ p[body.q].text \in Texts \cup {NoText}
  BY <1>2 DEF GradedQuestions
<1> DEFINE new  == IF body.mark = {} THEN p[body.q].mark
                   ELSE Clamp(CHOOSE n \in body.mark : TRUE, p[body.q].max)
           text == IF body.text = {} THEN p[body.q].text
                   ELSE CHOOSE t \in body.text : TRUE
<1>4. new \in Nat /\ (new = p[body.q].mark \/ new <= p[body.q].max)
  BY <1>1, <1>3, Clamped
<1>5. text \in Texts \cup {NoText}
  BY <1>1, <1>3
<1>6. Override(p, body) = [q |-> body.q, old |-> p[body.q].mark, new |-> new, text |-> text]
  BY DEF Override
<1> HIDE DEF new, text
<1> QED BY <1>1, <1>3, <1>4, <1>5, <1>6 DEF Rows

\* The totals of a graded paper are a grade, and no grade is NoGrade.
LEMMA TotalsGrade ==
  ASSUME NEW p \in GradedPapers
  PROVE  recomputeEffectiveTotals(p) \in Grades /\ recomputeEffectiveTotals(p) # NoGrade
<1>1. \A q \in Questions : p[q].mark \in Nat /\ p[q].max \in Nat
  BY DEF GradedPapers, GradedQuestions
<1>2. /\ [q \in Questions |-> p[q].mark] \in [Questions -> Nat]
      /\ [q \in Questions |-> p[q].max] \in [Questions -> Nat]
  BY <1>1
<1>3. /\ SumFunction([q \in Questions |-> p[q].mark]) \in Nat
      /\ SumFunction([q \in Questions |-> p[q].max]) \in Nat
  BY <1>2, QuestionsAssumption, SumIsNatural
<1>4. recomputeEffectiveTotals(p) \in Grades
  BY <1>3 DEF recomputeEffectiveTotals, Grades
<1> QED BY <1>4, NoGradeAssumption

---------------------------------------------------------------------------
(***************************************************************************)
(* The states a command may decide.                                        *)
(***************************************************************************)
CommandNames == {"approve", "publish", "export", "regrade"}

\* A command leads to a state or to an error; in "grading" to an error, and to
\* an approved state from elsewhere only if it is an approve command.
LEMMA DecidedState ==
  ASSUME state \in States, NEW command \in CommandNames
  PROVE  /\ Decided(command) \in States \cup {Err}
         /\ state = "grading" => Decided(command) = Err
         /\ Decided(command) \in Finalised =>
              state \in Finalised \/ command = "approve"
<1> DEFINE event == StageToEvent(command)
<1>1. /\ command = "approve" => event = "ApproveByTeacher"
      /\ command = "publish" => event = "Publish"
      /\ command = "export"  => event = "Export"
      /\ command = "regrade" => event = "Regrade"
  BY DEF StageToEvent, ResultStages
<1> HIDE DEF event
<1>2. CASE command = "approve"
  BY <1>1, <1>2 DEF Decided, event, NextState, computeNext, States, Err, Finalised
<1>3. CASE command = "publish"
  BY <1>1, <1>3 DEF Decided, event, NextState, computeNext, States, Err, Finalised
<1>4. CASE command = "export"
  BY <1>1, <1>4 DEF Decided, event, NextState, computeNext, States, Err, Finalised
<1>5. CASE command = "regrade"
  BY <1>1, <1>5 DEF Decided, event, NextState, computeNext, States, Err, Finalised
<1> QED BY <1>2, <1>3, <1>4, <1>5 DEF CommandNames

\* The result of a marking pass leads to the teacher's review.
LEMMA GradedState == NextState("grading", "StageSucceeded", {}) = "teacher_review"
BY DEF NextState, computeNext, stageSucceededNext, CanTransition, transitions,
  States, Err

---------------------------------------------------------------------------
(***************************************************************************)
(* Types.                                                                  *)
(***************************************************************************)
LEMMA InitTypeInv == Init => TypeInv
<1> SUFFICES ASSUME Init PROVE TypeInv
  OBVIOUS
<1>1. torn \in BOOLEAN
  BY DEF Init
<1>2. /\ state \in States /\ marking \in {"none", "due", "stored"}
      /\ commands \in Seq({"approve", "publish", "export", "regrade"})
      /\ reviews \in Seq(Rows) /\ appeals \in [Appeals -> Statuses]
      /\ calls \in 0..MaxCalls /\ faults \in 0..MaxFaults
  BY BoundsAssumption DEF Init, States, Statuses
<1>3. /\ paper \in GradedPapers \cup {NoPaper}
      /\ snapshot \in GradedPapers \cup {NoPaper}
      /\ final \in Grades \cup {NoGrade}
      /\ req \in [Slots -> Requests \cup {NoReq}]
  BY DEF Init
<1>4. /\ \A r \in Slots : req[r] # NoReq => RequestValued(req[r])
      /\ marking # "none" => state = "grading"
  BY DEF Init
<1> QED BY <1>1, <1>2, <1>3, <1>4 DEF TypeInv, TypeOK

RecordsTyped ==
  /\ paper \in GradedPapers \cup {NoPaper}
  /\ snapshot \in GradedPapers \cup {NoPaper}
  /\ reviews \in Seq(Rows)
  /\ final \in Grades \cup {NoGrade}
  /\ appeals \in [Appeals -> Statuses]
  /\ commands \in Seq({"approve", "publish", "export", "regrade"})
  /\ calls \in 0..MaxCalls /\ faults \in 0..MaxFaults
  /\ torn \in BOOLEAN

\* A step of one request keeps the types, if the request and the records do.
LEMMA TypedStep ==
  ASSUME TypeInv, NEW r \in Slots, NEW y,
         req' = [req EXCEPT ![r] = y],
         y = NoReq \/ (y \in Requests /\ RequestValued(y)),
         UNCHANGED <<state, marking>>,
         RecordsTyped'
  PROVE  TypeInv'
<1>1. req \in [Slots -> Requests \cup {NoReq}]
  BY DEF TypeInv, TypeOK
<1>2. req' \in [Slots -> Requests \cup {NoReq}]
  BY <1>1
<1>3. ASSUME NEW s \in Slots, req'[s] # NoReq
      PROVE  RequestValued(req[s])'
  <2>1. CASE s = r
    <3>1. req'[s] = y
      BY <1>1, <2>1
    <3> QED BY <1>3, <3>1 DEF RequestValued
  <2>2. CASE s # r
    <3>1. req'[s] = req[s]
      BY <1>1, <2>2
    <3> QED BY <1>3, <3>1 DEF TypeInv, RequestValued
  <2> QED BY <2>1, <2>2
<1>4. state' \in States /\ marking' \in {"none", "due", "stored"}
  BY DEF TypeInv, TypeOK
<1>5. TypeOK'
  BY <1>2, <1>4 DEF TypeOK, RecordsTyped
<1>6. (marking # "none" => state = "grading")'
  BY DEF TypeInv
<1> QED BY <1>3, <1>5, <1>6 DEF TypeInv

\* A request that starts.
LEMMA OpenTypeInv ==
  ASSUME TypeInv, NEW r \in Slots, NEW op \in Ops, NEW step, NEW body, NEW a,
         step \in {"load", "audit"},
         op \in {"patch", "approve", "regenerate"} => step = "load",
         body \in Bodies \cup {NoBody}, op = "patch" => body \in Bodies,
         a \in Appeals \cup {NoAppeal},
         Open(r, op, step, body, a)
  PROVE  TypeInv'
<1> DEFINE y == [op |-> op, at |-> step, body |-> body,
                 appeal |-> a, doc |-> NoPaper, row |-> NoRow]
<1>1. /\ req' = [req EXCEPT ![r] = y]
      /\ calls' = calls + 1 /\ calls < MaxCalls
      /\ UNCHANGED <<state, commands, marking, paper, snapshot, reviews,
                     final, appeals, audit, faults, torn>>
  BY DEF Open, pipelineVars, recordVars
<1>2. y \in Requests
  BY DEF Requests, Steps
<1>3. RequestValued(y)
  BY DEF RequestValued
<1>4. RecordsTyped'
  BY <1>1, BoundsAssumption DEF RecordsTyped, TypeInv, TypeOK
<1> HIDE DEF y
<1> QED BY <1>1, <1>2, <1>3, <1>4, TypedStep

LEMMA CallTypeInv ==
  ASSUME TypeInv, NEW r \in Slots, Call(r)
  PROVE  TypeInv'
<1>1. CASE PatchQuestion(r)
  BY <1>1, OpenTypeInv DEF PatchQuestion, Ops
<1>2. CASE Approve(r)
  BY <1>2, OpenTypeInv DEF Approve, Ops
<1>3. CASE Publish(r)
  BY <1>3, OpenTypeInv DEF Publish, Ops
<1>4. CASE Export(r)
  BY <1>4, OpenTypeInv DEF Export, Ops
<1>5. CASE Regenerate(r)
  BY <1>5, OpenTypeInv DEF Regenerate, Ops
<1>6. CASE FileAppeal(r)
  BY <1>6, OpenTypeInv DEF FileAppeal, Ops
<1>7. CASE ResolveAppeal(r)
  BY <1>7, OpenTypeInv DEF ResolveAppeal, Ops
<1>8. CASE RegradeAppeal(r)
  BY <1>8, OpenTypeInv DEF RegradeAppeal, Ops
<1> QED BY <1>1, <1>2, <1>3, <1>4, <1>5, <1>6, <1>7, <1>8 DEF Call

\* A request in progress, as its next call finds it.
LEMMA RequestHere ==
  ASSUME IInv, TypeInv, NEW r \in Slots, req[r] # NoReq
  PROVE  /\ req[r] \in Requests /\ RequestValued(req[r]) /\ RequestShape(req[r])
         /\ req[r].op \in Ops /\ req[r].at \in Steps
         /\ req[r].body \in Bodies \cup {NoBody}
         /\ req[r].appeal \in Appeals \cup {NoAppeal}
         /\ req[r].doc \in GradedPapers \cup {NoPaper}
         /\ req[r].row \in Rows \cup {NoRow}
<1>1. req[r] \in Requests
  BY DEF TypeInv, TypeOK
<1>2. RequestValued(req[r]) /\ RequestShape(req[r])
  BY DEF TypeInv, IInv, Shape
<1> QED BY <1>1, <1>2 DEF Requests

\* What a request becomes that goes on to a call, with what it holds by then.
LEMMA Continues ==
  ASSUME IInv, TypeInv, NEW r \in Slots, req[r] # NoReq,
         NEW step \in Steps, NEW doc \in GradedPapers \cup {NoPaper},
         NEW row \in Rows \cup {NoRow}, NEW y,
         y = [op |-> req[r].op, at |-> step, body |-> req[r].body,
              appeal |-> req[r].appeal, doc |-> doc, row |-> row],
         req[r].op \in {"patch", "approve", "regenerate"} /\ step # "load"
           => doc \in GradedPapers,
         step \in {"audit", "insert"} /\ req[r].op = "patch" => row \in Rows,
         step = "insert" => req[r].op = "patch",
         step = "create" => req[r].op = "file"
  PROVE  y \in Requests /\ RequestValued(y)
<1>1. y \in Requests
  BY RequestHere DEF Requests
<1>2. req[r].op = "patch" => req[r].body \in Bodies
  BY RequestHere DEF RequestValued
<1>3. /\ y.op = req[r].op /\ y.at = step /\ y.body = req[r].body
      /\ y.doc = doc /\ y.row = row
  OBVIOUS
<1> QED BY <1>1, <1>2, <1>3 DEF RequestValued

\* A request whose next call, paper and row change is still a request.
LEMMA MovedWithRow ==
  ASSUME NEW x, IsRequest(x), NEW step, NEW doc, NEW row
  PROVE  [x EXCEPT !.at = step, !.doc = doc, !.row = row] =
           [op |-> x.op, at |-> step, body |-> x.body,
            appeal |-> x.appeal, doc |-> doc, row |-> row]
<1>1. [x EXCEPT !.at = step, !.doc = doc, !.row = row] =
        [[x EXCEPT !.at = step, !.doc = doc] EXCEPT !.row = row]
  OBVIOUS
<1>2. [x EXCEPT !.at = step, !.doc = doc] =
        [op |-> x.op, at |-> step, body |-> x.body,
         appeal |-> x.appeal, doc |-> doc, row |-> x.row]
  BY Moved
<1>3. [[op |-> x.op, at |-> step, body |-> x.body,
        appeal |-> x.appeal, doc |-> doc, row |-> x.row] EXCEPT !.row = row] =
        [op |-> x.op, at |-> step, body |-> x.body,
         appeal |-> x.appeal, doc |-> doc, row |-> row]
  OBVIOUS
<1> QED BY <1>1, <1>2, <1>3

\* The reads of a request.
LEMMA ReadTypeInv ==
  ASSUME IInv, TypeInv, NEW r \in Slots,
         LoadPaper(r) \/ ListTeacherReviews(r) \/ DraftFeedback(r)
  PROVE  TypeInv'
<1> DEFINE x == req[r]
<1>1. /\ x # NoReq
      /\ UNCHANGED <<state, marking, commands, paper, snapshot, reviews, final,
                     appeals, calls, faults, torn>>
  BY DEF LoadPaper, ListTeacherReviews, DraftFeedback, pipelineVars, recordVars,
    budget
<1>2. RecordsTyped'
  BY <1>1 DEF RecordsTyped, TypeInv, TypeOK
<1>3. /\ IsRequest(x) /\ x.op \in Ops /\ x.row \in Rows \cup {NoRow}
      /\ x.at = "load" => x.op \in {"patch", "approve", "regenerate"}
      /\ x.at = "list" => x.op \in {"patch", "approve"}
      /\ x.at \in {"draft", "put"} => x.op = "regenerate"
  BY <1>1, RequestHere DEF RequestShape
<1>4. x.op \in {"patch", "approve", "regenerate"} /\ x.at # "load"
        => x.doc \in GradedPapers
  BY <1>1, RequestHere DEF RequestValued
<1>5. CASE LoadPaper(r)
  <2>1. CASE paper = NoPaper /\ End(r)
    BY <1>1, <1>2, <2>1, TypedStep
  <2>2. CASE paper # NoPaper
    <3> DEFINE step == IF x.op = "regenerate" THEN "draft" ELSE "list"
               y    == [x EXCEPT !.at = step, !.doc = paper]
    <3>1. req' = [req EXCEPT ![r] = y]
      BY <1>5, <2>2 DEF LoadPaper, IInv, Shape
    <3>2. y = [op |-> x.op, at |-> step, body |-> x.body, appeal |-> x.appeal,
               doc |-> paper, row |-> x.row]
      <4>1. IsRequest(x)
        BY <1>3
      <4> HIDE DEF x, step
      <4> QED BY <4>1, Moved
    <3>3. paper \in GradedPapers /\ step \in Steps /\ step \notin {"load", "audit", "insert", "create"}
      BY <2>2 DEF TypeInv, TypeOK, Steps
    <3> HIDE DEF y, step
    <3>4. y \in Requests /\ RequestValued(y)
      BY <1>1, <1>3, <3>2, <3>3, Continues
    <3> QED BY <1>1, <1>2, <3>1, <3>4, TypedStep
  <2> QED BY <1>5, <2>1, <2>2 DEF LoadPaper
<1>6. CASE ListTeacherReviews(r)
  <2> DEFINE doc == overlayReviews(x.doc, reviews)
             row == IF x.op = "patch" THEN Override(doc, x.body) ELSE NoRow
             y   == [x EXCEPT !.at = "audit", !.doc = doc, !.row = row]
  <2>1. req' = [req EXCEPT ![r] = y] /\ x.at = "list"
    BY <1>6 DEF ListTeacherReviews, IInv, Shape
  <2>2. doc \in GradedPapers
    BY <1>3, <1>4, <2>1, OverlaidPaper DEF TypeInv, TypeOK
  <2>3. x.op = "patch" => x.body \in Bodies
    BY <1>1, RequestHere DEF RequestValued
  <2> HIDE DEF doc
  <2>4. row \in Rows \cup {NoRow} /\ (x.op = "patch" => row \in Rows)
    BY <2>2, <2>3, OverrideRow
  <2> HIDE DEF row
  <2>5. y = [op |-> x.op, at |-> "audit", body |-> x.body, appeal |-> x.appeal,
             doc |-> doc, row |-> row]
    <3>1. IsRequest(x)
      BY <1>3
    <3> HIDE DEF x
    <3> QED BY <3>1, MovedWithRow
  <2> HIDE DEF y
  <2>6. y \in Requests /\ RequestValued(y)
    BY <1>1, <2>2, <2>4, <2>5, Continues DEF Steps
  <2> QED BY <1>1, <1>2, <2>1, <2>6, TypedStep
<1>7. CASE DraftFeedback(r)
  <2>1. PICK f \in [Questions -> Texts \cup {NoText}] :
          req' = [req EXCEPT ![r] =
                    [x EXCEPT !.at = "audit",
                       !.doc = [q \in Questions |-> [x.doc[q] EXCEPT !.text = f[q]]]]]
    BY <1>7 DEF DraftFeedback, IInv, Shape
  <2> DEFINE doc == [q \in Questions |-> [x.doc[q] EXCEPT !.text = f[q]]]
             y   == [x EXCEPT !.at = "audit", !.doc = doc]
  <2>2. x.at = "draft" /\ x.op = "regenerate" /\ x.doc \in GradedPapers
    BY <1>3, <1>4, <1>7 DEF DraftFeedback
  <2>3. doc \in GradedPapers
    BY <2>2 DEF GradedPapers, GradedQuestions
  <2>4. req' = [req EXCEPT ![r] = y]
    BY <2>1
  <2> HIDE DEF doc
  <2>5. y = [op |-> x.op, at |-> "audit", body |-> x.body, appeal |-> x.appeal,
             doc |-> doc, row |-> x.row]
    BY <1>3, Moved
  <2> HIDE DEF y
  <2>6. y \in Requests /\ RequestValued(y)
    BY <1>1, <1>3, <2>2, <2>3, <2>5, Continues DEF Steps
  <2> QED BY <1>1, <1>2, <2>4, <2>6, TypedStep
<1> QED BY <1>5, <1>6, <1>7

\* A request that goes on with what it holds.
LEMMA GotoTypeInv ==
  ASSUME IInv, TypeInv, NEW r \in Slots, req[r] # NoReq,
         NEW step \in Steps \ {"load"}, Goto(r, step), req[r].at # "load",
         step = "audit" => req[r].at = "audit",
         step = "insert" => req[r].op = "patch" /\ req[r].at = "audit",
         step = "create" => req[r].op = "file",
         UNCHANGED <<state, marking>>,
         RecordsTyped'
  PROVE  TypeInv'
<1> DEFINE x == req[r]
           y == [x EXCEPT !.at = step]
<1>1. req' = [req EXCEPT ![r] = y]
  BY DEF Goto
<1>2. y = [op |-> x.op, at |-> step, body |-> x.body, appeal |-> x.appeal,
           doc |-> x.doc, row |-> x.row]
  <2>1. IsRequest(x)
    BY RequestHere DEF RequestShape
  <2> QED BY <2>1 DEF IsRequest
<1> HIDE DEF y
<1>3. /\ x.op \in {"patch", "approve", "regenerate"} => x.doc \in GradedPapers
      /\ step \in {"audit", "insert"} /\ x.op = "patch" => x.row \in Rows
  BY RequestHere DEF RequestValued
<1>4. x.doc \in GradedPapers \cup {NoPaper} /\ x.row \in Rows \cup {NoRow}
  BY RequestHere
<1>5. y \in Requests /\ RequestValued(y)
  BY <1>2, <1>3, <1>4, Continues
<1> QED BY <1>1, <1>5, TypedStep

\* The event, the writes and the command of a request.
LEMMA WriteTypeInv ==
  ASSUME IInv, TypeInv, NEW r \in Slots,
         \/ InsertAuditEvent(r) \/ InsertTeacherReview(r) \/ PutSnapshot(r)
         \/ InsertFinalGrade(r) \/ PutPaper(r) \/ SendCommand(r)
         \/ CreateAppeal(r) \/ UpdateAppealStatus(r) \/ RequestFails(r)
  PROVE  TypeInv'
<1> DEFINE x == req[r]
<1>1. x # NoReq /\ UNCHANGED <<state, marking>>
  BY DEF InsertAuditEvent, InsertTeacherReview, PutSnapshot, InsertFinalGrade,
    PutPaper, SendCommand, CreateAppeal, UpdateAppealStatus, RequestFails,
    pipelineVars
<1>2. /\ x.op \in Ops /\ RequestShape(x) /\ RequestValued(x)
      /\ x.doc \in GradedPapers \cup {NoPaper} /\ x.row \in Rows \cup {NoRow}
  BY <1>1, RequestHere
<1>3. RecordsTyped
  BY DEF RecordsTyped, TypeInv, TypeOK
<1>4. ASSUME End(r), RecordsTyped'
      PROVE  TypeInv'
  BY <1>1, <1>4, TypedStep
<1>5. CASE InsertAuditEvent(r)
  <2>1. RecordsTyped'
    BY <1>3, <1>5 DEF InsertAuditEvent, RecordsTyped, pipelineVars, budget
  <2>2. /\ AfterAudit(x.op) \in Steps \ {"load", "audit"}
        /\ AfterAudit(x.op) = "insert" => x.op = "patch"
        /\ AfterAudit(x.op) = "create" => x.op = "file"
    BY <1>2 DEF AfterAudit, Steps, Ops
  <2>3. x.at = "audit" /\ Goto(r, AfterAudit(x.op))
    BY <1>5 DEF InsertAuditEvent
  <2> QED BY <1>1, <2>1, <2>2, <2>3, GotoTypeInv
<1>6. CASE InsertTeacherReview(r)
  <2>1. x.row \in Rows
    BY <1>2, <1>6 DEF InsertTeacherReview, RequestValued
  <2>2. RecordsTyped'
    BY <1>3, <1>6, <2>1, AppendProperties
    DEF InsertTeacherReview, RecordsTyped, pipelineVars, budget
  <2> QED BY <1>4, <1>6, <2>2 DEF InsertTeacherReview
<1>7. CASE PutSnapshot(r)
  <2>1. RecordsTyped'
    BY <1>2, <1>3, <1>7 DEF PutSnapshot, RecordsTyped, pipelineVars, budget
  <2>2. x.at = "snapshot" /\ Goto(r, "row")
    BY <1>7 DEF PutSnapshot
  <2> QED BY <1>1, <2>1, <2>2, GotoTypeInv DEF Steps
<1>8. CASE InsertFinalGrade(r)
  <2>1. x.at = "row" /\ Goto(r, "send")
    BY <1>8 DEF InsertFinalGrade
  <2>2. x.doc \in GradedPapers
    BY <1>2, <2>1 DEF RequestShape, RequestValued
  <2>3. RecordsTyped'
    BY <1>3, <1>8, <2>2, TotalsGrade
    DEF InsertFinalGrade, RecordsTyped, pipelineVars, budget
  <2> QED BY <1>1, <2>1, <2>3, GotoTypeInv DEF Steps
<1>9. CASE PutPaper(r)
  <2>1. RecordsTyped'
    BY <1>2, <1>3, <1>9 DEF PutPaper, RecordsTyped, pipelineVars, recordVars, budget
  <2> QED BY <1>4, <1>9, <2>1 DEF PutPaper
<1>10. CASE SendCommand(r)
  <2>1. x.at = "send" /\ x.op \in {"approve", "publish", "export", "regrade"}
    BY <1>2, <1>10 DEF SendCommand, RequestShape
  <2>2. RecordsTyped'
    BY <1>3, <1>10, <2>1, AppendProperties
    DEF SendCommand, RecordsTyped, recordVars, budget
  <2>3. CASE Goto(r, "status")
    BY <1>1, <2>1, <2>2, <2>3, GotoTypeInv DEF Steps
  <2>4. CASE End(r)
    BY <1>4, <2>2, <2>4
  <2> QED BY <1>10, <2>3, <2>4 DEF SendCommand
<1>11. CASE CreateAppeal(r)
  <2>1. RecordsTyped'
    BY <1>3, <1>11 DEF CreateAppeal, RecordsTyped, pipelineVars, budget, Statuses
  <2> QED BY <1>4, <1>11, <2>1 DEF CreateAppeal
<1>12. CASE UpdateAppealStatus(r)
  <2>1. PICK status \in Statuses : appeals' = [appeals EXCEPT ![x.appeal] = status]
    BY <1>12 DEF UpdateAppealStatus, Statuses
  <2>2. RecordsTyped'
    BY <1>3, <1>12, <2>1 DEF UpdateAppealStatus, RecordsTyped, pipelineVars, budget
  <2> QED BY <1>4, <1>12, <2>2 DEF UpdateAppealStatus
<1>13. CASE RequestFails(r)
  <2>1. RecordsTyped'
    BY <1>3, <1>13, BoundsAssumption
    DEF RequestFails, RecordsTyped, pipelineVars, recordVars
  <2> QED BY <1>4, <1>13, <2>1 DEF RequestFails
<1> QED BY <1>5, <1>6, <1>7, <1>8, <1>9, <1>10, <1>11, <1>12, <1>13

\* The pipeline.
LEMMA PipelineTypeInv ==
  ASSUME TypeInv, Apply \/ StorePaper \/ Graded
  PROVE  TypeInv'
<1>1. UNCHANGED <<req, snapshot, reviews, final, appeals, calls, faults, torn>>
  BY DEF Apply, StorePaper, Graded, recordVars, budget
<1>2. ASSUME NEW s \in Slots, req'[s] # NoReq
      PROVE  RequestValued(req[s])'
  BY <1>1, <1>2 DEF TypeInv, RequestValued
<1>3. /\ state \in States /\ marking \in {"none", "due", "stored"}
      /\ commands \in Seq(CommandNames)
      /\ paper \in GradedPapers \cup {NoPaper}
      /\ marking # "none" => state = "grading"
  BY DEF TypeInv, TypeOK, CommandNames
<1>4. /\ state' \in States /\ marking' \in {"none", "due", "stored"}
      /\ commands' \in Seq(CommandNames)
      /\ paper' \in GradedPapers \cup {NoPaper}
      /\ marking' # "none" => state' = "grading"
  <2>1. CASE Apply
    <3>1. Head(commands) \in CommandNames /\ commands' \in Seq(CommandNames)
      BY <1>3, <2>1, HeadTailProperties DEF Apply
    <3>2. /\ Decided(Head(commands)) \in States \cup {Err}
          /\ state = "grading" => Decided(Head(commands)) = Err
      BY <1>3, <3>1, DecidedState
    <3>3. paper' = paper
      BY <2>1 DEF Apply
    <3>4. CASE UNCHANGED <<state, marking>>
      BY <1>3, <3>1, <3>3, <3>4
    <3>5. CASE /\ Decided(Head(commands)) # Err
               /\ state' = Decided(Head(commands))
               /\ marking' = IF state' = "grading" THEN "due" ELSE marking
      BY <1>3, <3>1, <3>2, <3>3, <3>5
    <3> QED BY <2>1, <3>4, <3>5 DEF Apply
  <2>2. CASE StorePaper
    BY <1>3, <2>2, PapersAssumption DEF StorePaper
  <2>3. CASE Graded
    BY <1>3, <2>3, GradedState DEF Graded, States
  <2> QED BY <2>1, <2>2, <2>3
<1>5. TypeOK'
  BY <1>1, <1>4 DEF TypeInv, TypeOK, CommandNames
<1> QED BY <1>2, <1>4, <1>5 DEF TypeInv

\* No step breaks the types.
LEMMA NextTypeInv ==
  ASSUME IInv, TypeInv, [Next]_vars
  PROVE  TypeInv'
<1>1. CASE UNCHANGED vars
  BY <1>1 DEF vars, pipelineVars, recordVars, budget, TypeInv, TypeOK, RequestValued
<1>2. CASE Apply \/ StorePaper \/ Graded
  BY <1>2, PipelineTypeInv
<1>3. ASSUME NEW r \in Slots, Call(r) \/ RequestStep(r)
      PROVE  TypeInv'
  BY <1>3, CallTypeInv, ReadTypeInv, WriteTypeInv DEF RequestStep
<1> QED BY <1>1, <1>2, <1>3 DEF Next

LEMMA TypeInvariance == Spec => [](IInv /\ TypeInv)
<1>1. Init => IInv /\ TypeInv
  BY InitIInv, InitTypeInv
<1>2. IInv /\ TypeInv /\ [Next]_vars => (IInv /\ TypeInv)'
  BY NextIInv, NextTypeInv
<1> QED BY <1>1, <1>2, PTL DEF Spec

\* Every variable keeps its type: in particular a grade is a pair of numbers,
\* an override a row about a question of the paper with a mark of at least 0,
\* and the state machine is never handed an error for a state.
THEOREM ReviewTyped == Spec => []TypeOK
<1>1. TypeInv => TypeOK
  BY DEF TypeInv
<1> QED BY <1>1, TypeInvariance, PTL

---------------------------------------------------------------------------
(***************************************************************************)
(* Marks.                                                                  *)
(***************************************************************************)

\* Overrides within the maximum keep a paper within it.
LEMMA OverlaidWithinMax ==
  ASSUME NEW p \in GradedPapers, WithinMax(p), NEW rows \in Seq(Rows),
         \A i \in DOMAIN rows : RowWithinMax(rows[i])
  PROVE  WithinMax(overlayReviews(p, rows))
<1> SUFFICES ASSUME NEW q \in Questions
             PROVE  /\ overlayReviews(p, rows)[q].mark <= overlayReviews(p, rows)[q].max
                    /\ \E o \in Papers : overlayReviews(p, rows)[q].max = o[q].max
  BY DEF WithinMax
<1>1. PICK mark, text : IsOverlaid(p, rows, q, mark, text)
  BY OverlaidQuestion
<1>2. /\ overlayReviews(p, rows)[q].max = p[q].max
      /\ overlayReviews(p, rows)[q].mark = mark
  BY <1>1 DEF IsOverlaid
<1>3. p[q].mark <= p[q].max
  BY DEF WithinMax
<1>4. PICK o \in Papers : p[q].max = o[q].max
  BY DEF WithinMax
<1>5. mark <= p[q].max
  <2>1. CASE mark = p[q].mark
    BY <1>3, <2>1
  <2>2. CASE \E i \in DOMAIN rows : rows[i].q = q /\ mark = rows[i].new
    BY <1>4, <2>2 DEF RowWithinMax
  <2> QED BY <1>1, <2>1, <2>2 DEF IsOverlaid
<1> QED BY <1>2, <1>4, <1>5

\* The override of a mark of such a paper is within every maximum.
LEMMA OverrideWithinMax ==
  ASSUME MaximaAgree, NEW p \in GradedPapers, WithinMax(p), NEW body \in Bodies
  PROVE  RowWithinMax(Override(p, body))
<1> DEFINE w == Override(p, body)
<1>1. body.q \in Questions /\ w.q = body.q
  BY BodiesAssumption DEF PatchBodies, Override
<1>2. p[body.q].mark <= p[body.q].max
  BY <1>1 DEF WithinMax
<1>3. w.new <= p[body.q].max
  BY <1>1, <1>2, OverrideRow
<1>4. PICK o \in Papers : p[body.q].max = o[body.q].max
  BY <1>1 DEF WithinMax
<1> HIDE DEF w
<1>5. ASSUME NEW n \in Papers
      PROVE  w.new <= n[w.q].max
  BY <1>1, <1>3, <1>4 DEF MaximaAgree
<1> QED BY <1>5 DEF RowWithinMax, w

\* A step of one request keeps the marks, if the request and the stores do.
LEMMA MarksStep ==
  ASSUME IInv, MarksInv, NEW r \in Slots, NEW y,
         req' = [req EXCEPT ![r] = y],
         y # NoReq => RequestWithinMax(y),
         paper' # NoPaper => WithinMax(paper)',
         (\A i \in DOMAIN reviews : RowWithinMax(reviews[i]))'
  PROVE  MarksInv'
<1>1. ASSUME NEW s \in Slots, req'[s] # NoReq
      PROVE  RequestWithinMax(req[s])'
  <2>1. CASE s = r
    <3>1. req'[s] = y
      BY <2>1 DEF IInv, Shape
    <3> QED BY <1>1, <3>1 DEF RequestWithinMax
  <2>2. CASE s # r
    <3>1. req'[s] = req[s]
      BY <2>2 DEF IInv, Shape
    <3> QED BY <1>1, <3>1 DEF MarksInv, RequestWithinMax
  <2> QED BY <2>1, <2>2
<1> QED BY <1>1 DEF MarksInv

LEMMA OpenMarks ==
  ASSUME IInv, MarksInv, NEW r \in Slots, NEW op, NEW step, NEW body, NEW a,
         op \in {"patch", "approve", "regenerate"} => step = "load",
         Open(r, op, step, body, a)
  PROVE  MarksInv'
<1> DEFINE y == [op |-> op, at |-> step, body |-> body,
                 appeal |-> a, doc |-> NoPaper, row |-> NoRow]
<1>1. req' = [req EXCEPT ![r] = y] /\ UNCHANGED <<paper, reviews>>
  BY DEF Open, recordVars
<1>2. RequestWithinMax(y)
  BY DEF RequestWithinMax
<1>3. /\ paper' # NoPaper => WithinMax(paper)'
      /\ (\A i \in DOMAIN reviews : RowWithinMax(reviews[i]))'
  BY <1>1 DEF MarksInv
<1> HIDE DEF y
<1> QED BY <1>1, <1>2, <1>3, MarksStep

LEMMA CallMarks ==
  ASSUME IInv, MarksInv, NEW r \in Slots, Call(r)
  PROVE  MarksInv'
BY OpenMarks DEF Call, PatchQuestion, Approve, Publish, Export, Regenerate,
  FileAppeal, ResolveAppeal, RegradeAppeal

\* The reads: a paper is read, overlaid or has its feedback drafted again.
LEMMA ReadMarks ==
  ASSUME MaximaAgree, IInv, TypeInv, MarksInv, NEW r \in Slots,
         LoadPaper(r) \/ ListTeacherReviews(r) \/ DraftFeedback(r)
  PROVE  MarksInv'
<1> DEFINE x == req[r]
<1>1. x # NoReq /\ UNCHANGED <<paper, reviews>>
  BY DEF LoadPaper, ListTeacherReviews, DraftFeedback, recordVars
<1>2. /\ IsRequest(x) /\ RequestValued(x) /\ RequestWithinMax(x)
      /\ x.at = "load" => x.op \in {"patch", "approve", "regenerate"}
      /\ x.at = "list" => x.op \in {"patch", "approve"}
      /\ x.at = "draft" => x.op = "regenerate"
  BY <1>1, RequestHere DEF RequestShape, MarksInv
<1>3. /\ paper' # NoPaper => WithinMax(paper)'
      /\ (\A i \in DOMAIN reviews : RowWithinMax(reviews[i]))'
  BY <1>1 DEF MarksInv
<1>4. CASE LoadPaper(r)
  <2>1. CASE paper = NoPaper /\ End(r)
    BY <1>3, <2>1, MarksStep
  <2>2. CASE paper # NoPaper
    <3> DEFINE step == IF x.op = "regenerate" THEN "draft" ELSE "list"
               y    == [x EXCEPT !.at = step, !.doc = paper]
    <3>1. req' = [req EXCEPT ![r] = y]
      BY <1>4, <2>2 DEF LoadPaper, IInv, Shape
    <3>2. y.doc = paper /\ y.at = step
      BY <1>2 DEF IsRequest
    <3>3. RequestWithinMax(y)
      BY <2>2, <3>2 DEF RequestWithinMax, MarksInv
    <3> HIDE DEF y
    <3> QED BY <1>3, <3>1, <3>3, MarksStep
  <2> QED BY <1>4, <2>1, <2>2 DEF LoadPaper
<1>5. CASE ListTeacherReviews(r)
  <2> DEFINE doc == overlayReviews(x.doc, reviews)
             row == IF x.op = "patch" THEN Override(doc, x.body) ELSE NoRow
             y   == [x EXCEPT !.at = "audit", !.doc = doc, !.row = row]
  <2>1. req' = [req EXCEPT ![r] = y] /\ x.at = "list"
    BY <1>5 DEF ListTeacherReviews, IInv, Shape
  <2>2. x.doc \in GradedPapers /\ WithinMax(x.doc)
    BY <1>2, <2>1 DEF RequestValued, RequestWithinMax
  <2>3. reviews \in Seq(Rows) /\ \A i \in DOMAIN reviews : RowWithinMax(reviews[i])
    BY DEF TypeInv, TypeOK, MarksInv
  <2>4. doc \in GradedPapers /\ WithinMax(doc)
    BY <2>2, <2>3, OverlaidPaper, OverlaidWithinMax
  <2> HIDE DEF doc
  <2>5. x.op = "patch" => RowWithinMax(row)
    BY <1>2, <2>4, OverrideWithinMax DEF RequestValued
  <2> HIDE DEF row
  <2>6. y.doc = doc /\ y.row = row /\ y.op = x.op
    BY <1>2 DEF IsRequest
  <2>7. RequestWithinMax(y)
    BY <2>4, <2>5, <2>6 DEF RequestWithinMax
  <2> HIDE DEF y
  <2> QED BY <1>3, <2>1, <2>7, MarksStep
<1>6. CASE DraftFeedback(r)
  <2>1. x.at = "draft" /\ x.doc \in GradedPapers /\ WithinMax(x.doc)
    BY <1>2, <1>6 DEF DraftFeedback, RequestValued, RequestWithinMax
  <2>2. PICK f \in [Questions -> Texts \cup {NoText}] :
          req' = [req EXCEPT ![r] =
                    [x EXCEPT !.at = "audit",
                       !.doc = [q \in Questions |-> [x.doc[q] EXCEPT !.text = f[q]]]]]
    BY <1>6 DEF DraftFeedback, IInv, Shape
  <2> DEFINE doc == [q \in Questions |-> [x.doc[q] EXCEPT !.text = f[q]]]
             y   == [x EXCEPT !.at = "audit", !.doc = doc]
  <2>3. \A q \in Questions : doc[q].mark = x.doc[q].mark /\ doc[q].max = x.doc[q].max
    BY <2>1 DEF GradedPapers, GradedQuestions
  <2>4. req' = [req EXCEPT ![r] = y]
    BY <2>2
  <2> HIDE DEF doc
  <2>5. WithinMax(doc)
    BY <2>1, <2>3 DEF WithinMax
  <2>6. y.doc = doc /\ y.op = "regenerate"
    BY <1>2, <2>1 DEF IsRequest
  <2>7. RequestWithinMax(y)
    BY <2>5, <2>6 DEF RequestWithinMax
  <2> HIDE DEF y
  <2> QED BY <1>3, <2>4, <2>7, MarksStep
<1> QED BY <1>4, <1>5, <1>6

\* The writes: what is stored is what the request holds.
LEMMA WriteMarks ==
  ASSUME IInv, TypeInv, MarksInv, NEW r \in Slots,
         \/ InsertAuditEvent(r) \/ InsertTeacherReview(r) \/ PutSnapshot(r)
         \/ InsertFinalGrade(r) \/ PutPaper(r) \/ SendCommand(r)
         \/ CreateAppeal(r) \/ UpdateAppealStatus(r) \/ RequestFails(r)
  PROVE  MarksInv'
<1> DEFINE x == req[r]
<1>1. x # NoReq
  BY DEF InsertAuditEvent, InsertTeacherReview, PutSnapshot, InsertFinalGrade,
    PutPaper, SendCommand, CreateAppeal, UpdateAppealStatus, RequestFails
<1>2. RequestShape(x) /\ RequestValued(x) /\ RequestWithinMax(x)
  BY <1>1, RequestHere DEF MarksInv
<1>3. /\ paper # NoPaper => WithinMax(paper)
      /\ \A i \in DOMAIN reviews : RowWithinMax(reviews[i])
  BY DEF MarksInv
<1>4. CASE InsertTeacherReview(r)
  <2>1. /\ RowWithinMax(x.row) /\ End(r)
        /\ reviews' = Append(reviews, x.row) /\ paper' = paper
    BY <1>2, <1>4 DEF InsertTeacherReview, RequestValued, RequestWithinMax
  <2>2. reviews \in Seq(Rows) /\ x.row \in Rows
    BY <1>2, <1>4 DEF InsertTeacherReview, RequestValued, TypeInv, TypeOK
  <2>3. (\A i \in DOMAIN reviews : RowWithinMax(reviews[i]))'
    <3> SUFFICES ASSUME NEW i \in DOMAIN reviews'
                 PROVE  RowWithinMax(reviews'[i])
      OBVIOUS
    <3>1. reviews'[i] = x.row \/ (i \in DOMAIN reviews /\ reviews'[i] = reviews[i])
      BY <2>1, <2>2, AppendProperties
    <3> QED BY <1>3, <2>1, <3>1
  <2>4. paper' # NoPaper => WithinMax(paper)'
    BY <1>3, <2>1
  <2> QED BY <2>1, <2>3, <2>4, MarksStep
<1>5. CASE PutPaper(r)
  <2>1. /\ WithinMax(x.doc) /\ End(r)
        /\ paper' = x.doc /\ reviews' = reviews
    BY <1>2, <1>5 DEF PutPaper, RequestShape, RequestWithinMax, recordVars
  <2>2. paper' # NoPaper => WithinMax(paper)'
    BY <2>1
  <2> QED BY <1>3, <2>1, <2>2, MarksStep
<1>6. ASSUME End(r), UNCHANGED <<paper, reviews>>
      PROVE  MarksInv'
  BY <1>3, <1>6, MarksStep
<1>7. ASSUME NEW step, Goto(r, step), UNCHANGED <<paper, reviews>>, x.at # "load",
             step = "insert" => x.at = "audit", step # "audit"
      PROVE  MarksInv'
  <2>1. PICK y : /\ req' = [req EXCEPT ![r] = y]
                 /\ req'[r] = y
                 /\ IsRequest(y)
                 /\ y.op = x.op /\ y.at = step /\ y.doc = x.doc
                 /\ y.row = x.row /\ y.appeal = x.appeal
    BY <1>1, <1>7, GotoStep
  <2>2. RequestWithinMax(y)
    BY <1>2, <1>7, <2>1 DEF RequestWithinMax
  <2>3. /\ paper' # NoPaper => WithinMax(paper)'
        /\ (\A i \in DOMAIN reviews : RowWithinMax(reviews[i]))'
    BY <1>3, <1>7
  <2> QED BY <2>1, <2>2, <2>3, MarksStep
<1>8. CASE InsertAuditEvent(r)
  <2>1. AfterAudit(x.op) # "audit"
    BY DEF AfterAudit
  <2> QED BY <1>7, <1>8, <2>1 DEF InsertAuditEvent
<1>9. CASE PutSnapshot(r)
  BY <1>7, <1>9 DEF PutSnapshot
<1>10. CASE InsertFinalGrade(r)
  BY <1>7, <1>10 DEF InsertFinalGrade
<1>11. CASE SendCommand(r)
  BY <1>6, <1>7, <1>11 DEF SendCommand, recordVars
<1>12. CASE CreateAppeal(r) \/ UpdateAppealStatus(r) \/ RequestFails(r)
  BY <1>6, <1>12 DEF CreateAppeal, UpdateAppealStatus, RequestFails, recordVars
<1> QED BY <1>4, <1>5, <1>8, <1>9, <1>10, <1>11, <1>12

\* No step breaks the marks.
LEMMA NextMarksInv ==
  ASSUME MaximaAgree, IInv, TypeInv, MarksInv, [Next]_vars
  PROVE  MarksInv'
<1>1. CASE UNCHANGED vars
  BY <1>1 DEF vars, recordVars, MarksInv, RequestWithinMax
<1>2. CASE Apply \/ Graded
  BY <1>2 DEF Apply, Graded, recordVars, MarksInv, RequestWithinMax
<1>3. CASE StorePaper
  <2>1. paper' \in Papers /\ UNCHANGED <<req, reviews>>
    BY <1>3 DEF StorePaper, recordVars
  <2>2. WithinMax(paper)'
    BY <2>1 DEF MaximaAgree, WithinMax
  <2> QED BY <2>1, <2>2 DEF MarksInv, RequestWithinMax
<1>4. ASSUME NEW r \in Slots, Call(r) \/ RequestStep(r)
      PROVE  MarksInv'
  BY <1>4, CallMarks, ReadMarks, WriteMarks DEF RequestStep
<1> QED BY <1>1, <1>2, <1>3, <1>4 DEF Next

\* If marking passes agree on the maxima, no override, no feedback that is
\* drafted again and no later pass brings a mark a teacher sees out of range.
THEOREM MarksStayWithinMax ==
  ASSUME MaximaAgree
  PROVE  Spec => []MarksWithinMax
<1>1. Init => MarksInv
  BY DEF Init, MarksInv
<1>2. IInv /\ TypeInv /\ MarksInv /\ [Next]_vars => MarksInv'
  BY NextMarksInv
<1>3. IInv /\ TypeInv /\ MarksInv => MarksWithinMax
  <2> SUFFICES ASSUME TypeInv, MarksInv, paper # NoPaper, NEW q \in Questions
               PROVE  LET e == overlayReviews(paper, reviews)[q]
                      IN  e.mark \in 0..e.max
    BY DEF MarksWithinMax
  <2>1. paper \in GradedPapers /\ reviews \in Seq(Rows)
    BY DEF TypeInv, TypeOK
  <2>2. WithinMax(overlayReviews(paper, reviews))
    BY <2>1, OverlaidWithinMax DEF MarksInv
  <2>3. overlayReviews(paper, reviews)[q] \in GradedQuestions
    BY <2>1, OverlaidPaper DEF GradedPapers
  <2> QED BY <2>2, <2>3 DEF WithinMax, GradedQuestions
<1> QED BY <1>1, <1>2, <1>3, TypeInvariance, PTL DEF Spec

---------------------------------------------------------------------------
(***************************************************************************)
(* Approvals.                                                              *)
(***************************************************************************)

OthersStay(r) == \A s \in Slots \ {r} : req'[s] = req[s]

LEMMA OthersStaying ==
  ASSUME IInv, NEW r \in Slots, NEW y, req' = [req EXCEPT ![r] = y]
  PROVE  OthersStay(r) /\ req'[r] = y
BY DEF OthersStay, IInv, Shape

\* A step of a request that neither begins nor ends between the writes of an
\* approval, nor reaches its command.
LEMMA QuietStep ==
  ASSUME ApprovalInv, NEW r \in Slots, OthersStay(r),
         ~At(r, "row"), ~At(r, "row")', ~Sending(r)',
         ~torn' => ~torn, UNCHANGED <<state, commands, snapshot, final>>
  PROVE  ApprovalInv'
<1>1. \A s \in Slots : At(s, "row")' => At(s, "row") /\ req'[s] = req[s]
  BY DEF OthersStay, At
<1>2. \A s \in Slots : At(s, "row") => At(s, "row")'
  BY DEF OthersStay, At
<1>3. \A s \in Slots : Sending(s)' => Sending(s)
  BY DEF OthersStay, Sending, At
<1>4. (~torn => \A c \in Slots : At(c, "row") =>
         snapshot = req[c].doc /\ \A s \in Slots : At(s, "row") => s = c)'
  BY <1>1 DEF ApprovalInv
<1>5. (~torn /\ final # NoGrade /\ (\A c \in Slots : ~At(c, "row"))
         => final = recomputeEffectiveTotals(snapshot))'
  <2>1. recomputeEffectiveTotals(snapshot)' = recomputeEffectiveTotals(snapshot)
    BY DEF recomputeEffectiveTotals
  <2> QED BY <1>2, <2>1 DEF ApprovalInv
<1> QED BY <1>3, <1>4, <1>5 DEF ApprovalInv

LEMMA OpenApproval ==
  ASSUME IInv, ApprovalInv, NEW r \in Slots, NEW op, NEW step,
         NEW body, NEW a, step \in {"load", "audit"}, Open(r, op, step, body, a)
  PROVE  ApprovalInv'
<1> DEFINE y == [op |-> op, at |-> step, body |-> body, appeal |-> a,
                 doc |-> NoPaper, row |-> NoRow]
<1>1. /\ req[r] = NoReq /\ req' = [req EXCEPT ![r] = y] /\ y.at = step
      /\ UNCHANGED <<state, commands, snapshot, final, torn>>
  BY DEF Open, pipelineVars, recordVars
<1> HIDE DEF y
<1>2. OthersStay(r) /\ req'[r] = y
  BY <1>1, OthersStaying
<1> QED BY <1>1, <1>2, QuietStep DEF At, Sending

LEMMA CallApproval ==
  ASSUME IInv, ApprovalInv, NEW r \in Slots, Call(r)
  PROVE  ApprovalInv'
BY OpenApproval DEF Call, PatchQuestion, Approve, Publish, Export, Regenerate,
  FileAppeal, ResolveAppeal, RegradeAppeal

\* The reads, and every write but those of an approval.
LEMMA QuietApproval ==
  ASSUME IInv, TypeInv, ApprovalInv, NEW r \in Slots,
         \/ LoadPaper(r) \/ ListTeacherReviews(r) \/ DraftFeedback(r)
         \/ InsertAuditEvent(r) \/ InsertTeacherReview(r) \/ PutPaper(r)
         \/ CreateAppeal(r) \/ UpdateAppealStatus(r)
  PROVE  ApprovalInv'
<1> DEFINE x == req[r]
<1>1. /\ x # NoReq /\ x.at # "row"
      /\ UNCHANGED <<state, commands, snapshot, final, torn>>
  BY DEF LoadPaper, ListTeacherReviews, DraftFeedback, InsertAuditEvent,
    InsertTeacherReview, PutPaper, CreateAppeal, UpdateAppealStatus,
    At, budget, pipelineVars, recordVars
<1>2. IsRequest(x) /\ x.op \in Ops
  BY <1>1, RequestHere DEF RequestShape
<1>3. req'[r] # NoReq =>
        /\ req'[r].at # "row"
        /\ ~ (req'[r].op = "approve" /\ req'[r].at = "send")
  <2>1. CASE \/ InsertTeacherReview(r) \/ PutPaper(r)
             \/ CreateAppeal(r) \/ UpdateAppealStatus(r)
    BY <2>1 DEF InsertTeacherReview, PutPaper, CreateAppeal, UpdateAppealStatus,
      IInv, Shape
  <2>2. CASE InsertAuditEvent(r)
    <3>1. Goto(r, AfterAudit(x.op))
      BY <2>2 DEF InsertAuditEvent
    <3>2. req'[r].op = x.op /\ req'[r].at = AfterAudit(x.op)
      BY <1>1, <3>1, GotoStep
    <3> QED BY <3>2 DEF AfterAudit
  <2>3. CASE LoadPaper(r)
    <3>1. CASE paper = NoPaper /\ End(r)
      BY <3>1 DEF IInv, Shape
    <3>2. CASE paper # NoPaper
      <4>1. req'[r] = [x EXCEPT
              !.at = IF x.op = "regenerate" THEN "draft" ELSE "list", !.doc = paper]
        BY <2>3, <3>2 DEF LoadPaper, IInv, Shape
      <4>2. req'[r].at \in {"draft", "list"}
        BY <1>2, <4>1 DEF IsRequest
      <4> QED BY <4>2
    <3> QED BY <2>3, <3>1, <3>2 DEF LoadPaper
  <2>4. CASE ListTeacherReviews(r)
    <3>1. req'[r].at = "audit"
      <4>1. PICK doc, row :
              req'[r] = [x EXCEPT !.at = "audit", !.doc = doc, !.row = row]
        BY <2>4 DEF ListTeacherReviews, IInv, Shape
      <4> QED BY <1>2, <4>1 DEF IsRequest
    <3> QED BY <3>1
  <2>5. CASE DraftFeedback(r)
    <3>1. PICK doc : req'[r] = [x EXCEPT !.at = "audit", !.doc = doc]
      BY <2>5 DEF DraftFeedback, IInv, Shape
    <3>2. req'[r].at = "audit"
      BY <1>2, <3>1 DEF IsRequest
    <3> QED BY <3>2
  <2> QED BY <2>1, <2>2, <2>3, <2>4, <2>5
<1>4. OthersStay(r)
  <2>1. \E y : req' = [req EXCEPT ![r] = y]
    <3>1. CASE \E step : Goto(r, step)
      BY <3>1 DEF Goto, IInv, Shape
    <3>2. CASE End(r)
      BY <3>2 DEF End
    <3>3. CASE LoadPaper(r) /\ ~End(r)
      BY <3>3 DEF LoadPaper, IInv, Shape
    <3>4. CASE ListTeacherReviews(r)
      BY <3>4 DEF ListTeacherReviews, IInv, Shape
    <3>5. CASE DraftFeedback(r)
      BY <3>5 DEF DraftFeedback, IInv, Shape
    <3> QED
      BY <3>1, <3>2, <3>3, <3>4, <3>5
         DEF InsertAuditEvent, InsertTeacherReview, PutPaper, CreateAppeal,
             UpdateAppealStatus
  <2> QED BY <2>1, OthersStaying
<1> QED BY <1>1, <1>3, <1>4, QuietStep DEF At, Sending

\* A request ends early, perhaps between the writes of its approval.
LEMMA FailedApproval ==
  ASSUME IInv, ApprovalInv, NEW r \in Slots, RequestFails(r)
  PROVE  ApprovalInv'
<1>1. /\ OthersStay(r) /\ req'[r] = NoReq
      /\ UNCHANGED <<state, commands, snapshot, final>>
  BY OthersStaying DEF RequestFails, End, pipelineVars, recordVars
<1>2. ~torn' => ~torn /\ ~At(r, "row")
  BY DEF RequestFails
<1>3. CASE torn'
  <2>1. \A s \in Slots : Sending(s)' => Sending(s)
    BY <1>1 DEF OthersStay, Sending, At
  <2> QED BY <1>1, <1>3, <2>1 DEF ApprovalInv
<1>4. CASE ~torn'
  BY <1>1, <1>2, <1>4, QuietStep DEF At, Sending
<1> QED BY <1>3, <1>4

\* The writes of an approval, and the command of any request.
LEMMA WriteApproval ==
  ASSUME IInv, TypeInv, ApprovalInv, NEW r \in Slots,
         PutSnapshot(r) \/ InsertFinalGrade(r) \/ SendCommand(r)
  PROVE  ApprovalInv'
<1> DEFINE x == req[r]
<1>1. x # NoReq /\ UNCHANGED state
  BY DEF PutSnapshot, InsertFinalGrade, SendCommand, pipelineVars
<1>2. /\ RequestShape(x) /\ RequestValued(x)
      /\ x.op \in Ops /\ x.doc \in GradedPapers \cup {NoPaper}
  BY <1>1, RequestHere
<1>3. \A s \in Slots \ {r} :
        /\ At(s, "row")' <=> At(s, "row")
        /\ Sending(s)' => Sending(s)
  <2>1. \E y : req' = [req EXCEPT ![r] = y]
    BY DEF PutSnapshot, InsertFinalGrade, SendCommand, Goto, End, IInv, Shape
  <2>2. OthersStay(r)
    BY <2>1, OthersStaying
  <2> QED BY <2>2 DEF OthersStay, At, Sending
<1>4. CASE PutSnapshot(r)
  <2>1. /\ x.at = "snapshot" /\ x.op = "approve" /\ Goto(r, "row")
        /\ snapshot' = x.doc /\ UNCHANGED <<commands, final>>
    BY <1>2, <1>4 DEF PutSnapshot, RequestShape, pipelineVars
  <2>2. /\ req'[r].op = "approve" /\ req'[r].at = "row" /\ req'[r].doc = x.doc
        /\ req'[r] # NoReq
    <3> DEFINE y == [op |-> x.op, at |-> "row", body |-> x.body,
                     appeal |-> x.appeal, doc |-> x.doc, row |-> x.row]
    <3>1. req'[r] = [x EXCEPT !.at = "row"]
      BY <1>1, <2>1 DEF Goto, IInv, Shape
    <3>2. x = [op |-> x.op, at |-> x.at, body |-> x.body, appeal |-> x.appeal,
               doc |-> x.doc, row |-> x.row]
      BY <1>2 DEF RequestShape, IsRequest
    <3>3. req'[r] = y
      BY <3>1, <3>2
    <3>4. x.doc \in GradedPapers /\ x.row \in Rows \cup {NoRow}
      BY <1>1, <1>2, <2>1, RequestHere DEF RequestValued
    <3>5. y \in Requests
      BY <1>1, <2>1, <3>4, Continues DEF Steps
    <3> QED BY <2>1, <3>3, <3>5, NoReqAssumption
  <2>3. At(r, "row")' /\ ~Sending(r)'
    BY <2>2 DEF At, Sending
  <2>4. ~torn' => \A s \in Slots \ {r} : ~At(s, "row")
    BY <1>4 DEF PutSnapshot
  <2> QED BY <1>1, <1>3, <2>1, <2>2, <2>3, <2>4 DEF ApprovalInv
<1>5. CASE InsertFinalGrade(r)
  <2>1. /\ x.at = "row" /\ x.op = "approve" /\ Goto(r, "send")
        /\ final' = recomputeEffectiveTotals(x.doc)
        /\ UNCHANGED <<commands, snapshot, torn>>
    BY <1>2, <1>5 DEF InsertFinalGrade, RequestShape, pipelineVars, budget
  <2>2. x.doc \in GradedPapers
    BY <1>2, <2>1 DEF RequestValued
  <2>3. final' # NoGrade
    BY <2>1, <2>2, TotalsGrade
  <2>4. At(r, "row")
    BY <1>5 DEF InsertFinalGrade
  <2>5. ~torn => snapshot' = x.doc /\ \A s \in Slots \ {r} : ~At(s, "row")
    BY <2>1, <2>4 DEF ApprovalInv
  <2>6. ~At(r, "row")'
    BY <1>1, <2>1, GotoStep DEF At
  <2>7. (~torn => final = recomputeEffectiveTotals(snapshot))'
    BY <2>1, <2>5 DEF recomputeEffectiveTotals
  <2> QED BY <1>3, <2>1, <2>3, <2>5, <2>6, <2>7 DEF ApprovalInv
<1>6. CASE SendCommand(r)
  <2>1. /\ x.at = "send" /\ commands' = Append(commands, x.op)
        /\ UNCHANGED <<snapshot, final, torn>>
    BY <1>6 DEF SendCommand, At, recordVars, budget
  <2>2. req'[r] # NoReq => req'[r].at = "status"
    <3>1. CASE Goto(r, "status")
      BY <1>1, <3>1, GotoStep
    <3>2. CASE End(r)
      BY <3>2 DEF IInv, Shape
    <3> QED BY <1>6, <3>1, <3>2 DEF SendCommand
  <2>3. ~At(r, "row") /\ ~At(r, "row")' /\ ~Sending(r)'
    BY <2>1, <2>2 DEF At, Sending
  <2>4. (\E i \in DOMAIN commands' : commands'[i] = "approve") =>
          (\E i \in DOMAIN commands : commands[i] = "approve") \/ Sending(r)
    <3> SUFFICES ASSUME NEW i \in DOMAIN commands', commands'[i] = "approve",
                        x.op # "approve"
                 PROVE  \E j \in DOMAIN commands : commands[j] = "approve"
      BY <1>1, <2>1 DEF At, Sending
    <3>1. commands \in Seq(CommandNames)
      BY DEF TypeInv, TypeOK, CommandNames
    <3>2. x.op \in CommandNames
      BY <1>2, <2>1 DEF RequestShape, CommandNames
    <3>3. i \in DOMAIN commands /\ commands[i] = "approve"
      BY <2>1, <3>1, <3>2, AppendProperties
    <3> QED BY <3>3
  <2>5. (~torn => \A c \in Slots : At(c, "row") =>
           snapshot = req[c].doc /\ \A s \in Slots : At(s, "row") => s = c)'
    <3>1. \A c \in Slots \ {r} : At(c, "row")' => req'[c] = req[c]
      <4>1. \E y : req' = [req EXCEPT ![r] = y]
        BY <1>6 DEF SendCommand, Goto, End, IInv, Shape
      <4>2. OthersStay(r)
        BY <4>1, OthersStaying
      <4> QED BY <4>2 DEF OthersStay
    <3> QED BY <1>3, <2>1, <2>3, <3>1 DEF ApprovalInv
  <2>6. (~torn /\ final # NoGrade /\ (\A c \in Slots : ~At(c, "row"))
           => final = recomputeEffectiveTotals(snapshot))'
    <3>1. recomputeEffectiveTotals(snapshot)' = recomputeEffectiveTotals(snapshot)
      BY <2>1 DEF recomputeEffectiveTotals
    <3> QED BY <1>3, <2>1, <2>3, <3>1 DEF ApprovalInv
  <2> QED BY <1>1, <1>3, <2>1, <2>3, <2>4, <2>5, <2>6 DEF ApprovalInv
<1> QED BY <1>4, <1>5, <1>6

\* The pipeline: a submission is approved by a command that is on its way.
LEMMA PipelineApproval ==
  ASSUME TypeInv, ApprovalInv, Apply \/ StorePaper \/ Graded
  PROVE  ApprovalInv'
<1>1. UNCHANGED <<req, snapshot, final, torn>>
  BY DEF Apply, StorePaper, Graded, recordVars, budget
<1>2. state \in States /\ commands \in Seq(CommandNames)
      /\ (marking # "none" => state = "grading")
  BY DEF TypeInv, TypeOK, CommandNames
<1>3. state' \in Finalised \/ (\E i \in DOMAIN commands' : commands'[i] = "approve")
        => state \in Finalised \/ (\E i \in DOMAIN commands : commands[i] = "approve")
  <2>1. CASE Apply
    <3>1. /\ commands # <<>> /\ commands' = Tail(commands)
          /\ Head(commands) \in CommandNames
      BY <1>2, <2>1, HeadTailProperties DEF Apply
    <3>2. ASSUME NEW i \in DOMAIN commands', commands'[i] = "approve"
          PROVE  \E j \in DOMAIN commands : commands[j] = "approve"
      <4>1. i + 1 \in DOMAIN commands /\ commands[i + 1] = "approve"
        BY <1>2, <3>1, <3>2, HeadTailProperties
      <4> QED BY <4>1
    <3>3. ASSUME state' \in Finalised, state \notin Finalised
          PROVE  \E j \in DOMAIN commands : commands[j] = "approve"
      <4>1. state' = Decided(Head(commands))
        BY <2>1, <3>3 DEF Apply
      <4>2. Head(commands) = "approve"
        BY <1>2, <3>1, <3>3, <4>1, DecidedState
      <4>3. 1 \in DOMAIN commands /\ commands[1] = "approve"
        BY <1>2, <3>1, <4>2, HeadTailProperties, EmptySeq
      <4> QED BY <4>3
    <3> QED BY <3>2, <3>3
  <2>2. CASE StorePaper
    BY <2>2 DEF StorePaper
  <2>3. CASE Graded
    BY <1>2, <2>3, GradedState DEF Graded, Finalised
  <2> QED BY <2>1, <2>2, <2>3
<1>4. (\A s \in Slots : (At(s, "row")' <=> At(s, "row")) /\ (Sending(s)' <=> Sending(s)))
  BY <1>1 DEF At, Sending
<1>5. recomputeEffectiveTotals(snapshot)' = recomputeEffectiveTotals(snapshot)
  BY <1>1 DEF recomputeEffectiveTotals
<1> QED BY <1>1, <1>3, <1>4, <1>5 DEF ApprovalInv

\* No step breaks it.
LEMMA NextApprovalInv ==
  ASSUME IInv, TypeInv, ApprovalInv, [Next]_vars
  PROVE  ApprovalInv'
<1>1. CASE UNCHANGED vars
  <2>1. UNCHANGED <<state, commands, snapshot, final, req, torn>>
    BY <1>1 DEF vars, pipelineVars, recordVars, budget
  <2> QED BY <2>1 DEF ApprovalInv, At, Sending, recomputeEffectiveTotals
<1>2. CASE Apply \/ StorePaper \/ Graded
  BY <1>2, PipelineApproval
<1>3. ASSUME NEW r \in Slots, Call(r) \/ RequestStep(r)
      PROVE  ApprovalInv'
  BY <1>3, CallApproval, QuietApproval, WriteApproval, FailedApproval DEF RequestStep
<1> QED BY <1>1, <1>2, <1>3 DEF Next

\* A finalised submission has a final grade that is the total of the paper
\* exports and reports show, through every regrade and every approval that is
\* repeated before the first one is applied, however many requests run at once
\* and whichever end early: it is only while an approval is between its two
\* writes, or after two overlapped there or one ended there, that they differ.
THEOREM ApprovalsConsistent == Spec => []ApprovedConsistent
<1>1. Init => ApprovalInv
  BY DEF Init, ApprovalInv, At, Sending, Finalised
<1>2. IInv /\ TypeInv /\ ApprovalInv /\ [Next]_vars => ApprovalInv'
  BY NextApprovalInv
<1>3. ApprovalInv => ApprovedConsistent
  <2> SUFFICES ASSUME ApprovalInv, state \in Finalised, ~torn,
                      \A r \in Slots : ~At(r, "row")
               PROVE  final = recomputeEffectiveTotals(effectiveGradedPaper)
    BY DEF ApprovedConsistent
  <2>1. final # NoGrade
    BY DEF ApprovalInv
  <2>2. effectiveGradedPaper = snapshot
    BY <2>1 DEF effectiveGradedPaper
  <2> QED BY <2>1, <2>2 DEF ApprovalInv
<1> QED BY <1>1, <1>2, <1>3, TypeInvariance, PTL DEF Spec
=============================================================================
