------------------------------- MODULE Review -------------------------------
(***************************************************************************)
(* The people around one graded submission: the API handlers by which a    *)
(* teacher overrides, approves, publishes and exports it and has feedback  *)
(* drafted again, and by which an appeal is filed, resolved and regraded.  *)
(* (No handler touches a second submission.)                               *)
(*                                                                         *)
(* Handlers are split at their calls to the database, the object store,    *)
(* the AI provider and the broker: req[r].at is the call to be made next.  *)
(* The pipeline is reduced to what they see of it: the orchestrator        *)
(* applies a command in one step, in order; a marking pass is two, the new *)
(* paper and its result.  Module Pipeline splits these and adds replicas.  *)
(***************************************************************************)
EXTENDS SubmissionStates, Sequences, FiniteSetsExt, Functions

CONSTANTS Questions,
          Papers,         \* what a marking pass may produce
          Bodies,         \* bodies of PATCH requests
          Texts,          \* feedback an AI provider may draft
          Appeals,        \* the appeals that may be filed
          Slots,          \* HTTP requests that may be in progress at once
          NoPaper, NoGrade, NoReq, NoBody, NoAppeal, NoRow,
          MaxCalls,       \* bound: requests
          MaxFaults       \* bound: requests that end early

NoText == ""              \* no feedback

\* A question of a graded paper: its mark, its maximum, its feedback.
GradedQuestions == [mark : Nat, max : Nat, text : Texts \cup {NoText}]
GradedPapers    == [Questions -> GradedQuestions]

\* The body of a PATCH: a field left out is the empty set.
PatchBodies == [q : Questions, mark : SUBSET Int, text : SUBSET (Texts \cup {NoText})]

ASSUME PapersAssumption == Papers \subseteq GradedPapers
ASSUME BodiesAssumption == Bodies \subseteq PatchBodies
ASSUME BoundsAssumption == MaxCalls \in Nat /\ MaxFaults \in Nat
ASSUME QuestionsAssumption == IsFiniteSet(Questions)

VARIABLES
  state,              \* the submission row
  commands,           \* commands.q
  marking,            \* the marking pass: "none", "due" or "stored"
  paper, snapshot,    \* graded.v1.json, graded.final.json
  reviews,            \* the teacher_review rows, oldest first
  final,              \* the final_grade row
  appeals,            \* the appeals' status
  audit,              \* the events in the audit trail
  req,                \* the HTTP requests in progress
  calls, faults,      \* budget counters
  torn                \* history: since the writes of two approvals overlapped,
                      \* or one ended between its two, none has made its alone

pipelineVars == <<state, commands, marking>>
recordVars   == <<snapshot, reviews, final, appeals, audit>>
budget       == <<calls, faults, torn>>
vars == <<pipelineVars, paper, recordVars, req, budget>>

Statuses == {"none", "open", "under_review", "resolved", "rejected"}
Rows     == [q : Questions, old : Nat, new : Nat, text : Texts \cup {NoText}]
Grades   == [total : Int, max : Int]
ASSUME NoGradeAssumption == NoGrade \notin Grades
Event(action, value) == [action |-> action, value |-> value]

Init ==   \* the first marking pass is about to start
  /\ state = "grading" /\ marking = "due"
  /\ commands = <<>>
  /\ paper = NoPaper /\ snapshot = NoPaper
  /\ reviews = <<>>
  /\ final = NoGrade
  /\ appeals = [a \in Appeals |-> "none"]
  /\ audit = {}
  /\ req = [r \in Slots |-> NoReq]
  /\ calls = 0 /\ faults = 0 /\ torn = FALSE

---------------------------------------------------------------------------
(***************************************************************************)
(* The paper a teacher sees.                                               *)
(***************************************************************************)

\* The rows are applied in order: the last row of a question decides its mark,
\* the last one with a text its feedback.
overlayReviews(p, rows) ==
  [q \in Questions |->
     LET own   == {i \in DOMAIN rows : rows[i].q = q}
         texts == {i \in own : rows[i].text # NoText}
     IN  [max  |-> p[q].max,
          mark |-> IF own = {} THEN p[q].mark ELSE rows[Max(own)].new,
          text |-> IF texts = {} THEN p[q].text ELSE rows[Max(texts)].text]]

recomputeEffectiveTotals(p) ==
  [total |-> SumFunction([q \in Questions |-> p[q].mark]),
   max   |-> SumFunction([q \in Questions |-> p[q].max])]

\* Exports, class results and analytics use the snapshot once a final_grade
\* row exists.
effectiveGradedPaper ==
  IF final # NoGrade THEN snapshot ELSE overlayReviews(paper, reviews)

Clamp(n, max) == IF n < 0 THEN 0 ELSE IF n > max THEN max ELSE n

\* Mutant: an override is clamped at 0 only.
OverrideUnclamped(p, body) ==
  [q    |-> body.q,
   old  |-> p[body.q].mark,
   new  |-> IF body.mark = {} THEN p[body.q].mark
            ELSE Max({0, CHOOSE n \in body.mark : TRUE}),
   text |-> IF body.text = {} THEN p[body.q].text
            ELSE CHOOSE t \in body.text : TRUE]

\* The row a PATCH makes on the effective paper p.
Override(p, body) ==
  [q    |-> body.q,
   old  |-> p[body.q].mark,
   new  |-> IF body.mark = {} THEN p[body.q].mark
            ELSE Clamp(CHOOSE n \in body.mark : TRUE, p[body.q].max),
   text |-> IF body.text = {} THEN p[body.q].text
            ELSE CHOOSE t \in body.text : TRUE]

---------------------------------------------------------------------------
(***************************************************************************)
(* The start of a request: the state or the appeal is read and checked.    *)
(* Authorisation only decides whether a handler runs.                      *)
(***************************************************************************)
Finalised == {"approved", "published", "exported"}

Open(r, op, step, body, a) ==
  /\ req[r] = NoReq
  /\ calls < MaxCalls
  /\ calls' = calls + 1
  /\ req' = [req EXCEPT ![r] = [op |-> op, at |-> step, body |-> body,
                                appeal |-> a, doc |-> NoPaper, row |-> NoRow]]
  /\ UNCHANGED <<pipelineVars, paper, recordVars, faults, torn>>

PatchQuestion(r) == /\ state = "teacher_review"
                    /\ \E b \in Bodies : Open(r, "patch", "load", b, NoAppeal)

Approve(r) == /\ state = "teacher_review"
              /\ Open(r, "approve", "load", NoBody, NoAppeal)

Publish(r) == /\ state = "approved"
              /\ Open(r, "publish", "audit", NoBody, NoAppeal)

Export(r) == /\ state = "published"
             /\ Open(r, "export", "audit", NoBody, NoAppeal)

Regenerate(r) == /\ state \notin Finalised
                 /\ Open(r, "regenerate", "load", NoBody, NoAppeal)

\* CreateAppeal makes a new row: nobody else is creating the same one.
FileAppeal(r) ==
  \E a \in Appeals :
    /\ appeals[a] = "none"
    /\ \A s \in Slots : req[s] # NoReq => req[s].appeal # a
    /\ Open(r, "file", "audit", NoBody, a)

\* An appeal in any status, of a submission in any state.
ResolveAppeal(r) ==
  \E a \in Appeals : /\ appeals[a] # "none"
                     /\ Open(r, "resolve", "audit", NoBody, a)

\* Mutant: the regrade command is sent without an event.
RegradeAppealUnaudited(r) ==
  \E a \in Appeals : /\ appeals[a] # "none"
                     /\ Open(r, "regrade", "send", NoBody, a)

RegradeAppeal(r) ==
  \E a \in Appeals : /\ appeals[a] # "none"
                     /\ Open(r, "regrade", "audit", NoBody, a)

Call(r) == \/ PatchQuestion(r) \/ Approve(r) \/ Publish(r) \/ Export(r)
           \/ Regenerate(r) \/ FileAppeal(r) \/ ResolveAppeal(r)
           \/ RegradeAppeal(r)

---------------------------------------------------------------------------
(***************************************************************************)
(* The calls of a request in progress.                                     *)
(***************************************************************************)
At(r, step)   == req[r] # NoReq /\ req[r].at = step
Goto(r, step) == req' = [req EXCEPT ![r].at = step]
End(r)        == req' = [req EXCEPT ![r] = NoReq]

\* graded.v1.json; without it the request ends with an error.
LoadPaper(r) ==
  /\ At(r, "load")
  /\ \/ paper = NoPaper /\ End(r)
     \/ /\ paper # NoPaper
        /\ req' = [req EXCEPT
                     ![r].at = IF req[r].op = "regenerate" THEN "draft" ELSE "list",
                     ![r].doc = paper]
  /\ UNCHANGED <<pipelineVars, paper, recordVars, budget>>

\* The overrides, and what follows from them: the row of a PATCH, the paper
\* that Approve makes final.
ListTeacherReviews(r) ==
  /\ At(r, "list")
  /\ LET effective == overlayReviews(req[r].doc, reviews) IN
     req' = [req EXCEPT ![r].at = "audit",
               ![r].doc = effective,
               ![r].row = IF req[r].op = "patch"
                          THEN Override(effective, req[r].body) ELSE NoRow]
  /\ UNCHANGED <<pipelineVars, paper, recordVars, budget>>

\* DraftFeedback: all feedback is cleared and drafted again; a question whose
\* provider call fails is left without.
DraftFeedback(r) ==
  /\ At(r, "draft")
  /\ \E f \in [Questions -> Texts \cup {NoText}] :
       req' = [req EXCEPT ![r].at = "audit",
                 ![r].doc = [q \in Questions |-> [@[q] EXCEPT !.text = f[q]]]]
  /\ UNCHANGED <<pipelineVars, paper, recordVars, budget>>

\* Mutant: the approve event records the totals of the stored paper.
RawEvent(x) ==
  CASE x.op = "patch"      -> Event("override_question", x.row)
    [] x.op = "approve"    -> Event("approve", recomputeEffectiveTotals(paper))
    [] x.op = "regenerate" -> Event("regenerate_feedback", NoRow)
    [] x.op \in {"publish", "export"} -> Event(x.op, NoRow)
    [] x.op = "file"       -> Event("appeal_file", NoAppeal)
    [] x.op = "resolve"    -> Event("appeal_resolve", x.appeal)
    [] x.op = "regrade"    -> Event("appeal_regrade", x.appeal)

EventOf(x) ==
  CASE x.op = "patch"      -> Event("override_question", x.row)
    [] x.op = "approve"    -> Event("approve", recomputeEffectiveTotals(x.doc))
    [] x.op = "regenerate" -> Event("regenerate_feedback", NoRow)
    [] x.op \in {"publish", "export"} -> Event(x.op, NoRow)
    [] x.op = "file"       -> Event("appeal_file", NoAppeal)
    [] x.op = "resolve"    -> Event("appeal_resolve", x.appeal)
    [] x.op = "regrade"    -> Event("appeal_regrade", x.appeal)

AfterAudit(op) == CASE op = "patch"      -> "insert"
                    [] op = "approve"    -> "snapshot"
                    [] op = "regenerate" -> "put"
                    [] op = "file"       -> "create"
                    [] op = "resolve"    -> "status"
                    [] OTHER             -> "send"

\* Audit-first: a request writes nothing before its event.
InsertAuditEvent(r) ==
  /\ At(r, "audit")
  /\ audit' = audit \cup {EventOf(req[r])}
  /\ Goto(r, AfterAudit(req[r].op))
  /\ UNCHANGED <<pipelineVars, paper, snapshot, reviews, final, appeals, budget>>

InsertTeacherReview(r) ==
  /\ At(r, "insert")
  /\ reviews' = Append(reviews, req[r].row)
  /\ End(r)
  /\ UNCHANGED <<pipelineVars, paper, snapshot, final, appeals, audit, budget>>

\* Mutant: the first snapshot is kept.
PutFirstSnapshot(r) ==
  /\ At(r, "snapshot")
  /\ snapshot' = IF snapshot = NoPaper THEN req[r].doc ELSE snapshot
  /\ Goto(r, "row")
  /\ torn' = \E s \in Slots \ {r} : At(s, "row")
  /\ UNCHANGED <<pipelineVars, paper, reviews, final, appeals, audit, calls, faults>>

PutSnapshot(r) ==
  /\ At(r, "snapshot")
  /\ snapshot' = req[r].doc
  /\ Goto(r, "row")
  /\ torn' = \E s \in Slots \ {r} : At(s, "row")
  /\ UNCHANGED <<pipelineVars, paper, reviews, final, appeals, audit, calls, faults>>

InsertFinalGrade(r) ==
  /\ At(r, "row")
  /\ final' = recomputeEffectiveTotals(req[r].doc)
  /\ Goto(r, "send")
  /\ UNCHANGED <<pipelineVars, paper, snapshot, reviews, appeals, audit, budget>>

\* Regenerate writes the whole paper back.
PutPaper(r) ==
  /\ At(r, "put")
  /\ paper' = req[r].doc
  /\ End(r)
  /\ UNCHANGED <<pipelineVars, recordVars, budget>>

\* The command is on its way; RegradeAppeal updates the appeal only then.
SendCommand(r) ==
  /\ At(r, "send")
  /\ commands' = Append(commands, req[r].op)
  /\ IF req[r].op = "regrade" THEN Goto(r, "status") ELSE End(r)
  /\ UNCHANGED <<state, marking, paper, recordVars, budget>>

CreateAppeal(r) ==
  /\ At(r, "create")
  /\ appeals' = [appeals EXCEPT ![req[r].appeal] = "open"]
  /\ End(r)
  /\ UNCHANGED <<pipelineVars, paper, snapshot, reviews, final, audit, budget>>

UpdateAppealStatus(r) ==
  /\ At(r, "status")
  /\ \E status \in IF req[r].op = "regrade" THEN {"under_review"}
                   ELSE {"resolved", "rejected"} :
        appeals' = [appeals EXCEPT ![req[r].appeal] = status]
  /\ End(r)
  /\ UNCHANGED <<pipelineVars, paper, snapshot, reviews, final, audit, budget>>

\* A call fails or the client goes away; what is written stays.
RequestFails(r) ==
  /\ req[r] # NoReq
  /\ faults < MaxFaults
  /\ faults' = faults + 1
  /\ torn' = (torn \/ At(r, "row"))
  /\ End(r)
  /\ UNCHANGED <<pipelineVars, paper, recordVars, calls>>

RequestStep(r) ==
  \/ LoadPaper(r) \/ ListTeacherReviews(r) \/ DraftFeedback(r)
  \/ InsertAuditEvent(r) \/ InsertTeacherReview(r) \/ PutSnapshot(r)
  \/ InsertFinalGrade(r) \/ PutPaper(r) \/ SendCommand(r) \/ CreateAppeal(r)
  \/ UpdateAppealStatus(r) \/ RequestFails(r)

---------------------------------------------------------------------------
(***************************************************************************)
(* The pipeline.                                                           *)
(***************************************************************************)
Decided(command) == NextState(state, StageToEvent(command), {})

\* Mutant: the error of NextState is not looked at.
ApplyAnyway ==
  /\ commands # <<>>
  /\ commands' = Tail(commands)
  /\ state' = Decided(Head(commands))
  /\ marking' = IF state' = "grading" /\ state # "grading" THEN "due" ELSE marking
  /\ UNCHANGED <<paper, recordVars, req, budget>>

\* A command that NextState refuses ends in the dead-letter queue.
Apply ==
  /\ commands # <<>>
  /\ commands' = Tail(commands)
  /\ LET next == Decided(Head(commands)) IN
     IF next \in {Err, state} THEN UNCHANGED <<state, marking>>
     ELSE /\ state' = next
          /\ marking' = IF next = "grading" THEN "due" ELSE marking
  /\ UNCHANGED <<paper, recordVars, req, budget>>

StorePaper ==
  /\ marking = "due"
  /\ paper' \in Papers
  /\ marking' = "stored"
  /\ UNCHANGED <<state, commands, recordVars, req, budget>>

Graded ==
  /\ marking = "stored"
  /\ state' = NextState(state, "StageSucceeded", {})
  /\ marking' = "none"
  /\ UNCHANGED <<commands, paper, recordVars, req, budget>>

Next == \/ Apply \/ StorePaper \/ Graded
        \/ \E r \in Slots : Call(r) \/ RequestStep(r)

Spec == Init /\ [][Next]_vars

---------------------------------------------------------------------------
(***************************************************************************)
(* Properties.                                                             *)
(***************************************************************************)
Steps == {"load", "list", "draft", "audit", "insert", "snapshot", "row", "put",
          "send", "create", "status"}
Ops   == {"patch", "approve", "publish", "export", "regenerate", "file",
          "resolve", "regrade"}
Requests == [op : Ops, at : Steps, body : Bodies \cup {NoBody},
             appeal : Appeals \cup {NoAppeal},
             doc : GradedPapers \cup {NoPaper}, row : Rows \cup {NoRow}]
ASSUME NoReqAssumption == NoReq \notin Requests

\* Every variable keeps its type; marks are never negative.
TypeOK ==
  /\ state \in States
  /\ commands \in Seq({"approve", "publish", "export", "regrade"})
  /\ marking \in {"none", "due", "stored"}
  /\ paper \in GradedPapers \cup {NoPaper}
  /\ snapshot \in GradedPapers \cup {NoPaper}
  /\ reviews \in Seq(Rows)
  /\ final \in Grades \cup {NoGrade}
  /\ appeals \in [Appeals -> Statuses]
  /\ req \in [Slots -> Requests \cup {NoReq}]
  /\ calls \in 0..MaxCalls /\ faults \in 0..MaxFaults /\ torn \in BOOLEAN

\* An override and a final grade are stored only when the audit trail has
\* them, and the trail keeps every earlier grade ("no un-audited mark change
\* can ever reach the database", PatchQuestion).
EventValues(action) == {e.value : e \in {x \in audit : x.action = action}}
Records == INSTANCE AuditFirst
             WITH overrideEvents <- EventValues("override_question"),
                  approveEvents <- EventValues("approve"),
                  overrides <- reviews, grade <- final
RecordsSpec == Records!RecordsSpec

\* A paper that exists is marked again, and an appeal leaves "open", only on
\* the audit event of the appeal handlers.
AppealsAudited ==
  /\ marking = "due" /\ paper # NoPaper =>
       \E a \in Appeals : Event("appeal_regrade", a) \in audit
  /\ \A a \in Appeals :
       /\ appeals[a] = "under_review" => Event("appeal_regrade", a) \in audit
       /\ appeals[a] \in {"resolved", "rejected"}
            => Event("appeal_resolve", a) \in audit

\* The marks a teacher sees and approves lie between 0 and their maximum
\* (PatchQuestion clamps an override "to [0, question.MaxMarks]"), as long as
\* no regrade changes the maximum.
MarksWithinMax ==
  paper # NoPaper =>
    \A q \in Questions : LET e == overlayReviews(paper, reviews)[q]
                         IN  e.mark \in 0..e.max

\* The final_grade row and the paper that exports and class results show are
\* of one approval, through regrades and approvals that follow.  Approve stores
\* them by two calls and without a transaction, so not while an approval is
\* between the two; and what overlapping or interrupted approvals leave apart,
\* the next one that makes both writes alone puts right.
ApprovedConsistent ==
  /\ state \in Finalised /\ ~torn
  /\ \A r \in Slots : ~At(r, "row")
  => final = recomputeEffectiveTotals(effectiveGradedPaper)

\* A regrade is a fresh marking pass: its marks are the ones the teacher sees.
FreshPassCounts ==
  [][\A q \in Questions :
       marking = "due" /\ marking' = "stored"
         => overlayReviews(paper', reviews)[q].mark = paper'[q].mark]_vars
=============================================================================
