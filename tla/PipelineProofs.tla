--------------------------- MODULE PipelineProofs ---------------------------
(***************************************************************************)
(* Proofs about Pipeline, for any number of submissions, replicas and      *)
(* requests, any number of attempts and any faults: the type invariant,    *)
(* the teacher-approval gate as a refinement of ApprovalGate, the snapshot *)
(* of a final grade, and the bound on retries.                             *)
(***************************************************************************)
EXTENDS PipelineInvariant, SequenceTheorems, TLAPS

---------------------------------------------------------------------------
(***************************************************************************)
(* The state machine.                                                      *)
(***************************************************************************)

\* An event leads to a state or is an error.
LEMMA ComputeNextType ==
  ASSUME NEW cur \in States \cup {NoState}, NEW ev, NEW fl
  PROVE  computeNext(cur, ev, fl) \in States \cup {Err}
BY DEF computeNext, stageSucceededNext, States, Err

LEMMA NextStateType ==
  ASSUME NEW cur \in States \cup {NoState}, NEW ev, NEW fl
  PROVE  NextState(cur, ev, fl) \in States \cup {Err}
BY ComputeNextType DEF NextState

\* Only its own event leads to a state beyond the gate: what NextState decides,
\* unless it is the state itself, has been asked for by a human command.
LEMMA OnlyByCommand ==
  ASSUME NEW cur \in States \cup {NoState}, NEW env \in Envelopes,
         Decision(cur, env) \in Finalised
  PROVE  /\ Decision(cur, env) = "approved"  => env.stage = "approve"
         /\ Decision(cur, env) = "published" => env.stage = "publish"
         /\ Decision(cur, env) = "exported"  => env.stage = "export"
<1> DEFINE ev == StageToEvent(env.stage)
           fl == transcribeFlags(env)
<1>1. Decision(cur, env) = computeNext(cur, ev, fl)
  BY DEF Decision, NextState, Finalised, Err
<1>2. /\ ev = "ApproveByTeacher" => env.stage = "approve"
      /\ ev = "Publish" => env.stage = "publish"
      /\ ev = "Export" => env.stage = "export"
  BY DEF StageToEvent, Err, ResultStages
<1>3. /\ computeNext(cur, ev, fl) = "approved"  => ev = "ApproveByTeacher"
      /\ computeNext(cur, ev, fl) = "published" => ev = "Publish"
      /\ computeNext(cur, ev, fl) = "exported"  => ev = "Export"
  BY DEF computeNext, stageSucceededNext, Err
<1> QED BY <1>1, <1>2, <1>3

---------------------------------------------------------------------------
(***************************************************************************)
(* The bus, for any set D of deliveries.                                   *)
(***************************************************************************)
LEMMA PublishedType ==
  ASSUME NEW D, NEW qs \in [Queues -> Seq(D)], NEW q \in Queues,
         NEW env, Delivery(env, 0) \in D
  PROVE  Published(qs, q, env) \in [Queues -> Seq(D)]
<1>1. Append(qs[q], Delivery(env, 0)) \in Seq(D)
  BY AppendProperties
<1> QED BY <1>1 DEF Published

LEMMA ReceiveType ==
  ASSUME NEW D, queue \in [Queues -> Seq(D)],
         hand \in [Consumers -> D \cup {NoMsg}],
         NEW p \in Consumers, Receive(p)
  PROVE  /\ queue' \in [Queues -> Seq(D)]
         /\ hand' \in [Consumers -> D \cup {NoMsg}]
<1>1. QueueOf(p) \in Queues
  BY DEF Consumers, QueueOf
<1>2. Head(queue[QueueOf(p)]) \in D /\ Tail(queue[QueueOf(p)]) \in Seq(D)
  BY <1>1, HeadTailProperties DEF Receive
<1> QED BY <1>1, <1>2 DEF Receive

\* D is closed under redelivery.
Redeliverable(D) == \A d \in D, n \in Nat : Delivery(d.env, n) \in D

LEMMA RequeuedType ==
  ASSUME NEW D, Redeliverable(D), \A d \in D : d.count \in Nat,
         queue \in [Queues -> Seq(D)],
         NEW p \in Consumers, hand[p] \in D
  PROVE  Requeued(p) \in [Queues -> Seq(D)]
<1> DEFINE n == IF QueueOf(p) \in WorkQueues THEN hand[p].count + 1 ELSE 0
           d == Delivery(hand[p].env, n)
<1>1. QueueOf(p) \in Queues
  BY DEF Consumers, QueueOf
<1>2. n \in Nat
  OBVIOUS
<1>3. d \in D
  BY <1>2 DEF Redeliverable
<1>4. <<d>> \o queue[QueueOf(p)] \in Seq(D)
  BY <1>1, <1>3, ConcatProperties
<1> QED BY <1>1, <1>4 DEF Requeued

LEMMA NackType ==
  ASSUME NEW D, Redeliverable(D), \A d \in D : d.count \in Nat,
         queue \in [Queues -> Seq(D)],
         hand \in [Consumers -> D \cup {NoMsg}],
         NEW p \in Consumers, hand[p] \in D, Nack(p)
  PROVE  /\ queue' \in [Queues -> Seq(D)]
         /\ hand' \in [Consumers -> D \cup {NoMsg}]
<1>1. Requeued(p) \in [Queues -> Seq(D)]
  BY RequeuedType
<1>2. ASSUME QueueOf(p) \in StageQueues
      PROVE  Published(queue, dlq(QueueOf(p)), hand[p].env)
               \in [Queues -> Seq(D)]
  <2>1. Delivery(hand[p].env, 0) \in D
    BY DEF Redeliverable
  <2>2. dlq(QueueOf(p)) \in Queues
    BY <1>2 DEF Queues, StageDLQs
  <2> QED BY <2>1, <2>2, PublishedType
<1> QED BY <1>1, <1>2 DEF Nack

LEMMA AbandonType ==
  ASSUME NEW D, Redeliverable(D), \A d \in D : d.count \in Nat,
         queue \in [Queues -> Seq(D)],
         hand \in [Consumers -> D \cup {NoMsg}],
         NEW p \in Consumers, hand[p] \in D, Abandon(p)
  PROVE  /\ queue' \in [Queues -> Seq(D)]
         /\ hand' \in [Consumers -> D \cup {NoMsg}]
BY RequeuedType DEF Abandon

---------------------------------------------------------------------------
(***************************************************************************)
(* The type invariant.                                                     *)
(***************************************************************************)
LEMMA DeliveriesRedeliverable ==
  Redeliverable(Deliveries) /\ \A d \in Deliveries : d.count \in Nat
BY DEF Redeliverable, Deliveries, Delivery

\* A handler that is at work.
LEMMA AtWork ==
  ASSUME TypeInv, NEW p \in Consumers, at[p] # "idle"
  PROVE  /\ hand[p] \in Deliveries
         /\ Env(p) \in Envelopes
         /\ Sub(p) \in Submissions
BY DEF TypeInv, TypeOK, BusTypeOK, HandlerShape, Env, Sub, Deliveries, Envelopes

\* A handler goes on to its next call.
LEMMA GotoType ==
  ASSUME TypeInv, NEW p \in Consumers, NEW step \in HandlerSteps,
         Goto(p, step), UNCHANGED <<seen, goal, mark, hand>>,
         at[p] # "idle",
         step \in StageSteps => QueueOf(p) \in StageQueues
  PROVE  HandlerTypeOK' /\ HandlerShape'
BY DEF TypeInv, TypeOK, HandlerTypeOK, HandlerShape, Goto

\* A handler returns and its delivery is settled.
LEMMA ReturnType ==
  ASSUME TypeInv, NEW p \in Consumers, Return(p),
         \A c \in Consumers \ {p} : hand'[c] = hand[c]
  PROVE  HandlerTypeOK' /\ HandlerShape'
BY DEF TypeInv, TypeOK, HandlerTypeOK, HandlerShape, Return, Goto,
       HandlerSteps, StageSteps

\* A publish keeps the bus's type.
LEMMA PublishType ==
  ASSUME TypeInv, NEW q \in Queues, NEW env \in Envelopes,
         queue' = Published(queue, q, env), UNCHANGED hand
  PROVE  BusTypeOK'
<1>1. Delivery(env, 0) \in Deliveries
  BY DEF Delivery, Deliveries
<1> QED BY <1>1, PublishedType DEF TypeInv, TypeOK, BusTypeOK

LEMMA DeliverTypes ==
  ASSUME TypeInv, NEW p \in Consumers, Deliver(p)
  PROVE  TypeInv'
<1>1. BusTypeOK'
  BY ReceiveType DEF TypeInv, TypeOK, BusTypeOK, Deliver
<1>2. QueueOf(p) \in Queues
  BY DEF Consumers, QueueOf
<1>3. queue[QueueOf(p)] \in Seq(Deliveries)
  BY <1>2 DEF TypeInv, TypeOK, BusTypeOK
<1>4. hand'[p] \in Deliveries
  BY <1>3, HeadTailProperties
     DEF Deliver, Receive, TypeInv, TypeOK, BusTypeOK
<1>5. /\ FirstStep(QueueOf(p)) \in HandlerSteps
      /\ FirstStep(QueueOf(p)) \in StageSteps => QueueOf(p) \in StageQueues
  BY DEF FirstStep, HandlerSteps, StageSteps, StageQueues
<1>6. HandlerTypeOK' /\ HandlerShape'
  BY <1>4, <1>5, EmptyAssumption
     DEF Deliver, Receive, Goto, TypeInv, TypeOK, HandlerTypeOK, HandlerShape
<1> QED
  BY <1>1, <1>6
     DEF Deliver, TypeInv, TypeOK, RowTypeOK, StoreTypeOK, RequestTypeOK,
         BudgetTypeOK, RequestShape, tableVars, storeVars, gradeVars, budget

LEMMA FinishTypes ==
  ASSUME TypeInv, NEW p \in Consumers, Finish(p)
  PROVE  TypeInv'
<1>1. BusTypeOK'
  BY DEF Finish, Ack, TypeInv, TypeOK, BusTypeOK
<1>2. HandlerTypeOK' /\ HandlerShape'
  BY ReturnType DEF Finish, Ack
<1> QED
  BY <1>1, <1>2
     DEF Finish, TypeInv, TypeOK, RowTypeOK, StoreTypeOK, RequestTypeOK,
         BudgetTypeOK, RequestShape, tableVars, storeVars, gradeVars, budget

LEMMA RejectTypes ==
  ASSUME TypeInv, NEW p \in Consumers, at[p] # "idle", Reject(p)
  PROVE  BusTypeOK' /\ HandlerTypeOK' /\ HandlerShape'
<1>1. BusTypeOK'
  BY AtWork, DeliveriesRedeliverable, NackType
     DEF Reject, TypeInv, TypeOK, BusTypeOK
<1>2. HandlerTypeOK' /\ HandlerShape'
  BY ReturnType DEF Reject, Nack
<1> QED BY <1>1, <1>2

\* The orchestrator's steps.
LEMMA GetTypes ==
  ASSUME TypeInv, NEW p \in Consumers, GetSubmission(p)
  PROVE  TypeInv'
<1>1. Sub(p) \in Submissions
  BY AtWork DEF GetSubmission
<1>2. HandlerTypeOK' /\ HandlerShape'
  BY <1>1
     DEF GetSubmission, Goto, TypeInv, TypeOK, HandlerTypeOK, HandlerShape,
         RowTypeOK, HandlerSteps, StageSteps, busVars
<1> QED
  BY <1>2
     DEF GetSubmission, TypeInv, TypeOK, BusTypeOK, RowTypeOK, StoreTypeOK,
         RequestTypeOK, BudgetTypeOK, RequestShape, busVars, tableVars,
         storeVars, gradeVars, budget

LEMMA DecideTypes ==
  ASSUME TypeInv, NEW p \in Consumers, Decide(p)
  PROVE  TypeInv'
<1> DEFINE next == Decision(seen[p], Env(p))
<1>1. at[p] # "idle"
  BY DEF Decide
<1>2. seen[p] \in States \cup {NoState}
  BY DEF TypeInv, TypeOK, HandlerTypeOK
<1>3. next \in States \cup {Err}
  BY <1>2, NextStateType DEF Decision
<1>4. BusTypeOK' /\ HandlerTypeOK' /\ HandlerShape'
  <2>1. CASE Reject(p)
    BY <1>1, <2>1, RejectTypes
  <2>2. CASE Ack(p) /\ Return(p)
    <3>1. BusTypeOK'
      BY <2>2 DEF Ack, TypeInv, TypeOK, BusTypeOK
    <3> QED BY <2>2, <3>1, ReturnType DEF Ack
  <2>3. CASE /\ next \notin {Err, seen[p]}
             /\ goal' = [goal EXCEPT ![p] = next]
             /\ Goto(p, "set")
             /\ UNCHANGED <<busVars, seen, mark>>
    <3>1. BusTypeOK'
      BY <2>3 DEF TypeInv, TypeOK, BusTypeOK, busVars
    <3> QED
      BY <1>1, <1>3, <2>3, <3>1
         DEF TypeInv, TypeOK, HandlerTypeOK, HandlerShape, Goto, busVars,
             HandlerSteps, StageSteps
  <2> QED BY <2>1, <2>2, <2>3 DEF Decide
<1> QED
  BY <1>4
     DEF Decide, TypeInv, TypeOK, RowTypeOK, StoreTypeOK, RequestTypeOK,
         BudgetTypeOK, RequestShape, tableVars, storeVars, gradeVars, budget

LEMMA SetTypes ==
  ASSUME TypeInv, NEW p \in Consumers,
         SetSubmissionState(p) \/ FailSubmission(p)
  PROVE  TypeInv'
<1>1. Sub(p) \in Submissions
  BY AtWork DEF SetSubmissionState, FailSubmission
<1>2. RowTypeOK'
  BY <1>1
     DEF SetSubmissionState, FailSubmission, TypeInv, TypeOK, RowTypeOK,
         HandlerTypeOK, States
<1>3. HandlerTypeOK' /\ HandlerShape'
  BY GotoType
     DEF SetSubmissionState, FailSubmission, busVars, HandlerSteps, StageSteps
<1> QED
  BY <1>2, <1>3
     DEF SetSubmissionState, FailSubmission, TypeInv, TypeOK, BusTypeOK,
         StoreTypeOK, RequestTypeOK, BudgetTypeOK, RequestShape, busVars,
         storeVars, gradeVars, budget

LEMMA DispatchTypes ==
  ASSUME TypeInv, NEW p \in Consumers, dispatchNext(p)
  PROVE  TypeInv'
<1>1. Env(p) \in Envelopes
  BY AtWork DEF dispatchNext
<1>2. BusTypeOK'
  <2>1. queue' = Dispatched(Env(p), goal[p]) /\ UNCHANGED hand
    BY DEF dispatchNext
  <2>2. \/ queue' = queue
        \/ \E q \in Queues, env \in Envelopes :
             queue' = Published(queue, q, env)
    BY <1>1, <2>1
       DEF Dispatched, Queues, WorkQueues, StageQueues, Envelope, Envelopes,
           Refs, Stages, WorkStages, ResultStages
  <2> QED BY <2>1, <2>2, PublishType DEF TypeInv, TypeOK, BusTypeOK
<1>3. HandlerTypeOK' /\ HandlerShape'
  BY GotoType DEF dispatchNext, HandlerSteps, StageSteps
<1> QED
  BY <1>2, <1>3
     DEF dispatchNext, TypeInv, TypeOK, RowTypeOK, StoreTypeOK, RequestTypeOK,
         BudgetTypeOK, RequestShape, tableVars, storeVars, gradeVars, budget

\* The stage workers' steps.
LEMMA StoreTypes ==
  ASSUME TypeInv, NEW p \in Consumers,
         \/ Render(p) \/ Transcribe(p) \/ PutFlags(p) \/ GradePaper(p)
         \/ archivePriorGradedArtifact(p) \/ PutGraded(p)
  PROVE  TypeInv'
<1>1. Sub(p) \in Submissions
  BY AtWork
     DEF Render, Transcribe, PutFlags, GradePaper, archivePriorGradedArtifact,
         PutGraded
<1>2. StoreTypeOK'
  <2>1. CASE Render(p) \/ Transcribe(p)
    BY <1>1, <2>1
       DEF Render, Transcribe, TypeInv, TypeOK, StoreTypeOK, StoredObjects,
           gradeVars
  <2>2. CASE PutFlags(p)
    BY <1>1, <2>2 DEF PutFlags, TypeInv, TypeOK, StoreTypeOK, gradeVars
  <2>3. CASE GradePaper(p)
    BY <1>1, <2>3 DEF GradePaper, TypeInv, TypeOK, StoreTypeOK
  <2>4. CASE archivePriorGradedArtifact(p)
    <3>1. archive[Sub(p)] \cup ({graded[Sub(p)]} \ {0}) \in SUBSET (Nat \ {0})
      BY <1>1 DEF TypeInv, TypeOK, StoreTypeOK
    <3> QED
      BY <1>1, <2>4, <3>1
         DEF archivePriorGradedArtifact, TypeInv, TypeOK, StoreTypeOK
  <2>5. CASE PutGraded(p)
    BY <1>1, <2>5 DEF PutGraded, TypeInv, TypeOK, StoreTypeOK, HandlerTypeOK
  <2> QED BY <2>1, <2>2, <2>3, <2>4, <2>5
<1>3. HandlerTypeOK' /\ HandlerShape'
  <2>1. CASE GradePaper(p)
    BY <1>1, <2>1
       DEF GradePaper, Goto, TypeInv, TypeOK, HandlerTypeOK, HandlerShape,
           StoreTypeOK, HandlerSteps, StageSteps, busVars
  <2>2. CASE ~GradePaper(p)
    <3>1. QueueOf(p) \in StageQueues
      BY <2>2
         DEF Render, Transcribe, PutFlags, archivePriorGradedArtifact,
             PutGraded, TypeInv, HandlerShape, StageSteps
    <3> QED
      BY <2>2, <3>1, GotoType
         DEF Render, Transcribe, PutFlags, archivePriorGradedArtifact,
             PutGraded, HandlerSteps, busVars
  <2> QED BY <2>1, <2>2
<1>4. UNCHANGED <<busVars, tableVars, req, budget>>
  BY DEF Render, Transcribe, PutFlags, GradePaper, archivePriorGradedArtifact,
         PutGraded
<1> QED
  BY <1>2, <1>3, <1>4
     DEF TypeInv, TypeOK, BusTypeOK, RowTypeOK, RequestTypeOK, BudgetTypeOK,
         RequestShape, busVars, tableVars, budget

LEMMA ReportTypes ==
  ASSUME TypeInv, NEW p \in Consumers, PublishResult(p)
  PROVE  TypeInv'
<1>1. Sub(p) \in Submissions
  BY AtWork DEF PublishResult
<1>2. QueueOf(p) \in StageQueues
  BY DEF PublishResult, TypeInv, HandlerShape, StageSteps
<1> DEFINE r == Report[QueueOf(p)]
<1>3. Envelope(Sub(p), r[1], r[2]) \in Envelopes
  <2>1. r[1] \in Stages /\ r[2] \in Refs
    BY <1>2 DEF Report, StageQueues, Stages, ResultStages, Refs
  <2> QED BY <1>1, <2>1 DEF Envelope, Envelopes
<1>4. BusTypeOK'
  BY <1>3, PublishType
     DEF PublishResult, Publish, Queues, WorkQueues
<1>5. HandlerTypeOK' /\ HandlerShape'
  BY GotoType DEF PublishResult, HandlerSteps, StageSteps
<1> QED
  BY <1>4, <1>5
     DEF PublishResult, TypeInv, TypeOK, RowTypeOK, StoreTypeOK, RequestTypeOK,
         BudgetTypeOK, RequestShape, tableVars, storeVars, gradeVars, budget

LEMMA StageRejectsTypes ==
  ASSUME TypeInv, NEW p \in Consumers, StageRejects(p)
  PROVE  TypeInv'
<1>1. BusTypeOK' /\ HandlerTypeOK' /\ HandlerShape'
  BY RejectTypes DEF StageRejects
<1> QED
  BY <1>1
     DEF StageRejects, TypeInv, TypeOK, RowTypeOK, StoreTypeOK, RequestTypeOK,
         BudgetTypeOK, RequestShape, tableVars, storeVars, gradeVars, budget

\* The API handlers' steps.
LEMMA CallTypes ==
  ASSUME TypeInv, NEW r \in Slots, NEW s \in Submissions, Call(r, s)
  PROVE  TypeInv'
<1> DEFINE opened(op, step) ==
             req' = [req EXCEPT ![r] = [op |-> op, sub |-> s, at |-> step,
                                        pass |-> 0]]
<1>1. \/ opened("submit_exam", "put")
      \/ \E op \in {"approve", "regenerate"} : opened(op, "load")
      \/ \E op \in {"publish", "export", "regrade"} : opened(op, "audit")
  BY DEF Call, PostSubmission, Approve, PublishHandler, Export, RegradeAppeal, Regenerate,
         Open
<1>2. RequestTypeOK' /\ RequestShape'
  BY <1>1 DEF TypeInv, TypeOK, RequestTypeOK, RequestShape, Requests
<1>3. RowTypeOK'
  <2>1. UNCHANGED srcKey
    BY DEF Call, PostSubmission, Approve, PublishHandler, Export,
           RegradeAppeal, Regenerate, Open
  <2>2. \/ state' = [state EXCEPT ![s] = "uploaded"]
        \/ UNCHANGED state
    BY DEF Call, PostSubmission, Approve, PublishHandler, Export,
           RegradeAppeal, Regenerate
  <2> QED BY <2>1, <2>2 DEF TypeInv, TypeOK, RowTypeOK, States
<1>4. /\ UNCHANGED <<busVars, storeVars, localVars, faults, deaths>>
      /\ calls < MaxCalls /\ calls' = calls + 1
  BY DEF Call, PostSubmission, Approve, PublishHandler, Export, RegradeAppeal, Regenerate,
         Open
<1>5. BudgetTypeOK'
  BY <1>4, BoundsAssumption DEF TypeInv, TypeOK, BudgetTypeOK
<1> QED
  BY <1>2, <1>3, <1>4, <1>5
     DEF TypeInv, TypeOK, BusTypeOK, StoreTypeOK, HandlerTypeOK, HandlerShape,
         busVars, storeVars, gradeVars, localVars

\* A request in progress.
LEMMA InRequest ==
  ASSUME TypeInv, NEW r \in Slots, req[r] # NoReq
  PROVE  req[r] \in Requests /\ req[r].sub \in Submissions
BY DEF TypeInv, TypeOK, RequestTypeOK, Requests

\* Only commands are sent.
LEMMA SentCommand ==
  ASSUME TypeInv, NEW r \in Slots, req[r] # NoReq, req[r].at = "send"
  PROVE  req[r].op \in CommandStages
BY InRequest DEF TypeInv, RequestShape, Requests, CommandStages

LEMMA RequestTypes ==
  ASSUME TypeInv, NEW r \in Slots, RequestStep(r)
  PROVE  TypeInv'
<1> DEFINE s == req[r].sub
<1>1. req[r] \in Requests /\ s \in Submissions
  BY InRequest
     DEF RequestStep, PutPDF, SetSourcePDFKey, LoadGraded,
         PutRegenerated, InsertAuditEvent,
         PutSnapshot, InsertFinalGrade, PutRegenerated, SendCommand, At
<1>2. CASE PutPDF(r)
  <2>1. StoreTypeOK'
    BY <1>1, <1>2
       DEF PutPDF, TypeInv, TypeOK, StoreTypeOK, StoredObjects, gradeVars
  <2>2. RequestTypeOK' /\ RequestShape'
    BY <1>1, <1>2
       DEF PutPDF, At, GotoReq, TypeInv, TypeOK, RequestTypeOK, RequestShape,
           Requests
  <2> QED
    BY <1>2, <2>1, <2>2
       DEF PutPDF, TypeInv, TypeOK, BusTypeOK, RowTypeOK, HandlerTypeOK,
           HandlerShape, BudgetTypeOK, busVars, tableVars, localVars, budget
<1>3. CASE SetSourcePDFKey(r)
  <2>1. RowTypeOK'
    BY <1>1, <1>3 DEF SetSourcePDFKey, TypeInv, TypeOK, RowTypeOK
  <2>2. RequestTypeOK' /\ RequestShape'
    BY <1>1, <1>3
       DEF SetSourcePDFKey, At, GotoReq, TypeInv, TypeOK, RequestTypeOK,
           RequestShape, Requests
  <2> QED
    BY <1>3, <2>1, <2>2
       DEF SetSourcePDFKey, TypeInv, TypeOK, BusTypeOK, StoreTypeOK,
           HandlerTypeOK, HandlerShape, BudgetTypeOK, busVars, storeVars,
           gradeVars, localVars, budget
<1>4. CASE LoadGraded(r)
  <2>1. graded[s] \in Nat
    BY <1>1 DEF TypeInv, TypeOK, StoreTypeOK
  <2>2. RequestTypeOK' /\ RequestShape'
    BY <1>1, <1>4, <2>1
       DEF LoadGraded, At, TypeInv, TypeOK, RequestTypeOK, RequestShape,
           Requests
  <2> QED
    BY <1>4, <2>2
       DEF LoadGraded, TypeInv, TypeOK, BusTypeOK, RowTypeOK, StoreTypeOK,
           HandlerTypeOK, HandlerShape, BudgetTypeOK, busVars, tableVars,
           storeVars, gradeVars, localVars, budget
<1>5. CASE InsertAuditEvent(r)
  <2>1. AuditAction(req[r].op) \in AuditActions
    BY <1>1, <1>5
       DEF InsertAuditEvent, At, AuditAction, AuditActions, TypeInv,
           RequestShape, Requests
  <2>2. StoreTypeOK'
    BY <1>1, <1>5, <2>1
       DEF InsertAuditEvent, TypeInv, TypeOK, StoreTypeOK, gradeVars
  <2>3. RequestTypeOK' /\ RequestShape'
    BY <1>1, <1>5
       DEF InsertAuditEvent, At, GotoReq, TypeInv, TypeOK, RequestTypeOK,
           RequestShape, Requests
  <2> QED
    BY <1>5, <2>2, <2>3
       DEF InsertAuditEvent, TypeInv, TypeOK, BusTypeOK, RowTypeOK,
           HandlerTypeOK, HandlerShape, BudgetTypeOK, busVars, tableVars,
           localVars, budget
<1>6. CASE PutSnapshot(r)
  <2>1. StoreTypeOK'
    BY <1>1, <1>6 DEF PutSnapshot, TypeInv, TypeOK, StoreTypeOK, Requests
  <2>2. RequestTypeOK' /\ RequestShape'
    BY <1>1, <1>6
       DEF PutSnapshot, At, GotoReq, TypeInv, TypeOK, RequestTypeOK,
           RequestShape, Requests
  <2> QED
    BY <1>6, <2>1, <2>2
       DEF PutSnapshot, TypeInv, TypeOK, BusTypeOK, RowTypeOK, HandlerTypeOK,
           HandlerShape, BudgetTypeOK, busVars, tableVars, localVars, budget
<1>7. CASE InsertFinalGrade(r)
  <2>1. StoreTypeOK'
    BY <1>1, <1>7
       DEF InsertFinalGrade, TypeInv, TypeOK, StoreTypeOK, Requests, gradeVars
  <2>2. RequestTypeOK' /\ RequestShape'
    BY <1>1, <1>7
       DEF InsertFinalGrade, At, GotoReq, TypeInv, TypeOK, RequestTypeOK,
           RequestShape, Requests
  <2> QED
    BY <1>7, <2>1, <2>2
       DEF InsertFinalGrade, TypeInv, TypeOK, BusTypeOK, RowTypeOK,
           HandlerTypeOK, HandlerShape, BudgetTypeOK, busVars, tableVars,
           localVars, budget
<1>8. CASE SendCommand(r)
  <2>1. Envelope(s, req[r].op, "") \in Envelopes
    BY <1>1, <1>8, SentCommand
       DEF SendCommand, At, Envelope, Envelopes, Stages, Refs
  <2>2. BusTypeOK'
    BY <1>8, <2>1, PublishType
       DEF SendCommand, Publish, Queues, WorkQueues
  <2>3. RequestTypeOK' /\ RequestShape'
    BY <1>8 DEF SendCommand, TypeInv, TypeOK, RequestTypeOK, RequestShape
  <2> QED
    BY <1>8, <2>2, <2>3
       DEF SendCommand, TypeInv, TypeOK, RowTypeOK, StoreTypeOK,
           HandlerTypeOK, HandlerShape, BudgetTypeOK, tableVars, storeVars,
           gradeVars, localVars, budget
<1>9. CASE PutRegenerated(r)
  <2>1. StoreTypeOK'
    BY <1>1, <1>9 DEF PutRegenerated, TypeInv, TypeOK, StoreTypeOK, Requests
  <2>2. RequestTypeOK' /\ RequestShape'
    BY <1>9 DEF PutRegenerated, TypeInv, TypeOK, RequestTypeOK, RequestShape
  <2> QED
    BY <1>9, <2>1, <2>2
       DEF PutRegenerated, TypeInv, TypeOK, BusTypeOK, RowTypeOK, HandlerTypeOK,
           HandlerShape, BudgetTypeOK, busVars, tableVars, localVars, budget
<1> QED
  BY <1>2, <1>3, <1>4, <1>5, <1>6, <1>7, <1>8, <1>9 DEF RequestStep

LEMMA OperatorTypes ==
  ASSUME TypeInv, NEW s \in Submissions, OperatorCommand(s)
  PROVE  TypeInv'
<1>1. BudgetTypeOK'
  <2>1. calls < MaxCalls /\ calls' = calls + 1 /\ UNCHANGED <<faults, deaths>>
    BY DEF OperatorCommand
  <2> QED BY <2>1, BoundsAssumption DEF TypeInv, TypeOK, BudgetTypeOK
<1>2. PICK c \in OperatorCommands, ref \in {"", "render-result.json"} :
        Publish("commands.q", Envelope(s, c, ref))
  BY DEF OperatorCommand
<1>3. Envelope(s, c, ref) \in Envelopes
  BY <1>2, OperatorAssumption
     DEF Envelope, Envelopes, Stages, CommandStages, Refs
<1>4. BusTypeOK'
  BY <1>2, <1>3, PublishType
     DEF OperatorCommand, Publish, Queues, WorkQueues
<1> QED
  BY <1>1, <1>4
     DEF OperatorCommand, TypeInv, TypeOK, RowTypeOK, StoreTypeOK,
         HandlerTypeOK, HandlerShape, RequestTypeOK, RequestShape, tableVars,
         storeVars, gradeVars, localVars

\* The faults of consumers.
LEMMA ConsumerFaultTypes ==
  ASSUME TypeInv, NEW p \in Consumers, CallFails(p) \/ Crash(p) \/ Lose(p)
  PROVE  TypeInv'
<1>1. BusTypeOK' /\ HandlerTypeOK' /\ HandlerShape'
  <2>1. CASE CallFails(p)
    BY <2>1, RejectTypes DEF CallFails
  <2>2. CASE Crash(p)
    <3>1. BusTypeOK'
      BY <2>2, AtWork, DeliveriesRedeliverable, AbandonType
         DEF Crash, TypeInv, TypeOK, BusTypeOK
    <3> QED BY <2>2, <3>1, ReturnType DEF Crash, Abandon
  <2>3. CASE Lose(p)
    <3>1. BusTypeOK'
      BY <2>3 DEF Lose, TypeInv, TypeOK, BusTypeOK, busVars
    <3> QED
      BY <2>3, <3>1, GotoType DEF Lose, busVars, HandlerSteps, StageSteps
  <2> QED BY <2>1, <2>2, <2>3
<1>2. /\ UNCHANGED <<tableVars, storeVars, req, calls>>
      /\ faults < MaxFaults /\ faults' = faults + 1
      /\ deaths' \in {deaths, deaths + 1}
  /\ deaths' \in {deaths, deaths + 1}
  BY DEF CallFails, Crash, Lose, Fault
<1>3. BudgetTypeOK'
  BY <1>2, BoundsAssumption DEF TypeInv, TypeOK, BudgetTypeOK
<1> QED
  BY <1>1, <1>2, <1>3
     DEF TypeInv, TypeOK, RowTypeOK, StoreTypeOK, RequestTypeOK, RequestShape,
         tableVars, storeVars, gradeVars

LEMMA RequestFailsTypes ==
  ASSUME TypeInv, NEW r \in Slots, RequestFails(r)
  PROVE  TypeInv'
<1>1. RequestTypeOK' /\ RequestShape'
  BY DEF RequestFails, TypeInv, TypeOK, RequestTypeOK, RequestShape
<1>2. BudgetTypeOK'
  BY BoundsAssumption
     DEF RequestFails, Fault, TypeInv, TypeOK, BudgetTypeOK
<1> QED
  BY <1>1, <1>2
     DEF RequestFails, TypeInv, TypeOK, BusTypeOK, RowTypeOK, StoreTypeOK,
         HandlerTypeOK, HandlerShape, busVars, tableVars, storeVars,
         gradeVars, localVars

LEMMA InitTypes == Init => TypeInv
<1> SUFFICES ASSUME Init PROVE TypeInv
  OBVIOUS
<1>1. BusTypeOK
  BY EmptySeq DEF Init, BusInit, BusTypeOK
<1>2. RowTypeOK /\ StoreTypeOK
  BY DEF Init, RowTypeOK, StoreTypeOK
<1>3. HandlerTypeOK /\ HandlerShape
  BY DEF Init, HandlerTypeOK, HandlerShape, HandlerSteps, StageSteps
<1>4. RequestTypeOK /\ RequestShape /\ BudgetTypeOK
  BY BoundsAssumption DEF Init, RequestTypeOK, RequestShape, BudgetTypeOK
<1> QED BY <1>1, <1>2, <1>3, <1>4 DEF TypeInv, TypeOK

LEMMA NextTypes == TypeInv /\ [Next]_vars => TypeInv'
<1> SUFFICES ASSUME TypeInv, [Next]_vars PROVE TypeInv'
  OBVIOUS
<1>1. CASE UNCHANGED vars
  BY <1>1
     DEF TypeInv, TypeOK, BusTypeOK, RowTypeOK, StoreTypeOK, HandlerTypeOK,
         RequestTypeOK, BudgetTypeOK, HandlerShape, RequestShape, vars,
         busVars, tableVars, storeVars, gradeVars, localVars, budget
<1>2. ASSUME NEW p \in Consumers, ConsumerStep(p) PROVE TypeInv'
  <2>1. CASE Deliver(p) BY <2>1, DeliverTypes
  <2>2. CASE OrchestratorStep(p)
    BY <2>2, GetTypes, DecideTypes, SetTypes, DispatchTypes
       DEF OrchestratorStep
  <2>3. CASE WorkerStep(p)
    BY <2>3, StoreTypes, ReportTypes, StageRejectsTypes DEF WorkerStep
  <2>4. CASE Finish(p) BY <2>4, FinishTypes
  <2> QED BY <1>2, <2>1, <2>2, <2>3, <2>4 DEF ConsumerStep
<1> QED
  BY <1>1, <1>2, ConsumerFaultTypes, RequestTypes, RequestFailsTypes,
     CallTypes, OperatorTypes
     DEF Next

LEMMA TypeInvariance == Spec => []TypeInv
BY InitTypes, NextTypes, PTL DEF Spec

\* Every variable keeps its type, whatever fails and however often.
THEOREM TypeCorrectness == Spec => []TypeOK
BY TypeInvariance, PTL DEF TypeInv

---------------------------------------------------------------------------
(***************************************************************************)
(* The approval gate.  Warrants only grow, so what is cleared stays so.    *)
(***************************************************************************)
Grows == \A s \in Submissions : /\ audit[s] \subseteq audit'[s]
                                /\ final[s] # 0 => final'[s] # 0

LEMMA WarrantedGrows ==
  ASSUME Grows, NEW s \in Submissions, NEW ph, Warranted(s, ph)
  PROVE  Warranted(s, ph)'
BY DEF Grows, Warranted, Approved, Publishable, Exported

LEMMA ClearedGrows ==
  ASSUME Grows, NEW env \in Envelopes, Cleared(env)
  PROVE  Cleared(env)'
BY DEF Grows, Cleared, Approved, Publishable, Exported, Envelopes

LEMMA ClearedDeliveriesGrow == Grows => ClearedDeliveries \subseteq ClearedDeliveries'
BY ClearedGrows DEF ClearedDeliveries, Deliveries

LEMMA ClearedRedeliverable ==
  /\ Redeliverable(ClearedDeliveries)
  /\ \A d \in ClearedDeliveries : d.count \in Nat
BY DEF Redeliverable, ClearedDeliveries, Deliveries, Delivery, Cleared

\* A step that gives the bus only what was cleared before it.
LEMMA BusCleared ==
  ASSUME Grows,
         queue' \in [Queues -> Seq(ClearedDeliveries)],
         hand' \in [Consumers -> ClearedDeliveries \cup {NoMsg}]
  PROVE  CommandsCleared'
<1>1. ClearedDeliveries \subseteq ClearedDeliveries'
  BY ClearedDeliveriesGrow
<1>2. Seq(ClearedDeliveries) \subseteq Seq(ClearedDeliveries')
  BY <1>1, SeqMonotonic
<1>3. /\ queue' \in [Queues -> Seq(ClearedDeliveries')]
      /\ hand' \in [Consumers -> ClearedDeliveries' \cup {NoMsg}]
  BY <1>1, <1>2
<1> QED BY <1>3 DEF CommandsCleared

\* A held delivery is cleared.
LEMMA HeldCleared ==
  ASSUME Inv, NEW p \in Consumers, at[p] # "idle"
  PROVE  hand[p] \in ClearedDeliveries /\ Cleared(Env(p))
BY DEF Inv, TypeInv, HandlerShape, GateInv, CommandsCleared,
       ClearedDeliveries, Env

LEMMA PublishCleared ==
  ASSUME Inv, Grows, NEW q \in Queues, NEW env \in Envelopes, Cleared(env),
         queue' = Published(queue, q, env), UNCHANGED hand
  PROVE  CommandsCleared'
<1>1. Delivery(env, 0) \in ClearedDeliveries
  BY DEF Delivery, ClearedDeliveries, Deliveries
<1>2. queue' \in [Queues -> Seq(ClearedDeliveries)]
  BY <1>1, PublishedType DEF Inv, GateInv, CommandsCleared
<1> QED BY <1>2, BusCleared DEF Inv, GateInv, CommandsCleared

---------------------------------------------------------------------------
\* A final grade is replaced by another and audit events are appended only.
LEMMA WarrantsGrow == Inv /\ [Next]_vars => Grows
<1> SUFFICES ASSUME Inv, [Next]_vars PROVE Grows
  OBVIOUS
<1>1. CASE UNCHANGED <<audit, final>>
  BY <1>1 DEF Grows
<1>2. ASSUME NEW r \in Slots, InsertAuditEvent(r) PROVE Grows
  <2>1. audit \in [Submissions -> SUBSET AuditActions]
    BY DEF Inv, TypeInv, TypeOK, StoreTypeOK
  <2> QED BY <1>2, <2>1 DEF InsertAuditEvent, Grows
<1>3. ASSUME NEW r \in Slots, InsertFinalGrade(r) PROVE Grows
  <2>1. req[r] # NoReq /\ req[r].at = "row"
    BY <1>3 DEF InsertFinalGrade, At
  <2>2. req[r].op = "approve"
    BY <2>1, InRequest DEF Inv, TypeInv, RequestShape, Requests
  <2>3. req[r].pass # 0
    BY <2>1, <2>2 DEF Inv, GateInv, RequestsWarranted, RequestWarranted
  <2>4. final \in [Submissions -> Nat]
    BY DEF Inv, TypeInv, TypeOK, StoreTypeOK
  <2> QED BY <1>3, <2>3, <2>4 DEF InsertFinalGrade, Grows
<1>4. ASSUME NEW p \in Consumers,
             ConsumerStep(p) \/ CallFails(p) \/ Crash(p) \/ Lose(p)
      PROVE  UNCHANGED <<audit, final>>
  BY <1>4
     DEF ConsumerStep, CallFails, Crash, Lose, Deliver, Finish,
         OrchestratorStep, GetSubmission, Decide, SetSubmissionState,
         dispatchNext, FailSubmission, WorkerStep, Render, Transcribe,
         PutFlags, GradePaper, archivePriorGradedArtifact, PutGraded,
         PublishResult, StageRejects, storeVars
<1>5. ASSUME NEW r \in Slots, ~InsertAuditEvent(r), ~InsertFinalGrade(r),
             \/ RequestStep(r) \/ RequestFails(r)
             \/ \E s \in Submissions : Call(r, s)
      PROVE  UNCHANGED <<audit, final>>
  BY <1>5
     DEF RequestStep, RequestFails, Call, PutPDF, SetSourcePDFKey, LoadGraded,
         PutRegenerated,
         PutSnapshot, SendCommand, PostSubmission, Approve, PublishHandler,
         Export, RegradeAppeal, Regenerate, Open, storeVars
<1>6. ASSUME NEW s \in Submissions, OperatorCommand(s)
      PROVE  UNCHANGED <<audit, final>>
  BY <1>6 DEF OperatorCommand, storeVars
<1>7. CASE UNCHANGED vars
  BY <1>1, <1>7 DEF vars, storeVars
<1> QED BY <1>1, <1>2, <1>3, <1>4, <1>5, <1>6, <1>7 DEF Next

\* Only a decided state, uploaded or failed is written.
LEMMA StatesStep ==
  ASSUME Inv, [Next]_vars, Grows
  PROVE  StatesWarranted'
<1>1. ASSUME UNCHANGED state PROVE StatesWarranted'
  BY <1>1
     DEF Inv, GateInv, StatesWarranted, Warranted, Approved, Publishable,
         Exported, Grows
<1>2. ASSUME NEW s \in Submissions, NEW x, Warranted(s, x),
             state' = [state EXCEPT ![s] = x]
      PROVE  StatesWarranted'
  <2>1. \A u \in Submissions : Warranted(u, state'[u])
    BY <1>2 DEF Inv, TypeInv, TypeOK, RowTypeOK, GateInv, StatesWarranted
  <2> QED
    BY <2>1
       DEF StatesWarranted, Warranted, Approved, Publishable, Exported, Grows
<1>3. ASSUME NEW p \in Consumers, SetSubmissionState(p) \/ FailSubmission(p)
      PROVE  StatesWarranted'
  <2>1. Sub(p) \in Submissions
    BY <1>3, AtWork DEF SetSubmissionState, FailSubmission, Inv
  <2>2. CASE SetSubmissionState(p)
    <3>1. Warranted(Sub(p), goal[p])
      BY <2>2 DEF SetSubmissionState, Inv, GateInv, GoalsWarranted
    <3> QED BY <1>2, <2>1, <2>2, <3>1 DEF SetSubmissionState
  <2>3. CASE FailSubmission(p)
    <3>1. Warranted(Sub(p), "failed")
      BY DEF Warranted
    <3> QED BY <1>2, <2>1, <2>3, <3>1 DEF FailSubmission
  <2> QED BY <1>3, <2>2, <2>3
<1>4. ASSUME NEW p \in Consumers, ~SetSubmissionState(p), ~FailSubmission(p),
             ConsumerStep(p) \/ CallFails(p) \/ Crash(p) \/ Lose(p)
      PROVE  UNCHANGED state
  BY <1>4
     DEF ConsumerStep, CallFails, Crash, Lose, Deliver, Finish,
         OrchestratorStep, GetSubmission, Decide, dispatchNext, WorkerStep,
         Render, Transcribe, PutFlags, GradePaper, archivePriorGradedArtifact,
         PutGraded, PublishResult, StageRejects, tableVars
<1>5. ASSUME NEW r \in Slots, RequestStep(r) \/ RequestFails(r)
      PROVE  UNCHANGED state
  BY <1>5
     DEF RequestStep, RequestFails, PutPDF, SetSourcePDFKey, LoadGraded, PutRegenerated,
         InsertAuditEvent, PutSnapshot, InsertFinalGrade, SendCommand,
         tableVars
<1>6. ASSUME NEW r \in Slots, NEW s \in Submissions, Call(r, s)
      PROVE  StatesWarranted'
  <2>1. \/ UNCHANGED state
        \/ state' = [state EXCEPT ![s] = "uploaded"]
    BY <1>6 DEF Call, PostSubmission, Approve, PublishHandler, Export,
                RegradeAppeal, Regenerate
  <2>2. Warranted(s, "uploaded")
    BY DEF Warranted
  <2> QED BY <1>1, <1>2, <2>1, <2>2
<1>7. ASSUME NEW s \in Submissions, OperatorCommand(s)
      PROVE  UNCHANGED state
  BY <1>7 DEF OperatorCommand, tableVars
<1>8. CASE UNCHANGED vars
  BY <1>1, <1>8 DEF vars, tableVars
<1> QED BY <1>1, <1>3, <1>4, <1>5, <1>6, <1>7, <1>8 DEF Next

\* A handler that is about to write what it decided before this step.
Keeps(c) == at'[c] = "set" => /\ at[c] = "set"
                              /\ goal'[c] = goal[c]
                              /\ hand'[c] = hand[c]

\* A decided state beyond the gate comes from the command that asks for it.
LEMMA GoalsStep ==
  ASSUME Inv, [Next]_vars, Grows
  PROVE  GoalsWarranted'
<1> USE DEF Keeps
<1>1. ASSUME NEW c \in Consumers, at[c] = "set", goal'[c] = goal[c],
             hand'[c] = hand[c]
      PROVE  Warranted(Sub(c), goal[c])'
  <2>1. Sub(c) \in Submissions /\ Warranted(Sub(c), goal[c])
    BY <1>1, AtWork DEF Inv, GateInv, GoalsWarranted
  <2> QED
    BY <1>1, <2>1
       DEF Warranted, Approved, Publishable, Exported, Grows, Sub, Env
<1>2. (\A c \in Consumers : Keeps(c)) => GoalsWarranted'
  BY <1>1 DEF GoalsWarranted
<1>3. ASSUME NEW p \in Consumers, Return(p),
             \A c \in Consumers \ {p} : hand'[c] = hand[c]
      PROVE  GoalsWarranted'
  BY <1>2, <1>3 DEF Return, Goto, Inv, TypeInv, TypeOK, HandlerTypeOK
<1>4. ASSUME NEW p \in Consumers, NEW step, step # "set", Goto(p, step),
             UNCHANGED goal, \A c \in Consumers \ {p} : hand'[c] = hand[c]
      PROVE  GoalsWarranted'
  BY <1>2, <1>4 DEF Goto, Inv, TypeInv, TypeOK, HandlerTypeOK
<1>5. ASSUME NEW p \in Consumers, Decide(p) PROVE GoalsWarranted'
  <2> DEFINE next == Decision(seen[p], Env(p))
  <2>1. CASE Reject(p) BY <1>3, <2>1 DEF Reject, Nack
  <2>2. CASE Ack(p) /\ Return(p) BY <1>3, <2>2 DEF Ack
  <2>3. CASE /\ goal' = [goal EXCEPT ![p] = next]
             /\ Goto(p, "set")
             /\ UNCHANGED hand
    <3>1. Cleared(Env(p)) /\ Env(p) \in Envelopes /\ Sub(p) \in Submissions
      BY <1>5, HeldCleared, AtWork DEF Decide, Inv
    <3>2. seen[p] \in States \cup {NoState}
      BY DEF Inv, TypeInv, TypeOK, HandlerTypeOK
    <3>3. Warranted(Sub(p), next)
      <4>1. CASE next \in Finalised
        BY <3>1, <3>2, <4>1, OnlyByCommand DEF Cleared, Warranted, Sub
      <4>2. CASE next \notin Finalised
        BY <4>2 DEF Warranted, Finalised
      <4> QED BY <4>1, <4>2
    <3>4. /\ goal'[p] = next
          /\ \A c \in Consumers \ {p} : Keeps(c)
      BY <2>3 DEF Goto, Inv, TypeInv, TypeOK, HandlerTypeOK
    <3>5. Warranted(Sub(p), goal[p])'
      BY <2>3, <3>1, <3>3, <3>4
         DEF Warranted, Approved, Publishable, Exported, Grows, Sub, Env
    <3> QED BY <1>1, <3>4, <3>5 DEF GoalsWarranted
  <2> QED BY <1>5, <2>1, <2>2, <2>3 DEF Decide, busVars
<1>6. ASSUME NEW p \in Consumers, ~Decide(p),
             ConsumerStep(p) \/ CallFails(p) \/ Crash(p) \/ Lose(p)
      PROVE  GoalsWarranted'
  <2>1. CASE Finish(p) \/ StageRejects(p) \/ CallFails(p) \/ Crash(p)
    <3>1. Return(p) /\ (Ack(p) \/ Nack(p) \/ Abandon(p))
      BY <2>1 DEF Finish, StageRejects, CallFails, Crash, Reject
    <3>2. hand' = [hand EXCEPT ![p] = NoMsg]
      BY <3>1 DEF Ack, Nack, Abandon
    <3> QED BY <1>3, <3>1, <3>2
  <2>2. CASE Deliver(p)
    <3>1. FirstStep(QueueOf(p)) # "set"
      BY DEF FirstStep
    <3> QED BY <1>4, <2>2, <3>1 DEF Deliver, Receive
  <2>3. CASE OrchestratorStep(p)
    BY <1>4, <1>6, <2>3
       DEF OrchestratorStep, GetSubmission, SetSubmissionState, dispatchNext,
           FailSubmission, busVars
  <2>4. CASE (WorkerStep(p) /\ ~StageRejects(p)) \/ Lose(p)
    BY <1>4, <2>4
       DEF WorkerStep, Render, Transcribe, PutFlags, GradePaper,
           archivePriorGradedArtifact, PutGraded, PublishResult, Lose, busVars
  <2> QED BY <1>6, <2>1, <2>2, <2>3, <2>4 DEF ConsumerStep
<1>7. CASE UNCHANGED <<at, goal, hand>>
  BY <1>2, <1>7
<1>8. ASSUME NEW r \in Slots,
             \/ RequestStep(r) \/ RequestFails(r)
             \/ \E s \in Submissions : Call(r, s)
      PROVE  UNCHANGED <<at, goal, hand>>
  BY <1>8
     DEF RequestStep, RequestFails, Call, PutPDF, SetSourcePDFKey, LoadGraded,
         PutRegenerated,
         InsertAuditEvent, PutSnapshot, InsertFinalGrade, SendCommand,
         PostSubmission, Approve, PublishHandler, Export, RegradeAppeal, Regenerate, Open,
         localVars, busVars
<1>9. ASSUME NEW s \in Submissions, OperatorCommand(s)
      PROVE  UNCHANGED <<at, goal, hand>>
  BY <1>9 DEF OperatorCommand, localVars
<1>10. CASE UNCHANGED vars
  BY <1>7, <1>10 DEF vars, localVars, busVars
<1> QED BY <1>5, <1>6, <1>7, <1>8, <1>9, <1>10 DEF Next

\* The bus is given a command beyond the gate by SendCommand only.
LEMMA BusStep ==
  ASSUME Inv, [Next]_vars, Grows
  PROVE  CommandsCleared'
<1>1. /\ queue \in [Queues -> Seq(ClearedDeliveries)]
      /\ hand \in [Consumers -> ClearedDeliveries \cup {NoMsg}]
  BY DEF Inv, GateInv, CommandsCleared
<1>2. CASE UNCHANGED busVars
  BY <1>1, <1>2, BusCleared DEF busVars
<1>3. ASSUME NEW p \in Consumers, Ack(p) PROVE CommandsCleared'
  <2>1. hand' \in [Consumers -> ClearedDeliveries \cup {NoMsg}]
    BY <1>1, <1>3 DEF Ack
  <2> QED BY <1>1, <1>3, <2>1, BusCleared DEF Ack
<1>4. ASSUME NEW p \in Consumers, at[p] # "idle", Nack(p) \/ Abandon(p)
      PROVE  CommandsCleared'
  <2>1. hand[p] \in ClearedDeliveries
    BY <1>4, HeldCleared
  <2> QED
    BY <1>1, <1>4, <2>1, ClearedRedeliverable, NackType, AbandonType,
       BusCleared
<1>5. ASSUME NEW p \in Consumers, Deliver(p) PROVE CommandsCleared'
  BY <1>1, <1>5, ReceiveType, BusCleared DEF Deliver
<1>6. ASSUME NEW p \in Consumers, dispatchNext(p) PROVE CommandsCleared'
  <2>1. Env(p) \in Envelopes /\ UNCHANGED hand
    BY <1>6, AtWork DEF dispatchNext, Inv
  <2>2. \/ queue' = queue
        \/ \E q \in Queues, env \in Envelopes :
             Cleared(env) /\ queue' = Published(queue, q, env)
    BY <1>6, <2>1
       DEF dispatchNext, Dispatched, Queues, WorkQueues, StageQueues, Envelope,
           Envelopes, Refs, Stages, WorkStages, ResultStages, Cleared
  <2> QED BY <1>2, <2>1, <2>2, PublishCleared DEF busVars
<1>7. ASSUME NEW p \in Consumers, PublishResult(p) PROVE CommandsCleared'
  <2> DEFINE r == Report[QueueOf(p)]
             env == Envelope(Sub(p), r[1], r[2])
  <2>1. Sub(p) \in Submissions /\ QueueOf(p) \in StageQueues
    BY <1>7, AtWork
       DEF PublishResult, Inv, TypeInv, HandlerShape, StageSteps
  <2>2. r[1] \in ResultStages /\ r[2] \in Refs
    BY <2>1 DEF Report, StageQueues, ResultStages, Refs
  <2>3. env \in Envelopes /\ Cleared(env)
    BY <2>1, <2>2
       DEF Envelope, Envelopes, Stages, ResultStages, Cleared
  <2> QED
    BY <1>7, <2>3, PublishCleared DEF PublishResult, Publish, Queues, WorkQueues
<1>8. ASSUME NEW r \in Slots, SendCommand(r) PROVE CommandsCleared'
  <2> DEFINE env == Envelope(req[r].sub, req[r].op, "")
  <2>1. req[r] # NoReq /\ req[r].at = "send"
    BY <1>8 DEF SendCommand, At
  <2>2. req[r] \in Requests /\ req[r].sub \in Submissions
    BY <2>1, InRequest DEF Inv
  <2>3. RequestWarranted(req[r]) /\ RequestShape
    BY <2>1 DEF Inv, TypeInv, GateInv, RequestsWarranted
  <2>4. env \in Envelopes
    BY <2>1, <2>2, SentCommand DEF Inv, Envelope, Envelopes, Stages, Refs
  <2>5. Cleared(env)
    <3>1. req[r].op = "approve" => req[r].at # "load"
      BY <2>1
    <3> QED
      BY <2>1, <2>3, <3>1
         DEF Cleared, Envelope, RequestWarranted, Approved, Publishable,
             Exported
  <2> QED
    BY <1>8, <2>4, <2>5, PublishCleared
       DEF SendCommand, Publish, Queues, WorkQueues
<1>9. ASSUME NEW s \in Submissions, OperatorCommand(s) PROVE CommandsCleared'
  <2>1. PICK c \in OperatorCommands, ref \in {"", "render-result.json"} :
          Publish("commands.q", Envelope(s, c, ref))
    BY <1>9 DEF OperatorCommand
  <2>2. Envelope(s, c, ref) \in Envelopes /\ Cleared(Envelope(s, c, ref))
    BY <2>1, OperatorAssumption
       DEF Envelope, Envelopes, Stages, CommandStages, Refs, Cleared
  <2> QED
    BY <1>9, <2>1, <2>2, PublishCleared
       DEF OperatorCommand, Publish, Queues, WorkQueues
<1>10. ASSUME NEW p \in Consumers,
              ConsumerStep(p) \/ CallFails(p) \/ Crash(p) \/ Lose(p)
       PROVE  CommandsCleared'
  <2>1. CASE Finish(p) \/ Decide(p)
    BY <1>2, <1>3, <1>4, <2>1 DEF Finish, Decide, Reject
  <2>2. CASE StageRejects(p) \/ CallFails(p) \/ Crash(p)
    BY <1>4, <2>2 DEF StageRejects, CallFails, Crash, Reject
  <2>3. CASE OrchestratorStep(p) /\ ~Decide(p) /\ ~dispatchNext(p)
    BY <1>2, <2>3
       DEF OrchestratorStep, GetSubmission, SetSubmissionState, FailSubmission
  <2>4. CASE
      \/ WorkerStep(p) /\ ~StageRejects(p) /\ ~PublishResult(p)
      \/ Lose(p)
    BY <1>2, <2>4
       DEF WorkerStep, Render, Transcribe, PutFlags, GradePaper,
           archivePriorGradedArtifact, PutGraded, Lose
  <2> QED
    BY <1>5, <1>6, <1>7, <1>10, <2>1, <2>2, <2>3, <2>4
       DEF ConsumerStep, OrchestratorStep
<1>11. ASSUME NEW r \in Slots, ~SendCommand(r),
              \/ RequestStep(r) \/ RequestFails(r)
              \/ \E s \in Submissions : Call(r, s)
       PROVE  UNCHANGED busVars
  BY <1>11
     DEF RequestStep, RequestFails, Call, PutPDF, SetSourcePDFKey, LoadGraded,
         PutRegenerated,
         InsertAuditEvent, PutSnapshot, InsertFinalGrade,
         PostSubmission, Approve, PublishHandler, Export, RegradeAppeal, Regenerate, Open
<1>12. CASE UNCHANGED vars
  BY <1>2, <1>12 DEF vars
<1> QED BY <1>2, <1>8, <1>9, <1>10, <1>11, <1>12 DEF Next

\* A request goes on only with the warrant of what it does next.
LEMMA RequestsStep ==
  ASSUME Inv, [Next]_vars, Grows
  PROVE  RequestsWarranted'
<1> USE DEF RequestWarranted, Approved, Publishable
<1>1. ASSUME NEW c \in Slots, req[c] # NoReq, req'[c] = req[c]
      PROVE  RequestWarranted(req[c])'
  <2>1. RequestWarranted(req[c])
    BY <1>1 DEF Inv, GateInv, RequestsWarranted
  <2>2. req[c].sub \in Submissions
    BY <1>1, InRequest DEF Inv
  <2> QED BY <1>1, <2>1, <2>2 DEF Grows
<1>2. ASSUME NEW r \in Slots, NEW x, req' = [req EXCEPT ![r] = x],
             x # NoReq => RequestWarranted(req[r])'
      PROVE  RequestsWarranted'
  <2>1. \A c \in Slots \ {r} : req'[c] = req[c]
    BY <1>2 DEF Inv, TypeInv, TypeOK, RequestTypeOK
  <2>2. req'[r] = x
    BY <1>2 DEF Inv, TypeInv, TypeOK, RequestTypeOK
  <2> QED BY <1>1, <1>2, <2>1, <2>2 DEF RequestsWarranted
<1>3. CASE UNCHANGED req
  BY <1>1, <1>3 DEF RequestsWarranted
<1>4. ASSUME NEW r \in Slots,
             SendCommand(r) \/ PutRegenerated(r) \/ RequestFails(r)
      PROVE  RequestsWarranted'
  BY <1>2, <1>4 DEF SendCommand, PutRegenerated, RequestFails
<1>5. ASSUME NEW r \in Slots, RequestStep(r), ~SendCommand(r), ~PutRegenerated(r)
      PROVE  RequestsWarranted'
  <2> DEFINE s == req[r].sub
             x == req'[r]
  <2>1. /\ req[r] # NoReq
        /\ req[r] \in Requests
        /\ s \in Submissions
        /\ RequestWarranted(req[r])
    BY <1>5, InRequest
       DEF RequestStep, PutPDF, SetSourcePDFKey, LoadGraded, InsertAuditEvent,
           PutSnapshot, InsertFinalGrade, At, Inv, GateInv, RequestsWarranted
  <2>2. /\ req' = [req EXCEPT ![r] = x]
        /\ x # NoReq => x.op = req[r].op /\ x.sub = s
    BY <1>5, <2>1
       DEF RequestStep, PutPDF, SetSourcePDFKey, LoadGraded, InsertAuditEvent,
           PutSnapshot, InsertFinalGrade, GotoReq, Inv, TypeInv, TypeOK,
           RequestTypeOK, Requests
  <2>3. CASE PutPDF(r) \/ SetSourcePDFKey(r)
    <3>1. req[r].op = "submit_exam"
      BY <2>1, <2>3
         DEF PutPDF, SetSourcePDFKey, At, Inv, TypeInv, RequestShape, Requests
    <3> QED BY <1>2, <2>2, <3>1
  <2>4. CASE LoadGraded(r)
    <3>1. req[r].op \in {"approve", "regenerate"}
      BY <2>1, <2>4
         DEF LoadGraded, At, Inv, TypeInv, RequestShape, Requests
    <3>2. x # NoReq => x.at = "audit" /\ x.pass # 0
      BY <2>1, <2>4
         DEF LoadGraded, Inv, TypeInv, TypeOK, RequestTypeOK, Requests
    <3> QED BY <1>2, <2>2, <3>1, <3>2
  <2>5. CASE InsertAuditEvent(r)
    <3>1. /\ x.pass = req[r].pass /\ req[r].at = "audit"
          /\ req[r].op = "approve" => x.at = "snapshot"
          /\ req[r].op = "regenerate" => x.at = "rewrite"
          /\ req[r].op \notin {"approve", "regenerate"} => x.at = "send"
      BY <2>1, <2>5
         DEF InsertAuditEvent, At, GotoReq, Inv, TypeInv, TypeOK,
             RequestTypeOK, Requests
    <3>2. /\ final' = final
          /\ audit'[s] = audit[s] \cup {AuditAction(req[r].op)}
      BY <2>1, <2>5
         DEF InsertAuditEvent, Inv, TypeInv, TypeOK, StoreTypeOK
    <3>3. x # NoReq => RequestWarranted(req[r])'
      BY <2>1, <2>2, <3>1, <3>2 DEF AuditAction
    <3> QED BY <1>2, <2>2, <3>3
  <2>6. CASE PutSnapshot(r)
    <3>1. /\ x.pass = req[r].pass /\ req[r].at = "snapshot" /\ x.at = "row"
          /\ req[r].op = "approve" /\ UNCHANGED <<audit, final>>
      BY <2>1, <2>6
         DEF PutSnapshot, At, GotoReq, Inv, TypeInv, TypeOK, RequestTypeOK,
             RequestShape, Requests
    <3> QED BY <1>2, <2>1, <2>2, <3>1
  <2>7. CASE InsertFinalGrade(r)
    <3>1. /\ x.pass = req[r].pass /\ req[r].at = "row" /\ x.at = "send"
          /\ req[r].op = "approve"
      BY <2>1, <2>7
         DEF InsertFinalGrade, At, GotoReq, Inv, TypeInv, TypeOK,
             RequestTypeOK, RequestShape, Requests
    <3>2. audit' = audit /\ final'[s] = req[r].pass
      BY <2>1, <2>7
         DEF InsertFinalGrade, Inv, TypeInv, TypeOK, StoreTypeOK
    <3> QED BY <1>2, <2>1, <2>2, <3>1, <3>2
  <2> QED BY <1>5, <2>3, <2>4, <2>5, <2>6, <2>7 DEF RequestStep
<1>6. ASSUME NEW r \in Slots, NEW s \in Submissions, Call(r, s)
      PROVE  RequestsWarranted'
  <2> DEFINE x == req'[r]
  <2>1. /\ req' = [req EXCEPT ![r] = x]
        /\ x.sub = s
        /\ \/ x.op = "submit_exam"
           \/ x.op = "regrade"
           \/ x.op \in {"approve", "regenerate"} /\ x.at = "load"
           \/ x.op = "publish" /\ x.at = "audit" /\ state[s] = "approved"
           \/ x.op = "export" /\ x.at = "audit" /\ state[s] = "published"
        /\ UNCHANGED <<audit, final>>
    BY <1>6
       DEF Call, PostSubmission, Approve, PublishHandler, Export,
           RegradeAppeal, Regenerate, Open, storeVars, Inv, TypeInv, TypeOK, RequestTypeOK
  <2>2. Warranted(s, state[s])
    BY DEF Inv, GateInv, StatesWarranted
  <2>3. RequestWarranted(req[r])'
    BY <2>1, <2>2 DEF Warranted
  <2> QED BY <1>2, <2>1, <2>3
<1>7. ASSUME NEW p \in Consumers,
             ConsumerStep(p) \/ CallFails(p) \/ Crash(p) \/ Lose(p)
      PROVE  UNCHANGED req
  BY <1>7
     DEF ConsumerStep, CallFails, Crash, Lose, Deliver, Finish,
         OrchestratorStep, GetSubmission, Decide, SetSubmissionState,
         dispatchNext, FailSubmission, WorkerStep, Render, Transcribe,
         PutFlags, GradePaper, archivePriorGradedArtifact, PutGraded,
         PublishResult, StageRejects
<1>8. ASSUME NEW s \in Submissions, OperatorCommand(s) PROVE UNCHANGED req
  BY <1>8 DEF OperatorCommand
<1>9. CASE UNCHANGED vars
  BY <1>3, <1>9 DEF vars
<1> QED BY <1>3, <1>4, <1>5, <1>6, <1>7, <1>8, <1>9 DEF Next

LEMMA InitGate == Init => GateInv
<1> SUFFICES ASSUME Init PROVE GateInv
  OBVIOUS
<1>1. StatesWarranted
  BY NullAssumption DEF Init, StatesWarranted, Warranted, States
<1>2. CommandsCleared
  BY EmptySeq DEF Init, BusInit, CommandsCleared
<1>3. GoalsWarranted /\ RequestsWarranted
  BY DEF Init, GoalsWarranted, RequestsWarranted
<1> QED BY <1>1, <1>2, <1>3 DEF GateInv

LEMMA NextInv == Inv /\ [Next]_vars => Inv'
<1> SUFFICES ASSUME Inv, [Next]_vars PROVE Inv'
  OBVIOUS
<1>1. TypeInv' BY NextTypes DEF Inv
<1>2. Grows BY WarrantsGrow
<1>3. GateInv' BY <1>2, StatesStep, BusStep, GoalsStep, RequestsStep DEF GateInv
<1> QED BY <1>1, <1>3 DEF Inv

LEMMA Invariance == Spec => []Inv
<1>1. Init => Inv
  BY InitTypes, InitGate DEF Inv
<1> QED BY <1>1, NextInv, PTL DEF Spec

\* Every command, decided state and request that can still take a submission
\* beyond the gate has its warrant on record (the audit event and the final
\* grade that Approve, Publish and Export write before they send).
THEOREM GateInvariance == Spec => []GateInv
BY Invariance, PTL DEF Inv

---------------------------------------------------------------------------
(***************************************************************************)
(* The refinement of ApprovalGate.                                         *)
(***************************************************************************)
LEMMA GateInit == Init => Gate!GateInit
BY NullAssumption
   DEF Init, Gate!GateInit, GatePhase, GateWarrant, Finalised, States

\* A write of a submission's state is a Move: its warrant is on record.
LEMMA MoveStep ==
  ASSUME Inv, Inv', NEW s \in Submissions,
         \A u \in Submissions \ {s} : state'[u] = state[u],
         UNCHANGED <<audit, final>>
  PROVE  Gate!GateNext
<1> DEFINE ph == IF state'[s] \in Finalised THEN state'[s] ELSE "open"
<1>1. GateWarrant' = GateWarrant
  BY DEF GateWarrant
<1>2. GatePhase' = [GatePhase EXCEPT ![s] = ph]
  <2> DEFINE past(u) == IF state[u] \in Finalised THEN state[u] ELSE "open"
             now(u) == IF state'[u] \in Finalised THEN state'[u] ELSE "open"
  <2>1. GatePhase = [u \in Submissions |-> past(u)]
    BY DEF GatePhase
  <2>2. GatePhase' = [u \in Submissions |-> now(u)]
    BY DEF GatePhase
  <2>3. \A u \in Submissions : now(u) = IF u = s THEN ph ELSE past(u)
    OBVIOUS
  <2> HIDE DEF past, now, ph
  <2> QED BY <2>1, <2>2, <2>3
<1>3. ph \in Gate!Phases
  BY DEF Finalised, Gate!Phases
<1>4. /\ ph = "approved"  => Approved(s)
      /\ ph = "published" => Publishable(s)
      /\ ph = "exported"  => Exported(s)
  <2>1. Warranted(s, state[s])'
    BY DEF Inv, GateInv, StatesWarranted
  <2> QED
    BY <2>1 DEF Warranted, Approved, Publishable, Exported
<1>5. Gate!Required(ph) \subseteq GateWarrant[s]
  BY <1>3, <1>4
     DEF Gate!Required, Gate!Phases, Gate!Warrants, GateWarrant, Approved,
         Publishable, Exported
<1> QED BY <1>1, <1>2, <1>3, <1>5 DEF Gate!Move, Gate!GateNext

\* The audit event of an API handler is a Record, but for a regrade's and a
\* regeneration's, which warrant nothing.
LEMMA AuditStep ==
  ASSUME Inv, NEW r \in Slots, InsertAuditEvent(r)
  PROVE  Gate!GateNext \/ UNCHANGED <<GatePhase, GateWarrant>>
<1> DEFINE s == req[r].sub
           w == req[r].op
<1>1. req[r] # NoReq /\ req[r].at = "audit"
  BY DEF InsertAuditEvent, At
<1>2. s \in Submissions /\ req[r] \in Requests
  BY <1>1, InRequest DEF Inv
<1>3. GatePhase' = GatePhase
  BY DEF InsertAuditEvent, tableVars, GatePhase
<1>4. audit' = [audit EXCEPT ![s] = @ \cup {AuditAction(w)}] /\ final' = final
  BY DEF InsertAuditEvent
<1>5. audit \in [Submissions -> SUBSET AuditActions]
  BY DEF Inv, TypeInv, TypeOK, StoreTypeOK
<1>6. CASE w \in {"regrade", "regenerate"}
  <2>1. GateWarrant' = GateWarrant
    BY <1>2, <1>4, <1>5, <1>6 DEF GateWarrant, AuditAction
  <2> QED BY <1>3, <2>1
<1>7. CASE w \notin {"regrade", "regenerate"}
  <2>1. w \in {"approve", "publish", "export"}
    BY <1>1, <1>2, <1>7 DEF Inv, TypeInv, RequestShape, Requests
  <2>2. GateWarrant' = [GateWarrant EXCEPT ![s] = @ \cup {w}]
    BY <1>2, <1>4, <1>5, <2>1 DEF GateWarrant, AuditAction
  <2>3. RequestWarranted(req[r])
    BY <1>1 DEF Inv, GateInv, RequestsWarranted
  <2>4. Gate!Before(w) \subseteq GateWarrant[s]
    BY <1>2, <2>1, <2>3
       DEF Gate!Before, GateWarrant, RequestWarranted, Approved, Publishable
  <2>5. w \in Gate!Warrants
    BY <2>1 DEF Gate!Warrants
  <2> QED BY <1>2, <1>3, <2>2, <2>4, <2>5 DEF Gate!Record, Gate!GateNext
<1> QED BY <1>6, <1>7

\* The final_grade row is a Record, or replaces one.
LEMMA FinalStep ==
  ASSUME Inv, NEW r \in Slots, InsertFinalGrade(r)
  PROVE  Gate!GateNext
<1> DEFINE s == req[r].sub
<1>1. req[r] # NoReq /\ req[r].at = "row"
  BY DEF InsertFinalGrade, At
<1>2. s \in Submissions /\ req[r].op = "approve"
  BY <1>1, InRequest DEF Inv, TypeInv, RequestShape, Requests
<1>3. req[r].pass # 0 /\ "approve" \in audit[s]
  BY <1>1, <1>2 DEF Inv, GateInv, RequestsWarranted, RequestWarranted
<1>4. GatePhase' = GatePhase
  BY DEF InsertFinalGrade, tableVars, GatePhase
<1>5. final \in [Submissions -> Nat]
  BY DEF Inv, TypeInv, TypeOK, StoreTypeOK
<1>6. GateWarrant' = [GateWarrant EXCEPT ![s] = @ \cup {"final"}]
  BY <1>2, <1>3, <1>5 DEF InsertFinalGrade, GateWarrant
<1>7. Gate!Before("final") \subseteq GateWarrant[s] /\ "final" \in Gate!Warrants
  BY <1>2, <1>3 DEF Gate!Before, Gate!Warrants, GateWarrant
<1> QED BY <1>2, <1>4, <1>6, <1>7 DEF Gate!Record, Gate!GateNext

LEMMA GateStep ==
  Inv /\ Inv' /\ [Next]_vars => [Gate!GateNext]_<<GatePhase, GateWarrant>>
<1> SUFFICES ASSUME Inv, Inv', [Next]_vars
             PROVE  Gate!GateNext \/ UNCHANGED <<GatePhase, GateWarrant>>
  OBVIOUS
<1>1. CASE UNCHANGED <<state, audit, final>>
  BY <1>1 DEF GatePhase, GateWarrant
<1>2. ASSUME NEW p \in Consumers, SetSubmissionState(p) \/ FailSubmission(p)
      PROVE  Gate!GateNext
  <2>1. Sub(p) \in Submissions
    BY <1>2, AtWork DEF SetSubmissionState, FailSubmission, Inv
  <2>2. /\ UNCHANGED <<audit, final>>
        /\ \A u \in Submissions \ {Sub(p)} : state'[u] = state[u]
    BY <1>2
       DEF SetSubmissionState, FailSubmission, storeVars, Inv, TypeInv, TypeOK,
           RowTypeOK
  <2> QED BY <2>1, <2>2, MoveStep
<1>3. ASSUME NEW p \in Consumers, ~SetSubmissionState(p), ~FailSubmission(p),
             ConsumerStep(p) \/ CallFails(p) \/ Crash(p) \/ Lose(p)
      PROVE  UNCHANGED <<state, audit, final>>
  BY <1>3
     DEF ConsumerStep, CallFails, Crash, Lose, Deliver, Finish,
         OrchestratorStep, GetSubmission, Decide, dispatchNext, WorkerStep,
         Render, Transcribe, PutFlags, GradePaper, archivePriorGradedArtifact,
         PutGraded, PublishResult, StageRejects, tableVars, storeVars
<1>4. ASSUME NEW r \in Slots, NEW s \in Submissions, Call(r, s)
      PROVE  Gate!GateNext
  <2>1. /\ UNCHANGED <<audit, final>>
        /\ \A u \in Submissions \ {s} : state'[u] = state[u]
    BY <1>4
       DEF Call, PostSubmission, Approve, PublishHandler, Export,
           RegradeAppeal, Regenerate, Open, storeVars, Inv, TypeInv, TypeOK, RowTypeOK
  <2> QED BY <2>1, MoveStep
<1>5. ASSUME NEW r \in Slots, ~InsertAuditEvent(r), ~InsertFinalGrade(r),
             RequestStep(r) \/ RequestFails(r)
      PROVE  UNCHANGED <<state, audit, final>>
  BY <1>5
     DEF RequestStep, RequestFails, PutPDF, SetSourcePDFKey, LoadGraded, PutRegenerated,
         PutSnapshot, SendCommand, tableVars, storeVars
<1>6. ASSUME NEW s \in Submissions, OperatorCommand(s)
      PROVE  UNCHANGED <<state, audit, final>>
  BY <1>6 DEF OperatorCommand, tableVars, storeVars
<1>7. CASE UNCHANGED vars
  BY <1>1, <1>7 DEF vars, tableVars, storeVars
<1> QED
  BY <1>1, <1>2, <1>3, <1>4, <1>5, <1>6, <1>7, AuditStep, FinalStep DEF Next

\* The pipeline implements the approval gate: whatever crashes, is lost or is
\* delivered again, and however many replicas run, a submission is approved,
\* published or exported only after the human actions that phase requires.
THEOREM GateRefinement == Spec => GateSpec
BY GateInit, GateStep, Invariance, PTL DEF Spec, GateSpec, Gate!GateSpec

---------------------------------------------------------------------------
(***************************************************************************)
(* The snapshot.  An approval that is about to write the final_grade row   *)
(* has put the snapshot, which nobody removes.                             *)
(***************************************************************************)
RowsHaveSnapshot ==
  \A r \in Slots : req[r] # NoReq /\ req[r].at = "row" => snapshot[req[r].sub] # 0

SnapshotInv == FinalHasSnapshot /\ RowsHaveSnapshot

\* A step that leaves grades and snapshots alone and sends no request on to the
\* row.
LEMMA SnapshotKept ==
  ASSUME Inv, SnapshotInv, UNCHANGED <<final, snapshot>>,
         \A r \in Slots : req'[r] # NoReq /\ req'[r].at = "row" => req'[r] = req[r]
  PROVE  SnapshotInv'
BY DEF SnapshotInv, FinalHasSnapshot, RowsHaveSnapshot

\* The paper a request is about to put or record.
LEMMA ApprovingPass ==
  ASSUME Inv, NEW r \in Slots, req[r] # NoReq, req[r].at \in {"snapshot", "row"}
  PROVE  req[r] \in Requests /\ req[r].sub \in Submissions /\ req[r].pass # 0
<1>1. req[r].op = "approve"
  BY InRequest DEF Inv, TypeInv, RequestShape, Requests
<1> QED BY <1>1, InRequest DEF Inv, GateInv, RequestsWarranted, RequestWarranted

LEMMA SnapshotStep ==
  ASSUME Inv, SnapshotInv, [Next]_vars
  PROVE  SnapshotInv'
<1>0. req \in [Slots -> Requests \cup {NoReq}]
  BY DEF Inv, TypeInv, TypeOK, RequestTypeOK
<1>1. CASE UNCHANGED <<final, snapshot, req>>
  BY <1>1, SnapshotKept
<1>2. ASSUME NEW r \in Slots, NEW y, req' = [req EXCEPT ![r] = y],
             y = NoReq \/ y.at # "row", UNCHANGED <<final, snapshot>>
      PROVE  SnapshotInv'
  BY <1>0, <1>2, SnapshotKept
<1>3. ASSUME NEW r \in Slots, NEW s \in Submissions, Call(r, s) PROVE SnapshotInv'
  <2>1. ASSUME NEW op, NEW step \in {"put", "load", "audit"}, Open(r, op, s, step)
        PROVE  SnapshotInv'
    BY <1>2, <2>1 DEF Open, storeVars, gradeVars
  <2> QED BY <1>3, <2>1 DEF Call, PostSubmission, Approve, PublishHandler, Export, RegradeAppeal, Regenerate
<1>4. ASSUME NEW r \in Slots, req[r] # NoReq, NEW step, step # "row", GotoReq(r, step),
             UNCHANGED <<final, snapshot>>
      PROVE  SnapshotInv'
  <2>1. req[r] \in Requests
    BY <1>0, <1>4
  <2>2. [req[r] EXCEPT !.at = step].at = step
    BY <2>1 DEF Requests
  <2>3. req' = [req EXCEPT ![r] = [req[r] EXCEPT !.at = step]]
    BY <1>0, <1>4 DEF GotoReq
  <2> QED BY <1>2, <1>4, <2>2, <2>3
<1>5. ASSUME NEW r \in Slots, PutPDF(r) \/ SetSourcePDFKey(r) \/ InsertAuditEvent(r)
      PROVE  SnapshotInv'
  BY <1>4, <1>5 DEF PutPDF, SetSourcePDFKey, InsertAuditEvent, At, storeVars, gradeVars
<1>6. ASSUME NEW r \in Slots, LoadGraded(r) PROVE SnapshotInv'
  <2> DEFINE y == [req[r] EXCEPT !.at = "audit", !.pass = graded[req[r].sub]]
  <2>1. req[r] \in Requests
    BY <1>0, <1>6 DEF LoadGraded, At
  <2>2. y.at = "audit"
    BY <2>1 DEF Requests
  <2>3. req' = [req EXCEPT ![r] = NoReq] \/ req' = [req EXCEPT ![r] = y]
    BY <1>0, <1>6 DEF LoadGraded
  <2>4. UNCHANGED <<final, snapshot>>
    BY <1>6 DEF LoadGraded, storeVars, gradeVars
  <2> HIDE DEF y
  <2> QED BY <1>2, <2>2, <2>3, <2>4
<1>7. ASSUME NEW r \in Slots, SendCommand(r) \/ PutRegenerated(r) \/ RequestFails(r)
      PROVE  SnapshotInv'
  BY <1>2, <1>7 DEF SendCommand, PutRegenerated, RequestFails, storeVars, gradeVars
<1>8. ASSUME NEW r \in Slots, PutSnapshot(r) PROVE SnapshotInv'
  <2>1. /\ req[r] \in Requests /\ req[r].sub \in Submissions /\ req[r].pass # 0
        /\ snapshot' = [snapshot EXCEPT ![req[r].sub] = req[r].pass]
        /\ req' = [req EXCEPT ![r].at = "row"] /\ UNCHANGED final
    BY <1>8, ApprovingPass DEF PutSnapshot, At, GotoReq
  <2>2. snapshot \in [Submissions -> Nat]
    BY DEF Inv, TypeInv, TypeOK, StoreTypeOK
  <2>3. \A s \in Submissions : snapshot[s] # 0 => snapshot'[s] # 0
    BY <2>1, <2>2
  <2>4. snapshot'[req[r].sub] # 0
    BY <2>1, <2>2
  <2>5. req'[r].sub = req[r].sub /\ \A c \in Slots \ {r} : req'[c] = req[c]
    BY <1>0, <2>1 DEF Requests
  <2>6. \A c \in Slots : req[c] # NoReq => req[c].sub \in Submissions
    BY InRequest DEF Inv
  <2>7. FinalHasSnapshot'
    BY <2>1, <2>3 DEF SnapshotInv, FinalHasSnapshot
  <2>8. RowsHaveSnapshot'
    BY <2>3, <2>4, <2>5, <2>6 DEF SnapshotInv, RowsHaveSnapshot
  <2> QED BY <2>7, <2>8 DEF SnapshotInv
<1>9. ASSUME NEW r \in Slots, InsertFinalGrade(r) PROVE SnapshotInv'
  <2>1. /\ req[r] # NoReq /\ req[r].at = "row" /\ req[r].sub \in Submissions
        /\ final' = [final EXCEPT ![req[r].sub] = req[r].pass]
        /\ req' = [req EXCEPT ![r].at = "send"] /\ UNCHANGED snapshot
    BY <1>9, ApprovingPass DEF InsertFinalGrade, At, GotoReq, gradeVars
  <2>2. final \in [Submissions -> Nat]
    BY DEF Inv, TypeInv, TypeOK, StoreTypeOK
  <2>3. FinalHasSnapshot'
    BY <2>1, <2>2 DEF SnapshotInv, FinalHasSnapshot, RowsHaveSnapshot
  <2>4. req[r] \in Requests
    BY <1>0, <2>1
  <2>5. req'[r].at = "send" /\ \A c \in Slots \ {r} : req'[c] = req[c]
    BY <1>0, <2>1, <2>4 DEF Requests
  <2>6. RowsHaveSnapshot'
    BY <2>1, <2>5 DEF SnapshotInv, RowsHaveSnapshot
  <2> QED BY <2>3, <2>6 DEF SnapshotInv
<1>10. ASSUME NEW p \in Consumers,
              ConsumerStep(p) \/ CallFails(p) \/ Crash(p) \/ Lose(p)
       PROVE  UNCHANGED <<final, snapshot, req>>
  <2>1. CASE Deliver(p) \/ Finish(p) \/ CallFails(p) \/ Crash(p) \/ Lose(p)
    BY <2>1 DEF Deliver, Finish, CallFails, Crash, Lose, storeVars, gradeVars
  <2>2. CASE OrchestratorStep(p)
    BY <2>2 DEF OrchestratorStep, GetSubmission, Decide, SetSubmissionState, dispatchNext,
                FailSubmission, storeVars, gradeVars
  <2>3. CASE WorkerStep(p)
    BY <2>3 DEF WorkerStep, Render, Transcribe, PutFlags, GradePaper,
                archivePriorGradedArtifact, PutGraded, PublishResult, StageRejects,
                storeVars, gradeVars
  <2> QED BY <1>10, <2>1, <2>2, <2>3 DEF ConsumerStep
<1>11. ASSUME NEW s \in Submissions, OperatorCommand(s) PROVE UNCHANGED <<final, snapshot, req>>
  BY <1>11 DEF OperatorCommand, storeVars, gradeVars
<1>12. CASE UNCHANGED vars
  BY <1>1, <1>12 DEF vars, storeVars, gradeVars
<1> QED BY <1>1, <1>3, <1>5, <1>6, <1>7, <1>8, <1>9, <1>10, <1>11, <1>12 DEF Next, RequestStep

\* A final grade always has its snapshot, whatever fails and whoever races:
\* Approve puts graded.final.json before it inserts the row.
THEOREM SnapshotBeforeGrade == Spec => []FinalHasSnapshot
<1>1. Init => SnapshotInv
  BY DEF Init, SnapshotInv, FinalHasSnapshot, RowsHaveSnapshot
<1>2. Inv /\ SnapshotInv /\ [Next]_vars => SnapshotInv'
  BY SnapshotStep
<1>3. SnapshotInv => FinalHasSnapshot
  BY DEF SnapshotInv
<1> QED BY <1>1, <1>2, <1>3, Invariance, PTL DEF Spec

---------------------------------------------------------------------------
(***************************************************************************)
(* Attempts.  A requeue after an error stays below MaxAttempts; only one   *)
(* after a consumer's death goes beyond what there was.                    *)
(***************************************************************************)
Within(k) == {d \in Deliveries : d.count < MaxAttempts + k}

AttemptsInv == /\ queue \in [Queues -> Seq(Within(deaths))]
               /\ hand \in [Consumers -> Within(deaths) \cup {NoMsg}]

\* The bus takes deliveries within the bound of some number of deaths up to now.
LEMMA WithinGrows ==
  ASSUME NEW k \in Nat, deaths' \in Nat, k <= deaths',
         queue' \in [Queues -> Seq(Within(k))],
         hand' \in [Consumers -> Within(k) \cup {NoMsg}]
  PROVE  AttemptsInv'
<1>1. Within(k) \subseteq Within(deaths')
  BY MaxAttemptsAssumption DEF Within, Deliveries
<1>2. Seq(Within(k)) \subseteq Seq(Within(deaths'))
  BY <1>1, SeqMonotonic
<1> QED BY <1>1, <1>2 DEF AttemptsInv, Within

\* A first delivery is within any bound.
LEMMA FirstWithin ==
  ASSUME NEW k \in Nat, NEW env \in Envelopes
  PROVE  Delivery(env, 0) \in Within(k)
BY MaxAttemptsAssumption DEF Within, Delivery, Deliveries

LEMMA RequeuedWithin ==
  ASSUME NEW k \in Nat, NEW p \in Consumers, hand[p] \in Deliveries,
         hand[p].count + 1 < MaxAttempts + k,
         queue \in [Queues -> Seq(Within(k))]
  PROVE  Requeued(p) \in [Queues -> Seq(Within(k))]
<1> DEFINE n == IF QueueOf(p) \in WorkQueues THEN hand[p].count + 1 ELSE 0
           d == Delivery(hand[p].env, n)
<1>1. QueueOf(p) \in Queues
  BY DEF Consumers, QueueOf
<1>2. n \in Nat /\ n < MaxAttempts + k
  BY MaxAttemptsAssumption DEF Deliveries
<1>3. d \in Within(k)
  BY <1>2 DEF Within, Delivery, Deliveries
<1>4. <<d>> \o queue[QueueOf(p)] \in Seq(Within(k))
  BY <1>1, <1>3, ConcatProperties
<1> QED BY <1>1, <1>4 DEF Requeued

LEMMA NackWithin ==
  ASSUME TypeInv, AttemptsInv, NEW p \in Consumers, at[p] # "idle", Nack(p),
         deaths' \in Nat, deaths <= deaths'
  PROVE  AttemptsInv'
<1>1. deaths \in Nat /\ hand[p] \in Deliveries
  BY AtWork DEF TypeInv, TypeOK, BudgetTypeOK
<1>2. hand' \in [Consumers -> Within(deaths) \cup {NoMsg}]
  BY DEF Nack, AttemptsInv
<1>3. CASE hand[p].count + 1 < MaxAttempts
  <2>1. hand[p].count + 1 < MaxAttempts + deaths
    BY <1>1, <1>3, MaxAttemptsAssumption DEF Deliveries
  <2>2. queue' \in [Queues -> Seq(Within(deaths))]
    BY <1>1, <1>3, <2>1, RequeuedWithin DEF Nack, AttemptsInv
  <2> QED BY <1>1, <1>2, <2>2, WithinGrows
<1>4. CASE ~(hand[p].count + 1 < MaxAttempts) /\ QueueOf(p) \in StageQueues
  <2>1. dlq(QueueOf(p)) \in Queues /\ Delivery(hand[p].env, 0) \in Within(deaths)
    BY <1>1, <1>4, FirstWithin DEF Queues, StageDLQs, Deliveries
  <2>2. queue' \in [Queues -> Seq(Within(deaths))]
    BY <1>4, <2>1, PublishedType DEF Nack, AttemptsInv
  <2> QED BY <1>1, <1>2, <2>2, WithinGrows
<1>5. CASE ~(hand[p].count + 1 < MaxAttempts) /\ QueueOf(p) \notin StageQueues
  BY <1>1, <1>2, <1>5, WithinGrows DEF Nack, AttemptsInv
<1> QED BY <1>3, <1>4, <1>5

LEMMA AbandonWithin ==
  ASSUME TypeInv, AttemptsInv, NEW p \in Consumers, at[p] # "idle", Abandon(p),
         deaths' = deaths + 1
  PROVE  AttemptsInv'
<1>1. deaths \in Nat /\ hand[p] \in Deliveries
  BY AtWork DEF TypeInv, TypeOK, BudgetTypeOK
<1>2. hand[p] \in Within(deaths)
  BY <1>1, EmptyAssumption DEF AttemptsInv
<1>3. hand[p].count \in Nat /\ hand[p].count < MaxAttempts + deaths
  BY <1>2 DEF Within, Deliveries
<1>4. hand[p].count + 1 < MaxAttempts + (deaths + 1)
  BY <1>1, <1>3, MaxAttemptsAssumption
<1>5. Within(deaths) \subseteq Within(deaths + 1)
  BY <1>1, MaxAttemptsAssumption DEF Within, Deliveries
<1>6. Seq(Within(deaths)) \subseteq Seq(Within(deaths + 1))
  BY <1>5, SeqMonotonic
<1>7. queue \in [Queues -> Seq(Within(deaths + 1))]
  BY <1>6 DEF AttemptsInv
<1>8. queue' \in [Queues -> Seq(Within(deaths + 1))]
  BY <1>1, <1>4, <1>7, RequeuedWithin DEF Abandon
<1>9. hand' \in [Consumers -> Within(deaths + 1) \cup {NoMsg}]
  BY <1>5 DEF Abandon, AttemptsInv
<1> QED BY <1>1, <1>8, <1>9, WithinGrows

\* A new message is a first delivery.
LEMMA PublishWithin ==
  ASSUME TypeInv, AttemptsInv, NEW q \in Queues, NEW env \in Envelopes,
         queue' = Published(queue, q, env), UNCHANGED <<hand, deaths>>
  PROVE  AttemptsInv'
<1>1. deaths \in Nat
  BY DEF TypeInv, TypeOK, BudgetTypeOK
<1>2. Delivery(env, 0) \in Within(deaths)
  BY <1>1, FirstWithin
<1>3. queue' \in [Queues -> Seq(Within(deaths))]
  BY <1>2, PublishedType DEF AttemptsInv
<1> QED BY <1>1, <1>3, WithinGrows DEF AttemptsInv

LEMMA AttemptsStep ==
  ASSUME Inv, AttemptsInv, [Next]_vars
  PROVE  AttemptsInv'
<1>0. TypeInv /\ deaths \in Nat
  BY DEF Inv, TypeInv, TypeOK, BudgetTypeOK
<1>1. ASSUME UNCHANGED busVars, deaths' \in {deaths, deaths + 1}
      PROVE  AttemptsInv'
  <2>1. deaths' \in Nat /\ deaths <= deaths'
    BY <1>0, <1>1
  <2> QED BY <1>0, <1>1, <2>1, WithinGrows DEF AttemptsInv, busVars
<1>2. ASSUME NEW p \in Consumers, Ack(p), UNCHANGED deaths PROVE AttemptsInv'
  <2>1. hand' \in [Consumers -> Within(deaths) \cup {NoMsg}]
    BY <1>2 DEF Ack, AttemptsInv
  <2> QED BY <1>0, <1>2, <2>1, WithinGrows DEF Ack, AttemptsInv
<1>3. ASSUME NEW p \in Consumers, at[p] # "idle", Nack(p),
             deaths' \in {deaths, deaths + 1}
      PROVE  AttemptsInv'
  <2>1. deaths' \in Nat /\ deaths <= deaths'
    BY <1>0, <1>3
  <2> QED BY <1>0, <1>3, <2>1, NackWithin
<1>4. ASSUME NEW p \in Consumers, Deliver(p) PROVE AttemptsInv'
  <2>1. /\ queue' \in [Queues -> Seq(Within(deaths))]
        /\ hand' \in [Consumers -> Within(deaths) \cup {NoMsg}]
    BY <1>4, ReceiveType DEF Deliver, AttemptsInv
  <2> QED BY <1>0, <1>4, <2>1, WithinGrows DEF Deliver, budget
<1>5. ASSUME NEW p \in Consumers, dispatchNext(p) PROVE AttemptsInv'
  <2>1. Env(p) \in Envelopes /\ UNCHANGED <<hand, deaths>>
    BY <1>0, <1>5, AtWork DEF dispatchNext, budget
  <2>2. \/ queue' = queue
        \/ \E q \in Queues, env \in Envelopes : queue' = Published(queue, q, env)
    BY <1>5, <2>1
       DEF dispatchNext, Dispatched, Queues, WorkQueues, StageQueues, Envelope,
           Envelopes, Refs, Stages, WorkStages, ResultStages
  <2> QED BY <1>0, <1>1, <2>1, <2>2, PublishWithin DEF busVars
<1>6. ASSUME NEW p \in Consumers, PublishResult(p) PROVE AttemptsInv'
  <2> DEFINE r == Report[QueueOf(p)]
             env == Envelope(Sub(p), r[1], r[2])
  <2>1. Sub(p) \in Submissions /\ QueueOf(p) \in StageQueues
    BY <1>0, <1>6, AtWork DEF PublishResult, TypeInv, HandlerShape, StageSteps
  <2>2. r[1] \in ResultStages /\ r[2] \in Refs
    BY <2>1 DEF Report, StageQueues, ResultStages, Refs
  <2>3. env \in Envelopes
    BY <2>1, <2>2 DEF Envelope, Envelopes, Stages, ResultStages
  <2> QED
    BY <1>0, <1>6, <2>3, PublishWithin
       DEF PublishResult, Publish, Queues, WorkQueues, budget
<1>7. ASSUME NEW r \in Slots, SendCommand(r) PROVE AttemptsInv'
  <2> DEFINE env == Envelope(req[r].sub, req[r].op, "")
  <2>1. req[r] \in Requests /\ req[r].sub \in Submissions
    BY <1>7, InRequest DEF Inv, SendCommand, At
  <2>2. env \in Envelopes
    BY <1>0, <1>7, <2>1, SentCommand
       DEF SendCommand, At, Envelope, Envelopes, Stages, Refs
  <2> QED
    BY <1>0, <1>7, <2>2, PublishWithin
       DEF SendCommand, Publish, Queues, WorkQueues, budget
<1>8. ASSUME NEW s \in Submissions, OperatorCommand(s) PROVE AttemptsInv'
  <2>1. PICK c \in OperatorCommands, ref \in {"", "render-result.json"} :
          Publish("commands.q", Envelope(s, c, ref))
    BY <1>8 DEF OperatorCommand
  <2>2. Envelope(s, c, ref) \in Envelopes
    BY <2>1, OperatorAssumption DEF Envelope, Envelopes, Stages, CommandStages, Refs
  <2> QED
    BY <1>0, <1>8, <2>1, <2>2, PublishWithin
       DEF OperatorCommand, Publish, Queues, WorkQueues
<1>9. ASSUME NEW p \in Consumers,
             ConsumerStep(p) \/ CallFails(p) \/ Crash(p) \/ Lose(p)
      PROVE  AttemptsInv'
  <2>1. CASE Finish(p)
    BY <1>2, <2>1 DEF Finish, budget
  <2>2. CASE Decide(p) \/ StageRejects(p)
    <3>1. at[p] # "idle" /\ UNCHANGED deaths
      BY <2>2 DEF Decide, StageRejects, budget
    <3>2. Ack(p) \/ Nack(p) \/ UNCHANGED busVars
      BY <2>2 DEF Decide, StageRejects, Reject
    <3> QED BY <1>1, <1>2, <1>3, <3>1, <3>2
  <2>3. CASE CallFails(p)
    BY <1>3, <2>3 DEF CallFails, Reject, Fault
  <2>4. CASE Crash(p)
    BY <1>0, <2>4, AbandonWithin DEF Crash, Fault
  <2>5. CASE Lose(p)
    BY <1>1, <2>5 DEF Lose, Fault
  <2>6. CASE OrchestratorStep(p) /\ ~Decide(p) /\ ~dispatchNext(p)
    BY <1>1, <2>6
       DEF OrchestratorStep, GetSubmission, SetSubmissionState, FailSubmission, budget
  <2>7. CASE WorkerStep(p) /\ ~StageRejects(p) /\ ~PublishResult(p)
    BY <1>1, <2>7
       DEF WorkerStep, Render, Transcribe, PutFlags, GradePaper,
           archivePriorGradedArtifact, PutGraded, budget
  <2> QED
    BY <1>4, <1>5, <1>6, <1>9, <2>1, <2>2, <2>3, <2>4, <2>5, <2>6, <2>7
       DEF ConsumerStep, OrchestratorStep
<1>10. ASSUME NEW r \in Slots, ~SendCommand(r),
              \/ RequestStep(r) \/ RequestFails(r)
              \/ \E s \in Submissions : Call(r, s)
       PROVE  AttemptsInv'
  <2>1. CASE RequestStep(r)
    BY <1>1, <1>10, <2>1
       DEF RequestStep, PutPDF, SetSourcePDFKey, LoadGraded,
           PutRegenerated, InsertAuditEvent,
           PutSnapshot, InsertFinalGrade, budget
  <2>2. CASE RequestFails(r)
    BY <1>1, <2>2 DEF RequestFails, Fault
  <2>3. CASE \E s \in Submissions : Call(r, s)
    BY <1>1, <2>3
       DEF Call, PostSubmission, Approve, PublishHandler, Export, RegradeAppeal, Regenerate, Open
  <2> QED BY <1>10, <2>1, <2>2, <2>3
<1>11. CASE UNCHANGED vars
  BY <1>1, <1>11 DEF vars, budget
<1> QED BY <1>7, <1>8, <1>9, <1>10, <1>11 DEF Next

LEMMA AttemptsInit == Init => AttemptsInv
<1> SUFFICES ASSUME Init PROVE AttemptsInv
  OBVIOUS
<1>1. \A q \in Queues : <<>> \in Seq(Within(deaths))
  BY EmptySeq
<1> QED BY <1>1 DEF Init, BusInit, AttemptsInv

LEMMA WithinBound == TypeInv /\ AttemptsInv => RetriesBounded
<1> SUFFICES ASSUME TypeInv, AttemptsInv PROVE RetriesBounded
  OBVIOUS
<1>1. ASSUME NEW q \in Queues, NEW i \in DOMAIN queue[q]
      PROVE  queue[q][i].count < MaxAttempts + deaths
  <2>1. queue[q] \in Seq(Within(deaths))
    BY DEF AttemptsInv
  <2>2. queue[q][i] \in Within(deaths)
    BY <1>1, <2>1, ElementOfSeq, LenProperties
  <2> QED BY <2>2 DEF Within
<1>2. ASSUME NEW p \in Consumers, hand[p] # NoMsg
      PROVE  hand[p].count < MaxAttempts + deaths
  <2>1. hand[p] \in Within(deaths)
    BY <1>2 DEF AttemptsInv
  <2> QED BY <2>1 DEF Within
<1> QED BY <1>1, <1>2 DEF RetriesBounded

\* However many of its consumers fail, a delivery is retried below MaxAttempts
\* times, and once more for every time a consumer died holding it: the count
\* handleDelivery reads from x-delivery-count bounds the work on a poison
\* message.
THEOREM AttemptsBounded == Spec => []RetriesBounded
<1>1. Inv /\ AttemptsInv /\ [Next]_vars => AttemptsInv'
  BY AttemptsStep
<1>2. Inv /\ AttemptsInv => RetriesBounded
  BY WithinBound DEF Inv
<1> QED BY <1>1, <1>2, AttemptsInit, Invariance, PTL DEF Spec
=============================================================================
