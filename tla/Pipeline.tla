------------------------------ MODULE Pipeline ------------------------------
(***************************************************************************)
(* The grading pipeline: the API handlers that create a submission and     *)
(* command it, the orchestrator that owns its state, and the render,       *)
(* transcribe and grade workers, joined by the message bus, the submission *)
(* table and the object store.                                             *)
(*                                                                         *)
(* Every handler is split at its calls to the database, the object store   *)
(* and the broker: at[p] (consumers) and req[r].at (HTTP requests) name    *)
(* the call to be made next.  Other handlers run between two calls, and a  *)
(* call may fail, or the process die, before or after it.                  *)
(*                                                                         *)
(* Data.  An envelope is its submission, its stage and its payload_ref; a  *)
(* payload_ref is the kind of object it names.  A graded paper is the      *)
(* number of the marking pass that made it (0: there is none).             *)
(***************************************************************************)
EXTENDS MessageBus, SubmissionStates

CONSTANTS Submissions,
          Slots,             \* HTTP requests that may be in progress at once
          Papers,            \* the flags transcription may report
          OperatorCommands,  \* commands that no code in src/ publishes
          NoState, NoReq, NoFlags,
          MaxCalls,          \* bound: requests and operator commands
          FaultKinds,        \* the kinds of fault that occur
          MaxFaults          \* bound: faults

ASSUME PapersAssumption == Papers \subseteq TranscribeFlags
ASSUME OperatorAssumption ==
  OperatorCommands \subseteq {"approve_for_grading", "apply_fix",
                              "retry_stage", "flagged_for_review"}
ASSUME FaultAssumption == FaultKinds \subseteq {"call", "crash", "loss", "request"}
ASSUME BoundsAssumption == MaxCalls \in Nat /\ MaxFaults \in Nat
ASSUME NullAssumption == NoState \notin States \cup {Err} /\ NoFlags \notin Papers

VARIABLES
  state, srcKey,     \* the submission row: state; source_pdf_key is set
  audit,             \* the actions in the submission's audit trail
  final,             \* the pass recorded in final_grade
  objects,           \* the objects stored, but for the three below
  flags,             \* transcribe-result.json
  graded, snapshot,  \* graded.v1.json, graded.final.json
  archive,           \* the passes in graded.archive.N.json
  passes,            \* marking passes made so far
  undone,            \* history: the passes a regeneration of feedback overwrote
  at, seen, goal,    \* consumer: next call, state read, state decided
  mark,              \* grade worker: the pass it is storing
  req,               \* the HTTP requests in progress
  calls, faults,     \* budget counters
  deaths             \* history: the faults in which a consumer died

tableVars == <<state, srcKey>>
gradeVars == <<graded, snapshot, archive, passes, undone>>
storeVars == <<audit, final, objects, flags, gradeVars>>
localVars == <<at, seen, goal, mark>>
budget    == <<calls, faults, deaths>>
vars == <<busVars, tableVars, storeVars, localVars, req, budget>>

Refs == {"", "source.pdf", "render-result.json", "transcribe-result.json",
         "grade-result.json"}
Envelope(s, stage, ref) == [sub |-> s, stage |-> stage, ref |-> ref]
Envelopes == [sub : Submissions, stage : Stages, ref : Refs]
Deliveries == [env : Envelopes, count : Nat]

StoredObjects == {"source.pdf", "render-result.json", "transcript.v1.json"}
AuditActions == {"approve", "publish", "export", "appeal_regrade", "regenerate_feedback"}
HandlerSteps == {"idle", "get", "decide", "set", "dispatch", "ack", "fail",
                 "render", "transcribe", "flags", "grade", "archive", "put",
                 "report"}
Requests == [op : {"submit_exam", "approve", "publish", "export", "regrade", "regenerate"},
             sub : Submissions, pass : Nat,
             at : {"put", "key", "load", "audit", "snapshot", "row", "rewrite", "send"}]

ASSUME EmptyAssumption == NoMsg \notin Deliveries /\ NoReq \notin Requests

Init ==
  /\ BusInit
  /\ state = [s \in Submissions |-> NoState]
  /\ srcKey = [s \in Submissions |-> FALSE]
  /\ audit = [s \in Submissions |-> {}]
  /\ final = [s \in Submissions |-> 0]
  /\ objects = [s \in Submissions |-> {}]
  /\ flags = [s \in Submissions |-> NoFlags]
  /\ graded = [s \in Submissions |-> 0]
  /\ snapshot = [s \in Submissions |-> 0]
  /\ archive = [s \in Submissions |-> {}]
  /\ passes = [s \in Submissions |-> 0]
  /\ undone = [s \in Submissions |-> {}]
  /\ at = [p \in Consumers |-> "idle"]
  /\ seen = [p \in Consumers |-> NoState]
  /\ goal = [p \in Consumers |-> NoState]
  /\ mark = [p \in Consumers |-> 0]
  /\ req = [r \in Slots |-> NoReq]
  /\ calls = 0 /\ faults = 0 /\ deaths = 0

---------------------------------------------------------------------------
(***************************************************************************)
(* Consumers: taking a delivery and settling it.                           *)
(***************************************************************************)
Env(p) == hand[p].env
Sub(p) == Env(p).sub
Goto(p, step) == at' = [at EXCEPT ![p] = step]

FirstStep(q) == CASE q \in {"commands.q", "results.q"} -> "get"
                  [] q = "render.q"     -> "render"
                  [] q = "transcribe.q" -> "transcribe"
                  [] q = "grade.q"      -> "grade"
                  [] OTHER              -> "fail"

Deliver(p) == /\ Receive(p)
              /\ Goto(p, FirstStep(QueueOf(p)))
              /\ UNCHANGED <<tableVars, storeVars, seen, goal, mark, req,
                             budget>>

\* The handler has returned: its local variables are gone.
Return(p) == /\ Goto(p, "idle")
             /\ seen' = [seen EXCEPT ![p] = NoState]
             /\ goal' = [goal EXCEPT ![p] = NoState]
             /\ mark' = [mark EXCEPT ![p] = 0]

Finish(p) == /\ at[p] = "ack"
             /\ Ack(p) /\ Return(p)
             /\ UNCHANGED <<tableVars, storeVars, req, budget>>

\* The handler returns an error.
Reject(p) == Nack(p) /\ Return(p)

---------------------------------------------------------------------------
(***************************************************************************)
(* Orchestrator.  Each replica runs HandleEnvelope on commands.q and on    *)
(* results.q and a DLQHandler per stage, concurrently with each other.     *)
(* Envelopes always carry the tenant of their submission's row, so the     *)
(* tenant guard passes.                                                    *)
(***************************************************************************)

\* GetSubmission: the row is read and not locked.
GetSubmission(p) ==
  /\ at[p] = "get"
  /\ seen' = [seen EXCEPT ![p] = state[Sub(p)]]
  /\ Goto(p, "decide")
  /\ UNCHANGED <<busVars, tableVars, storeVars, goal, mark, req, budget>>

\* The quality flags of a transcription result, Err if the sidecar cannot be
\* fetched; no other envelope has flags.
transcribeFlags(env) ==
  IF env.stage # "transcribe.result" THEN {}
  ELSE IF env.ref = "transcribe-result.json" /\ flags[env.sub] # NoFlags
       THEN EvaluateGates(flags[env.sub], DefaultTunables)
       ELSE {Err}

Decision(cur, env) ==
  LET ev == StageToEvent(env.stage)
      fl == transcribeFlags(env)
  IN  IF ev = Err \/ Err \in fl THEN Err ELSE NextState(cur, ev, fl)

\* An error, an idempotent no-op (acknowledged at once) or a state to write.
Decide(p) ==
  /\ at[p] = "decide"
  /\ LET next == Decision(seen[p], Env(p)) IN
     \/ next = Err /\ Reject(p)
     \/ next = seen[p] /\ Ack(p) /\ Return(p)
     \/ /\ next \notin {Err, seen[p]}
        /\ goal' = [goal EXCEPT ![p] = next]
        /\ Goto(p, "set")
        /\ UNCHANGED <<busVars, seen, mark>>
  /\ UNCHANGED <<tableVars, storeVars, req, budget>>

\* The write does not depend on the state still being the one read.
SetSubmissionState(p) ==
  /\ at[p] = "set"
  /\ state' = [state EXCEPT ![Sub(p)] = goal[p]]
  /\ Goto(p, "dispatch")
  /\ UNCHANGED <<busVars, srcKey, storeVars, seen, goal, mark, req, budget>>

\* Mutant: extracting_metadata, the third hop of a render result, is forgotten.
DispatchedTwoHops(env, next) ==
  LET s == env.sub
      pdf == IF srcKey[s] THEN "source.pdf" ELSE env.ref
  IN  CASE next = "queued" ->
             Published(queue, "render.q", Envelope(s, "render", pdf))
        [] next = "splitting_pages" ->
             Published(queue, "results.q",
                       Envelope(s, "render.result", env.ref))
        [] next = "transcribing" ->
             Published(queue, "transcribe.q",
                       Envelope(s, "transcribe", env.ref))
        [] next = "grading" ->
             Published(queue, "grade.q", Envelope(s, "grade", env.ref))
        [] OTHER -> queue

\* The queue contents after the follow-up of env in the new state next.
Dispatched(env, next) ==
  LET s == env.sub
      pdf == IF srcKey[s] THEN "source.pdf" ELSE env.ref
  IN  CASE next = "queued" ->
             Published(queue, "render.q", Envelope(s, "render", pdf))
        [] next \in {"splitting_pages", "extracting_metadata"} ->
             Published(queue, "results.q",
                       Envelope(s, "render.result", env.ref))
        [] next = "transcribing" ->
             Published(queue, "transcribe.q",
                       Envelope(s, "transcribe", env.ref))
        [] next = "grading" ->
             Published(queue, "grade.q", Envelope(s, "grade", env.ref))
        [] OTHER -> queue   \* waits for a person, or is finished

dispatchNext(p) ==
  /\ at[p] = "dispatch"
  /\ queue' = Dispatched(Env(p), goal[p])
  /\ Goto(p, "ack")
  /\ UNCHANGED <<hand, tableVars, storeVars, seen, goal, mark, req, budget>>

\* DLQHandler: whatever the submission's state is by now.
FailSubmission(p) ==
  /\ at[p] = "fail"
  /\ state' = [state EXCEPT ![Sub(p)] = "failed"]
  /\ Goto(p, "ack")
  /\ UNCHANGED <<busVars, srcKey, storeVars, seen, goal, mark, req, budget>>

OrchestratorStep(p) == \/ GetSubmission(p) \/ Decide(p)
                       \/ SetSubmissionState(p) \/ dispatchNext(p)
                       \/ FailSubmission(p)

---------------------------------------------------------------------------
(***************************************************************************)
(* Stage workers.                                                          *)
(***************************************************************************)
Report == [q \in StageQueues |->
            CASE q = "render.q"     -> <<"render.result", "render-result.json">>
              [] q = "transcribe.q" ->
                   <<"transcribe.result", "transcribe-result.json">>
              [] q = "grade.q"      -> <<"grade.result", "grade-result.json">>]

\* Fetches the PDF, renders it, uploads the pages and their sidecar.
Render(p) ==
  /\ at[p] = "render"
  /\ Env(p).ref = "source.pdf" /\ "source.pdf" \in objects[Sub(p)]
  /\ objects' = [objects EXCEPT ![Sub(p)] = @ \cup {"render-result.json"}]
  /\ Goto(p, "report")
  /\ UNCHANGED <<busVars, tableVars, audit, final, flags, gradeVars, seen,
                 goal, mark, req, budget>>

\* Reads the page count from the render sidecar its envelope names, and the
\* pages; stores the transcript, then its flags.
Transcribe(p) ==
  /\ at[p] = "transcribe"
  /\ Env(p).ref = "render-result.json"
  /\ "render-result.json" \in objects[Sub(p)]
  /\ objects' = [objects EXCEPT ![Sub(p)] = @ \cup {"transcript.v1.json"}]
  /\ Goto(p, "flags")
  /\ UNCHANGED <<busVars, tableVars, audit, final, flags, gradeVars, seen,
                 goal, mark, req, budget>>

PutFlags(p) ==
  /\ at[p] = "flags"
  /\ \E paper \in Papers : flags' = [flags EXCEPT ![Sub(p)] = paper]
  /\ Goto(p, "report")
  /\ UNCHANGED <<busVars, tableVars, audit, final, objects, gradeVars, seen,
                 goal, mark, req, budget>>

\* Loads the transcript (its key does not come from the envelope), marks it.
GradePaper(p) ==
  /\ at[p] = "grade"
  /\ "transcript.v1.json" \in objects[Sub(p)]
  /\ passes' = [passes EXCEPT ![Sub(p)] = @ + 1]
  /\ mark' = [mark EXCEPT ![p] = passes[Sub(p)] + 1]
  /\ Goto(p, "archive")
  /\ UNCHANGED <<busVars, tableVars, audit, final, objects, flags, graded,
                 snapshot, archive, undone, seen, goal, req, budget>>

\* Mutants: an early return after archiving; nothing is archived; a missing
\* graded paper is archived too.
archiveAndReport(p) ==
  /\ at[p] = "archive"
  /\ archive' = [archive EXCEPT ![Sub(p)] = @ \cup ({graded[Sub(p)]} \ {0})]
  /\ Goto(p, "report")
  /\ UNCHANGED <<busVars, tableVars, audit, final, objects, flags, graded,
                 snapshot, passes, undone, seen, goal, mark, req, budget>>
archiveNothing(p) ==
  /\ at[p] = "archive"
  /\ Goto(p, "put")
  /\ UNCHANGED <<busVars, tableVars, audit, final, objects, flags, gradeVars,
                 seen, goal, mark, req, budget>>
archiveMissing(p) ==
  /\ at[p] = "archive"
  /\ archive' = [archive EXCEPT ![Sub(p)] = @ \cup {graded[Sub(p)]}]
  /\ Goto(p, "put")
  /\ UNCHANGED <<busVars, tableVars, audit, final, objects, flags, graded,
                 snapshot, passes, undone, seen, goal, mark, req, budget>>

\* Copies the graded paper about to be overwritten to a free archive slot.
archivePriorGradedArtifact(p) ==
  /\ at[p] = "archive"
  /\ archive' = [archive EXCEPT ![Sub(p)] = @ \cup ({graded[Sub(p)]} \ {0})]
  /\ Goto(p, "put")
  /\ UNCHANGED <<busVars, tableVars, audit, final, objects, flags, graded,
                 snapshot, passes, undone, seen, goal, mark, req, budget>>

PutGraded(p) ==
  /\ at[p] = "put"
  /\ graded' = [graded EXCEPT ![Sub(p)] = mark[p]]
  /\ Goto(p, "report")
  /\ UNCHANGED <<busVars, tableVars, audit, final, objects, flags, snapshot,
                 archive, passes, undone, seen, goal, mark, req, budget>>

PublishResult(p) ==
  /\ at[p] = "report"
  /\ LET r == Report[QueueOf(p)]
     IN  Publish("results.q", Envelope(Sub(p), r[1], r[2]))
  /\ Goto(p, "ack")
  /\ UNCHANGED <<hand, tableVars, storeVars, seen, goal, mark, req, budget>>

\* The input is missing, or the renderer or the AI provider rejects it.
StageRejects(p) ==
  /\ at[p] \in {"render", "transcribe", "grade"}
  /\ Reject(p)
  /\ UNCHANGED <<tableVars, storeVars, req, budget>>

WorkerStep(p) == \/ Render(p) \/ Transcribe(p) \/ PutFlags(p)
                 \/ GradePaper(p) \/ archivePriorGradedArtifact(p)
                 \/ PutGraded(p) \/ PublishResult(p) \/ StageRejects(p)

---------------------------------------------------------------------------
(***************************************************************************)
(* API handlers.  Authorisation only decides whether a handler runs.       *)
(***************************************************************************)
Open(r, op, s, step) ==
  /\ req[r] = NoReq
  /\ calls < MaxCalls
  /\ calls' = calls + 1
  /\ req' = [req EXCEPT ![r] = [op |-> op, sub |-> s, at |-> step,
                                pass |-> 0]]
  /\ UNCHANGED <<busVars, srcKey, storeVars, localVars, faults, deaths>>

Finalised == {"approved", "published", "exported"}

At(r, step) == req[r] # NoReq /\ req[r].at = step
GotoReq(r, step) == req' = [req EXCEPT ![r].at = step]

\* PostSubmission: create the row, store the PDF, record its key, command.
PostSubmission(r, s) ==
  /\ state[s] = NoState
  /\ Open(r, "submit_exam", s, "put")
  /\ state' = [state EXCEPT ![s] = "uploaded"]

PutPDF(r) ==
  /\ At(r, "put")
  /\ objects' = [objects EXCEPT ![req[r].sub] = @ \cup {"source.pdf"}]
  /\ GotoReq(r, "key")
  /\ UNCHANGED <<busVars, tableVars, audit, final, flags, gradeVars, localVars,
                 budget>>

SetSourcePDFKey(r) ==
  /\ At(r, "key")
  /\ srcKey' = [srcKey EXCEPT ![req[r].sub] = TRUE]
  /\ GotoReq(r, "send")
  /\ UNCHANGED <<busVars, state, storeVars, localVars, budget>>

\* Mutant: publish without its 409 guard.
PublishAnyState(r, s) == /\ state[s] # NoState
                         /\ Open(r, "publish", s, "audit") /\ UNCHANGED state

\* The three gate handlers: 409 unless the state just read is the right one.
Approve(r, s) == /\ state[s] = "teacher_review"
                 /\ Open(r, "approve", s, "load") /\ UNCHANGED state
PublishHandler(r, s) == /\ state[s] = "approved"
                        /\ Open(r, "publish", s, "audit") /\ UNCHANGED state
Export(r, s) == /\ state[s] = "published"
                /\ Open(r, "export", s, "audit") /\ UNCHANGED state

\* An appeal may be filed, and a regrade requested, in any state.
RegradeAppeal(r, s) == /\ state[s] # NoState
                       /\ Open(r, "regrade", s, "audit") /\ UNCHANGED state

\* The feedback of a paper that is not approved yet may be drafted afresh.
Regenerate(r, s) == /\ state[s] \notin Finalised \cup {NoState}
                    /\ Open(r, "regenerate", s, "load") /\ UNCHANGED state

\* Approve and Regenerate read graded.v1.json: 500 when it is missing.
LoadGraded(r) ==
  /\ At(r, "load")
  /\ LET g == graded[req[r].sub] IN
     \/ g = 0 /\ req' = [req EXCEPT ![r] = NoReq]
     \/ g # 0 /\ req' = [req EXCEPT ![r].at = "audit", ![r].pass = g]
  /\ UNCHANGED <<busVars, tableVars, storeVars, localVars, budget>>

AuditAction(op) == CASE op = "regrade"    -> "appeal_regrade"
                     [] op = "regenerate" -> "regenerate_feedback"
                     [] OTHER             -> op

\* Mutant: the final_grade row is written before the artifact it names.
AuditThenRow(r) ==
  /\ At(r, "audit")
  /\ audit' = [audit EXCEPT ![req[r].sub] = @ \cup {AuditAction(req[r].op)}]
  /\ GotoReq(r, CASE req[r].op = "approve"    -> "row"
                  [] req[r].op = "regenerate" -> "rewrite"
                  [] OTHER                    -> "send")
  /\ UNCHANGED <<busVars, tableVars, final, objects, flags, gradeVars,
                 localVars, budget>>

\* Audit-first: nothing else is written before the audit event.
InsertAuditEvent(r) ==
  /\ At(r, "audit")
  /\ audit' = [audit EXCEPT ![req[r].sub] = @ \cup {AuditAction(req[r].op)}]
  /\ GotoReq(r, CASE req[r].op = "approve"    -> "snapshot"
                  [] req[r].op = "regenerate" -> "rewrite"
                  [] OTHER                    -> "send")
  /\ UNCHANGED <<busVars, tableVars, final, objects, flags, gradeVars,
                 localVars, budget>>

PutSnapshot(r) ==
  /\ At(r, "snapshot")
  /\ snapshot' = [snapshot EXCEPT ![req[r].sub] = req[r].pass]
  /\ GotoReq(r, "row")
  /\ UNCHANGED <<busVars, tableVars, audit, final, objects, flags, graded,
                 archive, passes, undone, localVars, budget>>

\* An upsert: a later approval overwrites the row.
InsertFinalGrade(r) ==
  /\ At(r, "row")
  /\ final' = [final EXCEPT ![req[r].sub] = req[r].pass]
  /\ GotoReq(r, "send")
  /\ UNCHANGED <<busVars, tableVars, audit, objects, flags, gradeVars,
                 localVars, budget>>

\* The paper goes back as it was read, but for its feedback, whatever
\* graded.v1.json is by now; nothing is archived and no command is sent.
PutRegenerated(r) ==
  /\ At(r, "rewrite")
  /\ LET s == req[r].sub
     IN  /\ graded' = [graded EXCEPT ![s] = req[r].pass]
         /\ undone' = [undone EXCEPT ![s] = @ \cup ({graded[s]} \ {req[r].pass})]
  /\ req' = [req EXCEPT ![r] = NoReq]
  /\ UNCHANGED <<busVars, tableVars, audit, final, objects, flags, snapshot,
                 archive, passes, localVars, budget>>

SendCommand(r) ==
  /\ At(r, "send")
  /\ Publish("commands.q", Envelope(req[r].sub, req[r].op, ""))
  /\ req' = [req EXCEPT ![r] = NoReq]
  /\ UNCHANGED <<hand, tableVars, storeVars, localVars, budget>>

RequestStep(r) == \/ PutPDF(r) \/ SetSourcePDFKey(r) \/ LoadGraded(r)
                  \/ InsertAuditEvent(r) \/ PutSnapshot(r)
                  \/ InsertFinalGrade(r) \/ PutRegenerated(r) \/ SendCommand(r)

Call(r, s) == \/ PostSubmission(r, s) \/ Approve(r, s)
              \/ PublishHandler(r, s) \/ Export(r, s) \/ RegradeAppeal(r, s)
              \/ Regenerate(r, s)

\* External: the orchestrator understands commands that no handler in src/
\* publishes; they may name the render sidecar, or nothing.
OperatorCommand(s) ==
  /\ state[s] # NoState
  /\ calls < MaxCalls
  /\ calls' = calls + 1
  /\ \E c \in OperatorCommands, ref \in {"", "render-result.json"} :
        Publish("commands.q", Envelope(s, c, ref))
  /\ UNCHANGED <<hand, tableVars, storeVars, localVars, req, faults, deaths>>

---------------------------------------------------------------------------
(***************************************************************************)
(* Faults.                                                                 *)
(***************************************************************************)
Fault(kind) == /\ kind \in FaultKinds
               /\ faults < MaxFaults
               /\ faults' = faults + 1
               /\ deaths' = IF kind = "crash" THEN deaths + 1 ELSE deaths
               /\ UNCHANGED calls

\* A call to the database, the object store or the broker returns an error.
CallFails(p) == /\ at[p] \notin {"idle", "ack"}
                /\ Fault("call")
                /\ Reject(p)
                /\ UNCHANGED <<tableVars, storeVars, req>>

\* The process dies, or loses its connection, with the delivery unanswered.
Crash(p) == /\ at[p] # "idle"
            /\ Fault("crash")
            /\ Abandon(p) /\ Return(p)
            /\ UNCHANGED <<tableVars, storeVars, req>>

\* Publish returns nil (it asks for no confirm) and the message is lost.
Lose(p) == /\ at[p] \in {"dispatch", "report"}
           /\ Fault("loss")
           /\ Goto(p, "ack")
           /\ UNCHANGED <<busVars, tableVars, storeVars, seen, goal, mark, req>>

\* A request stops at its next call; what it has written stays.
RequestFails(r) == /\ req[r] # NoReq
                   /\ Fault("request")
                   /\ req' = [req EXCEPT ![r] = NoReq]
                   /\ UNCHANGED <<busVars, tableVars, storeVars, localVars>>

---------------------------------------------------------------------------
ConsumerStep(p) ==
  Deliver(p) \/ OrchestratorStep(p) \/ WorkerStep(p) \/ Finish(p)

Next == \/ \E p \in Consumers : \/ ConsumerStep(p)
                               \/ CallFails(p) \/ Crash(p) \/ Lose(p)
        \/ \E r \in Slots : \/ RequestStep(r) \/ RequestFails(r)
                           \/ \E s \in Submissions : Call(r, s)
        \/ \E s \in Submissions : OperatorCommand(s)

Spec == Init /\ [][Next]_vars

\* Consumers and request handlers run in goroutines of their own: each goes
\* on as long as it can.  Nothing obliges anyone to make a request.
Fairness == /\ \A p \in Consumers : WF_vars(ConsumerStep(p))
            /\ \A r \in Slots : WF_vars(RequestStep(r))

FairSpec == Spec /\ Fairness

---------------------------------------------------------------------------
(***************************************************************************)
(* Properties.                                                             *)
(***************************************************************************)
Automatic == {"queued", "splitting_pages", "extracting_metadata", "transcribing",
              "grading"}

\* Every variable keeps its type.
BusTypeOK ==
  /\ queue \in [Queues -> Seq(Deliveries)]
  /\ hand \in [Consumers -> Deliveries \cup {NoMsg}]
RowTypeOK ==
  /\ state \in [Submissions -> States \cup {NoState}]
  /\ srcKey \in [Submissions -> BOOLEAN]
StoreTypeOK ==
  /\ audit \in [Submissions -> SUBSET AuditActions]
  /\ final \in [Submissions -> Nat]
  /\ objects \in [Submissions -> SUBSET StoredObjects]
  /\ flags \in [Submissions -> Papers \cup {NoFlags}]
  /\ graded \in [Submissions -> Nat]
  /\ snapshot \in [Submissions -> Nat]
  /\ archive \in [Submissions -> SUBSET (Nat \ {0})]
  /\ passes \in [Submissions -> Nat]
  /\ undone \in [Submissions -> SUBSET Nat]
HandlerTypeOK ==
  /\ at \in [Consumers -> HandlerSteps]
  /\ seen \in [Consumers -> States \cup {NoState}]
  /\ goal \in [Consumers -> States \cup {NoState}]
  /\ mark \in [Consumers -> Nat]
RequestTypeOK == req \in [Slots -> Requests \cup {NoReq}]
BudgetTypeOK  == calls \in 0..MaxCalls /\ faults \in 0..MaxFaults /\ deaths \in Nat

TypeOK == /\ BusTypeOK /\ RowTypeOK /\ StoreTypeOK
          /\ HandlerTypeOK /\ RequestTypeOK /\ BudgetTypeOK

\* The teacher-approval gate: a submission is approved, published or exported
\* only with the audit events of those actions and a final grade on record,
\* and these are recorded in order.  It holds under every fault.
GatePhase == [s \in Submissions |->
                IF state[s] \in Finalised THEN state[s] ELSE "open"]
GateWarrant == [s \in Submissions |->
                  (audit[s] \ {"appeal_regrade", "regenerate_feedback"})
                    \cup (IF final[s] # 0 THEN {"final"} ELSE {})]
Gate == INSTANCE ApprovalGate WITH phase <- GatePhase, warrant <- GateWarrant
GateSpec == Gate!GateSpec

\* With one replica and no fault, the state moves only along the edges of the
\* transitions table, although the write is not conditional on the state read.
Life == INSTANCE Lifecycle
LifeSpec == Life!LifeSpec

\* The artifacts a state relies on exist: pages while transcribing, a
\* transcript while grading, flags while a transcript awaits review, a graded
\* paper from teacher_review on.
StageHasInput ==
  \A s \in Submissions :
    /\ state[s] \in {"splitting_pages", "extracting_metadata", "transcribing"}
         => "render-result.json" \in objects[s]
    /\ state[s] = "transcription_review_required"
         => flags[s] # NoFlags /\ EvaluateGates(flags[s], DefaultTunables) # {}
    /\ state[s] = "grading" => "transcript.v1.json" \in objects[s]
    /\ state[s] \in Finalised \cup {"teacher_review"} => graded[s] # 0

\* The work of s that is under way: messages on the stage, result and stage
\* dead-letter queues, and handlers with an effect still to come.
Waiting(s) ==
  UNION {{<<q, i>> : i \in {j \in DOMAIN queue[q] : queue[q][j].env.sub = s}} :
           q \in StageQueues \cup StageDLQs \cup {"results.q"}}
Busy(p) == IF at[p] = "dispatch" THEN goal[p] \in Automatic
           ELSE at[p] # "ack" /\ QueueOf(p) # "commands.q"
Held(s) == {p \in Consumers : hand[p] # NoMsg /\ Sub(p) = s /\ Busy(p)}
Pending(s) == Waiting(s) \cup Held(s)

\* Work is neither lost nor duplicated: exactly one message or handler drives
\* a submission through the automatic states, and none does while it waits
\* for a person or has failed ("re-delivery never duplicates downstream
\* work", HandleEnvelope).
OneWorkItem ==
  \A s \in Submissions :
    Cardinality(Pending(s)) = IF state[s] \in Automatic THEN 1 ELSE 0

\* What is final is what was last marked: a submission beyond the gate has
\* final_grade and graded.final.json from the paper in graded.v1.json.
ResultIsApproved ==
  \A s \in Submissions :
    state[s] \in Finalised => final[s] = graded[s] /\ snapshot[s] = graded[s]

\* A regrade keeps the passes before it: each pass is graded.v1.json, in an
\* archive, or in the hands of the worker about to store it.  What can lose one
\* is Regenerate, which writes back what it read over the pass that a regrade
\* has stored meanwhile.
EveryPassKept ==
  \A s \in Submissions : \A n \in 1..passes[s] :
    \/ n = graded[s] \/ n \in archive[s] \/ n \in undone[s]
    \/ \E p \in Consumers : hand[p] # NoMsg /\ Sub(p) = s /\ mark[p] = n

\* The snapshot a final_grade row names exists (Approve stores it first).
FinalHasSnapshot ==
  \A s \in Submissions : final[s] # 0 => snapshot[s] # 0

\* A delivery whose handler fails is attempted MaxAttempts times in all, from a
\* work queue (handleDelivery's x-delivery-count accounting); only a consumer's
\* death, which counts as an attempt but dead-letters nothing, adds one.
RetriesBounded ==
  /\ \A q \in Queues : \A i \in DOMAIN queue[q] :
       queue[q][i].count < MaxAttempts + deaths
  /\ \A p \in Consumers : hand[p] # NoMsg =>
       hand[p].count < MaxAttempts + deaths

\* A submission leaves the automatic states: it comes to wait for a person, or
\* fails with its stage's dead letter.
Settles ==
  \A s \in Submissions : state[s] \in Automatic ~> state[s] \notin Automatic

\* An upload is accepted: the command PostSubmission sends takes effect.
Starts ==
  \A s \in Submissions : state[s] = "uploaded" ~> state[s] = "queued"

\* No submission is in teacher_review without a graded paper.
GradedBeforeReview ==
  \A s \in Submissions : state[s] = "teacher_review" => graded[s] # 0
=============================================================================
