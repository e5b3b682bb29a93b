# NovaGrade: TLA+ models, checks and proofs

NovaGrade marks scanned exam papers: an upload becomes a *submission*, which
workers render to pages, transcribe and grade; a teacher corrects and approves
the result; it is published and exported, and may be appealed against and
graded again. This directory holds TLA+ models of that code, TLC configurations
that check them on small instances, and TLAPS proofs for every value of the
constants.

    tlc -workers 2 -config sound.cfg MCPipeline      # one run
    tlapm PipelineProofs.tla                         # one module of proofs

`PROJECT.json` lists the components, the runs, the source lines each definition
stands for, the hazards and the findings.

## 1. The system

| Component | Source | State | Operations | Talks to |
|---|---|---|---|---|
| Submission state machine | `pkg/contracts/states.go`, `internal/domain/statemachine.go` | none (pure) | `NextState`, `CanTransition` | called by the orchestrator |
| Quality gates | `internal/domain/gates.go` | none (pure) | `EvaluateGates` | called by the orchestrator |
| Message bus | `internal/queue/rabbit.go` | six work queues (`feedback.q` is left out, nothing publishes to it), their dead-letter queues, unacknowledged deliveries | `Publish`, `Consume` (ack, requeue, dead-letter) | RabbitMQ |
| Orchestrator | `internal/orchestrator`, `cmd/orchestrator` | none of its own; it alone writes `submission.state` | `HandleEnvelope` on `commands.q` and `results.q`, `DLQHandler` per stage | bus, database, object store |
| Render, transcribe, grade workers | `cmd/render`, `cmd/transcribe`, `internal/gradeworker` | objects under the submission's prefix | one handler each: read input, write artifacts, publish a result | bus, object store, AI provider; grade also the guide tables |
| Upload API | `internal/api/handlers.go` | submission row, `source.pdf` | `PostSubmission`, getters | database, object store, bus |
| Approval API | `internal/api/approval_handler.go` | `final_grade` row, `graded.final.json`, audit events | `Approve`, `Publish`, `Export` | all three |
| Teacher review API | `internal/api/review_handler.go` | append-only `teacher_review` rows | `GetReview`, `PatchQuestion` | database, object store |
| Feedback drafting | `internal/api/feedback_handler.go`, `internal/pipeline/feedback.go`, `revision.go` | `graded.v1.json` | `Regenerate` | object store, AI provider |
| Appeals API | `internal/api/appeal_handler.go`, `internal/store/appeal_store.go` | `appeal` rows | `FileAppeal`, `ResolveAppeal`, `RegradeAppeal` | database, bus |
| Guides | `internal/api/guide_handler.go`, `internal/store/guide_version.go` | `marking_guide` versions, locked or not | import, list, lock, preview | database |
| Marking | `internal/pipeline/grade` | none (pure, but for the AI judge) | matchers, `GuideMarkScheme`, `GradePaper`, `ValidateGuide` | AI provider |
| Transcription | `internal/pipeline/transcribe.go`, `markmap.go` | none | merge of pages, question numbers, mark map | AI provider |
| Moderation | `internal/api/moderation_handler.go`, `internal/store/moderation_store.go` | sessions, samples, second marks | create, list, record, compare | database |
| Export, class results, analytics | `internal/api/export_handler.go`, `class_results_handler.go`, `internal/analytics` | none (read-only) | CSV and statistics of effective papers | database, object store |
| Webhooks | `internal/integration/webhook` | webhook rows | subscribe, unsubscribe, `Dispatch`: signed and retried delivery | HTTP |
| AI providers | `internal/providers` | provider rows, one of them the default | create, set default, `Resolve`, client with retries | HTTP |
| Curriculum, roster, integrations | `internal/api`, `internal/store`, `internal/integration` | CRUD rows | imports | database |
| Auth, RBAC, secrets | `internal/auth`, `internal/domain/rbac.go`, `internal/secrets` | none | decides whether a handler runs | |
| Python prototype | `src/examgrader` | files | sequential command line | superseded by the Go services |

What is hard here, and what correctness means:

* **No transaction spans two systems.** A handler writes a database row, an
  object and a message one after another; any call may fail, and the process
  may die between two of them. Correct: a partial effect is on the safe side
  (audit first), and a retry finishes the job.
* **Messages are delivered at least once.** A result may arrive twice, and the
  orchestrator infers from the *state* which stage it belongs to. Correct: work
  is neither lost nor duplicated; automatic states are left eventually.
* **State is read, then written unconditionally.** `SetSubmissionState` updates
  by id; requests check the state long before their last write. Correct: no
  interleaving carries a submission past the teacher-approval gate.
* **Two papers and an overlay.** `graded.v1.json`, `graded.final.json`, the
  override rows and the `final_grade` row describe one grade and are written by
  different handlers at different times. Correct: what is approved, shown and
  exported agrees, and every change of a mark is on the audit trail.
* **Regrades re-enter the pipeline** with all of these left over from the pass
  before.
* **Batches share a guide.** Workers of different submissions list, choose and
  lock guide versions in separate statements. Correct: a stored paper names a
  locked version, and the choice only moves forward.
* **Work outside the database.** Webhook posts and provider calls are retried
  by goroutines nobody waits for. Correct: they end, within their attempts, and
  what was done is accounted for once.
* **Pure code with many corners.** Matchers, mark maps, question numbers and
  reports have defaults for everything that may be missing. Correct: marks stay
  within their maximum, what is not read is confined and flagged, and reports
  that are computed apart count the same questions.

## 2. The modules

| Module | What it is |
|---|---|
| `SubmissionStates` | states, events, `transitions`, `NextState`, `StageToEvent`, `EvaluateGates`, as operators |
| `MessageBus` | queues, deliveries with their attempt count, acknowledgement, requeue, dead-lettering, abandonment |
| `Pipeline` | orchestrator replicas, three workers, upload, approval and regrade handlers, faults; EXTENDS the two above |
| `Lifecycle` | abstract: what the state of a submission promises when nothing fails |
| `ApprovalGate` | abstract: what the approval gate promises whatever fails |
| `PipelineInvariant`, `PipelineProofs` | the inductive invariant of `Pipeline` and its proofs; what holds of the gate, snapshots and retries under faults |
| `PipelineFlow`, `PipelineFlowProofs` | the invariant of one replica whose consumers do not fail: who drives a submission, what is stored for it, which passes are kept; that `Pipeline` then implements `Lifecycle` |
| `MCPipeline` | instances of `Pipeline` for TLC |
| `Review` | one graded submission and the people around it: overrides, approval, feedback, export, appeals |
| `AuditFirst` | abstract: what audit-first ordering promises of the records |
| `ReviewInvariant`, `ReviewProofs` | the inductive invariant of `Review` and its proofs |
| `ReviewApproval`, `ReviewApprovalProofs` | the types of `Review`, the marks under their maxima, the approval whose records agree, and their proofs |
| `MCReview` | instances of `Review` for TLC |
| `GradeWorker` | several grade workers, the guide table and its handlers: the choice and the lock of a guide, archive slots, the two writes of a result |
| `GradeWorkerInvariant`, `GradeWorkerProofs`, `MCGradeWorker` | its inductive invariant, its proofs, its instance |
| `Marking` | the guide's matchers, the judge's reply, totals, validation, preview, as operators |
| `Transcription` | pages to transcript, sections, question numbers, mark map and flags, as operators |
| `Analytics` | item analysis, distribution, mastery, gaps, overrides, class results, as operators |
| `Access` | the role table, `Can`, and what each family of handlers does with the answer, as operators |
| `Algorithms` | these four on bounded inputs, one evaluation per behaviour |
| `AlgorithmsProofs` | marks, units, the preview, transcripts, reports and authorisation, for every guide, paper, reply, submission and request |
| `Moderation` | sessions, samples, second marks and comparisons, next to grading and approval |
| `Webhooks` | Publish with the goroutine that delivers its event |
| `Providers` | the transaction that sets the default provider; calls with their retries and log |
| `Services` | the three above, one per behaviour: they share no state |
| `ModerationInvariant` | the inductive invariant of `Moderation` |
| `ServicesProofs` | proofs about the default provider, the call log, dispatches and moderation |
| `Counting` | lemmas on finite data the proofs share: least numbers, sums, increasing enumerations, sequences put together from sequences |

### Pipeline

Handlers are split where other processes can run: at each call to the database,
the object store and the broker. `at[p]` names the next call of consumer `p`,
and a consumer is a pair of a process and a queue, because each `Consume` runs
its handler one delivery at a time. `hand[p]` is the delivery it holds; `seen`
and `goal` are the locals of `HandleEnvelope` (the state it read, the state it
decided). `req[r]` is an HTTP request with its next call and its locals.

| Code | Actions |
|---|---|
| `Orchestrator.HandleEnvelope` | `GetSubmission`, `Decide`, `SetSubmissionState`, `dispatchNext` |
| `Orchestrator.DLQHandler` | `FailSubmission` |
| render worker | `Render` (pages and sidecar), then `PublishResult` |
| transcribe worker | `Transcribe` (transcript), `PutFlags` (sidecar), `PublishResult` |
| grade worker | `GradePaper`, `archivePriorGradedArtifact`, `PutGraded`, `PublishResult` |
| `Bus.handleDelivery` | `Finish` (ack), `Reject` (requeue or dead-letter) |
| `PostSubmission` | `PostSubmission`, `PutPDF`, `SetSourcePDFKey`, `SendCommand` |
| `Approve` | `Approve`, `LoadGraded`, `InsertAuditEvent`, `PutSnapshot`, `InsertFinalGrade`, `SendCommand` |
| `Publish`, `Export`, `RegradeAppeal` | `PublishHandler`, `Export`, `RegradeAppeal`, then `InsertAuditEvent`, `SendCommand` |
| `Regenerate` (feedback) | `Regenerate`, `LoadGraded`, `InsertAuditEvent`, `PutRegenerated` |
| faults | `CallFails`, `Crash`, `Lose`, `RequestFails` |

A graded paper is the number of the marking pass that made it; one whose
feedback is drafted afresh keeps its number. The history variable `undone` says
which passes `Regenerate` wrote an older one over, and `deaths` counts the
faults in which a consumer died. Transcription
reports any flags of the constant `Papers`. `OperatorCommand` publishes the
commands the orchestrator understands although no handler in the repository
sends them (`approve_for_grading`, `apply_fix`, `retry_stage`,
`flagged_for_review`).

Left out of `Pipeline`: `feedback.q`, the dead-letter
queues nobody consumes, malformed message bodies, the tenant guard (producers
take the tenant from the row, so it passes). The two puts of a rendered paper,
and `graded.v1.json` with its summary, are one step each: no handler reads the
second object. The numbering of archives is a set of passes.

### Review

One submission, because no handler touches a second one. The pipeline is
reduced to what these handlers see: a command is applied in one step and in
order, a marking pass stores its paper (`StorePaper`) and later reports
(`Graded`). The races of replicas belong to `Pipeline`.

A paper gives every question a mark, a maximum and a feedback; `overlayReviews`
lays the override rows over it. Marks are integers: half marks and `score_100`
add nothing the properties tell apart. `req[r].at` walks through `load`,
`list`, `draft`, `audit` and then the writes of each handler in the order of
the code: `insert`; `snapshot`, `row`, `send`; `put`; `create`; `status`;
`send`, `status`. `RequestFails` ends a request at any of them. The history
variable `torn` says that two approvals have overlapped at their two writes, or
one broke off between them, and none has since made both writes alone.

### GradeWorker

The grade worker again, with what `Pipeline` reduces to a number: `job[w]` is
the handler of worker `w`, with its next call and its locals (the scheme it
chose, the paper it read, the slot it is looking at).

| Code | Actions |
|---|---|
| `HandleEnvelope` | `Receive`, `Load`, ..., `PutGraded`, `PutSummary`, `PublishResult`, `Ack` |
| `selectLockedOrLatestGuide`, lock on grading | `selectLockedOrLatestGuide` or `ListFails`; `LockOnGrading` or `LockFails` |
| `guide.v1.json`, else the AI judge | `LoadObjectGuide` |
| `archivePriorGradedArtifact` | `ReadPrior`, `ProbeSlot` (one per index), `archivePriorGradedArtifact` |
| guide import, manual lock | `ImportGuide`, `LockGuide` |
| error return: requeue, or dead letter once `MaxAttempts` is reached | `Reject` |
| death of the process | `Redeliver` |
| `Orchestrator.DLQHandler` on `grade.q.dlq` | `DLQHandler` |

A paper is the run that made it and the scheme it names (a version, the object,
the judge). The history variables `replaced`, `lockFailed` and `overlapped` say
which papers were overwritten, which versions' lock failed, and which
submissions two workers had at once; `due` and `failed` are the submissions in
those states, and `dlq` those with a dead letter waiting.

### Algorithms

`Marking`, `Transcription`, `Analytics` and `Access` are sets of operators named
after the functions they translate. A text is a sequence of lines of words;
what `strings` and `strconv` make of a word (`ToLower`, `ParseFloat`, the letters
left by normalisation) is given by tables. A mark is a number of the smallest
marks in use, a percentage a fraction. A model's reply is its shape (array, wrapped array,
another object, nothing that parses) and its items. `Algorithms` picks a kind of
input and an input, evaluates, and stops.

### Services

`Moderation` inserts a session, then its sample row by row (`SelectSample`,
`InsertLink`). A comparison goes through the recorded marks: the paper of a mark
is loaded at its first one, in the four reads the handler makes (`LoadAI`,
`LoadFinal`, `LoadPaper`, `LoadReviews`), any of which may fail, and is found in
the handler's cache at the others (`LoadCached`); a paper has one question. An
approval is three steps there: the handler reads the paper (`Approve`), stores
its row and sends the command (`InsertFinalGrade`), and the orchestrator takes
the command (`ApplyApproval`). Until then the paper is open to overrides; and
one whose state was checked before may be inserted even later. `Webhooks` has
a request per call of Publish (`PublishAudit`, `PublishSend`) and then its
goroutine (`GetActiveWebhooksForEvent`, `Decrypt`, `Deliver`); a post may reach the subscriber and
its answer be lost. `Providers` has a transaction per administrator, with the
row locks and the unique index PostgreSQL gives it
(`ClearTenantDefaultAIProvider`, `SetAIProviderDefault`, `Commit`, `Abort`), and a call per caller
(`Resolve`, `doRequest`), with the transport's retries inside the schema's.

## 3. What the runs show

Passing runs:

| Run | Instance | Shows |
|---|---|---|
| `sound` | `Spec`, 1 replica, 1 request at a time, upload + 3 requests (approval to regrade, or feedback), one of which may end early | `TypeOK`, `StageHasInput`, `OneWorkItem`, `EveryPassKept`; `LifeSpec`: `Pipeline` implements `Lifecycle` |
| `review` | `FairSpec`, clean and blank paper, upload + 1 operator command | `Settles`, `Starts` (liveness) |
| `gate` | from a graded paper, 2 replicas, 3 requests, 1 fault of any kind | `GateInv`, `FinalHasSnapshot`; `GateSpec`: `Pipeline` implements `ApprovalGate` |
| `retries` | an upload, 1 replica, 2 attempts, 2 faults (failing calls, deaths) | `RetriesBounded` |
| `records` | 2 concurrent requests out of 5, 1 failing, marks out of range, 1 question | `TypeOK`, `WritesAudited`, `MarksWithinMax`, `ApprovedConsistent`; `RecordsSpec`: `Review` implements `AuditFirst` |
| `guides` | 2 workers, 2 submissions of one version, 2 guide versions, 2 attempts, 2 regrades and faults together (list, lock, error return or crash; at most 1 regrade) | `TypeOK`, `ReplacedAreArchived`, `MarkedAgainstLocked`, `SummaryOfGraded`, `GuideNeverRetreats` |
| `algorithms` | every input of the sets in `Algorithms` (some 400,000) | `TotalsAddUp`, `PreviewMirrorsGrade`, `UnitNeverCosts`; `OnlyFailuresDropQuestions`, `NumbersUnique`, `SectionsCarried`, `LossIsFlagged`; `ReportsAgree`, `MasteryMonotone`; `HandlersActForOwner` |
| `services` | moderation: 2 papers, 1 session, 4 changes, 1 failed call; webhooks: 2 subscriptions, one unreadable, 2 publishes, 1 regrade, 1 crash; providers: 2 administrators, 3 transactions, 1 call | `ModTypeOK`, `SampleAsAsked`, `TeacherMarkWasEffective`; `AnnouncedOnlyIfSent`, `DispatchComplete`; `OneDefault`, `DefaultKept`, `LoggedOnce`; `WorkEnds` (liveness) |

Violation runs. Each checks one property that a comment or document of the
repository states; the run finds the behaviour that contradicts it, and
`PROJECT.json` quotes the statement.

| Run | What happens |
|---|---|
| `dup_result` | a worker dies between its publish and its ack; the second result counts as a later stage's success and the submission reaches `teacher_review` ungraded |
| `lost_dispatch` | a dispatch fails after the state was written; the redelivery is a no-op and the submission stays in an automatic state for ever |
| `stale_approval` | an approval that read the paper before a regrade finishes after it |
| `masked_regrade` | overrides of the old pass replace the marks of the fresh one |

Other things the models make visible, for which no run is kept:

* Two replicas: a publish decided at `approved` overwrites the `grading` of a
  regrade (`orchestrator.go:178`); the records stay right, the regrade is lost.
  Likewise a handler that read the state earlier writes over `failed`.
* `Regenerate` writes back the whole paper it read, and archives nothing: a
  regrade in between is undone (`feedback_handler.go:158`). `EveryPassKept`
  names this as the one way a pass is lost (`undone`).
* "A regrade currently OVERWRITES graded.v1.json [...] the original AI graded
  pass is not retained across a regrade" (`appeal_handler.go:18-20`, and again
  `:271-273`): the code does otherwise. The grade worker copies the paper to the
  next free archive slot before it writes its own (`gradeworker.go:316`), so
  these notes contradict `EveryPassKept` and `ReplacedAreArchived`, which hold.
* An override accepted while the approve command is on its way is not in the
  approved paper (`review_handler.go:152`); two approvals that read different
  overrides may leave the snapshot of one and the row of the other, and one that
  fails between its two writes leaves its snapshot with the row before it
  (`approval_handler.go:156`), until the next approval that makes both alone; in review after a regrade an export shows the
  earlier snapshot (`export_handler.go:151`).
* A retried `RegradeAppeal` reopens marks approved in between
  (`appeal_handler.go:336`).
* A mark-only override pins the feedback of its time, and clearing a feedback
  has no effect (`review_handler.go:217`, `:311`).
* The `final_grade` row that `appeal_handler.go:274` calls immutable is replaced
  by a second approval, which the audit trail survives (`RecordsSpec`).
* "This pins the entire batch to the first-locked guide"
  (`gradeworker.go:17-18`): the highest locked version is used, so an import
  that is locked by hand moves the batch on; and two workers that list before
  either has locked may lock two versions if an import comes between. What does
  hold is `MarkedAgainstLocked` and `GuideNeverRetreats`.
* "Concurrent regraders for the same submission are prevented by the state
  machine" (`gradeworker.go:327`): not those of one command that is delivered
  again while its first worker, cut off from the broker, goes on. `overlapped`
  marks these, and the properties of archives and summaries leave them out.
* "PreviewGuide ... mirroring its dispatch": not for a blank answer, which the
  grader settles before any matcher, nor for an entry without a maximum, which
  the preview takes for 0 and the grader for the paper's. `PreviewMirrorsGrade`
  is about the rest.
* Question numbers stay unique only if none is printed with the suffix
  deduplication adds (`transcribe.go:323`; `NumbersUnique`).
* The override rate of the analytics plan, "fraction of graded questions a
  teacher overrode" (`docs/superpowers/plans/2026-06-26-novagrade-phase5-analytics.md:46`),
  counts events: a question patched twice counts twice.
* The operator of a shared deployment passes the check for another tenant's
  submission, and the handler then goes on with the operator's own tenant
  (`authz.go`).
* A comparison that looks for the `final_grade` row before an approval inserts
  it and reads the overrides after a later one shows a mark that never was the
  paper's effective mark: the paper stays open to overrides until the
  orchestrator applies the command (`approval_handler.go:163`,
  `review_handler.go:152`). `overtaken` tells these papers apart.
* A grade delivery given up between `graded.v1.json` and its summary leaves the
  two of different markings in a submission that is `failed`
  (`rabbit.go:240`, `gradeworker.go:236`); `SummaryOfGraded` leaves failed
  submissions out.
* "Used to distinguish "AVID not found" from "AVID belongs to another tenant" —
  both cases return 404" (`class_results_handler.go:33-35`): only the second
  does. A version that is not found, and a lookup that fails for any other
  reason, go on with 200 and the caller's own tenant (`:81-91`,
  `analytics_handler.go:106-112`), so that the report has none of another's
  version in it, as `HandlersActForOwner` says.
* A comparison whose read of the effective paper fails shows the AI's mark as
  the teacher's (`moderation_handler.go:384`).

### Bounds

`MaxCalls` and `MaxFaults` bound requests and faults; nothing else is cut.
`commands`, queues, the trail and the marking passes are finite because
requests are. One submission suffices in `Pipeline` because no handler touches
two (a delivery of another submission only delays). Two replicas suffice for the
races on a submission's row: a race is a pair of a stale read and a write. In
`Pipeline` one request is open at a time; it races with the commands sent before
it, with the replicas and with the workers, and a request that ends early leaves
what it wrote to the next. Requests that race with each other are `Review`'s, and
`records` has two slots. Upload + 3 requests reaches a regrade of an approved
paper, and a regeneration of feedback that goes on meanwhile; from a graded paper
3 requests reach the second approval; the 5 of `records` reach override,
approval, appeal, regrade and one more, or two approvals between others. It has
one question: what a request does is per question, and the sums over several are
covered by the theorems. `MaxAttempts` is 2 instead of 3: a delivery then is
new, retried or exhausted, and a third attempt repeats the second; `retries` and
`guides` have the faults to use both up. In `gate` it is 1, since its one fault
could fail no second attempt: there a failed delivery is given up at once, which
leads to the DLQ handler, and a death has it delivered again. The theorems hold
for any `MaxAttempts`. `gate` starts from a graded paper at rest (`GradedInit`), the state
every clean upload reaches in `sound`, so that its bound is spent beyond the
gate; the proofs cover `Spec` from the upload on and any bounds. Deadlock is
not checked: with the requests spent and the queues empty the system rests.

`MarksWithinMax` is checked for papers whose maxima do not change. A guide with
a lower maximum, imported before a regrade, breaks it by the path of
`masked_regrade`.

`OneWorkItem`, `StageHasInput` and `LifeSpec` hold with one replica and as long
as no consumer's call fails (a request may), the liveness properties without
faults and with one replica only. That is not a weakness of the bounds:
`dup_result` and `lost_dispatch` show how one fault breaks them, and a second
replica loses a regrade.

`guides`: two workers and two versions reach every order of list, choose, lock
and import, and a regrade or a retry a second choice. Regrades and faults are
bounded by 2 together (`AtMostTwo`): two faults fill two archive slots, or retry
a delivery and give it up between any two writes, by an error or after a crash;
one regrade and one fault have a second pass that fails anywhere. `FaultKinds`
are the failures the handler tells apart. `algorithms`: guides of one entry, with every
matcher, steps and criteria with negative, zero and excessive marks; papers of
up to two pages in every reply shape, the first with up to three questions; up to
two submissions, graded or not, with up to two audit events each. What the
operators do is per entry, per page and per submission, and the carry-over
(sections, question numbers, the last event of a question) goes from one to the
next, which two of them show. `services`: `Limit` = 4 stands for the 2^31 of
`sample_size`, with sizes on both sides of it; `MaxAttempts` = 2 posts
and `Retries` = 3 requests have a first, a middle and a last; two
administrators and three transactions have a transaction that meets the locks
of another and the default of a third.

### Fairness

`FairSpec` asks for weak fairness of each consumer's steps and of each request
already accepted: both are goroutines, which the Go scheduler runs as long as
they can go on. No fairness is assumed of people, of operator commands or of
faults: nobody must file a request and nothing must fail.

`Services` asks for weak fairness of the goroutine that dispatches a webhook
and of the handler of a provider call: both run by themselves, and their HTTP
clients have timeouts, so no step waits for the other side for ever.
Administrators, subscribers and moderators are not obliged to do anything. The
other specifications need no fairness: they have safety properties alone.

## 4. What is proved

For any numbers of submissions, replicas, requests, attempts and faults
(assumptions: the null values are not values of the types they extend, bounds
are naturals, at least one attempt):

* `TypeCorrectness`: `Spec => []TypeOK` (`Pipeline`).
* `GateInvariance` and `GateRefinement`: `Spec => []GateInv`, `Spec =>
  GateSpec`. The gate itself, "approved only with its records", is not
  inductive: a command on its way, a decided state a replica is about to write
  and a request about to send can all break it in the next step. `GateInv` adds
  their warrants: whatever can still move a submission beyond the gate has its
  audit event and final grade on record. A warrant is never withdrawn, so
  races, redelivery, crashes and lost writes cannot invalidate it. Steps that
  create such a thing do so after the record (`SendCommand` after
  `InsertAuditEvent` and `InsertFinalGrade`) or from one that has its warrant
  (`Decide`, by lemma `OnlyByCommand`: only its own command leads to a state
  beyond the gate). `TypeInv` supplies which consumer holds what and which calls
  a request makes.
* `WritesInvariance` and `RecordsRefinement`: `Spec => []WritesAudited`, `Spec
  => RecordsSpec` (`Review`), for any papers, bodies, texts, appeals and
  requests. `AuditFirst` alone is not inductive either: `IInv` says of every
  request past its audit call that the event is on the trail with the very
  value it will store, of every regrade command and marking pass that an appeal
  was regraded on record. `Shape` is the little typing the updates need.
  Totals stay opaque: no fact about sums is used.

* `SnapshotBeforeGrade`: `Spec => []FinalHasSnapshot` (`Pipeline`). The
  strengthening: a request about to insert the row has put the snapshot. Which
  request can be there, and that the pass it carries is not 0, comes from
  `GateInv`.
* `AttemptsBounded`: `Spec => []RetriesBounded` (`Pipeline`). Every delivery,
  queued or held, has a count below `MaxAttempts + deaths`, where `deaths` counts
  the faults in which a consumer died. A requeue after an error is guarded by
  the count itself; one after a death is not, but the death raises the bound for
  all. No other fault does.
* `FlowInvariance`, `InputsStored`, `OneDriver`, `LifecycleRefinement`
  (`Pipeline`): `Spec => []FlowInv`, `[]StageHasInput`, `[]OneWorkItem`,
  `LifeSpec`, under `Sound`: one replica of each process, no fault but a request
  that ends early, no `flagged_for_review`. The hypotheses are the weakest for
  which they hold: `dup_result` and `lost_dispatch` break them with one fault of a
  consumer, a second replica loses a regrade, and `flagged_for_review` moves a
  submission whose worker is busy. None of the three is inductive. `FlowInv` ties
  every message and every handler to the state of its submission: a delivery of
  a stage's queue is there only in that stage's state, a result only in the state
  that waits for it, and what a worker, a result or a state relies on is stored.
  `Driven` says that an automatic state has exactly one of these. As it is the
  only one, the state an orchestrator read is still the state when it writes,
  unless the submission was at work when a command read it, and then the command
  is refused. That is why an unconditional write follows the transitions table.
* `PassesKept` (`Pipeline`): `Spec => []EveryPassKept` under `Recording` (one
  replica; requests may fail and deliveries be lost). `PassInv` follows the pass
  in the worker's hands: from the archive on the one it replaces is archived
  (or undone). `RequestsStored` says that what a request holds is a pass that was
  stored, so `Regenerate` puts back no other.
  A call that fails after the marking drops the pass, hence the hypothesis.
* `ReviewTyped` (`Review`): `Spec => []TypeOK`, for any questions, papers, texts
  and requests. That a grade is a pair of naturals needs that a sum over
  questions is one (`SumIsNatural`); that a state is never `Err` needs that a
  marking pass runs in `grading` only.
* `MarksStayWithinMax` (`Review`): `Spec => []MarksWithinMax`, if the marking
  passes agree on the maxima (`MaximaAgree`; a guide with a lower maximum breaks
  it, see the bounds). `MarksInv` says it of every copy of a mark: papers stored,
  read, overlaid or drafted again, and overrides stored or on their way.
* `ApprovalsConsistent` (`Review`): `Spec => []ApprovedConsistent`, for any
  requests at once, failing anywhere. Row and snapshot are two writes without a
  transaction: two approvals that overlap there leave the snapshot of one with
  the row of the other, and one that fails between them leaves a new snapshot
  with the old row. The code reaches both, and `torn` records them; the theorem
  says that nothing else takes row and snapshot apart, and that the next
  approval that makes both writes alone puts them right. `ApprovalInv` says that,
  unless torn, a request between the two writes holds the very paper that is the
  snapshot, and with no request there the row has its totals; and that a row on
  which a command or a state beyond the gate relies exists (`Sending`).
* `TypeCorrectness`, `NothingReplacedIsLost`, `LockedWhenMarked`,
  `SummariesAgree`, `GuideMovesForward`: the five properties of the run `guides`,
  for any workers, submissions, versions and faults (`GradeWorker`). What
  a stored paper promises must hold already of the job about to store it. So
  `IInv` says, of every job, that the scheme it holds after the lock is locked
  (or its lock failed); and of a job that has its submission alone, that the
  paper it read is still the stored one, that the slot it found is still free,
  that the paper it will overwrite is archived, and that the stored paper's
  version is no higher than its own. That last part is inductive because the
  choice takes the highest locked version and versions are never unlocked. A job
  that is not alone knows none of this, for its submission is in `overlapped`
  for good. A submission whose delivery was given up is in `dlq` or `failed` for
  good, and `SummaryOfGraded` says nothing of it.
* `AtMostOneDefault`, `DefaultNeverLost` (`Services`): a transaction about to
  commit holds the unique index alone and clears every default but the one it
  sets. Nobody else can commit before it, so the defaults cannot change under
  it, and its commit leaves exactly its own.
* `CallsAccounted` (`Services`): what a call has counted is what it was served,
  and its log is empty until the step that ends it.
* `EventsHaveCommands`, `EverySubscriberSettled` (`Services`): the subscribers a
  dispatch listed are settled, in turn, or still to come, and the one in turn
  had fewer posts than attempts were begun; requests that may have posted are
  no more than the commands sent, and these with the requests about to send no
  more than the audit events. The counts use cardinalities of finite sets only.
* `ModerationTyped`, `SamplesAsAsked`, `TeacherMarksWereEffective` (`Services`):
  the three moderation properties, for any papers, sizes, limit, sessions and
  failures. What a session has linked and has still to link is, together, the
  sample it selected, and that is the papers with the smallest ids because a
  finite set of numbers has one increasing enumeration (`IncreasingExists`,
  `FirstOfIncreasing`). A comparison reads a paper four times while teachers
  work on it; `CurrentInv` says what it knows of the paper it is at: what it
  took for the AI mark is still stored, and what the two reads to come will
  compose was effective at some moment: the marks before the paper became final
  were, and overrides after that put it in `overtaken`. A regrade breaks this, so
  the property leaves regraded papers out.
* `PaperAddsUp`, `PreviewAgrees`, `AnswersActForOwner` (`Marking`, `Access`):
  these are about the operators, not about a behaviour, so they hold for inputs
  of any size, of which `algorithms` runs a bounded choice. `PaperAddsUp`: any
  guide whose maxima are naturals and whose other marks are integers, negative
  ones included, and any provider that answers with numbers if with marks. Every
  matcher gives an integer (`DispatchIsNumber`), which `clamp` confines. The
  sections add up because a sum is the sum of the sums of its classes
  (`SumPartition`), and the score needs that a sum is monotone in its terms
  (`SumMonotone`). `PreviewAgrees` needs both hypotheses, a maximum of the
  entry's own and an answer that is not blank: the code differs without them.
* `UnitIsFree` (`Marking`): for any numeric entry and a number alone. Trimming
  and splitting a text loses no word (`TrimFields`), so the number is read alike
  with its unit and without; only the deduction differs, and it is confined
  between 0 and the maximum (`UnitCountsFor`). A unit that is itself a number is left out:
  the matcher takes it for part of the answer.
* `PagesKept`, `NumbersAreUnique`, `SectionsSpanPages`, `LossIsNoticed`
  (`Transcription`): for any number of pages, any replies, question numbers,
  maxima, headers and mark map. The paper is the questions of the pages, one page
  after another; each step of the merge changes one field of a question and
  neither adds nor drops one (`CarryTyped`, `FoundTyped`). Numbers are unique
  because the number of earlier repeats tells two repeats apart, and a suffixed
  number cannot be a printed one: that is where the hypothesis on suffixes is
  needed. For `LossIsNoticed` the worth of what was read is at most what is
  printed, and less if a page with questions gave none (`PageWorth`). So either
  the checksum differs, or the page gave a question, which is then blank because
  its answers were not read (`UnreadIsBlank`), and the blank gate fires. Maxima must be
  positive: a page of worthless questions is not missed.
* `CountsAgree`, `MasteryNeverFalls` (`Analytics`): for any submissions, papers
  and mappings. The three handlers skip the same submissions, so rows and
  answers correspond one to one and in order (`RowsAreResponses`), and sets of
  positions have the same size. Mastery is a quotient of two sums over the same
  answers, of which raising marks changes the numerator only (`SumMonotone`,
  `SharesMonotone`).

The ten properties of run `algorithms` are drawn from these as `Spec => []P`
(`MarksAddUp`, `PreviewIsMirror`, `UnitsNeverCost`, `FailuresDropOnlyTheirs`,
`NoNumberTwice`, `HeadersCarryOn`, `LossRaisesFlag`, `ReportsCountAlike`,
`OneMoreMark`, `OwnerOnly`). The invariant they share is `ResultInv`: a result is
the algorithm's on the input that was picked. What remains is that the bounded
inputs have the types the theorems ask for. The words, what the string
functions make of them, and the tenants are any there.

The assumptions on constants are those declared in the modules: null values are
none of the values they stand beside, bounds are naturals, at least one attempt
and one retry, questions and papers are finite sets, ids are numbers,
`Unreadable` is part of the finite set `Hooks`.

Induction over data: no induction theorem of the library can be instantiated
here, as they take an operator as a parameter. `Counting` goes by the smallest
counterexample instead (the well-foundedness of strict inclusion on finite sets
is stated without such a parameter), which is how sums and enumerations of any
finite set come to be proved about. `FlattenSeq` of the community modules is a
recursive function, that is, a function chosen to satisfy an equation;
`FlattenUnfolds` shows that there is one, and `FlattenPlaces` says where each
element comes to stand. All the proofs about pages, submissions and lines rest on it.

Only model-checked: liveness (`Settles`, `Starts`, `WorkEnds`), because
fairness and ENABLED are out of the prover's reach. Every invariant and every
other action or refinement property of a passing run is stated by a theorem.
No theorem says anything of the parts of `Analytics` that sort or select
(`HardestQuestions`, `LearningGaps`, `GradeDistribution`, `Overrides`): they
are evaluated by the run, and no property is about their order.

## 5. What is not modelled, and what could follow

* Curriculum, roster and integrations: CRUD of single rows and file formats.
  The rows share no state with the pipeline; analytics reads only the mapping of
  questions to outcomes, which is an input of `Analytics`.
* Wording and layout: CSV columns, prompts, justifications, JSON repair of
  model replies, image and PDF processing.
* Numbers: the standard deviation, half marks and the length of back-offs are
  left out; the discrimination index is kept as its sign and its square.
* Cryptography: token validation, webhook signatures, AES-GCM of secrets. They
  decide whether a handler runs, or whether a secret can be read (`Unreadable`).
* Of the bus, `feedback.q`, dead-letter queues nobody consumes, and the
  reconnection the code does not have: a process that loses its connection is
  modelled as one that dies.
* The Python prototype, which the Go services replaced.

What could follow: theorems about the recorded orders of `Analytics`, and a
model of the integrations' retries if they come to share state with grading.
