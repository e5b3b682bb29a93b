----------------------------- MODULE GradeWorker -----------------------------
(***************************************************************************)
(* Several grade workers marking the submissions of one assessment         *)
(* version, and the guide handlers that import and lock its guides.        *)
(*                                                                         *)
(* A worker's handler is split at its calls to the database, the object    *)
(* store and the broker: job[w].at is the call to be made next.  Module    *)
(* Pipeline has the same handler in fewer steps, within the state machine; *)
(* here the guide it chooses and the slot it archives to are in detail.    *)
(***************************************************************************)
EXTENDS Naturals, Sequences

CONSTANTS Submissions,
          Linked,        \* the submissions that name the assessment version
          WithObject,    \* those with a guide.v1.json that parses
          Workers,
          MaxAttempts,   \* Bus.MaxAttempts
          MaxVersions,   \* bound: guide versions imported
          MaxRegrades,   \* bound: regrade commands
          FaultKinds,    \* "list", "lock": the call fails; "return": another
                         \* call fails; "crash": the process dies
          MaxFaults,     \* bound: faults
          Judge, Object, \* marked by the AI provider, against guide.v1.json
          NoPaper, NoJob

ASSUME SubsetsAssumption == Linked \subseteq Submissions /\ WithObject \subseteq Submissions
ASSUME BoundsAssumption ==
  MaxVersions \in Nat /\ MaxRegrades \in Nat /\ MaxFaults \in Nat
  /\ MaxAttempts \in Nat \ {0}
Versions == 1..MaxVersions
Schemes  == Versions \cup {Judge, Object}
Papers   == [run : Nat, scheme : Schemes]
Steps    == {"load", "list", "lock", "object", "prior", "probe", "slot", "put",
             "summary", "publish", "ack"}
Jobs     == [at : Steps, s : Submissions, count : Nat, run : Nat, scheme : Schemes,
             prior : Papers \cup {NoPaper}, slot : Nat]

ASSUME ValuesAssumption ==
  /\ Judge \notin Nat /\ Object \notin Nat
  /\ NoPaper \notin Papers /\ NoJob \notin Jobs

VARIABLES
  latest, locked,   \* marking_guide: the rows are 1..latest
  commands,         \* grade.q: x-delivery-count of the deliveries waiting, per submission
  dlq,              \* grade.q.dlq: the submissions with a dead letter waiting
  due, failed,      \* the submissions in state grading, in state failed
  graded, summary,  \* graded.v1.json, grade-result.json
  archive,          \* graded.archive.1.json, graded.archive.2.json, ...
  job,              \* what each worker is doing
  replaced,         \* history: the papers that were overwritten
  lockFailed,       \* history: the versions a worker could not lock
  overlapped,       \* history: the submissions two workers had at once
  runs, regrades, faults

guideVars   == <<latest, locked>>
queueVars   == <<commands, dlq, due, failed, regrades>>
paperVars   == <<graded, replaced>>
vars == <<guideVars, queueVars, paperVars, summary, archive, job, lockFailed,
          overlapped, runs, faults>>

Init ==
  /\ latest = 0 /\ locked = {}
  /\ commands = [s \in Submissions |-> <<0>>]
  /\ due = Submissions /\ dlq = {} /\ failed = {}
  /\ graded = [s \in Submissions |-> NoPaper]
  /\ summary = [s \in Submissions |-> NoPaper]
  /\ archive = [s \in Submissions |-> <<>>]
  /\ job = [w \in Workers |-> NoJob]
  /\ replaced = [s \in Submissions |-> {}]
  /\ lockFailed = {} /\ overlapped = {}
  /\ runs = 0 /\ regrades = 0 /\ faults = 0

---------------------------------------------------------------------------
(***************************************************************************)
(* The marking_guide table and the handlers that write it.                 *)
(***************************************************************************)
GetLatestGuide == latest   \* 0: no row

\* A new row is unlocked, whatever the rows before it are.
InsertGuideVersion == latest' = latest + 1 /\ UNCHANGED locked

\* Mutant: the update matches no row.
LockNoRow(v) == UNCHANGED <<latest, locked>>

\* Locking again changes nothing; no operation unlocks.
LockRow(v) == locked' = locked \cup {v} /\ UNCHANGED latest

\* An import with a body that does not validate inserts nothing.
ImportGuide ==
  /\ latest < MaxVersions
  /\ InsertGuideVersion
  /\ UNCHANGED <<queueVars, paperVars, summary, archive, job, lockFailed,
                 overlapped, runs, faults>>

LockGuide(v) ==
  /\ v \in 1..latest
  /\ LockRow(v)
  /\ UNCHANGED <<queueVars, paperVars, summary, archive, job, lockFailed,
                 overlapped, runs, faults>>

\* An appeal or a teacher has the submission marked again.  The state machine
\* takes the command only when the submission has left grading and has not
\* failed.
Regrade(s) ==
  /\ s \notin due \cup failed /\ regrades < MaxRegrades
  /\ due' = due \cup {s}
  /\ commands' = [commands EXCEPT ![s] = Append(@, 0)]
  /\ regrades' = regrades + 1
  /\ UNCHANGED <<guideVars, dlq, failed, paperVars, summary, archive, job, lockFailed,
                 overlapped, runs, faults>>

---------------------------------------------------------------------------
(***************************************************************************)
(* HandleEnvelope.                                                         *)
(***************************************************************************)
Holders(s) == {w \in Workers : job[w] # NoJob /\ job[w].s = s}

At(w, step) == job[w] # NoJob /\ job[w].at = step
Goto(w, step) == job' = [job EXCEPT ![w].at = step]

\* A worker takes a delivery; another may still be busy with the same
\* submission.
Receive(w, s) ==
  /\ job[w] = NoJob /\ commands[s] # <<>>
  /\ commands' = [commands EXCEPT ![s] = Tail(@)]
  /\ runs' = runs + 1
  /\ job' = [job EXCEPT ![w] = [at |-> "load", s |-> s, count |-> Head(commands[s]),
                                run |-> runs + 1, scheme |-> Judge, prior |-> NoPaper, slot |-> 1]]
  /\ overlapped' = IF Holders(s) = {} THEN overlapped ELSE overlapped \cup {s}
  /\ UNCHANGED <<guideVars, paperVars, summary, archive, lockFailed, dlq, due,
                 failed, regrades, faults>>

\* The transcript and the submission row, neither of which changes any more.
Load(w) ==
  /\ At(w, "load")
  /\ Goto(w, IF job[w].s \in Linked THEN "list" ELSE "object")
  /\ UNCHANGED <<guideVars, queueVars, paperVars, summary, archive, lockFailed,
                 overlapped, runs, faults>>

\* Mutant: the lowest locked version.
LowestPins(v) == v \in locked /\ \A u \in locked : v <= u

\* The version that pins the batch: the highest locked one.
Pins(v) == v \in locked /\ \A u \in locked : u <= v

\* ListGuideVersions, and the choice: the highest locked version; with none
\* locked the latest, which is then to be locked; with none at all the object
\* store's guide.  (What was imported has validated, so it parses.)
selectLockedOrLatestGuide(w) ==
  /\ At(w, "list")
  /\ \/ \E v \in locked :
          /\ Pins(v)
          /\ job' = [job EXCEPT ![w].at = "prior", ![w].scheme = v]
     \/ /\ locked = {} /\ GetLatestGuide # 0
        /\ job' = [job EXCEPT ![w].at = "lock", ![w].scheme = GetLatestGuide]
     \/ /\ GetLatestGuide = 0
        /\ Goto(w, "object")
  /\ UNCHANGED <<guideVars, queueVars, paperVars, summary, archive, lockFailed,
                 overlapped, runs, faults>>

\* A failure to list the guides is logged and the next source is tried.
ListFails(w) ==
  /\ At(w, "list") /\ "list" \in FaultKinds /\ faults < MaxFaults
  /\ faults' = faults + 1
  /\ Goto(w, "object")
  /\ UNCHANGED <<guideVars, queueVars, paperVars, summary, archive, lockFailed,
                 overlapped, runs>>

LockOnGrading(w) ==
  /\ At(w, "lock")
  /\ LockRow(job[w].scheme)
  /\ Goto(w, "prior")
  /\ UNCHANGED <<queueVars, paperVars, summary, archive, lockFailed, overlapped,
                 runs, faults>>

\* A failure to lock is logged, and the paper marked all the same.
LockFails(w) ==
  /\ At(w, "lock") /\ "lock" \in FaultKinds /\ faults < MaxFaults
  /\ faults' = faults + 1
  /\ lockFailed' = lockFailed \cup {job[w].scheme}
  /\ Goto(w, "prior")
  /\ UNCHANGED <<guideVars, queueVars, paperVars, summary, archive, overlapped,
                 runs>>

LoadObjectGuide(w) ==
  /\ At(w, "object")
  /\ job' = [job EXCEPT ![w].at = "prior",
                        ![w].scheme = IF job[w].s \in WithObject THEN Object ELSE Judge]
  /\ UNCHANGED <<guideVars, queueVars, paperVars, summary, archive, lockFailed,
                 overlapped, runs, faults>>

\* Mutant: that there is no paper yet is not noticed.
AlwaysArchive(p) == "probe"

AfterPrior(p) == IF p = NoPaper THEN "put" ELSE "probe"

\* archivePriorGradedArtifact: read the paper there is, look for a slot that is
\* free, write it there.  Three calls, and the slots are looked at one by one.
ReadPrior(w) ==
  /\ At(w, "prior")
  /\ LET p == graded[job[w].s]
     IN  job' = [job EXCEPT ![w].prior = p,
                            ![w].at = AfterPrior(p)]
  /\ UNCHANGED <<guideVars, queueVars, paperVars, summary, archive, lockFailed,
                 overlapped, runs, faults>>

\* Mutant: the first slot is taken to be free.
FirstSlot(slots, i) == TRUE

FreeSlot(slots, i) == i \notin DOMAIN slots

ProbeSlot(w) ==
  /\ At(w, "probe")
  /\ IF FreeSlot(archive[job[w].s], job[w].slot)
     THEN Goto(w, "slot")
     ELSE job' = [job EXCEPT ![w].slot = @ + 1]
  /\ UNCHANGED <<guideVars, queueVars, paperVars, summary, archive, lockFailed,
                 overlapped, runs, faults>>

PutAt(slots, i, p) == IF i \in DOMAIN slots THEN [slots EXCEPT ![i] = p]
                                            ELSE Append(slots, p)

archivePriorGradedArtifact(w) ==
  /\ At(w, "slot")
  /\ archive' = [archive EXCEPT ![job[w].s] = PutAt(@, job[w].slot, job[w].prior)]
  /\ Goto(w, "put")
  /\ UNCHANGED <<guideVars, queueVars, paperVars, summary, lockFailed,
                 overlapped, runs, faults>>

Marked(w) == [run |-> job[w].run, scheme |-> job[w].scheme]

PutGraded(w) ==
  /\ At(w, "put")
  /\ LET s == job[w].s
     IN  /\ graded' = [graded EXCEPT ![s] = Marked(w)]
         /\ replaced' = [replaced EXCEPT ![s] = @ \cup ({graded[s]} \ {NoPaper})]
  /\ Goto(w, "summary")
  /\ UNCHANGED <<guideVars, queueVars, summary, archive, lockFailed, overlapped,
                 runs, faults>>

\* Mutant: a summary that exists is kept.
KeepSummary(w, old) == IF old = NoPaper THEN Marked(w) ELSE old

NewSummary(w, old) == Marked(w)

PutSummary(w) ==
  /\ At(w, "summary")
  /\ summary' = [summary EXCEPT ![job[w].s] = NewSummary(w, @)]
  /\ Goto(w, "publish")
  /\ UNCHANGED <<guideVars, queueVars, paperVars, archive, lockFailed,
                 overlapped, runs, faults>>

\* The first result takes the submission out of grading.
PublishResult(w) ==
  /\ At(w, "publish")
  /\ due' = due \ {job[w].s}
  /\ Goto(w, "ack")
  /\ UNCHANGED <<guideVars, commands, dlq, failed, regrades, paperVars, summary,
                 archive, lockFailed, overlapped, runs, faults>>

Ack(w) ==
  /\ At(w, "ack")
  /\ job' = [job EXCEPT ![w] = NoJob]
  /\ UNCHANGED <<guideVars, queueVars, paperVars, summary, archive, lockFailed,
                 overlapped, runs, faults>>

Fault(kind) == kind \in FaultKinds /\ faults < MaxFaults /\ faults' = faults + 1

\* The delivery goes back to the front, its count raised by one.
Requeued(w) == [commands EXCEPT ![job[w].s] = <<job[w].count + 1>> \o @]

\* Another call fails and the handler returns its error: its delivery is queued
\* again, or dead-lettered once the attempts are used up.  What it has stored
\* stays.
Reject(w) ==
  /\ job[w] # NoJob /\ job[w].at \notin {"list", "lock", "ack"}
  /\ Fault("return")
  /\ IF job[w].count + 1 < MaxAttempts
     THEN commands' = Requeued(w) /\ UNCHANGED dlq
     ELSE dlq' = dlq \cup {job[w].s} /\ UNCHANGED commands
  /\ job' = [job EXCEPT ![w] = NoJob]
  /\ UNCHANGED <<guideVars, due, failed, regrades, paperVars, summary, archive,
                 lockFailed, overlapped, runs>>

\* The process dies: the broker delivers the command again, whatever its count.
Redeliver(w) ==
  /\ job[w] # NoJob
  /\ Fault("crash")
  /\ commands' = Requeued(w)
  /\ job' = [job EXCEPT ![w] = NoJob]
  /\ UNCHANGED <<guideVars, dlq, due, failed, regrades, paperVars, summary,
                 archive, lockFailed, overlapped, runs>>

\* The orchestrator's: whatever the submission's state is by now, it has failed.
DLQHandler(s) ==
  /\ s \in dlq
  /\ dlq' = dlq \ {s}
  /\ due' = due \ {s} /\ failed' = failed \cup {s}
  /\ UNCHANGED <<guideVars, commands, regrades, paperVars, summary, archive, job,
                 lockFailed, overlapped, runs, faults>>

---------------------------------------------------------------------------
Handle(w) ==
  \/ \E s \in Submissions : Receive(w, s)
  \/ Load(w) \/ selectLockedOrLatestGuide(w) \/ LockOnGrading(w)
  \/ LoadObjectGuide(w)
  \/ ReadPrior(w) \/ ProbeSlot(w) \/ archivePriorGradedArtifact(w)
  \/ PutGraded(w) \/ PutSummary(w) \/ PublishResult(w) \/ Ack(w)

Next ==
  \/ ImportGuide
  \/ \E v \in Versions : LockGuide(v)
  \/ \E s \in Submissions : Regrade(s) \/ DLQHandler(s)
  \/ \E w \in Workers : \/ Handle(w) \/ ListFails(w) \/ LockFails(w)
                       \/ Reject(w) \/ Redeliver(w)

Spec == Init /\ [][Next]_vars

---------------------------------------------------------------------------
(***************************************************************************)
(* Properties.                                                             *)
(***************************************************************************)
\* Every variable keeps its type; slots are filled from the first on.
TypeOK ==
  /\ latest \in 0..MaxVersions /\ locked \subseteq 1..latest
  /\ commands \in [Submissions -> Seq(Nat)]
  /\ dlq \subseteq Submissions /\ due \subseteq Submissions /\ failed \subseteq Submissions
  /\ graded \in [Submissions -> Papers \cup {NoPaper}]
  /\ summary \in [Submissions -> Papers \cup {NoPaper}]
  /\ archive \in [Submissions -> Seq(Papers)]
  /\ job \in [Workers -> Jobs \cup {NoJob}]
  /\ replaced \in [Submissions -> SUBSET Papers]
  /\ lockFailed \subseteq Versions /\ overlapped \subseteq Submissions
  /\ runs \in Nat /\ regrades \in Nat /\ faults \in Nat

\* Archive before overwrite: a submission's papers that a later marking replaced
\* are all in an archive slot, through regrades, failed calls, crashes and
\* repeated deliveries, unless two workers had the submission at once (the
\* free slot is looked for and filled in separate calls).
ReplacedAreArchived ==
  \A s \in Submissions \ overlapped :
    \A p \in replaced[s] : \E i \in DOMAIN archive[s] : archive[s][i] = p

\* Lock on grading: a stored paper that was marked against a guide version was
\* marked against one that is locked by now, however imports, locks and other
\* workers came between the listing and the lock; only a lock call that failed
\* leaves it open.
MarkedAgainstLocked ==
  \A s \in Submissions :
    graded[s] # NoPaper /\ graded[s].scheme \in Versions
      => graded[s].scheme \in locked \cup lockFailed

\* grade-result.json and graded.v1.json are two writes; once a submission is
\* out of grading and no delivery of its command is left, they are of the same
\* marking, whatever failed in between and was done again: a delivery that is
\* given up between the two (MaxAttempts) leaves them apart only in a submission
\* that its dead letter has made, or will make, failed.
SummaryOfGraded ==
  \A s \in Submissions \ (overlapped \cup dlq \cup failed) :
    s \notin due /\ commands[s] = <<>> /\ Holders(s) = {} => summary[s] = graded[s]

\* A submission marked again against a guide is never marked against an older
\* version than before: imports, locks by hand and locks by other workers of
\* the batch only move the choice forward.
GuideNeverRetreats ==
  [][\A s \in Submissions \ overlapped :
       /\ graded[s] # graded'[s] /\ graded[s] # NoPaper
       /\ graded[s].scheme \in Versions \ lockFailed
       /\ graded'[s].scheme \in Versions
       => graded[s].scheme <= graded'[s].scheme]_vars
=============================================================================
