-------------------------- MODULE GradeWorkerProofs --------------------------
(***************************************************************************)
(* Proofs about GradeWorker, for any number of submissions, workers,       *)
(* versions, regrades and faults: its invariants, and that the guide a     *)
(* submission is marked against never retreats.                            *)
(***************************************************************************)
EXTENDS GradeWorkerInvariant, TLAPS

---------------------------------------------------------------------------
(***************************************************************************)
(* Values.                                                                 *)
(***************************************************************************)

\* A scheme names a version or is one of the two other kinds.
LEMMA SchemeValues ==
  /\ Versions \subseteq Nat /\ Versions \subseteq Schemes
  /\ Judge \in Schemes /\ Object \in Schemes
  /\ Judge \notin Versions /\ Object \notin Versions
BY ValuesAssumption, BoundsAssumption DEF Versions, Schemes

\* No paper is the absence of one.
LEMMA PaperValues == NoPaper \notin Papers
BY ValuesAssumption

\* Writing to a slot keeps a sequence a sequence; filling one that is free
\* keeps what is there and adds the new paper.
LEMMA PutAtType ==
  ASSUME NEW slots \in Seq(Papers), NEW i \in Nat, NEW p \in Papers
  PROVE  PutAt(slots, i, p) \in Seq(Papers)
BY DEF PutAt

LEMMA PutAtFree ==
  ASSUME NEW slots \in Seq(Papers), NEW i \in Nat, NEW p \in Papers,
         i \notin DOMAIN slots
  PROVE  /\ \E k \in DOMAIN PutAt(slots, i, p) : PutAt(slots, i, p)[k] = p
         /\ \A k \in DOMAIN slots : /\ k \in DOMAIN PutAt(slots, i, p)
                                    /\ PutAt(slots, i, p)[k] = slots[k]
<1>1. PutAt(slots, i, p) = Append(slots, p)
  BY DEF PutAt
<1>2. /\ DOMAIN Append(slots, p) = 1..Len(slots) + 1 /\ DOMAIN slots = 1..Len(slots)
      /\ Append(slots, p)[Len(slots) + 1] = p /\ Len(slots) \in Nat
      /\ \A k \in 1..Len(slots) : Append(slots, p)[k] = slots[k]
  OBVIOUS
<1> QED BY <1>1, <1>2

---------------------------------------------------------------------------
(***************************************************************************)
(* Types.                                                                  *)
(***************************************************************************)
LEMMA InitTypeOK == Init => TypeOK
BY BoundsAssumption DEF Init, TypeOK

\* A job moves on to another step, or gets another value of its type.
LEMMA JobsType ==
  ASSUME TypeOK, NEW w \in Workers, NEW j \in Jobs \cup {NoJob},
         job' = [job EXCEPT ![w] = j]
  PROVE  job' \in [Workers -> Jobs \cup {NoJob}]
BY DEF TypeOK

LEMMA JobIsTyped ==
  ASSUME TypeOK, NEW w \in Workers, job[w] # NoJob
  PROVE  /\ job[w] \in Jobs /\ job[w].s \in Submissions /\ job[w].run \in Nat
         /\ job[w].scheme \in Schemes /\ job[w].slot \in Nat
         /\ job[w].prior \in Papers \cup {NoPaper}
         /\ Marked(w) \in Papers
BY DEF TypeOK, Jobs, Marked, Papers

LEMMA GotoType ==
  ASSUME TypeOK, NEW w \in Workers, job[w] # NoJob, NEW step \in Steps, Goto(w, step)
  PROVE  job' \in [Workers -> Jobs \cup {NoJob}]
<1>1. job[w] \in Jobs
  BY JobIsTyped
<1>2. [job[w] EXCEPT !.at = step] \in Jobs
  BY <1>1 DEF Jobs
<1>3. job' = [job EXCEPT ![w] = [job[w] EXCEPT !.at = step]]
  BY DEF Goto, TypeOK
<1> QED BY <1>2, <1>3, JobsType

LEMMA HandleType ==
  ASSUME IInv, NEW w \in Workers, Handle(w)
  PROVE  TypeOK'
<1> USE DEF At
<1>0. TypeOK /\ JobInv(w)
  BY DEF IInv
<1>1. ASSUME NEW s \in Submissions, Receive(w, s) PROVE TypeOK'
  <2>0. Head(commands[s]) \in Nat
    BY <1>0, <1>1 DEF Receive, TypeOK
  <2>1. job'[w] \in Jobs
    BY <1>0, <1>1, <2>0, SchemeValues DEF Receive, TypeOK, Jobs, Steps
  <2>2. job' \in [Workers -> Jobs \cup {NoJob}]
    BY <1>0, <1>1, <2>1, SchemeValues DEF Receive, TypeOK
  <2>3. runs' \in Nat /\ overlapped' \subseteq Submissions
    BY <1>0, <1>1 DEF Receive, TypeOK
  <2>4. commands' \in [Submissions -> Seq(Nat)]
    <3>1. commands[s] \in Seq(Nat) /\ commands[s] # <<>>
      BY <1>0, <1>1 DEF Receive, TypeOK
    <3>2. Tail(commands[s]) \in Seq(Nat)
      BY <3>1
    <3> QED BY <1>0, <1>1, <3>2 DEF Receive, TypeOK
  <2> QED BY <1>0, <1>1, <2>2, <2>3, <2>4 DEF Receive, TypeOK, guideVars, paperVars
<1>2. CASE Load(w)
  BY <1>0, <1>2, GotoType DEF Load, TypeOK, Steps, guideVars, queueVars, paperVars
<1>3. CASE selectLockedOrLatestGuide(w)
  <2>1. job[w] \in Jobs /\ job[w] # NoJob
    BY <1>0, <1>3, JobIsTyped DEF selectLockedOrLatestGuide
  <2>2. ASSUME NEW step \in Steps, NEW v \in Schemes,
               job' = [job EXCEPT ![w].at = step, ![w].scheme = v]
        PROVE  job' \in [Workers -> Jobs \cup {NoJob}]
    <3>1. [job[w] EXCEPT !.at = step, !.scheme = v] \in Jobs
      BY <2>1 DEF Jobs
    <3>2. job' = [job EXCEPT ![w] = [job[w] EXCEPT !.at = step, !.scheme = v]]
      BY <1>0, <2>2 DEF TypeOK
    <3> QED BY <1>0, <3>1, <3>2, JobsType
  <2>3. locked \subseteq Schemes /\ (GetLatestGuide # 0 => GetLatestGuide \in Schemes)
    BY <1>0, SchemeValues, BoundsAssumption DEF TypeOK, GetLatestGuide, Versions
  <2>4. job' \in [Workers -> Jobs \cup {NoJob}]
    <3>1. CASE GetLatestGuide = 0 /\ Goto(w, "object")
      BY <1>0, <2>1, <3>1, GotoType DEF Steps
    <3> QED BY <1>3, <2>2, <2>3, <3>1 DEF selectLockedOrLatestGuide, Steps
  <2> QED BY <1>0, <1>3, <2>4 DEF selectLockedOrLatestGuide, TypeOK, guideVars, queueVars, paperVars
<1>4. CASE LockOnGrading(w)
  <2>1. job' \in [Workers -> Jobs \cup {NoJob}]
    BY <1>0, <1>4, GotoType DEF LockOnGrading, Steps
  <2>2. locked' \subseteq 1..latest /\ latest' = latest
    BY <1>0, <1>4 DEF LockOnGrading, LockRow, TypeOK, JobInv
  <2> QED BY <1>0, <1>4, <2>1, <2>2 DEF LockOnGrading, TypeOK, queueVars, paperVars
<1>5. CASE LoadObjectGuide(w)
  <2>1. job[w] \in Jobs /\ job[w] # NoJob
    BY <1>0, <1>5, JobIsTyped DEF LoadObjectGuide
  <2> DEFINE v == IF job[w].s \in WithObject THEN Object ELSE Judge
  <2>2. [job[w] EXCEPT !.at = "prior", !.scheme = v] \in Jobs
    BY <2>1, SchemeValues DEF Jobs, Steps
  <2>3. job' = [job EXCEPT ![w] = [job[w] EXCEPT !.at = "prior", !.scheme = v]]
    BY <1>0, <1>5 DEF LoadObjectGuide, TypeOK
  <2>4. job' \in [Workers -> Jobs \cup {NoJob}]
    BY <1>0, <2>2, <2>3, JobsType
  <2> QED BY <1>0, <1>5, <2>4 DEF LoadObjectGuide, TypeOK, guideVars, queueVars, paperVars
<1>6. CASE ReadPrior(w)
  <2>1. job[w] \in Jobs /\ job[w] # NoJob /\ graded[job[w].s] \in Papers \cup {NoPaper}
    BY <1>0, <1>6, JobIsTyped DEF ReadPrior, TypeOK
  <2> DEFINE p == graded[job[w].s]
  <2>2. [job[w] EXCEPT !.prior = p, !.at = AfterPrior(p)] \in Jobs
    BY <2>1 DEF Jobs, Steps, AfterPrior
  <2>3. job' = [job EXCEPT ![w] = [job[w] EXCEPT !.prior = p, !.at = AfterPrior(p)]]
    BY <1>0, <1>6 DEF ReadPrior, TypeOK
  <2>4. job' \in [Workers -> Jobs \cup {NoJob}]
    BY <1>0, <2>2, <2>3, JobsType
  <2> QED BY <1>0, <1>6, <2>4 DEF ReadPrior, TypeOK, guideVars, queueVars, paperVars
<1>7. CASE ProbeSlot(w)
  <2>1. job[w] \in Jobs /\ job[w] # NoJob
    BY <1>0, <1>7, JobIsTyped DEF ProbeSlot
  <2>2. CASE Goto(w, "slot")
    BY <1>0, <1>7, <2>1, <2>2, GotoType DEF ProbeSlot, TypeOK, Steps, guideVars, queueVars, paperVars
  <2>3. CASE job' = [job EXCEPT ![w].slot = @ + 1]
    <3>1. [job[w] EXCEPT !.slot = @ + 1] \in Jobs
      BY <2>1 DEF Jobs
    <3>2. job' = [job EXCEPT ![w] = [job[w] EXCEPT !.slot = @ + 1]]
      BY <1>0, <2>3 DEF TypeOK
    <3>3. job' \in [Workers -> Jobs \cup {NoJob}]
      BY <1>0, <3>1, <3>2, JobsType
    <3> QED BY <1>0, <1>7, <3>3 DEF ProbeSlot, TypeOK, guideVars, queueVars, paperVars
  <2> QED BY <1>7, <2>2, <2>3 DEF ProbeSlot
<1>8. CASE archivePriorGradedArtifact(w)
  <2>1. job' \in [Workers -> Jobs \cup {NoJob}]
    BY <1>0, <1>8, GotoType DEF archivePriorGradedArtifact, Steps
  <2>2. PutAt(archive[job[w].s], job[w].slot, job[w].prior) \in Seq(Papers)
    BY <1>0, <1>8, JobIsTyped, PutAtType DEF archivePriorGradedArtifact, JobInv, TypeOK
  <2>3. archive' \in [Submissions -> Seq(Papers)]
    BY <1>0, <1>8, <2>2 DEF archivePriorGradedArtifact, TypeOK
  <2> QED BY <1>0, <1>8, <2>1, <2>3 DEF archivePriorGradedArtifact, TypeOK, guideVars, queueVars, paperVars
<1>9. CASE PutGraded(w)
  <2>1. job' \in [Workers -> Jobs \cup {NoJob}]
    BY <1>0, <1>9, GotoType DEF PutGraded, Steps
  <2>2. graded' \in [Submissions -> Papers \cup {NoPaper}]
    BY <1>0, <1>9, JobIsTyped DEF PutGraded, TypeOK
  <2>3. replaced' \in [Submissions -> SUBSET Papers]
    BY <1>0, <1>9, JobIsTyped DEF PutGraded, TypeOK
  <2> QED BY <1>0, <1>9, <2>1, <2>2, <2>3 DEF PutGraded, TypeOK, guideVars, queueVars
<1>10. CASE PutSummary(w)
  <2>1. job' \in [Workers -> Jobs \cup {NoJob}]
    BY <1>0, <1>10, GotoType DEF PutSummary, Steps
  <2>2. summary' \in [Submissions -> Papers \cup {NoPaper}]
    BY <1>0, <1>10, JobIsTyped DEF PutSummary, TypeOK, NewSummary
  <2> QED BY <1>0, <1>10, <2>1, <2>2 DEF PutSummary, TypeOK, guideVars, queueVars, paperVars
<1>11. CASE PublishResult(w)
  <2>1. job' \in [Workers -> Jobs \cup {NoJob}]
    BY <1>0, <1>11, GotoType DEF PublishResult, Steps
  <2> QED BY <1>0, <1>11, <2>1 DEF PublishResult, TypeOK, guideVars, paperVars
<1>12. CASE Ack(w)
  <2>1. job' \in [Workers -> Jobs \cup {NoJob}]
    BY <1>0, <1>12, JobsType DEF Ack
  <2> QED BY <1>0, <1>12, <2>1 DEF Ack, TypeOK, guideVars, queueVars, paperVars
<1> QED BY <1>1, <1>2, <1>3, <1>4, <1>5, <1>6, <1>7, <1>8, <1>9, <1>10, <1>11, <1>12 DEF Handle

\* A delivery that goes back is a delivery again.
LEMMA RequeuedType ==
  ASSUME TypeOK, NEW w \in Workers, job[w] # NoJob
  PROVE  /\ Requeued(w) \in [Submissions -> Seq(Nat)]
         /\ Requeued(w)[job[w].s] # <<>>
         /\ \A s \in Submissions : Requeued(w)[s] = <<>> => commands[s] = <<>>
<1> DEFINE s == job[w].s
           n == job[w].count + 1
<1>1. s \in Submissions /\ n \in Nat /\ commands \in [Submissions -> Seq(Nat)]
  BY DEF TypeOK, Jobs
<1>2. <<n>> \o commands[s] \in Seq(Nat) /\ Len(<<n>> \o commands[s]) = 1 + Len(commands[s])
      /\ Len(commands[s]) \in Nat
  BY <1>1
<1>3. <<n>> \o commands[s] # <<>>
  BY <1>2
<1>4. Requeued(w) = [commands EXCEPT ![s] = <<n>> \o commands[s]]
  BY DEF Requeued
<1> HIDE DEF n
<1> QED BY <1>1, <1>2, <1>3, <1>4

LEMMA NextType ==
  ASSUME IInv, [Next]_vars
  PROVE  TypeOK'
<1>0. TypeOK
  BY DEF IInv
<1>1. CASE ImportGuide
  BY <1>0, <1>1, BoundsAssumption DEF ImportGuide, InsertGuideVersion, TypeOK, queueVars, paperVars
<1>2. ASSUME NEW v \in Versions, LockGuide(v) PROVE TypeOK'
  BY <1>0, <1>2 DEF LockGuide, LockRow, TypeOK, queueVars, paperVars
<1>3. ASSUME NEW s \in Submissions, Regrade(s) PROVE TypeOK'
  <2>1. Append(commands[s], 0) \in Seq(Nat)
    BY <1>0, <1>3 DEF TypeOK
  <2>2. commands' \in [Submissions -> Seq(Nat)]
    BY <1>0, <1>3, <2>1 DEF Regrade, TypeOK
  <2> QED BY <1>0, <1>3, <2>2 DEF Regrade, TypeOK, guideVars, paperVars
<1>4. ASSUME NEW w \in Workers, ListFails(w) PROVE TypeOK'
  <2>1. job' \in [Workers -> Jobs \cup {NoJob}]
    BY <1>0, <1>4, GotoType DEF ListFails, At, Steps
  <2> QED BY <1>0, <1>4, <2>1 DEF ListFails, TypeOK, guideVars, queueVars, paperVars
<1>5. ASSUME NEW w \in Workers, LockFails(w) PROVE TypeOK'
  <2>1. job' \in [Workers -> Jobs \cup {NoJob}]
    BY <1>0, <1>5, GotoType DEF LockFails, At, Steps
  <2>2. job[w].scheme \in Versions
    BY <1>0, <1>5, BoundsAssumption DEF LockFails, At, IInv, JobInv, TypeOK, Versions
  <2> QED BY <1>0, <1>5, <2>1, <2>2 DEF LockFails, TypeOK, guideVars, queueVars, paperVars
<1>6. ASSUME NEW w \in Workers, Redeliver(w) PROVE TypeOK'
  <2>1. job[w] # NoJob /\ job' \in [Workers -> Jobs \cup {NoJob}]
    BY <1>0, <1>6, JobsType DEF Redeliver
  <2>2. commands' \in [Submissions -> Seq(Nat)]
    BY <1>0, <1>6, <2>1, RequeuedType DEF Redeliver
  <2>3. faults' \in Nat
    BY <1>0, <1>6 DEF Redeliver, Fault, TypeOK
  <2> QED BY <1>0, <1>6, <2>1, <2>2, <2>3 DEF Redeliver, TypeOK, guideVars, paperVars
<1>8. ASSUME NEW w \in Workers, Reject(w) PROVE TypeOK'
  <2>1. job[w] # NoJob /\ job' \in [Workers -> Jobs \cup {NoJob}]
    BY <1>0, <1>8, JobsType DEF Reject
  <2>2. commands' \in [Submissions -> Seq(Nat)] /\ dlq' \subseteq Submissions
    <3>1. Requeued(w) \in [Submissions -> Seq(Nat)]
      BY <1>0, <2>1, RequeuedType
    <3>2. job[w].s \in Submissions
      BY <1>0, <2>1 DEF IInv, TypeOK, Jobs
    <3>3. CASE job[w].count + 1 < MaxAttempts
      BY <1>0, <1>8, <3>1, <3>3 DEF Reject, IInv, TypeOK
    <3>4. CASE ~(job[w].count + 1 < MaxAttempts)
      BY <1>0, <1>8, <3>2, <3>4 DEF Reject, IInv, TypeOK
    <3> QED BY <3>3, <3>4
  <2>3. faults' \in Nat
    BY <1>0, <1>8 DEF Reject, Fault, TypeOK
  <2> QED BY <1>0, <1>8, <2>1, <2>2, <2>3 DEF Reject, TypeOK, guideVars, paperVars
<1>9. ASSUME NEW s \in Submissions, DLQHandler(s) PROVE TypeOK'
  BY <1>0, <1>9 DEF DLQHandler, TypeOK, guideVars, paperVars
<1>7. CASE UNCHANGED vars
  BY <1>0, <1>7 DEF vars, TypeOK, guideVars, queueVars, paperVars
<1> QED BY <1>1, <1>2, <1>3, <1>4, <1>5, <1>6, <1>7, <1>8, <1>9, HandleType DEF Next

---------------------------------------------------------------------------
(***************************************************************************)
(* What a step leaves alone.                                               *)
(***************************************************************************)
\* Locks, failures to lock, overlaps and dead letters are never taken back.
Grows == /\ latest \in Nat /\ latest' \in Nat /\ latest <= latest'
         /\ locked \subseteq locked' /\ lockFailed \subseteq lockFailed'
         /\ overlapped \subseteq overlapped' /\ GivenUp \subseteq GivenUp'

LEMMA JobKept ==
  ASSUME Grows, NEW v \in Workers, JobInv(v), job'[v] = job[v]
  PROVE  JobInv(v)'
BY DEF Grows, JobInv, Versions

\* The stored data of a submission.
SameStore(s) == /\ graded'[s] = graded[s] /\ summary'[s] = summary[s]
                /\ archive'[s] = archive[s] /\ replaced'[s] = replaced[s]

LEMMA SoloKept ==
  ASSUME Grows, NEW v \in Workers, SoloInv(v), job'[v] = job[v],
         job[v] # NoJob /\ job[v].s \notin overlapped' => Alone(v)' /\ SameStore(job[v].s)
  PROVE  SoloInv(v)'
<1> SUFFICES ASSUME job[v] # NoJob, job[v].s \notin overlapped' PROVE Alone(v)' /\ Knows(v)'
  BY DEF SoloInv
<1>1. Knows(v) /\ Alone(v)' /\ SameStore(job[v].s)
  BY DEF SoloInv, Grows
<1>2. Knows(v)'
  BY <1>1 DEF Knows, SameStore, Archived, NoNewer, Marked, Grows
<1> QED BY <1>1, <1>2

LEMMA PapersKept ==
  ASSUME Grows, NEW s \in Submissions, PapersInv(s), SameStore(s),
         s \notin overlapped' \cup GivenUp' /\ commands'[s] = <<>> /\ Holders(s)' = {}
           => (commands[s] = <<>> /\ Holders(s) = {}) \/ summary[s] = graded[s]
  PROVE  PapersInv(s)'
BY DEF Grows, PapersInv, SameStore, Archived

\* A step of a worker at its job concerns its own submission only: what is left
\* to show of it is what the job and that submission's papers promise.
LEMMA WorkerStep ==
  ASSUME IInv, TypeOK', Grows, NEW w \in Workers, job[w] # NoJob,
         UNCHANGED <<commands, overlapped>>,
         job'[w] # NoJob, job'[w].s = job[w].s,
         \A v \in Workers \ {w} : job'[v] = job[v],
         \A s \in Submissions \ {job[w].s} : SameStore(s),
         JobInv(w)', job[w].s \notin overlapped => Knows(w)',
         job[w].s \notin overlapped =>
           \A p \in replaced'[job[w].s] : Archived(job[w].s, p)',
         graded'[job[w].s] # NoPaper /\ graded'[job[w].s].scheme \in Versions
           => graded'[job[w].s].scheme \in locked' \cup lockFailed'
  PROVE  IInv'
<1>1. ASSUME NEW v \in Workers PROVE JobInv(v)' /\ SoloInv(v)'
  <2>1. JobInv(v)'
    BY JobKept DEF IInv
  <2>2. job[w].s \in Submissions /\ (job[v] # NoJob => job[v].s \in Submissions)
    BY JobIsTyped DEF IInv
  <2>3. job[v] # NoJob /\ job[v].s \notin overlapped' => Alone(v)'
    BY DEF IInv, SoloInv, Alone
  <2>4. CASE v = w
    BY <2>3, <2>4 DEF SoloInv
  <2>5. CASE v # w
    <3>1. job[v] # NoJob /\ job[v].s \notin overlapped' => SameStore(job[v].s)
      BY <2>2, <2>5 DEF IInv, SoloInv, Alone
    <3> QED BY <2>1, <2>3, <2>5, <3>1, SoloKept DEF IInv
  <2> QED BY <2>1, <2>4, <2>5
<1>2. ASSUME NEW s \in Submissions PROVE PapersInv(s)'
  <2>1. CASE s = job[w].s
    <3>1. w \in Holders(s)'
      BY <2>1 DEF Holders
    <3> QED BY <2>1, <3>1 DEF PapersInv
  <2>2. CASE s # job[w].s
    <3>1. Holders(s)' = {} => Holders(s) = {}
      BY <2>2 DEF Holders
    <3> QED BY <2>2, <3>1, PapersKept DEF IInv
  <2> QED BY <2>1, <2>2
<1> QED BY <1>1, <1>2 DEF IInv

---------------------------------------------------------------------------
(***************************************************************************)
(* The invariant.                                                          *)
(***************************************************************************)
LEMMA InitIInv == Init => IInv
<1> SUFFICES ASSUME Init PROVE IInv
  OBVIOUS
<1>1. TypeOK
  BY InitTypeOK
<1>2. ASSUME NEW w \in Workers PROVE JobInv(w) /\ SoloInv(w)
  BY DEF Init, JobInv, SoloInv
<1>3. ASSUME NEW s \in Submissions PROVE PapersInv(s)
  BY DEF Init, PapersInv
<1> QED BY <1>1, <1>2, <1>3 DEF IInv

LEMMA NextGrows ==
  ASSUME IInv, [Next]_vars
  PROVE  Grows
<1>0. latest \in Nat
  BY BoundsAssumption DEF IInv, TypeOK
<1>1. CASE ImportGuide
  BY <1>0, <1>1 DEF ImportGuide, InsertGuideVersion, Grows, GivenUp, queueVars
<1>2. ASSUME NEW v \in Versions, LockGuide(v) PROVE Grows
  BY <1>0, <1>2 DEF LockGuide, LockRow, Grows, GivenUp, queueVars
<1>3. ASSUME NEW s \in Submissions, Regrade(s) \/ DLQHandler(s) PROVE Grows
  BY <1>0, <1>3 DEF Regrade, DLQHandler, Grows, GivenUp, guideVars
<1>4. ASSUME NEW w \in Workers, ListFails(w) \/ LockFails(w) \/ Reject(w) \/ Redeliver(w)
      PROVE Grows
  BY <1>0, <1>4 DEF ListFails, LockFails, Reject, Redeliver, Grows, GivenUp, guideVars, queueVars
<1>5. ASSUME NEW w \in Workers, Handle(w) PROVE Grows
  <2>1. ASSUME NEW s \in Submissions, Receive(w, s) PROVE Grows
    BY <1>0, <2>1 DEF Receive, Grows, GivenUp, guideVars
  <2>2. CASE LockOnGrading(w)
    BY <1>0, <2>2 DEF LockOnGrading, LockRow, Grows, GivenUp, queueVars
  <2>3. CASE Load(w) \/ selectLockedOrLatestGuide(w) \/ LoadObjectGuide(w) \/ ReadPrior(w)
    BY <1>0, <2>3 DEF Load, selectLockedOrLatestGuide, LoadObjectGuide, ReadPrior, Grows, GivenUp,
       guideVars, queueVars
  <2>4. CASE ProbeSlot(w) \/ archivePriorGradedArtifact(w) \/ PutGraded(w)
    BY <1>0, <2>4 DEF ProbeSlot, archivePriorGradedArtifact, PutGraded, Grows, GivenUp,
       guideVars, queueVars
  <2>5. CASE PutSummary(w) \/ PublishResult(w) \/ Ack(w)
    BY <1>0, <2>5 DEF PutSummary, PublishResult, Ack, Grows, GivenUp,
       guideVars, queueVars
  <2> QED BY <1>5, <2>1, <2>2, <2>3, <2>4, <2>5 DEF Handle
<1>6. CASE UNCHANGED vars
  BY <1>0, <1>6 DEF vars, guideVars, queueVars, Grows, GivenUp
<1> QED BY <1>1, <1>2, <1>3, <1>4, <1>5, <1>6 DEF Next

\* A step that changes no job and no stored paper, and takes no command away.
LEMMA HandlersStep ==
  ASSUME IInv, TypeOK', Grows, UNCHANGED <<job, graded, summary, archive, replaced>>,
         \A s \in Submissions : commands'[s] = <<>> => commands[s] = <<>>
  PROVE  IInv'
<1>1. \A s \in Submissions : SameStore(s)
  BY DEF SameStore
<1>2. ASSUME NEW w \in Workers PROVE JobInv(w)' /\ SoloInv(w)'
  <2>1. job[w] # NoJob => job[w].s \in Submissions
    BY JobIsTyped DEF IInv
  <2>2. job[w] # NoJob /\ job[w].s \notin overlapped' => Alone(w)'
    BY DEF IInv, SoloInv, Alone, Grows
  <2> QED BY <1>1, <2>1, <2>2, JobKept, SoloKept DEF IInv
<1>3. ASSUME NEW s \in Submissions PROVE PapersInv(s)'
  BY <1>1, PapersKept DEF IInv, Holders
<1> QED BY <1>2, <1>3 DEF IInv

\* A worker that gives its delivery up, or is done with it.
LEMMA LeaveStep ==
  ASSUME IInv, TypeOK', Grows, NEW w \in Workers, job[w] # NoJob,
         job' = [job EXCEPT ![w] = NoJob],
         UNCHANGED <<graded, summary, archive, replaced, overlapped>>,
         \A s \in Submissions : commands'[s] = <<>> => commands[s] = <<>>,
         job[w].s \notin GivenUp' /\ commands'[job[w].s] = <<>> => job[w].at = "ack"
  PROVE  IInv'
<1>1. \A s \in Submissions : SameStore(s)
  BY DEF SameStore
<1>2. job'[w] = NoJob /\ \A v \in Workers \ {w} : job'[v] = job[v]
  BY DEF IInv, TypeOK
<1>3. ASSUME NEW v \in Workers PROVE JobInv(v)' /\ SoloInv(v)'
  <2>1. CASE v = w
    BY <1>2, <2>1 DEF JobInv, SoloInv
  <2>2. CASE v # w
    <3>1. job[v] # NoJob => job[v].s \in Submissions
      BY JobIsTyped DEF IInv
    <3>2. job[v] # NoJob /\ job[v].s \notin overlapped' => Alone(v)'
      BY <1>2, <2>2 DEF IInv, SoloInv, Alone
    <3> QED BY <1>1, <1>2, <2>2, <3>1, <3>2, JobKept, SoloKept DEF IInv
  <2> QED BY <2>1, <2>2
<1>4. ASSUME NEW s \in Submissions PROVE PapersInv(s)'
  <2>1. CASE s # job[w].s
    <3>1. Holders(s)' = {} => Holders(s) = {}
      BY <1>2, <2>1 DEF Holders
    <3> QED BY <1>1, <2>1, <3>1, PapersKept DEF IInv
  <2>2. CASE s = job[w].s
    <3>1. s \notin overlapped' \cup GivenUp' /\ commands'[s] = <<>> => summary[s] = graded[s]
      BY <2>2 DEF IInv, SoloInv, Knows
    <3> QED BY <1>1, <2>2, <3>1, PapersKept DEF IInv
  <2> QED BY <2>1, <2>2
<1> QED BY <1>3, <1>4 DEF IInv

\* A worker that goes on, and changes nothing that is stored.
LEMMA GoOnStep ==
  ASSUME IInv, TypeOK', Grows, NEW w \in Workers, job[w] # NoJob,
         NEW y \in Jobs, job' = [job EXCEPT ![w] = y], y.s = job[w].s,
         UNCHANGED <<commands, overlapped>>, \A s \in Submissions : SameStore(s),
         JobInv(w)', job[w].s \notin overlapped => Knows(w)'
  PROVE  IInv'
<1>1. job'[w] = y /\ y # NoJob /\ \A v \in Workers \ {w} : job'[v] = job[v]
  BY ValuesAssumption DEF IInv, TypeOK
<1>2. job[w].s \in Submissions
  BY JobIsTyped DEF IInv
<1>3. PapersInv(job[w].s) /\ SameStore(job[w].s)
  BY <1>2 DEF IInv
<1>4. job[w].s \notin overlapped =>
        \A p \in replaced'[job[w].s] : Archived(job[w].s, p)'
  BY <1>3 DEF PapersInv, SameStore, Archived
<1>5. graded'[job[w].s] # NoPaper /\ graded'[job[w].s].scheme \in Versions
        => graded'[job[w].s].scheme \in locked' \cup lockFailed'
  BY <1>3 DEF PapersInv, SameStore, Grows
<1> QED BY <1>1, <1>4, <1>5, WorkerStep

\* The job of a worker that only moves on to another step.
LEMMA GotoJob ==
  ASSUME IInv, NEW w \in Workers, job[w] # NoJob, NEW step \in Steps, Goto(w, step)
  PROVE  \E y \in Jobs :
           /\ job' = [job EXCEPT ![w] = y]
           /\ y.at = step /\ y.s = job[w].s /\ y.run = job[w].run
           /\ y.scheme = job[w].scheme /\ y.prior = job[w].prior /\ y.slot = job[w].slot
<1> DEFINE y == [job[w] EXCEPT !.at = step]
<1>1. job[w] \in Jobs
  BY JobIsTyped DEF IInv
<1>2. y \in Jobs /\ y.at = step /\ y.s = job[w].s /\ y.run = job[w].run
      /\ y.scheme = job[w].scheme /\ y.prior = job[w].prior /\ y.slot = job[w].slot
  BY <1>1 DEF Jobs
<1>3. job' = [job EXCEPT ![w] = y]
  BY DEF Goto, IInv, TypeOK
<1> QED BY <1>2, <1>3

---------------------------------------------------------------------------
(***************************************************************************)
(* The steps of a job, one lemma per call.                                 *)
(***************************************************************************)
\* Before the choice of a guide a job has nothing to keep.
LEMMA FreshStep ==
  ASSUME IInv, TypeOK', Grows, NEW w \in Workers, job[w] # NoJob,
         NEW step \in {"list", "object"}, Goto(w, step),
         UNCHANGED <<commands, overlapped>>, \A s \in Submissions : SameStore(s)
  PROVE  IInv'
<1>1. PICK y \in Jobs : job' = [job EXCEPT ![w] = y] /\ y.at = step /\ y.s = job[w].s
  BY GotoJob DEF Steps
<1>2. job'[w] = y
  BY <1>1 DEF IInv, TypeOK
<1>3. JobInv(w)' /\ Knows(w)'
  BY <1>1, <1>2 DEF JobInv, Knows, Chosen, Settled
<1> QED BY <1>1, <1>3, GoOnStep

LEMMA LoadKeeps ==
  ASSUME IInv, TypeOK', Grows, NEW w \in Workers, Load(w)
  PROVE  IInv'
<1>1. \A s \in Submissions : SameStore(s)
  BY DEF Load, SameStore, paperVars
<1> QED BY <1>1, FreshStep DEF Load, At, queueVars

LEMMA ListFailsKeeps ==
  ASSUME IInv, TypeOK', Grows, NEW w \in Workers, ListFails(w)
  PROVE  IInv'
<1>1. \A s \in Submissions : SameStore(s)
  BY DEF ListFails, SameStore, paperVars
<1> QED BY <1>1, FreshStep DEF ListFails, At, queueVars

\* A stored paper marked against a version that no lock failed on was marked
\* against a locked one, so not against a version later than the highest locked.
LEMMA SelectKeeps ==
  ASSUME IInv, TypeOK', Grows, NEW w \in Workers, selectLockedOrLatestGuide(w)
  PROVE  IInv'
<1>0. /\ job[w] # NoJob /\ job[w] \in Jobs /\ job[w].s \in Submissions
      /\ UNCHANGED <<commands, overlapped, locked, lockFailed, latest, graded, summary, archive>>
      /\ \A s \in Submissions : SameStore(s)
  BY JobIsTyped DEF selectLockedOrLatestGuide, At, IInv, SameStore, guideVars, queueVars, paperVars
<1>1. PapersInv(job[w].s)
  BY <1>0 DEF IInv
<1>2. ASSUME NEW v \in locked, Pins(v),
             job' = [job EXCEPT ![w].at = "prior", ![w].scheme = v]
      PROVE  IInv'
  <2> DEFINE y == [job[w] EXCEPT !.at = "prior", !.scheme = v]
  <2>1. v \in Versions /\ locked \subseteq Versions
    BY BoundsAssumption DEF IInv, TypeOK, Versions
  <2>2. y \in Jobs /\ y.s = job[w].s /\ y.at = "prior" /\ y.scheme = v
    BY <1>0, <2>1, SchemeValues DEF Jobs, Steps
  <2>3. job' = [job EXCEPT ![w] = y] /\ job'[w] = y
    BY <1>2, <1>0 DEF IInv, TypeOK
  <2> HIDE DEF y
  <2>4. JobInv(w)'
    BY <1>0, <2>2, <2>3 DEF JobInv
  <2>5. NoNewer(graded[job[w].s], v)
    BY <1>1, <1>2 DEF PapersInv, NoNewer, Pins
  <2>6. Knows(w)'
    BY <1>0, <2>2, <2>3, <2>5 DEF Knows, NoNewer
  <2> QED BY <1>0, <2>2, <2>3, <2>4, <2>6, GoOnStep
<1>3. ASSUME locked = {}, GetLatestGuide # 0,
             job' = [job EXCEPT ![w].at = "lock", ![w].scheme = GetLatestGuide]
      PROVE  IInv'
  <2> DEFINE y == [job[w] EXCEPT !.at = "lock", !.scheme = latest]
  <2>1. latest \in Versions /\ latest \in 1..latest
    BY <1>3, BoundsAssumption DEF IInv, TypeOK, Versions, GetLatestGuide
  <2>2. y \in Jobs /\ y.s = job[w].s /\ y.at = "lock" /\ y.scheme = latest
    BY <1>0, <2>1, SchemeValues DEF Jobs, Steps
  <2>3. job' = [job EXCEPT ![w] = y] /\ job'[w] = y
    BY <1>3, <1>0 DEF IInv, TypeOK, GetLatestGuide
  <2> HIDE DEF y
  <2>4. JobInv(w)'
    BY <1>0, <2>1, <2>2, <2>3 DEF JobInv, Settled, Chosen
  <2>5. NoNewer(graded[job[w].s], latest)
    BY <1>1, <1>3 DEF PapersInv, NoNewer
  <2>6. Knows(w)'
    BY <1>0, <2>2, <2>3, <2>5 DEF Knows, NoNewer
  <2> QED BY <1>0, <2>2, <2>3, <2>4, <2>6, GoOnStep
<1>4. CASE Goto(w, "object")
  BY <1>0, <1>4, FreshStep
<1> QED BY <1>2, <1>3, <1>4 DEF selectLockedOrLatestGuide

LEMMA LockKeeps ==
  ASSUME IInv, TypeOK', Grows, NEW w \in Workers, LockOnGrading(w)
  PROVE  IInv'
<1>0. /\ job[w] # NoJob /\ job[w].at = "lock"
      /\ UNCHANGED <<commands, overlapped, lockFailed, graded>>
      /\ locked' = locked \cup {job[w].scheme}
      /\ \A s \in Submissions : SameStore(s)
  BY DEF LockOnGrading, LockRow, At, SameStore, queueVars, paperVars
<1>1. PICK y \in Jobs : /\ job' = [job EXCEPT ![w] = y]
                        /\ y.at = "prior" /\ y.s = job[w].s /\ y.scheme = job[w].scheme
  BY <1>0, GotoJob DEF LockOnGrading, Steps
<1>2. job'[w] = y
  BY <1>1 DEF IInv, TypeOK
<1>3. JobInv(w)'
  BY <1>0, <1>1, <1>2 DEF JobInv
<1>4. job[w].s \notin overlapped => Knows(w)'
  BY <1>0, <1>1, <1>2 DEF IInv, SoloInv, Knows, NoNewer, Chosen
<1> QED BY <1>0, <1>1, <1>3, <1>4, GoOnStep

LEMMA LockFailsKeeps ==
  ASSUME IInv, TypeOK', Grows, NEW w \in Workers, LockFails(w)
  PROVE  IInv'
<1>0. /\ job[w] # NoJob /\ job[w].at = "lock"
      /\ UNCHANGED <<commands, overlapped, locked, graded>>
      /\ lockFailed' = lockFailed \cup {job[w].scheme}
      /\ \A s \in Submissions : SameStore(s)
  BY DEF LockFails, At, SameStore, guideVars, queueVars, paperVars
<1>1. PICK y \in Jobs : /\ job' = [job EXCEPT ![w] = y]
                        /\ y.at = "prior" /\ y.s = job[w].s /\ y.scheme = job[w].scheme
  BY <1>0, GotoJob DEF LockFails, Steps
<1>2. job'[w] = y
  BY <1>1 DEF IInv, TypeOK
<1>3. JobInv(w)'
  BY <1>0, <1>1, <1>2 DEF JobInv
<1>4. job[w].s \notin overlapped => Knows(w)'
  BY <1>0, <1>1, <1>2 DEF IInv, SoloInv, Knows, NoNewer, Chosen
<1> QED BY <1>0, <1>1, <1>3, <1>4, GoOnStep

LEMMA LoadObjectKeeps ==
  ASSUME IInv, TypeOK', Grows, NEW w \in Workers, LoadObjectGuide(w)
  PROVE  IInv'
<1> DEFINE v == IF job[w].s \in WithObject THEN Object ELSE Judge
           y == [job[w] EXCEPT !.at = "prior", !.scheme = v]
<1>0. /\ job[w] # NoJob /\ job[w] \in Jobs
      /\ UNCHANGED <<commands, overlapped>>
      /\ \A s \in Submissions : SameStore(s)
  BY JobIsTyped DEF LoadObjectGuide, At, IInv, SameStore, queueVars, paperVars
<1>1. v \in Schemes /\ v \notin Versions
  BY SchemeValues
<1>2. y \in Jobs /\ y.s = job[w].s /\ y.at = "prior" /\ y.scheme = v
  BY <1>0, <1>1 DEF Jobs, Steps
<1>3. job' = [job EXCEPT ![w] = y] /\ job'[w] = y
  BY DEF LoadObjectGuide, IInv, TypeOK
<1> HIDE DEF y, v
<1>4. JobInv(w)'
  BY <1>1, <1>2, <1>3 DEF JobInv
<1>5. Knows(w)'
  BY <1>1, <1>2, <1>3 DEF Knows, NoNewer
<1> QED BY <1>0, <1>2, <1>3, <1>4, <1>5, GoOnStep

LEMMA ReadPriorKeeps ==
  ASSUME IInv, TypeOK', Grows, NEW w \in Workers, ReadPrior(w)
  PROVE  IInv'
<1> DEFINE p == graded[job[w].s]
           y == [job[w] EXCEPT !.prior = p, !.at = AfterPrior(p)]
<1>0. /\ job[w] # NoJob /\ job[w] \in Jobs /\ job[w].at = "prior"
      /\ job[w].s \in Submissions
      /\ UNCHANGED <<commands, overlapped, locked, lockFailed, graded>>
      /\ \A s \in Submissions : SameStore(s)
  BY JobIsTyped DEF ReadPrior, At, IInv, SameStore, guideVars, queueVars, paperVars
<1>1. p \in Papers \cup {NoPaper}
  BY <1>0 DEF IInv, TypeOK
<1>2. /\ y \in Jobs /\ y.s = job[w].s /\ y.at = AfterPrior(p)
      /\ y.scheme = job[w].scheme /\ y.prior = p
  BY <1>0, <1>1 DEF Jobs, Steps, AfterPrior
<1>3. job' = [job EXCEPT ![w] = y] /\ job'[w] = y
  BY DEF ReadPrior, IInv, TypeOK
<1> HIDE DEF y
<1>4. JobInv(w)'
  BY <1>0, <1>2, <1>3 DEF IInv, JobInv, AfterPrior, Settled, Chosen
<1>5. job[w].s \notin overlapped => Knows(w)'
  BY <1>0, <1>2, <1>3 DEF IInv, SoloInv, Knows, NoNewer, AfterPrior, Chosen
<1> QED BY <1>0, <1>2, <1>3, <1>4, <1>5, GoOnStep

LEMMA ProbeSlotKeeps ==
  ASSUME IInv, TypeOK', Grows, NEW w \in Workers, ProbeSlot(w)
  PROVE  IInv'
<1>0. /\ job[w] # NoJob /\ job[w] \in Jobs /\ job[w].at = "probe"
      /\ UNCHANGED <<commands, overlapped, locked, lockFailed, graded, archive>>
      /\ \A s \in Submissions : SameStore(s)
  BY JobIsTyped DEF ProbeSlot, At, IInv, SameStore, guideVars, queueVars, paperVars
<1>1. PICK y \in Jobs :
        /\ job' = [job EXCEPT ![w] = y]
        /\ y.s = job[w].s /\ y.scheme = job[w].scheme /\ y.prior = job[w].prior
        /\ \/ y.at = "probe"
           \/ y.at = "slot" /\ y.slot \notin DOMAIN archive[y.s]
  <2>1. CASE FreeSlot(archive[job[w].s], job[w].slot)
    BY <1>0, <2>1, GotoJob DEF ProbeSlot, FreeSlot, Steps
  <2>2. CASE ~FreeSlot(archive[job[w].s], job[w].slot)
    <3> DEFINE z == [job[w] EXCEPT !.slot = @ + 1]
    <3>1. z \in Jobs /\ z.s = job[w].s /\ z.scheme = job[w].scheme
          /\ z.prior = job[w].prior /\ z.at = "probe"
      BY <1>0 DEF Jobs
    <3>2. job' = [job EXCEPT ![w] = z]
      BY <2>2 DEF ProbeSlot, IInv, TypeOK
    <3> QED BY <3>1, <3>2
  <2> QED BY <2>1, <2>2
<1>2. job'[w] = y
  BY <1>1 DEF IInv, TypeOK
<1>3. JobInv(w)'
  BY <1>0, <1>1, <1>2 DEF IInv, JobInv, Settled, Chosen
<1>4. job[w].s \notin overlapped => Knows(w)'
  BY <1>0, <1>1, <1>2 DEF IInv, SoloInv, Knows, NoNewer, Chosen
<1> QED BY <1>0, <1>1, <1>3, <1>4, GoOnStep

LEMMA ArchiveKeeps ==
  ASSUME IInv, TypeOK', Grows, NEW w \in Workers, archivePriorGradedArtifact(w)
  PROVE  IInv'
<1> DEFINE s == job[w].s
           slots == archive[s]
<1>0. /\ job[w] # NoJob /\ job[w] \in Jobs /\ job[w].at = "slot"
      /\ s \in Submissions /\ slots \in Seq(Papers) /\ job[w].slot \in Nat
      /\ job[w].prior \in Papers
      /\ UNCHANGED <<commands, overlapped, locked, lockFailed, graded, summary, replaced>>
      /\ archive' = [archive EXCEPT ![s] = PutAt(slots, job[w].slot, job[w].prior)]
  BY JobIsTyped DEF archivePriorGradedArtifact, At, IInv, TypeOK, JobInv, guideVars, queueVars,
     paperVars
<1>1. PICK y \in Jobs : /\ job' = [job EXCEPT ![w] = y]
                        /\ y.at = "put" /\ y.s = s /\ y.scheme = job[w].scheme
  BY <1>0, GotoJob DEF archivePriorGradedArtifact, Steps
<1>2. job'[w] = y /\ y # NoJob /\ \A v \in Workers \ {w} : job'[v] = job[v]
  BY <1>1, ValuesAssumption DEF IInv, TypeOK
<1>3. \A t \in Submissions \ {s} : SameStore(t)
  BY <1>0 DEF SameStore, IInv, TypeOK
<1>4. archive'[s] = PutAt(slots, job[w].slot, job[w].prior)
  BY <1>0 DEF IInv, TypeOK
<1>5. JobInv(w) /\ SoloInv(w) /\ PapersInv(s)
  BY <1>0 DEF IInv
<1>6. s \notin overlapped => Knows(w) /\ job[w].slot \notin DOMAIN slots /\ job[w].prior = graded[s]
  BY <1>0, <1>5 DEF SoloInv, Knows
<1>7. ASSUME s \notin overlapped
      PROVE  /\ Archived(s, graded[s])'
             /\ \A p : Archived(s, p) => Archived(s, p)'
  BY <1>0, <1>1, <1>2, <1>4, <1>6, <1>7, PutAtFree DEF Archived
<1>8. JobInv(w)'
  BY <1>0, <1>1, <1>2, <1>5 DEF JobInv, Settled, Chosen
<1>9. s \notin overlapped => Knows(w)'
  BY <1>0, <1>1, <1>2, <1>6, <1>7 DEF Knows, NoNewer, Chosen
<1>10. s \notin overlapped => \A p \in replaced'[s] : Archived(s, p)'
  BY <1>0, <1>5, <1>7 DEF PapersInv
<1>11. graded'[s] # NoPaper /\ graded'[s].scheme \in Versions
         => graded'[s].scheme \in locked' \cup lockFailed'
  BY <1>0, <1>5 DEF PapersInv
<1> QED BY <1>0, <1>1, <1>2, <1>3, <1>8, <1>9, <1>10, <1>11, WorkerStep

LEMMA PutGradedKeeps ==
  ASSUME IInv, TypeOK', Grows, NEW w \in Workers, PutGraded(w)
  PROVE  IInv'
<1> DEFINE s == job[w].s
<1>0. /\ job[w] # NoJob /\ job[w] \in Jobs /\ job[w].at = "put" /\ s \in Submissions
      /\ UNCHANGED <<commands, overlapped, locked, lockFailed, summary, archive>>
      /\ graded' = [graded EXCEPT ![s] = Marked(w)]
      /\ replaced' = [replaced EXCEPT ![s] = @ \cup ({graded[s]} \ {NoPaper})]
  BY JobIsTyped DEF PutGraded, At, IInv, guideVars, queueVars
<1>1. PICK y \in Jobs : /\ job' = [job EXCEPT ![w] = y]
                        /\ y.at = "summary" /\ y.s = s
                        /\ y.scheme = job[w].scheme /\ y.run = job[w].run
  BY <1>0, GotoJob DEF PutGraded, Steps
<1>2. job'[w] = y /\ y # NoJob /\ \A v \in Workers \ {w} : job'[v] = job[v]
  BY <1>1, ValuesAssumption DEF IInv, TypeOK
<1>3. \A t \in Submissions \ {s} : SameStore(t)
  BY <1>0 DEF SameStore, IInv, TypeOK
<1>4. /\ graded'[s] = Marked(w)
      /\ replaced'[s] = replaced[s] \cup ({graded[s]} \ {NoPaper})
  BY <1>0 DEF IInv, TypeOK
<1>5. JobInv(w) /\ SoloInv(w) /\ PapersInv(s)
  BY <1>0 DEF IInv
<1>6. JobInv(w)'
  BY <1>1, <1>2 DEF JobInv, Settled, Chosen
<1>7. Knows(w)'
  BY <1>1, <1>2, <1>4 DEF Knows, Chosen, Marked
<1>8. s \notin overlapped => \A p \in replaced'[s] : Archived(s, p)'
  BY <1>0, <1>1, <1>2, <1>4, <1>5 DEF PapersInv, SoloInv, Knows, Archived
<1>9. graded'[s] # NoPaper /\ graded'[s].scheme \in Versions
        => graded'[s].scheme \in locked' \cup lockFailed'
  BY <1>0, <1>4, <1>5 DEF JobInv, Marked, Settled, Chosen
<1> QED BY <1>0, <1>1, <1>2, <1>3, <1>6, <1>7, <1>8, <1>9, WorkerStep

LEMMA PutSummaryKeeps ==
  ASSUME IInv, TypeOK', Grows, NEW w \in Workers, PutSummary(w)
  PROVE  IInv'
<1> DEFINE s == job[w].s
<1>0. /\ job[w] # NoJob /\ job[w] \in Jobs /\ job[w].at = "summary" /\ s \in Submissions
      /\ UNCHANGED <<commands, overlapped, locked, lockFailed, graded, archive, replaced>>
      /\ summary' = [summary EXCEPT ![s] = Marked(w)]
  BY JobIsTyped DEF PutSummary, NewSummary, At, IInv, guideVars, queueVars, paperVars
<1>1. PICK y \in Jobs : /\ job' = [job EXCEPT ![w] = y]
                        /\ y.at = "publish" /\ y.s = s /\ y.scheme = job[w].scheme
  BY <1>0, GotoJob DEF PutSummary, Steps
<1>2. job'[w] = y /\ y # NoJob /\ \A v \in Workers \ {w} : job'[v] = job[v]
  BY <1>1, ValuesAssumption DEF IInv, TypeOK
<1>3. \A t \in Submissions \ {s} : SameStore(t)
  BY <1>0 DEF SameStore, IInv, TypeOK
<1>4. summary'[s] = Marked(w)
  BY <1>0 DEF IInv, TypeOK
<1>5. SoloInv(w) /\ PapersInv(s)
  BY <1>0 DEF IInv
<1>6. JobInv(w)'
  BY <1>1, <1>2 DEF JobInv, Settled, Chosen
<1>7. s \notin overlapped => Knows(w)'
  BY <1>0, <1>1, <1>2, <1>4, <1>5 DEF SoloInv, Knows, Chosen
<1>8. s \notin overlapped => \A p \in replaced'[s] : Archived(s, p)'
  BY <1>0, <1>1, <1>2, <1>5 DEF PapersInv, Archived
<1>9. graded'[s] # NoPaper /\ graded'[s].scheme \in Versions
        => graded'[s].scheme \in locked' \cup lockFailed'
  BY <1>0, <1>5 DEF PapersInv
<1> QED BY <1>0, <1>1, <1>2, <1>3, <1>6, <1>7, <1>8, <1>9, WorkerStep

LEMMA PublishResultKeeps ==
  ASSUME IInv, TypeOK', Grows, NEW w \in Workers, PublishResult(w)
  PROVE  IInv'
<1>0. /\ job[w] # NoJob /\ job[w].at = "publish"
      /\ UNCHANGED <<commands, overlapped, graded, summary>>
      /\ \A s \in Submissions : SameStore(s)
  BY DEF PublishResult, At, SameStore, paperVars
<1>1. PICK y \in Jobs : /\ job' = [job EXCEPT ![w] = y]
                        /\ y.at = "ack" /\ y.s = job[w].s
  BY <1>0, GotoJob DEF PublishResult, Steps
<1>2. job'[w] = y
  BY <1>1 DEF IInv, TypeOK
<1>3. JobInv(w)'
  BY <1>1, <1>2 DEF JobInv, Settled, Chosen
<1>4. job[w].s \notin overlapped => Knows(w)'
  BY <1>0, <1>1, <1>2 DEF IInv, SoloInv, Knows, Chosen
<1> QED BY <1>0, <1>1, <1>3, <1>4, GoOnStep

LEMMA AckKeeps ==
  ASSUME IInv, TypeOK', Grows, NEW w \in Workers, Ack(w)
  PROVE  IInv'
BY LeaveStep DEF Ack, At, queueVars, paperVars

LEMMA RedeliverKeeps ==
  ASSUME IInv, TypeOK', Grows, NEW w \in Workers, Redeliver(w)
  PROVE  IInv'
<1>1. job[w] # NoJob /\ commands' = Requeued(w)
  BY DEF Redeliver
<1>2. /\ \A s \in Submissions : commands'[s] = <<>> => commands[s] = <<>>
      /\ commands'[job[w].s] # <<>>
  BY <1>1, RequeuedType DEF IInv
<1> QED BY <1>1, <1>2, LeaveStep DEF Redeliver, paperVars

\* A handler that fails has its delivery queued again, or gives it up.
LEMMA RejectKeeps ==
  ASSUME IInv, TypeOK', Grows, NEW w \in Workers, Reject(w)
  PROVE  IInv'
<1>1. /\ job[w] # NoJob
      /\ \/ commands' = Requeued(w)
         \/ commands' = commands /\ job[w].s \in GivenUp'
  BY DEF Reject, GivenUp
<1>2. /\ \A s \in Submissions : commands'[s] = <<>> => commands[s] = <<>>
      /\ job[w].s \in GivenUp' \/ commands'[job[w].s] # <<>>
  BY <1>1, RequeuedType DEF IInv
<1> QED BY <1>1, <1>2, LeaveStep DEF Reject, paperVars

\* A worker that takes a submission another one still has makes it overlapped;
\* otherwise it has it alone.
LEMMA ReceiveKeeps ==
  ASSUME IInv, TypeOK', Grows, NEW w \in Workers, NEW s \in Submissions, Receive(w, s)
  PROVE  IInv'
<1>0. /\ job[w] = NoJob
      /\ UNCHANGED <<graded, summary, archive, replaced>>
      /\ overlapped' = IF Holders(s) = {} THEN overlapped ELSE overlapped \cup {s}
  BY DEF Receive, paperVars
<1>1. /\ job'[w].at = "load" /\ job'[w].s = s
      /\ \A v \in Workers \ {w} : job'[v] = job[v]
  BY DEF Receive, IInv, TypeOK
<1>2. job'[w] # NoJob
  <2>1. job'[w] = [at |-> "load", s |-> s, count |-> Head(commands[s]), run |-> runs + 1,
                   scheme |-> Judge, prior |-> NoPaper, slot |-> 1]
    BY DEF Receive, IInv, TypeOK
  <2>2. Head(commands[s]) \in Nat /\ runs + 1 \in Nat
    BY DEF Receive, IInv, TypeOK
  <2>3. job'[w] \in Jobs
    BY <2>1, <2>2, SchemeValues DEF Jobs, Steps
  <2> QED BY <2>3, ValuesAssumption
<1>3. \A t \in Submissions : SameStore(t)
  BY <1>0 DEF SameStore
<1>4. s \notin overlapped' => \A v \in Workers : job[v] # NoJob => job[v].s # s
  BY <1>0 DEF Holders
<1>5. ASSUME NEW v \in Workers PROVE JobInv(v)' /\ SoloInv(v)'
  <2>1. CASE v = w
    <3>1. JobInv(v)' /\ Knows(v)'
      BY <1>1, <2>1 DEF JobInv, Knows, Settled, Chosen
    <3>2. s \notin overlapped' => Alone(v)'
      BY <1>1, <1>4, <2>1 DEF Alone
    <3> QED BY <1>1, <2>1, <3>1, <3>2 DEF SoloInv
  <2>2. CASE v # w
    <3>1. job'[v] = job[v] /\ JobInv(v) /\ SoloInv(v)
      BY <1>1, <2>2 DEF IInv
    <3>2. job[v] # NoJob => job[v].s \in Submissions
      BY JobIsTyped DEF IInv
    <3>3. job[v] # NoJob /\ job[v].s \notin overlapped' => Alone(v)'
      BY <1>1, <1>4, <3>1 DEF SoloInv, Alone, Grows
    <3> QED BY <1>3, <3>1, <3>2, <3>3, JobKept, SoloKept
  <2> QED BY <2>1, <2>2
<1>6. ASSUME NEW t \in Submissions PROVE PapersInv(t)'
  <2>1. CASE t = s
    <3>1. w \in Holders(t)'
      BY <1>1, <1>2, <2>1 DEF Holders
    <3> QED BY <1>3, <3>1, PapersKept DEF IInv
  <2>2. CASE t # s
    <3>1. commands'[t] = commands[t]
      BY <2>2 DEF Receive, IInv, TypeOK
    <3>2. Holders(t)' = {} => Holders(t) = {}
      BY <1>0, <1>1 DEF Holders
    <3> QED BY <1>3, <3>1, <3>2, PapersKept DEF IInv
  <2> QED BY <2>1, <2>2
<1> QED BY <1>5, <1>6 DEF IInv

LEMMA NextKeeps ==
  ASSUME IInv, [Next]_vars
  PROVE  IInv'
<1>0. TypeOK' /\ Grows
  BY NextType, NextGrows
<1>1. CASE ImportGuide
  BY <1>0, <1>1, HandlersStep DEF ImportGuide, queueVars, paperVars
<1>2. ASSUME NEW v \in Versions, LockGuide(v) PROVE IInv'
  BY <1>0, <1>2, HandlersStep DEF LockGuide, queueVars, paperVars
<1>3. ASSUME NEW s \in Submissions, Regrade(s) PROVE IInv'
  <2>1. /\ commands' = [commands EXCEPT ![s] = Append(commands[s], 0)]
        /\ commands \in [Submissions -> Seq(Nat)]
    BY <1>3 DEF Regrade, IInv, TypeOK
  <2>3. Append(commands[s], 0) # <<>>
    <3> DEFINE queue == commands[s]
    <3>1. queue \in Seq(Nat)
      BY <1>3, <2>1
    <3> HIDE DEF queue
    <3>2. /\ Append(queue, 0) \in Seq(Nat) /\ Len(queue) \in Nat
          /\ Len(Append(queue, 0)) = Len(queue) + 1
      BY <3>1
    <3>3. Append(queue, 0) # <<>>
      BY <3>2
    <3> QED BY <3>3 DEF queue
  <2>2. \A t \in Submissions : commands'[t] = <<>> => commands[t] = <<>>
    BY <2>1, <2>3
  <2> QED BY <1>0, <1>3, <2>2, HandlersStep DEF Regrade, paperVars
<1>7. ASSUME NEW s \in Submissions, DLQHandler(s) PROVE IInv'
  BY <1>0, <1>7, HandlersStep DEF DLQHandler, paperVars
<1>4. ASSUME NEW w \in Workers, ListFails(w) \/ LockFails(w) \/ Reject(w) \/ Redeliver(w)
      PROVE IInv'
  BY <1>0, <1>4, ListFailsKeeps, LockFailsKeeps, RejectKeeps, RedeliverKeeps
<1>5. ASSUME NEW w \in Workers, Handle(w) PROVE IInv'
  BY <1>0, <1>5, ReceiveKeeps, LoadKeeps, SelectKeeps, LockKeeps, LoadObjectKeeps,
     ReadPriorKeeps, ProbeSlotKeeps, ArchiveKeeps, PutGradedKeeps, PutSummaryKeeps,
     PublishResultKeeps, AckKeeps DEF Handle
<1>6. CASE UNCHANGED vars
  BY <1>0, <1>6, HandlersStep DEF vars, queueVars, paperVars
<1> QED BY <1>1, <1>2, <1>3, <1>4, <1>5, <1>6, <1>7 DEF Next

LEMMA Invariance == Spec => []IInv
<1>1. Init => IInv
  BY InitIInv
<1>2. IInv /\ [Next]_vars => IInv'
  BY NextKeeps
<1> QED BY <1>1, <1>2, PTL DEF Spec

---------------------------------------------------------------------------
(***************************************************************************)
(* What follows from it.                                                   *)
(***************************************************************************)

\* The variables keep their types, whatever fails.
THEOREM TypeCorrectness == Spec => []TypeOK
<1>1. IInv => TypeOK
  BY DEF IInv
<1> QED BY <1>1, Invariance, PTL

\* Archive before overwrite, for any number of workers and faults.
THEOREM NothingReplacedIsLost == Spec => []ReplacedAreArchived
<1>1. IInv => ReplacedAreArchived
  BY DEF IInv, PapersInv, ReplacedAreArchived, Archived
<1> QED BY <1>1, Invariance, PTL

\* Lock on grading, for any batch of submissions and workers.
THEOREM LockedWhenMarked == Spec => []MarkedAgainstLocked
<1>1. IInv => MarkedAgainstLocked
  BY DEF IInv, PapersInv, MarkedAgainstLocked
<1> QED BY <1>1, Invariance, PTL

\* The two objects of a marking agree once nobody works on the submission, unless
\* one of its deliveries was given up.
THEOREM SummariesAgree == Spec => []SummaryOfGraded
<1>1. IInv => SummaryOfGraded
  BY DEF IInv, PapersInv, SummaryOfGraded, GivenUp
<1> QED BY <1>1, Invariance, PTL

\* No step but the put of a worker changes a stored paper.
LEMMA OnlyPutGraded ==
  ASSUME IInv, [Next]_vars, NEW s \in Submissions, graded'[s] # graded[s]
  PROVE  \E w \in Workers : PutGraded(w)
<1>1. CASE ImportGuide \/ \E v \in Versions : LockGuide(v)
  BY <1>1 DEF ImportGuide, LockGuide, paperVars
<1>2. CASE \E t \in Submissions : Regrade(t) \/ DLQHandler(t)
  BY <1>2 DEF Regrade, DLQHandler, paperVars
<1>3. ASSUME NEW w \in Workers, ListFails(w) \/ LockFails(w) \/ Reject(w) \/ Redeliver(w)
      PROVE FALSE
  BY <1>3 DEF ListFails, LockFails, Reject, Redeliver, paperVars
<1>4. ASSUME NEW w \in Workers, Handle(w) PROVE PutGraded(w)
  <2>1. ASSUME NEW t \in Submissions, Receive(w, t) PROVE FALSE
    BY <2>1 DEF Receive, paperVars
  <2>2. CASE Load(w) \/ selectLockedOrLatestGuide(w) \/ LockOnGrading(w) \/ LoadObjectGuide(w)
    BY <2>2 DEF Load, selectLockedOrLatestGuide, LockOnGrading, LoadObjectGuide, paperVars
  <2>3. CASE ReadPrior(w) \/ ProbeSlot(w) \/ archivePriorGradedArtifact(w)
    BY <2>3 DEF ReadPrior, ProbeSlot, archivePriorGradedArtifact, paperVars
  <2>4. CASE PutSummary(w) \/ PublishResult(w) \/ Ack(w)
    BY <2>4 DEF PutSummary, PublishResult, Ack, paperVars
  <2> QED BY <1>4, <2>1, <2>2, <2>3, <2>4 DEF Handle
<1>5. CASE UNCHANGED vars
  BY <1>5 DEF vars, paperVars
<1> QED BY <1>1, <1>2, <1>3, <1>4, <1>5 DEF Next

\* A guide's version only moves forward over the markings of a submission.
THEOREM GuideMovesForward == Spec => GuideNeverRetreats
<1> DEFINE Forward ==
      \A s \in Submissions \ overlapped :
        /\ graded[s] # graded'[s] /\ graded[s] # NoPaper
        /\ graded[s].scheme \in Versions \ lockFailed
        /\ graded'[s].scheme \in Versions
        => graded[s].scheme <= graded'[s].scheme
<1>1. IInv /\ [Next]_vars => [Forward]_vars
  <2> SUFFICES ASSUME IInv, [Next]_vars, NEW s \in Submissions, s \notin overlapped,
                      graded[s] # graded'[s], graded[s] # NoPaper,
                      graded[s].scheme \in Versions \ lockFailed,
                      graded'[s].scheme \in Versions
               PROVE  graded[s].scheme <= graded'[s].scheme
    OBVIOUS
  <2>1. PICK w \in Workers : PutGraded(w)
    BY OnlyPutGraded
  <2>2. job[w] # NoJob /\ job[w].at = "put"
        /\ graded' = [graded EXCEPT ![job[w].s] = Marked(w)]
    BY <2>1 DEF PutGraded, At
  <2>3. s = job[w].s /\ graded'[s] = Marked(w)
    BY <2>2 DEF IInv, TypeOK
  <2>4. NoNewer(graded[s], job[w].scheme)
    BY <2>2, <2>3 DEF IInv, SoloInv, Knows, Chosen
  <2> QED BY <2>3, <2>4 DEF NoNewer, Marked
<1>2. Spec => [][Forward]_vars
  BY <1>1, Invariance, PTL DEF Spec
<1> QED BY <1>2 DEF GuideNeverRetreats
=============================================================================
