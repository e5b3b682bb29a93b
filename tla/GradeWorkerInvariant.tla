------------------------ MODULE GradeWorkerInvariant ------------------------
(***************************************************************************)
(* The inductive invariant of GradeWorker.  What a stored paper promises   *)
(* must hold already of the job that is about to store it: a worker past   *)
(* the choice of its guide holds a scheme that is locked and no older than *)
(* the stored paper's, and one about to overwrite a paper has archived it. *)
(* The latter is known only of a worker that has its submission alone.     *)
(***************************************************************************)
EXTENDS GradeWorker

\* The steps after the choice of the guide, and after its lock.
Chosen  == {"lock", "prior", "probe", "slot", "put"}
Settled == Chosen \ {"lock"}

\* What a job knows whoever else is at work.
JobInv(w) ==
  LET j == job[w]
  IN  j # NoJob =>
        /\ j.at = "lock" => j.scheme \in 1..latest
        /\ j.at \in {"probe", "slot"} => j.prior # NoPaper
        /\ j.at \in Settled /\ j.scheme \in Versions => j.scheme \in locked \cup lockFailed

Archived(s, p) == \E i \in DOMAIN archive[s] : archive[s][i] = p

\* A paper counts as marked against the version it names unless the lock of
\* that version failed once.
NoNewer(p, scheme) ==
  p # NoPaper /\ p.scheme \in Versions \ lockFailed /\ scheme \in Versions
    => p.scheme <= scheme

\* No other worker has the submission of this job.
Alone(w) == \A v \in Workers \ {w} : job[v] # NoJob => job[v].s # job[w].s

\* What a job knows of a submission that it has alone.
Knows(w) ==
  LET j == job[w]
  IN  /\ j.at \in {"probe", "slot"} => j.prior = graded[j.s]
      /\ j.at = "slot" => j.slot \notin DOMAIN archive[j.s]
      /\ j.at = "put" /\ graded[j.s] # NoPaper => Archived(j.s, graded[j.s])
      /\ j.at \in Chosen => NoNewer(graded[j.s], j.scheme)
      /\ j.at = "summary" => graded[j.s] = Marked(w)
      /\ j.at \in {"publish", "ack"} => summary[j.s] = graded[j.s]

SoloInv(w) == job[w] # NoJob /\ job[w].s \notin overlapped => Alone(w) /\ Knows(w)

\* A delivery of their command has been dead-lettered.
GivenUp == dlq \cup failed

\* What the stored papers of a submission promise.
PapersInv(s) ==
  /\ s \notin overlapped => \A p \in replaced[s] : Archived(s, p)
  /\ graded[s] # NoPaper /\ graded[s].scheme \in Versions
       => graded[s].scheme \in locked \cup lockFailed
  /\ s \notin overlapped \cup GivenUp /\ commands[s] = <<>> /\ Holders(s) = {}
       => summary[s] = graded[s]

IInv == /\ TypeOK
        /\ \A w \in Workers : JobInv(w) /\ SoloInv(w)
        /\ \A s \in Submissions : PapersInv(s)
=============================================================================
