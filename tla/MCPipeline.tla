----------------------------- MODULE MCPipeline -----------------------------
(***************************************************************************)
(* Instances of Pipeline for TLC.                                          *)
(***************************************************************************)
EXTENDS PipelineFlow, TLC

\* A transcript that passes every gate, and one with an unanswered question.
Clean == [questions |-> 1, lowRead |-> 0, blanks |-> 0, checksumOK |-> TRUE,
          difference |-> {0}]
Blank == [Clean EXCEPT !.blanks = 1]

BothPapers == {Clean, Blank}
CleanPaper == {Clean}

AllCommands == {"approve_for_grading", "apply_fix", "retry_stage",
                "flagged_for_review"}
NoCommands == {}
\* The commands that nobody publishes and that find no worker at work.
SafeCommands == {"approve_for_grading", "apply_fix", "retry_stage"}

\* A quiet state of every submission that was graded once: nothing is queued,
\* handled or on record, and the pipeline's artifacts are stored.  Starting
\* here leaves the bounds to what happens at and after the approval gate.
GradedInit ==
  /\ BusInit
  /\ state = [s \in Submissions |-> "teacher_review"]
  /\ srcKey = [s \in Submissions |-> TRUE]
  /\ audit = [s \in Submissions |-> {}]
  /\ final = [s \in Submissions |-> 0]
  /\ objects = [s \in Submissions |-> StoredObjects]
  /\ flags = [s \in Submissions |-> Clean]
  /\ graded = [s \in Submissions |-> 1]
  /\ snapshot = [s \in Submissions |-> 0]
  /\ archive = [s \in Submissions |-> {}]
  /\ passes = [s \in Submissions |-> 1]
  /\ undone = [s \in Submissions |-> {}]
  /\ at = [p \in Consumers |-> "idle"]
  /\ seen = [p \in Consumers |-> NoState]
  /\ goal = [p \in Consumers |-> NoState]
  /\ mark = [p \in Consumers |-> 0]
  /\ req = [r \in Slots |-> NoReq]
  /\ calls = 0 /\ faults = 0 /\ deaths = 0

GradedSpec == GradedInit /\ [][Next]_vars

Symmetry == Permutations(Replicas) \cup Permutations(Slots)
=============================================================================
