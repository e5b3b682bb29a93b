---------------------------- MODULE PipelineFlow ----------------------------
(***************************************************************************)
(* The inductive invariant behind the promises Pipeline makes when one     *)
(* replica of each process runs and no call of a consumer fails: one       *)
(* message or handler drives a submission, every pass is kept, and the     *)
(* state follows the edges of the transitions table.                       *)
(*                                                                         *)
(* The state of a submission tells what its work item is: a message or     *)
(* handler of the stage the state names, or a result that fits it.  As it  *)
(* is the only one, nobody else moves the state between a read and the     *)
(* write that relies on it.                                                *)
(***************************************************************************)
EXTENDS PipelineInvariant

\* The hypotheses.  A request may fail; of the commands nobody publishes,
\* only flagged_for_review moves a submission that a worker has in hand.
OneReplica == \E r \in Replicas : Replicas = {r}
Sound == /\ OneReplica
         /\ FaultKinds \subseteq {"request"}
         /\ "flagged_for_review" \notin OperatorCommands

---------------------------------------------------------------------------
\* The state whose work a stage does.
StateOf(q) == CASE q \in {"render.q", "render.q.dlq"}         -> "queued"
                [] q \in {"transcribe.q", "transcribe.q.dlq"} -> "transcribing"
                [] q \in {"grade.q", "grade.q.dlq"}           -> "grading"

\* A result comes in the state that waits for it, with what it reports.
ResultFits(env) ==
  LET s == env.sub IN
  \/ /\ env.stage = "render.result"
     /\ state[s] \in {"queued", "splitting_pages", "extracting_metadata"}
     /\ "render-result.json" \in objects[s]
  \/ /\ env.stage = "transcribe.result" /\ env.ref = "transcribe-result.json"
     /\ state[s] = "transcribing"
     /\ "transcript.v1.json" \in objects[s] /\ flags[s] # NoFlags
  \/ /\ env.stage = "grade.result"
     /\ state[s] = "grading"
     /\ graded[s] # 0

\* A delivery of queue q fits the state of its submission.
Fits(q, env) ==
  CASE q = "commands.q" -> env.stage \in CommandStages \ {"flagged_for_review"}
    [] q = "results.q"  -> ResultFits(env)
    [] OTHER            -> state[env.sub] = StateOf(q)

EnvsOn(q) == {queue[q][i].env : i \in DOMAIN queue[q]}

MessagesFit == \A q \in Queues : \A env \in EnvsOn(q) : Fits(q, env)

StepsOn(q) == CASE q \in {"commands.q", "results.q"} ->
                     {"get", "decide", "set", "dispatch"}
                [] q = "render.q"     -> {"render", "report"}
                [] q = "transcribe.q" -> {"transcribe", "flags", "report"}
                [] q = "grade.q"      -> {"grade", "archive", "put", "report"}
                [] OTHER              -> {"fail"}

\* What a stage worker has stored before its next call.
StageDone(p) ==
  LET s == Sub(p) IN
  CASE QueueOf(p) = "render.q" ->
         at[p] = "report" => "render-result.json" \in objects[s]
    [] QueueOf(p) = "transcribe.q" ->
         /\ at[p] \in {"flags", "report"} => "transcript.v1.json" \in objects[s]
         /\ at[p] = "report" => flags[s] # NoFlags
    [] QueueOf(p) = "grade.q" ->
         /\ at[p] = "put" => mark[p] # 0
         /\ at[p] = "archive" => mark[p] # 0
         /\ at[p] = "report" => graded[s] # 0
    [] OTHER -> TRUE

\* A state read is still the state, unless a command came while the
\* submission was at work or not there yet, and will be refused; a state
\* decided follows from it; a state written stands until its message is out.
ReadFits(p) ==
  LET s == Sub(p) IN
  /\ at[p] = "decide" => \/ seen[p] = state[s]
                         \/ /\ QueueOf(p) = "commands.q"
                            /\ seen[p] \in Automatic \cup {NoState}
  /\ at[p] = "set" => /\ seen[p] = state[s]
                      /\ goal[p] = Decision(seen[p], Env(p))
                      /\ goal[p] \notin {Err, seen[p]}
  /\ at[p] = "dispatch" /\ goal[p] \in Automatic => goal[p] = state[s]

HandlerFits(p) ==
  /\ at[p] \in StepsOn(QueueOf(p)) \cup {"ack"}
  /\ at[p] \notin {"dispatch", "ack"} => Fits(QueueOf(p), Env(p))
  /\ StageDone(p) /\ ReadFits(p)

HandlersFit ==
  \A p \in Consumers : IF at[p] = "idle" THEN hand[p] = NoMsg ELSE HandlerFits(p)

\* StageHasInput, and what the states a person may send back to work keep.
RowFits(s) ==
  /\ state[s] \notin {NoState, "uploaded", "queued", "failed"}
       => "render-result.json" \in objects[s]
  /\ state[s] \in Finalised \cup {"transcription_review_required", "grading",
                                  "grading_review_required", "teacher_review"}
       => "transcript.v1.json" \in objects[s]
  /\ state[s] = "transcription_review_required"
       => flags[s] # NoFlags /\ EvaluateGates(flags[s], DefaultTunables) # {}
  /\ state[s] \in Finalised \cup {"teacher_review"} => graded[s] # 0

Single(S) == \E x \in S : S = {x}

\* One message or one handler, while the pipeline has s; else none.
Driven(s) == IF state[s] \in Automatic
             THEN \/ Single(Waiting(s)) /\ Held(s) = {}
                  \/ Waiting(s) = {} /\ Single(Held(s))
             ELSE Waiting(s) = {} /\ Held(s) = {}

FlowInv == /\ MessagesFit /\ HandlersFit
           /\ \A s \in Submissions : RowFits(s) /\ Driven(s)

---------------------------------------------------------------------------
\* Passes.  Only the grade worker of the one replica marks.  Before it stores
\* a pass, the one it replaces is archived, and what a request holds is a pass
\* that was stored.  A message may be lost and any command sent; but a call
\* that fails after the marking drops the pass.
Recording == OneReplica /\ FaultKinds \subseteq {"request", "loss"}

Overwritten(s) == archive[s] \cup undone[s]
Stored(s)      == Overwritten(s) \cup {graded[s]}

PassStored(p) ==
  LET s == Sub(p) IN
  /\ at[p] \in {"archive", "put"} => mark[p] = passes[s]
  /\ at[p] = "put" => graded[s] \in Overwritten(s) \cup {0}
  /\ at[p] \notin {"archive", "put"} => mark[p] \in Stored(s) \cup {0}

PassFits(p) == IF at[p] # "idle" /\ QueueOf(p) = "grade.q" THEN PassStored(p)
               ELSE mark[p] = 0 /\ at[p] \notin {"grade", "archive", "put"}

RequestsStored ==
  \A r \in Slots : req[r] # NoReq => req[r].pass \in Stored(req[r].sub) \cup {0}

PassInv == (\A p \in Consumers : PassFits(p)) /\ RequestsStored /\ EveryPassKept
=============================================================================
