------------------------- MODULE SubmissionStates -------------------------
(***************************************************************************)
(* The submission state machine of NovaGrade, as the pure functions the    *)
(* orchestrator calls: the table of allowed edges (pkg/contracts), the     *)
(* event semantics and the quality gates (internal/domain) and the mapping *)
(* from an envelope's stage to an event (internal/orchestrator).           *)
(*                                                                         *)
(* A Go function returning (state, error) returns Err here when its error  *)
(* is not nil: no caller uses the state that comes with an error.          *)
(***************************************************************************)
EXTENDS Integers

States == {"uploaded", "queued", "splitting_pages", "extracting_metadata",
           "transcribing", "transcription_review_required", "grading",
           "grading_review_required", "teacher_review", "approved",
           "published", "exported", "failed", "archived"}

Events == {"SubmitExam", "ApplyFix", "RetryStage", "ApproveForGrading",
           "StageSucceeded", "StageFailed", "FlaggedForReview",
           "ApproveByTeacher", "Publish", "Export", "Regrade"}

QualityFlags == {"low_read_confidence", "checksum_mismatch",
                 "blank_over_threshold", "structural_anomaly"}

Err == "error"   \* a non-nil error

\* Stage labels of the envelopes: results, and commands (those that are not
\* contracts.Stage* constants appear as literals in StageToEvent).
ResultStages == {"render.result", "transcribe.result", "grade.result",
                 "publish.result", "export.result", "feedback.result"}
CommandStages == {"submit", "submit_exam", "approve_for_grading", "approve", "publish",
                  "export", "apply_fix", "retry_stage", "flagged_for_review",
                  "regrade"}
WorkStages == {"render", "transcribe", "grade"}
Stages == ResultStages \cup CommandStages \cup WorkStages

---------------------------------------------------------------------------
(***************************************************************************)
(* Quality gates.  The optional checksum difference is a set of at most    *)
(* one number: {} is the nil pointer.                                      *)
(***************************************************************************)
TranscribeFlags == [questions : Nat, lowRead : Nat, blanks : Nat,
                    checksumOK : BOOLEAN, difference : SUBSET Int]

DefaultTunables == [blankThreshold |-> 0, expectedQuestions |-> 0,
                    questionCountTol |-> 2]

Abs(n) == IF n < 0 THEN -n ELSE n

EvaluateGates(tf, tun) ==
  {f \in QualityFlags :
     \/ f = "low_read_confidence" /\ tf.lowRead > 0
     \/ f = "checksum_mismatch" /\ \/ ~tf.checksumOK
                                   \/ \E d \in tf.difference : d # 0
     \/ f = "blank_over_threshold" /\ tf.blanks > tun.blankThreshold
     \/ /\ f = "structural_anomaly"
        /\ tun.expectedQuestions > 0
        /\ Abs(tf.questions - tun.expectedQuestions) > tun.questionCountTol}

---------------------------------------------------------------------------
(***************************************************************************)
(* The edges of the state machine.                                         *)
(***************************************************************************)
transitions ==
  [from \in States |->
    CASE from = "uploaded"            -> {"queued", "failed"}
      [] from = "queued"              -> {"splitting_pages", "failed"}
      [] from = "splitting_pages"     -> {"extracting_metadata", "failed"}
      [] from = "extracting_metadata" -> {"transcribing", "failed"}
      [] from = "transcribing" ->
           {"grading", "grading_review_required",
            "transcription_review_required", "failed"}
      [] from = "transcription_review_required" ->
           {"transcribing", "grading", "failed"}
      [] from = "grading" ->
           {"grading_review_required", "teacher_review", "failed"}
      [] from = "grading_review_required" -> {"grading", "failed"}
      [] from = "teacher_review"      -> {"approved", "grading", "failed"}
      [] from = "approved"            -> {"published", "grading", "failed"}
      [] from = "published" -> {"exported", "archived", "grading", "failed"}
      [] from = "exported"            -> {"archived", "grading", "failed"}
      [] from \in {"failed", "archived"} -> {}]

CanTransition(from, to) == to \in transitions[from]

---------------------------------------------------------------------------
(***************************************************************************)
(* What an event does to a state.                                          *)
(***************************************************************************)
stageSucceededNext(cur, flags) ==
  CASE cur = "queued"              -> "splitting_pages"
    [] cur = "splitting_pages"     -> "extracting_metadata"
    [] cur = "extracting_metadata" -> "transcribing"
    [] cur = "transcribing" ->
         IF flags # {} THEN "transcription_review_required" ELSE "grading"
    [] cur = "grading"             -> "teacher_review"
    [] cur = "teacher_review"      -> "teacher_review"
    [] OTHER                       -> Err

\* Mutant: a submit is accepted as a repetition only.
computeNextQueued(cur, ev, flags) ==
  CASE ev = "SubmitExam" /\ cur \in {"queued"} -> "queued"
    [] ev = "StageFailed" -> "failed"
    [] ev = "StageSucceeded" -> stageSucceededNext(cur, flags)
    [] ev = "FlaggedForReview" /\ cur = "transcribing" ->
         "transcription_review_required"
    [] ev \in {"ApplyFix", "RetryStage"}
         /\ cur = "transcription_review_required" -> "transcribing"
    [] ev = "RetryStage" /\ cur = "grading_review_required" -> "grading"
    [] ev = "ApproveForGrading"
         /\ cur = "transcription_review_required" -> "grading"
    [] ev = "ApproveByTeacher" /\ cur = "teacher_review" -> "approved"
    [] ev = "Publish" /\ cur = "approved" -> "published"
    [] ev = "Export" /\ cur = "published" -> "exported"
    [] ev = "Regrade" /\ cur \in {"approved", "published", "exported",
                                  "grading_review_required"} -> "grading"
    [] OTHER -> Err

computeNext(cur, ev, flags) ==
  CASE ev = "SubmitExam" /\ cur \in {"uploaded", "queued"} -> "queued"
    [] ev = "StageFailed" -> "failed"
    [] ev = "StageSucceeded" -> stageSucceededNext(cur, flags)
    [] ev = "FlaggedForReview" /\ cur = "transcribing" ->
         "transcription_review_required"
    [] ev \in {"ApplyFix", "RetryStage"}
         /\ cur = "transcription_review_required" -> "transcribing"
    [] ev = "RetryStage" /\ cur = "grading_review_required" -> "grading"
    [] ev = "ApproveForGrading"
         /\ cur = "transcription_review_required" -> "grading"
    [] ev = "ApproveByTeacher" /\ cur = "teacher_review" -> "approved"
    [] ev = "Publish" /\ cur = "approved" -> "published"
    [] ev = "Export" /\ cur = "published" -> "exported"
    [] ev = "Regrade" /\ cur \in {"approved", "published", "exported",
                                  "grading_review_required"} -> "grading"
    [] OTHER -> Err

\* The validated successor: a result equal to cur is the idempotent no-op.
NextState(cur, ev, flags) ==
  LET next == computeNext(cur, ev, flags) IN
  IF next # Err /\ (next = cur \/ CanTransition(cur, next)) THEN next ELSE Err

\* The event of an envelope; work stages and feedback.result have none.
StageToEvent(stage) ==
  CASE stage \in ResultStages \ {"feedback.result"} -> "StageSucceeded"
    [] stage \in {"submit", "submit_exam"} -> "SubmitExam"
    [] stage = "approve_for_grading" -> "ApproveForGrading"
    [] stage = "approve"             -> "ApproveByTeacher"
    [] stage = "publish"             -> "Publish"
    [] stage = "export"              -> "Export"
    [] stage = "apply_fix"           -> "ApplyFix"
    [] stage = "retry_stage"         -> "RetryStage"
    [] stage = "flagged_for_review"  -> "FlaggedForReview"
    [] stage = "regrade"             -> "Regrade"
    [] OTHER                         -> Err
===========================================================================
