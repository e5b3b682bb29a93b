----------------------------- MODULE AuditFirst -----------------------------
(***************************************************************************)
(* What audit-first ordering promises of the records of a submission: the  *)
(* audit trail only grows, and an override or a final grade is stored only *)
(* when an audit event with that very value is already in the trail.       *)
(* Overrides are append-only; a final grade may be replaced.               *)
(***************************************************************************)
EXTENDS Sequences

CONSTANT NoGrade

VARIABLES overrideEvents,   \* values of the override_question events
          approveEvents,    \* values of the approve events
          overrides,        \* the teacher_review rows, oldest first
          grade             \* the final_grade row

recordVars == <<overrideEvents, approveEvents, overrides, grade>>

RecordsInit == /\ overrideEvents = {}
               /\ approveEvents = {}
               /\ overrides = <<>>
               /\ grade = NoGrade

Audit == /\ overrideEvents \subseteq overrideEvents'
         /\ approveEvents \subseteq approveEvents'
         /\ UNCHANGED <<overrides, grade>>

StoreOverride == /\ \E row \in overrideEvents : overrides' = Append(overrides, row)
                 /\ UNCHANGED <<overrideEvents, approveEvents, grade>>

StoreGrade == /\ grade' \in approveEvents
              /\ UNCHANGED <<overrideEvents, approveEvents, overrides>>

RecordsSpec ==
  RecordsInit /\ [][Audit \/ StoreOverride \/ StoreGrade]_recordVars
=============================================================================
