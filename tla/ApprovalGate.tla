---------------------------- MODULE ApprovalGate ----------------------------
(***************************************************************************)
(* What the teacher-approval gate promises, whatever crashes, however many *)
(* replicas race and however often messages are delivered: a submission is *)
(* in a phase beyond the gate only while every human action that phase     *)
(* requires is on record.                                                  *)
(*                                                                         *)
(* A warrant is a fact on record: the audit events "approve", "publish"    *)
(* and "export", and the existence of the final grade.                     *)
(***************************************************************************)
CONSTANT Submissions

VARIABLES phase,     \* "open": not beyond the gate
          warrant

Phases   == {"open", "approved", "published", "exported"}
Warrants == {"approve", "final", "publish", "export"}

\* What must be on record before a submission enters a phase.
Required(ph) == CASE ph = "open"      -> {}
                  [] ph = "approved"  -> {"approve", "final"}
                  [] ph = "published" -> {"approve", "final", "publish"}
                  [] ph = "exported"  -> Warrants

\* What must be on record before a fact is added: the audit event precedes
\* the grade, and each human action needs the one before it.
Before(w) == CASE w = "approve" -> {}
               [] w = "final"   -> {"approve"}
               [] w = "publish" -> {"approve", "final"}
               [] w = "export"  -> {"approve", "final", "publish"}

GateInit == /\ phase = [s \in Submissions |-> "open"]
            /\ warrant = [s \in Submissions |-> {}]

Record(s, w) == /\ Before(w) \subseteq warrant[s]
                /\ warrant' = [warrant EXCEPT ![s] = @ \cup {w}]
                /\ UNCHANGED phase

Move(s, ph) == /\ Required(ph) \subseteq warrant[s]
               /\ phase' = [phase EXCEPT ![s] = ph]
               /\ UNCHANGED warrant

GateNext == \E s \in Submissions : \/ \E w \in Warrants : Record(s, w)
                                   \/ \E ph \in Phases : Move(s, ph)

GateSpec == GateInit /\ [][GateNext]_<<phase, warrant>>
=============================================================================
