------------------------------ MODULE Lifecycle ------------------------------
(***************************************************************************)
(* What the orchestrator promises of a submission's state when every call  *)
(* succeeds and one replica runs: it is created as uploaded and then moves *)
(* only along the edges of the transitions table, out of failed never.     *)
(***************************************************************************)
EXTENDS SubmissionStates

CONSTANTS Submissions, NoState

VARIABLE state

LifeInit == state = [s \in Submissions |-> NoState]

Create(s) == /\ state[s] = NoState
             /\ state' = [state EXCEPT ![s] = "uploaded"]

Advance(s, to) == /\ state[s] # NoState
                  /\ CanTransition(state[s], to)
                  /\ state' = [state EXCEPT ![s] = to]

LifeNext == \E s \in Submissions : \/ Create(s)
                                   \/ \E to \in States : Advance(s, to)

LifeSpec == LifeInit /\ [][LifeNext]_state
=============================================================================
