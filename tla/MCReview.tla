------------------------------ MODULE MCReview ------------------------------
(***************************************************************************)
(* Instances of Review for TLC.                                            *)
(***************************************************************************)
EXTENDS ReviewApproval, TLC

CONSTANT q1

OneQuestion == {q1}

\* Papers that give a question different marks out of the same maximum.
PaperOf(n, max) == [q \in OneQuestion |-> [mark |-> n, max |-> max, text |-> "first"]]

SamePapers == {PaperOf(0, 2), PaperOf(1, 2)}

Body(q, mark, text) == [q |-> q, mark |-> mark, text |-> text]

\* A mark above the maximum, and one below 0 with feedback.
MarkBodies == {Body(q1, {3}, {}), Body(q1, {-1}, {"second"})}
OneMark    == {Body(q1, {2}, {})}

Symmetry == Permutations(Slots)
=============================================================================
