---------------------------- MODULE MCGradeWorker ----------------------------
(***************************************************************************)
(* Instance of GradeWorker for TLC.                                        *)
(***************************************************************************)
EXTENDS GradeWorkerInvariant, TLC

Symmetry == Permutations(Workers)

\* Bound: regrades and faults together.
AtMostTwo == regrades + faults <= 2
=============================================================================
