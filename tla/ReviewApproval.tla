-------------------------- MODULE ReviewApproval --------------------------
(***************************************************************************)
(* The inductive invariants behind what Review says of its values: their   *)
(* types, the marks under their maxima, and the final grade that is of one *)
(* approval with the paper beside it.                                      *)
(***************************************************************************)
EXTENDS ReviewInvariant

\* What a request holds by the time it may store it.
RequestValued(x) ==
  /\ x.op = "patch" => x.body \in Bodies
  /\ x.op \in {"patch", "approve", "regenerate"} /\ x.at # "load"
       => x.doc \in GradedPapers
  /\ x.at \in {"audit", "insert"} /\ x.op = "patch" => x.row \in Rows
  /\ x.at = "insert" => x.op = "patch"
  /\ x.at = "create" => x.op = "file"

\* A marking pass runs in the state "grading" only: no command is accepted
\* there, so the pass's result finds the state it was begun in.
TypeInv ==
  /\ TypeOK
  /\ \A r \in Slots : req[r] # NoReq => RequestValued(req[r])
  /\ marking # "none" => state = "grading"

---------------------------------------------------------------------------
\* All marking passes give a question the same maximum, and a mark within it.
MaximaAgree ==
  \A p \in Papers, o \in Papers, q \in Questions :
    p[q].max = o[q].max /\ p[q].mark <= p[q].max

WithinMax(p) ==
  \A q \in Questions : p[q].mark <= p[q].max
                       /\ \E o \in Papers : p[q].max = o[q].max

RowWithinMax(w) == \A o \in Papers : w.new <= o[w.q].max

RequestWithinMax(x) ==
  /\ x.op \in {"patch", "approve", "regenerate"} /\ x.at # "load" => WithinMax(x.doc)
  /\ x.op = "patch" /\ x.at \in {"audit", "insert"} => RowWithinMax(x.row)

\* Marks are within their maximum in every paper that is stored, read,
\* overlaid or drafted again, and in every override, stored or on its way.
MarksInv ==
  /\ paper # NoPaper => WithinMax(paper)
  /\ \A i \in DOMAIN reviews : RowWithinMax(reviews[i])
  /\ \A r \in Slots : req[r] # NoReq => RequestWithinMax(req[r])

---------------------------------------------------------------------------
Sending(r) == At(r, "send") /\ req[r].op = "approve"

\* Unless approvals got in each other's way, the one that is between its two
\* writes is alone there and the snapshot is of the paper it goes on to store
\* the grade of; when none is, the two records agree.  They exist as soon as an
\* approve command is on its way.
ApprovalInv ==
  /\ ~torn => \A r \in Slots : At(r, "row") =>
       snapshot = req[r].doc /\ \A s \in Slots : At(s, "row") => s = r
  /\ ~torn /\ final # NoGrade /\ (\A r \in Slots : ~At(r, "row"))
       => final = recomputeEffectiveTotals(snapshot)
  /\ \/ state \in Finalised
     \/ \E i \in DOMAIN commands : commands[i] = "approve"
     \/ \E r \in Slots : Sending(r)
     => final # NoGrade
=============================================================================
