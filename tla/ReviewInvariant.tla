-------------------------- MODULE ReviewInvariant --------------------------
(***************************************************************************)
(* The inductive invariant behind the audit-first promises of Review.  A   *)
(* handler records its event before its first write, and the trail only    *)
(* grows; so whatever a request has left to write, and whatever command it *)
(* has sent, has its event on record.                                      *)
(***************************************************************************)
EXTENDS Review

Audited(action, value) == Event(action, value) \in audit
Regraded(a)            == Audited("appeal_regrade", a)

\* What request x is about to store is in the trail with that very value.
WriteAudited(x) ==
  /\ x.at = "insert" => Audited("override_question", x.row)
  /\ x.at \in {"snapshot", "row"} =>
       Audited("approve", recomputeEffectiveTotals(x.doc))
  /\ x.at = "send" /\ x.op = "regrade" => Regraded(x.appeal)
  /\ x.at = "status" => IF x.op = "regrade" THEN Regraded(x.appeal)
                        ELSE Audited("appeal_resolve", x.appeal)

\* A request that writes a paper back has read one: if a marking pass is due
\* then it is not the first.  A request on an appeal is about one of them.
RequestGrounded(x) ==
  /\ x.op = "regenerate" /\ x.at # "load" /\ marking = "due"
       => \E a \in Appeals : Regraded(a)
  /\ x.op \in {"file", "resolve", "regrade"} => x.appeal \in Appeals

\* Whatever is still to be stored or marked again -- by a request, by a
\* command on its way, by the marking pass that is due -- has its audit event
\* ("no un-audited mark change can ever reach the database", PatchQuestion).
WritesAudited ==
  /\ \A r \in Slots : req[r] # NoReq =>
       WriteAudited(req[r]) /\ RequestGrounded(req[r])
  /\ (\E i \in DOMAIN commands : commands[i] = "regrade")
       => \E a \in Appeals : Regraded(a)
  /\ AppealsAudited

IsRequest(x) == x = [op |-> x.op, at |-> x.at, body |-> x.body,
                     appeal |-> x.appeal, doc |-> x.doc, row |-> x.row]

\* Which handlers make a call, as far as the writes need it.
RequestShape(x) ==
  /\ IsRequest(x)
  /\ x.op \in Ops
  /\ x.at = "load" => x.op \in {"patch", "approve", "regenerate"}
  /\ x.at = "list" => x.op \in {"patch", "approve"}
  /\ x.at \in {"draft", "put"} => x.op = "regenerate"
  /\ x.at = "send" => x.op \in {"approve", "publish", "export", "regrade"}
  /\ x.at = "status" => x.op \in {"resolve", "regrade"}
  /\ x.at \in {"snapshot", "row"} => x.op = "approve"

\* The shapes the updates rely on, which is all the proof needs of types.
Shape ==
  /\ commands \in Seq({"approve", "publish", "export", "regrade"})
  /\ appeals \in [Appeals -> Statuses]
  /\ req = [r \in Slots |-> req[r]]
  /\ \A r \in Slots : req[r] # NoReq => RequestShape(req[r])

IInv == Shape /\ WritesAudited
=============================================================================
