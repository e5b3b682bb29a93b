------------------------- MODULE PipelineInvariant -------------------------
(***************************************************************************)
(* The inductive invariant behind the type invariant and the approval gate *)
(* of Pipeline.  A human action leaves its warrant (an audit event, a      *)
(* final grade) before the command that relies on it exists, and warrants  *)
(* are never withdrawn; so it suffices that everything that can still move *)
(* a submission beyond the gate -- a queued or held command, a decided     *)
(* state, a request about to send -- has its warrant on record.            *)
(***************************************************************************)
EXTENDS Pipeline

StageSteps == {"render", "transcribe", "flags", "grade", "archive", "put",
               "report"}

\* A handler at work holds a delivery, and only stage workers report.
HandlerShape ==
  \A p \in Consumers : /\ at[p] # "idle" => hand[p] # NoMsg
                       /\ at[p] \in StageSteps => QueueOf(p) \in StageQueues

\* The calls of each API handler.
RequestShape ==
  \A r \in Slots : req[r] # NoReq =>
    req[r].at \in CASE req[r].op = "submit_exam" -> {"put", "key", "send"}
                    [] req[r].op = "approve" ->
                         {"load", "audit", "snapshot", "row", "send"}
                    [] req[r].op = "regenerate" -> {"load", "audit", "rewrite"}
                    [] OTHER -> {"audit", "send"}

TypeInv == TypeOK /\ HandlerShape /\ RequestShape

---------------------------------------------------------------------------
\* The warrant of a state beyond the gate, and of the command leading there.
Approved(s)  == "approve" \in audit[s] /\ final[s] # 0
Publishable(s) == Approved(s) /\ "publish" \in audit[s]
Exported(s)  == Publishable(s) /\ "export" \in audit[s]

Warranted(s, phase) == /\ phase = "approved"  => Approved(s)
                       /\ phase = "published" => Publishable(s)
                       /\ phase = "exported"  => Exported(s)

Cleared(env) == /\ env.stage = "approve" => Approved(env.sub)
                /\ env.stage = "publish" => Publishable(env.sub)
                /\ env.stage = "export"  => Exported(env.sub)

ClearedDeliveries == {d \in Deliveries : Cleared(d.env)}

StatesWarranted == \A s \in Submissions : Warranted(s, state[s])

CommandsCleared ==
  /\ queue \in [Queues -> Seq(ClearedDeliveries)]
  /\ hand \in [Consumers -> ClearedDeliveries \cup {NoMsg}]

GoalsWarranted ==
  \A p \in Consumers : at[p] = "set" => Warranted(Sub(p), goal[p])

\* What a request relies on.
RequestWarranted(x) ==
  LET s == x.sub
      sending == x.at = "send"
  IN  /\ x.op = "approve" =>
           /\ x.at # "load" => x.pass # 0
           /\ x.at \in {"snapshot", "row", "send"} => "approve" \in audit[s]
           /\ sending => final[s] # 0
      /\ x.op = "regenerate" /\ x.at # "load" => x.pass # 0
      /\ x.op = "publish" => Approved(s) /\ (sending => "publish" \in audit[s])
      /\ x.op = "export" => Publishable(s) /\ (sending => "export" \in audit[s])

RequestsWarranted ==
  \A r \in Slots : req[r] # NoReq => RequestWarranted(req[r])

\* Every command, decided state and request that can still take a submission
\* beyond the gate has its warrant on record, as the states beyond it have.
GateInv == /\ StatesWarranted /\ CommandsCleared
           /\ GoalsWarranted /\ RequestsWarranted

Inv == TypeInv /\ GateInv
=============================================================================
