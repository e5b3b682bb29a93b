------------------------------- MODULE Services -------------------------------
(***************************************************************************)
(* The services around the pipeline.  Moderation, webhooks and providers   *)
(* share no state, so interleaving them would add nothing: a behaviour     *)
(* exercises one of them.                                                  *)
(***************************************************************************)
EXTENDS Moderation, Webhooks, Providers

VARIABLE service

vars == <<service, modVars, hookVars, provVars>>

Init ==
  /\ service \in {"moderation", "webhooks", "providers"}
  /\ ModInit /\ HookInit /\ ProvInit

Next ==
  /\ UNCHANGED service
  /\ \/ service = "moderation" /\ ModNext /\ UNCHANGED <<hookVars, provVars>>
     \/ service = "webhooks" /\ HookNext /\ UNCHANGED <<modVars, provVars>>
     \/ service = "providers" /\ ProvNext /\ UNCHANGED <<modVars, hookVars>>

\* The goroutine of a dispatch and the handler of a call are scheduled, and
\* their HTTP clients have timeouts.  Nothing else is promised to happen.
Fairness ==
  /\ \A r \in 1..MaxPublishes :
       WF_vars(service = "webhooks" /\ r \in DOMAIN requests /\ Dispatching(r)
               /\ UNCHANGED <<service, modVars, provVars>>)
  /\ \A c \in Calls :
       WF_vars(service = "providers" /\ doRequest(c)
               /\ UNCHANGED <<service, modVars, hookVars>>)

Spec == Init /\ [][Next]_vars /\ Fairness

\* Work that was begun ends: a dispatch, whatever its subscribers answer, and a
\* call, whatever the provider answers.
WorkEnds == DispatchEnds /\ CallsEnd
=============================================================================
