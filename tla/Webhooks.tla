------------------------------ MODULE Webhooks ------------------------------
(***************************************************************************)
(* Publishing an approved submission: the handler appends an audit event,  *)
(* publishes the command and starts a goroutine that posts the event to    *)
(* every subscriber.  Subscriptions come and go, subscribers fail, the API *)
(* process may die, and the command takes effect later or not at all.      *)
(***************************************************************************)
EXTENDS Integers, Sequences, FiniteSets

CONSTANTS Hooks,         \* subscriptions to the event "published"
          Unreadable,    \* those whose secret another key encrypted
          MaxAttempts,   \* of Sender; 3 where main.go makes it
          MaxPublishes, MaxRegrades, MaxCrashes, MaxChurn \* bounds

ASSUME HooksAssumption == Unreadable \subseteq Hooks /\ IsFiniteSet(Hooks)
ASSUME AttemptsAssumption == MaxAttempts \in Nat \ {0}

VARIABLES
  state, pending,  \* of the submission; publish commands on the bus
  active,          \* webhook_subscription
  requests,        \* Publish requests, with the goroutine each started
  posts,           \* history: POSTs that reached each subscriber, per request
  outcome,         \* history: how a delivery ended, per request
  audited, issued, \* history: events and commands of Publish
  regraded, crashes, churn

submissionVars == <<state, pending, audited, issued, regraded>>
hookVars == <<submissionVars, active, requests, posts, outcome, crashes, churn>>

Ends == {"delivered", "refused", "exhausted", "unreadable", "unbuilt"}

HookInit ==
  /\ state = "approved" /\ pending = 0
  /\ active = {}
  /\ requests = <<>> /\ posts = <<>> /\ outcome = <<>>
  /\ audited = 0 /\ issued = 0 /\ regraded = 0 /\ crashes = 0 /\ churn = 0

---------------------------------------------------------------------------
(***************************************************************************)
(* The submission, as Publish reads it: module Pipeline has all of it.     *)
(***************************************************************************)
\* A publish command is legal in state approved alone; elsewhere it is dropped,
\* or ends in the dead-letter queue.
ApplyPublish ==
  /\ pending > 0 /\ pending' = pending - 1
  /\ state' = IF state = "approved" THEN "published" ELSE state
  /\ UNCHANGED <<audited, issued, regraded, active, requests, posts, outcome, crashes, churn>>

\* A regrade, and the approval that ends it.
Regrade ==
  /\ regraded < MaxRegrades /\ regraded' = regraded + 1
  /\ state \in {"approved", "published"} /\ state' = "grading"
  /\ UNCHANGED <<pending, audited, issued, active, requests, posts, outcome, crashes, churn>>

ApproveAgain ==
  /\ state = "grading" /\ state' = "approved"
  /\ UNCHANGED <<pending, audited, issued, regraded, active, requests, posts, outcome, crashes, churn>>

---------------------------------------------------------------------------
(***************************************************************************)
(* The subscription handlers.                                              *)
(***************************************************************************)
\* A new subscription is active.
Create(h) ==
  /\ churn < MaxChurn /\ churn' = churn + 1
  /\ h \notin active /\ active' = active \cup {h}
  /\ UNCHANGED <<submissionVars, requests, posts, outcome, crashes>>

\* Deliveries that have listed it go on.
Delete(h) ==
  /\ churn < MaxChurn /\ churn' = churn + 1
  /\ h \in active /\ active' = active \ {h}
  /\ UNCHANGED <<submissionVars, requests, posts, outcome, crashes>>

---------------------------------------------------------------------------
(***************************************************************************)
(* Publish, one step per call it makes.                                    *)
(***************************************************************************)
NewRequest == [at |-> "audit", listed |-> {}, todo |-> {}, hook |-> {}, attempt |-> 1]

SetRequest(r, x) == requests' = [requests EXCEPT ![r] = x]
GotoR(r, at)     == SetRequest(r, [requests[r] EXCEPT !.at = at])

Publish ==
  /\ Len(requests) < MaxPublishes
  /\ state = "approved"
  /\ requests' = Append(requests, NewRequest)
  /\ posts' = Append(posts, [h \in Hooks |-> 0])
  /\ outcome' = Append(outcome, [h \in Hooks |-> {}])
  /\ UNCHANGED <<submissionVars, active, crashes, churn>>

\* The audit event first; if it cannot be written nothing else happens.
PublishAudit(r) ==
  /\ requests[r].at = "audit"
  /\ \/ audited' = audited + 1 /\ GotoR(r, "send")
     \/ audited' = audited /\ GotoR(r, "failed")
  /\ UNCHANGED <<state, pending, issued, regraded, active, posts, outcome, crashes, churn>>

\* Mutant: the event is sent out even if the bus did not take the command.
SendAnyway(r) ==
  /\ requests[r].at = "send"
  /\ \/ issued' = issued + 1 /\ pending' = pending + 1
     \/ UNCHANGED <<issued, pending>>
  /\ GotoR(r, "list")
  /\ UNCHANGED <<state, audited, regraded, active, posts, outcome, crashes, churn>>

PublishSend(r) ==
  /\ requests[r].at = "send"
  /\ \/ issued' = issued + 1 /\ pending' = pending + 1 /\ GotoR(r, "list")
     \/ GotoR(r, "failed") /\ UNCHANGED <<issued, pending>>
  /\ UNCHANGED <<state, audited, regraded, active, posts, outcome, crashes, churn>>

---------------------------------------------------------------------------
(***************************************************************************)
(* The goroutine: DispatchFunc lists the subscriptions once and delivers   *)
(* to one after the other, in the order the database returned them.        *)
(***************************************************************************)
\* The next subscriber, or the end.
Turn(x) ==
  IF x.todo = {} THEN {[x EXCEPT !.at = "done", !.hook = {}]}
  ELSE {[x EXCEPT !.at = "decrypt", !.hook = {h}, !.todo = @ \ {h}, !.attempt = 1] : h \in x.todo}

GetActiveWebhooksForEvent(r) ==
  /\ requests[r].at = "list"
  /\ \/ \E x \in Turn([requests[r] EXCEPT !.listed = active, !.todo = active]) : SetRequest(r, x)
     \/ GotoR(r, "failed")
  /\ UNCHANGED <<submissionVars, active, posts, outcome, crashes, churn>>

\* The delivery to h is over: the next one.
Ended(r, h, end) ==
  /\ outcome' = [outcome EXCEPT ![r][h] = {end}]
  /\ \E x \in Turn(requests[r]) : SetRequest(r, x)

\* A failed delivery is logged, never returned.
DispatchNext(r, h, end) == Ended(r, h, end)

\* Mutant: a secret that cannot be read is tried again.
DecryptAgain(r, h) ==
  /\ requests[r].at = "decrypt" /\ requests[r].hook = {h}
  /\ h \notin Unreadable /\ GotoR(r, "post")
  /\ UNCHANGED <<submissionVars, active, posts, outcome, crashes, churn>>

Decrypt(r, h) ==
  /\ requests[r].at = "decrypt" /\ requests[r].hook = {h}
  /\ IF h \in Unreadable THEN DispatchNext(r, h, "unreadable")
     ELSE GotoR(r, "post") /\ UNCHANGED outcome
  /\ UNCHANGED <<submissionVars, active, posts, crashes, churn>>

\* Mutant: MaxAttempts counts the retries.
OneMore(r, h) ==
  IF requests[r].attempt > MaxAttempts THEN DispatchNext(r, h, "exhausted")
  ELSE /\ SetRequest(r, [requests[r] EXCEPT !.attempt = @ + 1])
       /\ UNCHANGED outcome

\* After a transport error or any status but 2xx and 4xx: again, after a
\* backoff, up to MaxAttempts posts in all.
Retry(r, h) ==
  IF requests[r].attempt = MaxAttempts THEN DispatchNext(r, h, "exhausted")
  ELSE /\ SetRequest(r, [requests[r] EXCEPT !.attempt = @ + 1])
       /\ UNCHANGED outcome

\* A post reaches the subscriber or not; its answer reaches the sender or not.
\* No request can be built for an address that does not parse: no retry.
Deliver(r, h) ==
  /\ requests[r].at = "post" /\ requests[r].hook = {h}
  /\ \/ /\ posts' = [posts EXCEPT ![r][h] = @ + 1]
        /\ \/ DispatchNext(r, h, "delivered")
           \/ DispatchNext(r, h, "refused")
           \/ Retry(r, h)
     \/ Retry(r, h) /\ UNCHANGED posts
     \/ DispatchNext(r, h, "unbuilt") /\ UNCHANGED posts
  /\ UNCHANGED <<submissionVars, active, crashes, churn>>

\* The API process dies: nothing remembers what was still to be delivered.
Crash ==
  /\ crashes < MaxCrashes /\ crashes' = crashes + 1
  /\ requests' = [r \in DOMAIN requests |->
       IF requests[r].at \in {"done", "failed"} THEN requests[r]
       ELSE [requests[r] EXCEPT !.at = "crashed"]]
  /\ UNCHANGED <<submissionVars, active, posts, outcome, churn>>

Dispatching(r) ==
  \/ GetActiveWebhooksForEvent(r)
  \/ \E h \in Hooks : Decrypt(r, h) \/ Deliver(r, h)

HookNext ==
  \/ Publish \/ ApplyPublish \/ Regrade \/ ApproveAgain \/ Crash
  \/ \E h \in Hooks : Create(h) \/ Delete(h)
  \/ \E r \in DOMAIN requests : PublishAudit(r) \/ PublishSend(r) \/ Dispatching(r)

---------------------------------------------------------------------------
\* No event without its command: the dispatches that reached a subscriber are no
\* more than the publish commands sent, nor these than the audit events written.
AnnouncedOnlyIfSent ==
  /\ Cardinality({r \in DOMAIN requests : \E h \in Hooks : posts[r][h] > 0}) <= issued
  /\ issued <= audited

\* However its answers get lost, a subscriber gets at most MaxAttempts posts of
\* one dispatch; and one subscriber's failure is not another's: a dispatch that
\* ran to its end delivered to every subscription it had listed, or that
\* subscriber refused, used up the attempts, has an address no request can be
\* built for, or a secret nobody can read.
DispatchComplete ==
  \A r \in DOMAIN requests :
    /\ \A h \in Hooks : posts[r][h] <= MaxAttempts
    /\ requests[r].at = "done" =>
         \A h \in requests[r].listed :
           /\ outcome[r][h] \subseteq Ends /\ outcome[r][h] # {}
           /\ (outcome[r][h] = {"unreadable"}) <=> (h \in Unreadable)

\* A dispatch ends, whatever its subscribers answer: the sender's client has a
\* timeout, and attempts are bounded.
DispatchEnds ==
  LET At(r, S) == r \in DOMAIN requests /\ requests[r].at \in S
  IN  \A r \in 1..MaxPublishes : At(r, {"list"}) ~> At(r, {"done", "failed", "crashed"})
=============================================================================
