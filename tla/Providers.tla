------------------------------ MODULE Providers ------------------------------
(***************************************************************************)
(* AI providers of one tenant: administrators create configurations and    *)
(* choose the default one, each choice a database transaction, while calls *)
(* resolve the provider and complete a prompt against it.                  *)
(***************************************************************************)
EXTENDS Integers, Sequences, FiniteSets

CONSTANTS Names,        \* of configurations
          Bogus,        \* an id that is no configuration of the tenant
          Admins, Calls,
          Retries,      \* attempts of the fallback; a tenant's provider has 1
          Fallback,     \* the provider the environment configures
          MaxDefaults   \* bound: transactions

ASSUME RetriesAssumption == Retries \in Nat \ {0}
ASSUME NamesAssumption   == Bogus \notin Names /\ Fallback \notin Names

VARIABLES
  configs, defaults, \* ai_provider_config as committed: the names, those with is_default
  tx,                \* the transaction of each administrator
  call,              \* what each caller is doing
  log,               \* the AICallLog entries of each caller
  served,            \* history: replies decoded, per caller
  begun

txVars   == <<configs, defaults, tx, begun>>
callVars == <<call, log, served>>
provVars == <<txVars, callVars>>

NoTx   == [at |-> "none", target |-> {}, seen |-> {}, cleared |-> {}, written |-> {}]
NoCall == [at |-> "start", provider |-> {}, round |-> 1, attempt |-> 0, tokens |-> 0,
           valid |-> FALSE, schema |-> "none"]

ProvInit ==
  /\ configs = {} /\ defaults = {}
  /\ tx = [a \in Admins |-> NoTx]
  /\ call = [c \in Calls |-> NoCall]
  /\ log = [c \in Calls |-> <<>>] /\ served = [c \in Calls |-> 0]
  /\ begun = 0

---------------------------------------------------------------------------
(***************************************************************************)
(* Configurations.                                                         *)
(***************************************************************************)
\* A name that exists is a duplicate: 409.
CreateAIProvider(n) ==
  /\ n \notin configs
  /\ configs' = configs \cup {n}
  /\ UNCHANGED <<defaults, tx, begun, callVars>>

SetTx(a, t) == tx' = [tx EXCEPT ![a] = t]
Others(a)   == Admins \ {a}
LockedRows(a) == UNION {tx[b].cleared \cup tx[b].written : b \in Others(a)}

\* SetDefaultAIProvider begins: the statement that clears the default takes its
\* snapshot.
Begin(a, target) ==
  /\ begun < MaxDefaults /\ begun' = begun + 1
  /\ tx[a].at = "none"
  /\ SetTx(a, [NoTx EXCEPT !.at = "clear", !.target = {target}, !.seen = defaults])
  /\ UNCHANGED <<configs, defaults, callVars>>

\* It waits for a row another transaction has changed, and looks again whether
\* the row still is the default.
ClearTenantDefaultAIProvider(a) ==
  /\ tx[a].at = "clear"
  /\ tx[a].seen \cap LockedRows(a) = {}
  /\ SetTx(a, [tx[a] EXCEPT !.at = "set", !.cleared = tx[a].seen \cap defaults])
  /\ UNCHANGED <<configs, defaults, begun, callVars>>

Rollback(a) == SetTx(a, NoTx) /\ UNCHANGED defaults

\* Mutant: the index on (tenant_id) WHERE is_default is not unique.
SetWithoutIndex(a) ==
  /\ tx[a].at = "set"
  /\ tx[a].target \cap LockedRows(a) = {}
  /\ IF tx[a].target \subseteq configs
     THEN SetTx(a, [tx[a] EXCEPT !.at = "commit", !.written = tx[a].target]) /\ UNCHANGED defaults
     ELSE Rollback(a)
  /\ UNCHANGED <<configs, begun, callVars>>

\* Mutant: zero rows changed is no error.
SetNothing(a) ==
  /\ tx[a].at = "set"
  /\ \A b \in Others(a) : tx[b].written = {}
  /\ tx[a].target \cap LockedRows(a) = {}
  /\ IF defaults \ (tx[a].cleared \cup tx[a].target) = {}
     THEN SetTx(a, [tx[a] EXCEPT !.at = "commit", !.written = tx[a].target \cap configs])
          /\ UNCHANGED defaults
     ELSE Rollback(a)
  /\ UNCHANGED <<configs, begun, callVars>>

\* The unique index makes it wait for an uncommitted default, and fail on a
\* committed one it has not cleared.  A target that is not there rolls back.
SetAIProviderDefault(a) ==
  /\ tx[a].at = "set"
  /\ \A b \in Others(a) : tx[b].written = {}
  /\ tx[a].target \cap LockedRows(a) = {}
  /\ IF tx[a].target \subseteq configs /\ defaults \ (tx[a].cleared \cup tx[a].target) = {}
     THEN SetTx(a, [tx[a] EXCEPT !.at = "commit", !.written = tx[a].target]) /\ UNCHANGED defaults
     ELSE Rollback(a)
  /\ UNCHANGED <<configs, begun, callVars>>

Commit(a) ==
  /\ tx[a].at = "commit"
  /\ defaults' = (defaults \ tx[a].cleared) \cup tx[a].written
  /\ SetTx(a, NoTx)
  /\ UNCHANGED <<configs, begun, callVars>>

\* The connection is lost.
Abort(a) ==
  /\ tx[a].at # "none"
  /\ Rollback(a)
  /\ UNCHANGED <<configs, begun, callVars>>

---------------------------------------------------------------------------
(***************************************************************************)
(* Calls.  A reply is valid or not against the schema, if there is one.    *)
(***************************************************************************)
SetCall(c, x) == call' = [call EXCEPT ![c] = x]
MaxRetries(c) == IF call[c].provider = {Fallback} THEN Retries ELSE 1

\* No default, or none that can be read: the fallback.
Resolve(c) ==
  /\ call[c].at = "start"
  /\ \E p \in {{Fallback}} \cup {{n} : n \in defaults}, s \in {"none", "good", "broken"} :
       SetCall(c, [call[c] EXCEPT !.at = "post", !.provider = p, !.schema = s])
  /\ UNCHANGED <<txVars, log, served>>

\* Complete logs every call, failed ones too.
Complete(c, x, ok) ==
  /\ SetCall(c, [x EXCEPT !.at = IF ok THEN "answered" ELSE "failed"])
  /\ log' = [log EXCEPT ![c] = Append(@, [tokens |-> x.tokens, schemaValid |-> x.valid])]

\* Mutant: the tokens of the first reply are forgotten.
CountLast(c, valid) ==
  LET x == [call[c] EXCEPT !.tokens = 1, !.valid = valid]
  IN  /\ served' = [served EXCEPT ![c] = @ + 1]
      /\ IF valid \/ x.round = 2 \/ x.schema = "broken" THEN Complete(c, x, valid)
         ELSE /\ SetCall(c, [x EXCEPT !.round = 2, !.attempt = 0])
              /\ UNCHANGED log

\* A reply that parses: one unit of tokens.  If it is not valid the model is
\* asked once more, and the second reply counts too.  Whether the schema compiles
\* is found out only then.
Reply(c, valid) ==
  LET x == [call[c] EXCEPT !.tokens = @ + 1, !.valid = valid]
  IN  /\ served' = [served EXCEPT ![c] = @ + 1]
      /\ IF valid \/ x.round = 2 \/ x.schema = "broken" THEN Complete(c, x, valid)
         ELSE /\ SetCall(c, [x EXCEPT !.round = 2, !.attempt = 0])
              /\ UNCHANGED log

CallFails(c) ==
  Complete(c, [call[c] EXCEPT !.valid = FALSE], FALSE) /\ UNCHANGED served

\* A transport error, a 5xx or a reply that does not decode is tried again.
RetryCall(c) ==
  IF call[c].attempt + 1 < MaxRetries(c)
  THEN SetCall(c, [call[c] EXCEPT !.attempt = @ + 1]) /\ UNCHANGED <<log, served>>
  ELSE CallFails(c)

\* One request; a 4xx and a cancelled context end the call.
doRequest(c) ==
  /\ call[c].at = "post"
  /\ \/ call[c].schema # "broken" /\ Reply(c, TRUE)
     \/ call[c].schema # "none" /\ Reply(c, FALSE)
     \/ RetryCall(c)
     \/ CallFails(c)
  /\ UNCHANGED txVars

ProvNext ==
  \/ \E n \in Names : CreateAIProvider(n)
  \/ \E a \in Admins :
       \/ \E t \in configs \cup {Bogus} : Begin(a, t)
       \/ ClearTenantDefaultAIProvider(a) \/ SetAIProviderDefault(a) \/ Commit(a) \/ Abort(a)
  \/ \E c \in Calls : Resolve(c) \/ doRequest(c)

---------------------------------------------------------------------------
\* Transactions that race leave one default at most, a configuration that exists.
OneDefault == Cardinality(defaults) <= 1 /\ defaults \subseteq configs

\* A tenant that has a default keeps one, whoever fails, races or asks for a
\* configuration that is not there.
DefaultKept == [][defaults # {} => defaults' # {}]_defaults

\* Cost accounting: a call is logged once, when it ends, with the tokens of every
\* reply it had, the rejected one too; and as schema-valid only if it returns a
\* reply that is.
LoggedOnce ==
  \A c \in Calls :
    /\ Len(log[c]) = (IF call[c].at \in {"answered", "failed"} THEN 1 ELSE 0)
    /\ \A i \in DOMAIN log[c] : /\ log[c][i].tokens = served[c]
                                /\ log[c][i].schemaValid <=> call[c].at = "answered"

\* A call ends, whatever the provider answers.
CallsEnd == \A c \in Calls : (call[c].at = "post") ~> (call[c].at \in {"answered", "failed"})
=============================================================================
