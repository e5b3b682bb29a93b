---------------------------- MODULE ServicesProofs ----------------------------
(***************************************************************************)
(* What the services promise however their transactions, goroutines and    *)
(* calls interleave and fail: proofs about module Services.                *)
(***************************************************************************)
EXTENDS Services, ModerationInvariant, Counting, SequenceTheorems

---------------------------------------------------------------------------
(***************************************************************************)
(* The default provider.  A transaction that is about to commit holds the  *)
(* unique index alone, names a configuration, and clears every default but *)
(* its own; nobody can commit before it, so this stays so until it does.   *)
(***************************************************************************)
Txs == [at : {"none", "clear", "set", "commit"}, target : SUBSET (Names \cup {Bogus}),
        seen : SUBSET Names, cleared : SUBSET Names, written : SUBSET Names]

TxTypeOK ==
  /\ configs \subseteq Names
  /\ tx \in [Admins -> Txs]

Single(S) == \E n : S = {n}

TxReady(a) ==
  /\ tx[a].at # "commit" => tx[a].written = {}
  /\ tx[a].at = "commit" =>
       /\ Single(tx[a].written) /\ tx[a].written \subseteq configs
       /\ defaults \subseteq tx[a].cleared \cup tx[a].written

DefaultInv ==
  /\ TxTypeOK
  /\ defaults \subseteq configs /\ (defaults = {} \/ Single(defaults))
  /\ \A a \in Admins :
       /\ tx[a].at \in {"clear", "set"} => Single(tx[a].target)
       /\ TxReady(a)
       /\ tx[a].at = "commit" => \A b \in Admins \ {a} : tx[b].at # "commit"

LEMMA DefaultInit == ProvInit => DefaultInv
BY DEF ProvInit, DefaultInv, TxTypeOK, Txs, NoTx, TxReady

\* A step of a's transaction that commits nothing.
LEMMA TxStep ==
  ASSUME DefaultInv, NEW a \in Admins, NEW t \in Txs,
         tx' = [tx EXCEPT ![a] = t], UNCHANGED <<configs, defaults>>,
         t.at \in {"clear", "set"} => Single(t.target),
         t.at # "commit" => t.written = {},
         t.at = "commit" =>
           /\ Single(t.written) /\ t.written \subseteq configs
           /\ defaults \subseteq t.cleared \cup t.written
           /\ \A b \in Admins \ {a} : tx[b].at # "commit"
  PROVE  DefaultInv'
<1>1. tx' \in [Admins -> Txs] /\ tx'[a] = t /\ \A b \in Admins \ {a} : tx'[b] = tx[b]
  BY DEF DefaultInv, TxTypeOK
<1> QED BY <1>1 DEF DefaultInv, TxTypeOK, TxReady

LEMMA CommitStep ==
  ASSUME DefaultInv, NEW a \in Admins, Commit(a)
  PROVE  DefaultInv' /\ defaults' # {}
<1>1. /\ tx \in [Admins -> Txs] /\ tx[a].at = "commit"
      /\ Single(tx[a].written) /\ tx[a].written \subseteq configs
      /\ defaults \subseteq tx[a].cleared \cup tx[a].written
      /\ \A b \in Admins \ {a} : tx[b].at # "commit"
  BY DEF Commit, DefaultInv, TxTypeOK, TxReady
<1>2. defaults' = tx[a].written
  BY <1>1 DEF Commit
<1>3. NoTx \in Txs /\ NoTx.at = "none" /\ NoTx.written = {}
  BY DEF NoTx, Txs
<1>4. /\ tx' \in [Admins -> Txs] /\ tx'[a] = NoTx
      /\ \A b \in Admins \ {a} : tx'[b] = tx[b]
  BY <1>1, <1>3 DEF Commit, SetTx
<1>5. \A b \in Admins : tx'[b].at # "commit" /\ tx'[b].written = {}
  BY <1>1, <1>3, <1>4 DEF DefaultInv, TxReady
<1>6. \A b \in Admins : tx'[b].at \in {"clear", "set"} => Single(tx'[b].target)
  BY <1>3, <1>4 DEF DefaultInv
<1> QED BY <1>1, <1>2, <1>4, <1>5, <1>6 DEF Commit, DefaultInv, TxTypeOK, TxReady, Single

LEMMA DefaultStep ==
  ASSUME DefaultInv, ProvNext \/ UNCHANGED provVars
  PROVE  DefaultInv' /\ (defaults # {} => defaults' # {})
<1>1. CASE UNCHANGED <<configs, defaults, tx>>
  BY <1>1 DEF DefaultInv, TxTypeOK, TxReady
<1>2. ASSUME NEW n \in Names, CreateAIProvider(n)
      PROVE  DefaultInv' /\ (defaults # {} => defaults' # {})
  BY <1>2 DEF CreateAIProvider, DefaultInv, TxTypeOK, TxReady
<1>3. ASSUME NEW a \in Admins, NEW t \in configs \cup {Bogus}, Begin(a, t)
      PROVE  DefaultInv' /\ UNCHANGED defaults
  <2> DEFINE x == [NoTx EXCEPT !.at = "clear", !.target = {t}, !.seen = defaults]
  <2>1. x \in Txs /\ x.at = "clear" /\ x.written = {} /\ Single(x.target)
    BY <1>3 DEF Txs, NoTx, DefaultInv, TxTypeOK, Single
  <2>2. tx' = [tx EXCEPT ![a] = x] /\ UNCHANGED <<configs, defaults>>
    BY <1>3 DEF Begin, SetTx
  <2> HIDE DEF x
  <2> QED BY <2>1, <2>2, TxStep
<1>4. ASSUME NEW a \in Admins, ClearTenantDefaultAIProvider(a)
      PROVE  DefaultInv' /\ UNCHANGED defaults
  <2> DEFINE x == [tx[a] EXCEPT !.at = "set", !.cleared = tx[a].seen \cap defaults]
  <2>1. tx[a] \in Txs /\ tx[a].at = "clear" /\ Single(tx[a].target) /\ tx[a].written = {}
    BY <1>4 DEF ClearTenantDefaultAIProvider, DefaultInv, TxTypeOK, TxReady
  <2>2. x \in Txs /\ x.at = "set" /\ x.written = {} /\ Single(x.target)
    BY <2>1 DEF Txs
  <2>3. tx' = [tx EXCEPT ![a] = x] /\ UNCHANGED <<configs, defaults>>
    BY <1>4 DEF ClearTenantDefaultAIProvider, SetTx
  <2> HIDE DEF x
  <2> QED BY <2>2, <2>3, TxStep
<1>5. ASSUME NEW a \in Admins, Rollback(a), UNCHANGED configs
      PROVE  DefaultInv' /\ UNCHANGED defaults
  <2>1. NoTx \in Txs /\ NoTx.at = "none" /\ NoTx.written = {}
    BY DEF NoTx, Txs
  <2> QED BY <1>5, <2>1, TxStep DEF Rollback, SetTx
<1>6. ASSUME NEW a \in Admins, SetAIProviderDefault(a)
      PROVE  DefaultInv' /\ UNCHANGED defaults
  <2>1. CASE tx[a].target \subseteq configs /\ defaults \ (tx[a].cleared \cup tx[a].target) = {}
    <3> DEFINE x == [tx[a] EXCEPT !.at = "commit", !.written = tx[a].target]
    <3>1. tx[a] \in Txs /\ tx[a].at = "set" /\ Single(tx[a].target) /\ configs \subseteq Names
      BY <1>6 DEF SetAIProviderDefault, DefaultInv, TxTypeOK
    <3>2. /\ x \in Txs /\ x.at = "commit" /\ x.written = tx[a].target
          /\ x.cleared = tx[a].cleared
      BY <2>1, <3>1 DEF Txs
    <3>3. \A b \in Admins \ {a} : tx[b].at # "commit"
      <4>1. \A b \in Admins \ {a} : tx[b].written = {}
        BY <1>6 DEF SetAIProviderDefault, Others
      <4> QED BY <4>1 DEF DefaultInv, TxReady, Single
    <3>4. defaults \subseteq x.cleared \cup x.written
      BY <2>1, <3>2
    <3>5. tx' = [tx EXCEPT ![a] = x] /\ UNCHANGED <<configs, defaults>>
      BY <1>6, <2>1 DEF SetAIProviderDefault, SetTx
    <3> HIDE DEF x
    <3> QED BY <2>1, <3>1, <3>2, <3>3, <3>4, <3>5, TxStep
  <2>2. CASE ~(tx[a].target \subseteq configs
               /\ defaults \ (tx[a].cleared \cup tx[a].target) = {})
    BY <1>5, <1>6, <2>2 DEF SetAIProviderDefault
  <2> QED BY <2>1, <2>2
<1>7. ASSUME NEW a \in Admins, Abort(a) PROVE DefaultInv' /\ UNCHANGED defaults
  BY <1>5, <1>7 DEF Abort
<1>8. ASSUME NEW c \in Calls, Resolve(c) \/ doRequest(c)
      PROVE  UNCHANGED <<configs, defaults, tx>>
  BY <1>8 DEF Resolve, doRequest, txVars
<1>9. CASE UNCHANGED provVars
  BY <1>1, <1>9 DEF provVars, txVars
<1> QED BY <1>1, <1>2, <1>3, <1>4, <1>6, <1>7, <1>8, <1>9, CommitStep DEF ProvNext

LEMMA DefaultNext ==
  DefaultInv /\ [Next]_vars => DefaultInv' /\ (defaults # {} => defaults' # {})
BY DefaultStep DEF Next, vars

\* Transactions of SetDefaultAIProvider that race, fail or name a configuration
\* that is not there leave at most one default, and one that exists.
THEOREM AtMostOneDefault == Spec => []OneDefault
<1>1. Init => DefaultInv
  BY DefaultInit DEF Init
<1>2. DefaultInv => OneDefault
  <2>1. Cardinality({}) = 0 /\ \A n : Cardinality({n}) = 1
    BY FS_EmptySet, FS_Singleton
  <2>2. DefaultInv => Cardinality(defaults) \in {0, 1}
    BY <2>1 DEF DefaultInv, Single
  <2> QED BY <2>2 DEF DefaultInv, OneDefault
<1> QED BY <1>1, <1>2, DefaultNext, PTL DEF Spec

\* A tenant that has a default provider never loses it: clearing the old one and
\* setting the new one commit together.
THEOREM DefaultNeverLost == Spec => DefaultKept
<1>1. Init => DefaultInv
  BY DefaultInit DEF Init
<1>2. DefaultInv /\ [Next]_vars => [defaults # {} => defaults' # {}]_defaults
  BY DefaultNext
<1>3. DefaultInv /\ [Next]_vars => DefaultInv'
  BY DefaultNext
<1> QED BY <1>1, <1>2, <1>3, PTL DEF Spec, DefaultKept

---------------------------------------------------------------------------
(***************************************************************************)
(* The call log.  What a call has counted so far is what it was served,    *)
(* and nothing is logged before it ends.                                   *)
(***************************************************************************)
Callings == [at : {"start", "post", "answered", "failed"}, provider : SUBSET (Names \cup {Fallback}),
             round : Nat, attempt : Nat, tokens : Nat, valid : BOOLEAN,
             schema : {"none", "good", "broken"}]

Entry(c) == [tokens |-> served[c], schemaValid |-> call[c].at = "answered"]

LogInv ==
  /\ defaults \subseteq Names
  /\ call \in [Calls -> Callings] /\ served \in [Calls -> Nat]
  /\ log = [c \in Calls |-> log[c]]
  /\ \A c \in Calls :
       /\ call[c].tokens = served[c]
       /\ log[c] = IF call[c].at \in {"answered", "failed"} THEN <<Entry(c)>> ELSE <<>>

LEMMA LogInit == ProvInit => LogInv
BY DEF ProvInit, LogInv, Callings, NoCall

\* A step of c that does not end the call.
LEMMA OnwardStep ==
  ASSUME LogInv, NEW c \in Calls, NEW x \in Callings, NEW n \in Nat,
         call[c].at \in {"start", "post"}, x.at = "post", x.tokens = n,
         SetCall(c, x), served' = [served EXCEPT ![c] = n],
         UNCHANGED <<defaults, log>>
  PROVE  LogInv'
<1>1. /\ call' \in [Calls -> Callings] /\ call'[c] = x
      /\ \A b \in Calls \ {c} : call'[b] = call[b]
  BY DEF LogInv, SetCall
<1>2. /\ served' \in [Calls -> Nat] /\ served'[c] = n
      /\ \A b \in Calls \ {c} : served'[b] = served[b]
  BY DEF LogInv
<1>3. log[c] = <<>>
  BY DEF LogInv
<1> QED BY <1>1, <1>2, <1>3 DEF LogInv, Entry

\* The step that ends it.
LEMMA CompleteStep ==
  ASSUME LogInv, NEW c \in Calls, NEW x \in Callings, NEW n \in Nat, NEW ok \in BOOLEAN,
         call[c].at = "post", x.tokens = n, x.valid = ok,
         Complete(c, x, ok), served' = [served EXCEPT ![c] = n],
         UNCHANGED defaults
  PROVE  LogInv'
<1> DEFINE y == [x EXCEPT !.at = IF ok THEN "answered" ELSE "failed"]
<1>1. /\ y \in Callings /\ y.tokens = n
      /\ y.at = IF ok THEN "answered" ELSE "failed"
  BY DEF Callings
<1>2. /\ call' \in [Calls -> Callings] /\ call'[c] = y
      /\ \A b \in Calls \ {c} : call'[b] = call[b]
  BY <1>1 DEF LogInv, Complete, SetCall
<1>3. /\ served' \in [Calls -> Nat] /\ served'[c] = n
      /\ \A b \in Calls \ {c} : served'[b] = served[b]
  BY DEF LogInv
<1>4. log[c] = <<>>
  BY DEF LogInv
<1>5. /\ log' = [b \in Calls |-> log'[b]]
      /\ log'[c] = <<[tokens |-> n, schemaValid |-> ok]>>
      /\ \A b \in Calls \ {c} : log'[b] = log[b]
  <2>1. /\ log' = [log EXCEPT ![c] = Append(log[c], [tokens |-> x.tokens,
                                                     schemaValid |-> x.valid])]
        /\ log = [b \in Calls |-> log[b]]
    BY DEF LogInv, Complete
  <2>2. Append(<<>>, [tokens |-> n, schemaValid |-> ok]) = <<[tokens |-> n, schemaValid |-> ok]>>
    OBVIOUS
  <2>3. log'[c] = <<[tokens |-> n, schemaValid |-> ok]>>
    BY <1>4, <2>1, <2>2
  <2> QED BY <2>1, <2>3
<1> HIDE DEF y
<1>6. log'[c] = <<Entry(c)'>> /\ y.at \in {"answered", "failed"}
  BY <1>1, <1>2, <1>3, <1>5 DEF Entry
<1>7. \A b \in Calls \ {c} : Entry(b)' = Entry(b)
  BY <1>2, <1>3 DEF Entry
<1>8. \A b \in Calls :
        /\ call'[b].tokens = served'[b]
        /\ log'[b] = IF call'[b].at \in {"answered", "failed"} THEN <<Entry(b)'>> ELSE <<>>
  <2>1. ASSUME NEW b \in Calls, b # c
        PROVE  /\ call'[b].tokens = served'[b]
               /\ log'[b] = IF call'[b].at \in {"answered", "failed"} THEN <<Entry(b)'>> ELSE <<>>
    <3>1. call'[b] = call[b] /\ served'[b] = served[b] /\ log'[b] = log[b] /\ Entry(b)' = Entry(b)
      BY <1>2, <1>3, <1>5, <1>7, <2>1
    <3>2. /\ call[b].tokens = served[b]
          /\ log[b] = IF call[b].at \in {"answered", "failed"} THEN <<Entry(b)>> ELSE <<>>
      BY DEF LogInv
    <3> HIDE DEF Entry
    <3> QED BY <3>1, <3>2
  <2>2. /\ call'[c].tokens = served'[c] /\ call'[c].at \in {"answered", "failed"}
        /\ log'[c] = <<Entry(c)'>>
    BY <1>1, <1>2, <1>3, <1>6
  <2> QED BY <2>1, <2>2
<1> QED BY <1>2, <1>3, <1>5, <1>8 DEF LogInv

LEMMA LogStep ==
  ASSUME LogInv, DefaultInv', ProvNext \/ UNCHANGED provVars
  PROVE  LogInv'
<1>0. defaults' \subseteq Names
  BY DEF DefaultInv, TxTypeOK
<1>1. CASE UNCHANGED callVars
  BY <1>0, <1>1 DEF callVars, LogInv, Entry
<1>2. ASSUME NEW c \in Calls, Resolve(c) PROVE LogInv'
  <2>1. call[c] \in Callings /\ call[c].at = "start" /\ UNCHANGED <<defaults, log, served>>
    BY <1>2 DEF Resolve, LogInv, txVars
  <2>2. PICK p \in {{Fallback}} \cup {{n} : n \in defaults}, s \in {"none", "good", "broken"} :
          SetCall(c, [call[c] EXCEPT !.at = "post", !.provider = p, !.schema = s])
    BY <1>2 DEF Resolve
  <2> DEFINE x == [call[c] EXCEPT !.at = "post", !.provider = p, !.schema = s]
  <2>3. p \subseteq Names \cup {Fallback}
    BY DEF LogInv
  <2>4. x \in Callings /\ x.at = "post" /\ x.tokens = call[c].tokens
    BY <2>1, <2>3 DEF Callings
  <2>5. served[c] \in Nat /\ call[c].tokens = served[c] /\ served' = [served EXCEPT ![c] = served[c]]
    BY <2>1 DEF LogInv
  <2> HIDE DEF x
  <2> QED BY <2>1, <2>2, <2>4, <2>5, OnwardStep DEF x
<1>3. ASSUME NEW c \in Calls, doRequest(c) PROVE LogInv'
  <2>1. call[c] \in Callings /\ call[c].at = "post" /\ UNCHANGED defaults
    BY <1>3 DEF doRequest, LogInv, txVars
  <2>2. served[c] \in Nat /\ call[c].tokens = served[c]
    BY DEF LogInv
  <2>3. ASSUME NEW valid \in BOOLEAN, Reply(c, valid) PROVE LogInv'
    <3> DEFINE x == [call[c] EXCEPT !.tokens = @ + 1, !.valid = valid]
               y == [x EXCEPT !.round = 2, !.attempt = 0]
    <3>0. call[c].tokens + 1 \in Nat
      BY <2>2
    <3>1. x \in Callings /\ x.tokens = served[c] + 1 /\ x.valid = valid /\ x.at = "post"
      BY <2>1, <2>2, <3>0 DEF Callings
    <3>2. y \in Callings /\ y.tokens = served[c] + 1 /\ y.at = "post"
      BY <3>1 DEF Callings
    <3>3. served' = [served EXCEPT ![c] = served[c] + 1] /\ served[c] + 1 \in Nat
      BY <2>2, <2>3 DEF Reply
    <3>4. \/ Complete(c, x, valid)
          \/ SetCall(c, y) /\ UNCHANGED log
      BY <2>3 DEF Reply
    <3> HIDE DEF x, y
    <3> QED BY <2>1, <3>1, <3>2, <3>3, <3>4, OnwardStep, CompleteStep
  <2>4. ASSUME CallFails(c) PROVE LogInv'
    <3> DEFINE x == [call[c] EXCEPT !.valid = FALSE]
    <3>1. x \in Callings /\ x.tokens = served[c] /\ x.valid = FALSE
      BY <2>1, <2>2 DEF Callings
    <3>2. Complete(c, x, FALSE) /\ served' = [served EXCEPT ![c] = served[c]]
      BY <2>2, <2>4 DEF CallFails, LogInv
    <3> HIDE DEF x
    <3> QED BY <2>1, <2>2, <3>1, <3>2, CompleteStep
  <2>5. ASSUME RetryCall(c) PROVE LogInv'
    <3> DEFINE x == [call[c] EXCEPT !.attempt = @ + 1]
    <3>1. x \in Callings /\ x.tokens = served[c] /\ x.at = "post"
      BY <2>1, <2>2 DEF Callings
    <3>2. \/ CallFails(c)
          \/ /\ SetCall(c, x) /\ UNCHANGED log
             /\ served' = [served EXCEPT ![c] = served[c]]
      BY <2>2, <2>5 DEF RetryCall, LogInv
    <3> HIDE DEF x
    <3> QED BY <2>1, <2>2, <2>4, <3>1, <3>2, OnwardStep
  <2> QED BY <1>3, <2>3, <2>4, <2>5 DEF doRequest
<1>4. ASSUME NEW n \in Names, CreateAIProvider(n) PROVE UNCHANGED callVars
  BY <1>4 DEF CreateAIProvider
<1>5. ASSUME NEW a \in Admins,
             \/ \E t \in configs \cup {Bogus} : Begin(a, t)
             \/ ClearTenantDefaultAIProvider(a) \/ SetAIProviderDefault(a)
             \/ Commit(a) \/ Abort(a)
      PROVE  UNCHANGED callVars
  BY <1>5 DEF Begin, ClearTenantDefaultAIProvider, SetAIProviderDefault, Commit, Abort
<1>6. CASE UNCHANGED provVars
  BY <1>1, <1>6 DEF provVars
<1> QED BY <1>1, <1>2, <1>3, <1>4, <1>5, <1>6 DEF ProvNext

LEMMA LogBound == LogInv => LoggedOnce
<1> SUFFICES ASSUME LogInv, NEW c \in Calls
    PROVE  /\ Len(log[c]) = (IF call[c].at \in {"answered", "failed"} THEN 1 ELSE 0)
           /\ \A i \in DOMAIN log[c] : /\ log[c][i].tokens = served[c]
                                       /\ log[c][i].schemaValid <=> call[c].at = "answered"
  BY DEF LoggedOnce
<1>1. CASE call[c].at \in {"answered", "failed"}
  <2>1. log[c] = <<Entry(c)>>
    BY <1>1 DEF LogInv
  <2>2. Len(log[c]) = 1 /\ DOMAIN log[c] = {1} /\ log[c][1] = Entry(c)
    BY <2>1
  <2>3. log[c][1].tokens = served[c]
    BY <2>2 DEF Entry
  <2>4. log[c][1].schemaValid = (call[c].at = "answered")
    <3>1. \A n, v : [tokens |-> n, schemaValid |-> v].schemaValid = v
      OBVIOUS
    <3>2. Entry(c).schemaValid = (call[c].at = "answered")
      BY <3>1, Zenon DEF Entry
    <3> HIDE DEF Entry
    <3> QED BY <2>2, <3>2, Zenon
  <2> QED BY <1>1, <2>2, <2>3, <2>4
<1>2. CASE call[c].at \notin {"answered", "failed"}
  <2>1. log[c] = <<>>
    BY <1>2 DEF LogInv
  <2> QED BY <1>2, <2>1
<1> QED BY <1>1, <1>2

\* Cost accounting does not depend on how a call goes: one entry when it ends,
\* with the tokens of every reply (Complete in ai_log, and the providers' schema
\* retry, which adds up the usage of both rounds).
THEOREM CallsAccounted == Spec => []LoggedOnce
<1>1. Init => DefaultInv /\ LogInv
  BY DefaultInit, LogInit DEF Init
<1>2. LogInv /\ DefaultInv' /\ [Next]_vars => LogInv'
  BY LogStep DEF Next, vars
<1>3. DefaultInv /\ [Next]_vars => DefaultInv'
  BY DefaultNext
<1> QED BY <1>1, <1>2, <1>3, LogBound, PTL DEF Spec

---------------------------------------------------------------------------
(***************************************************************************)
(* Dispatches.  Good(x, p, o) is what holds of a request x, its posts p    *)
(* and its outcomes o: the subscribers listed are settled, in turn, or     *)
(* still to come, and the one in turn had fewer posts than attempts.       *)
(***************************************************************************)
Asked0 == {"audit", "send", "list"}
Live   == {"list", "decrypt", "post", "done"}
Reqs   == [at : Asked0 \cup Live \cup {"failed", "crashed"}, listed : SUBSET Hooks,
           todo : SUBSET Hooks, hook : SUBSET Hooks, attempt : 1..MaxAttempts]
Tally  == [Hooks -> Nat]
Result == [Hooks -> SUBSET Ends]

Settled(o, h) ==
  \E e \in Ends : o[h] = {e} /\ (e = "unreadable" <=> h \in Unreadable)

Good(x, p, o) ==
  /\ x.todo \subseteq x.listed /\ x.hook \subseteq x.listed /\ x.hook \cap x.todo = {}
  /\ \A h \in Hooks : p[h] <= MaxAttempts
  /\ x.at \in Asked0 => \A h \in Hooks : p[h] = 0
  /\ x.at \in {"decrypt", "post", "done"} =>
       /\ \A h \in x.listed \ (x.todo \cup x.hook) : Settled(o, h)
       /\ \A h \in x.todo : p[h] = 0
  /\ x.at \in {"decrypt", "post"} => \E h \in Hooks : x.hook = {h} /\ p[h] < x.attempt
  /\ x.at = "post" => x.hook \cap Unreadable = {}
  /\ x.at = "done" => x.todo = {} /\ x.hook = {}

DispatchInv ==
  /\ requests \in Seq(Reqs) /\ posts \in Seq(Tally) /\ outcome \in Seq(Result)
  /\ Len(posts) = Len(requests) /\ Len(outcome) = Len(requests)
  /\ active \subseteq Hooks
  /\ \A r \in DOMAIN requests : Good(requests[r], posts[r], outcome[r])

LEMMA DispatchInit == HookInit => DispatchInv
BY DEF HookInit, DispatchInv

\* A step of request r alone.
LEMMA OneRequest ==
  ASSUME DispatchInv, NEW r \in DOMAIN requests, NEW x \in Reqs,
         NEW p \in Tally, NEW o \in Result, SetRequest(r, x),
         posts' = [posts EXCEPT ![r] = p], outcome' = [outcome EXCEPT ![r] = o],
         Good(x, p, o), UNCHANGED active
  PROVE  DispatchInv'
<1>1. /\ requests \in [1..Len(requests) -> Reqs] /\ Len(requests) \in Nat
      /\ posts \in [1..Len(requests) -> Tally] /\ outcome \in [1..Len(requests) -> Result]
  BY LenProperties DEF DispatchInv
<1>3. /\ requests' \in Seq(Reqs) /\ posts' \in Seq(Tally) /\ outcome' \in Seq(Result)
      /\ Len(requests') = Len(requests) /\ Len(posts') = Len(requests)
      /\ Len(outcome') = Len(requests)
  BY ExceptSeq, LenProperties DEF SetRequest, DispatchInv
<1>4. \A s \in DOMAIN requests' : Good(requests'[s], posts'[s], outcome'[s])
  <2>1. /\ DOMAIN requests' = DOMAIN requests
        /\ requests'[r] = x /\ posts'[r] = p /\ outcome'[r] = o
        /\ \A s \in DOMAIN requests \ {r} :
             requests'[s] = requests[s] /\ posts'[s] = posts[s] /\ outcome'[s] = outcome[s]
    BY <1>1 DEF SetRequest
  <2> QED BY <2>1 DEF DispatchInv
<1> QED BY <1>3, <1>4 DEF DispatchInv

\* The values of request r.
LEMMA RequestParts ==
  ASSUME DispatchInv, NEW r \in DOMAIN requests
  PROVE  /\ requests[r] \in Reqs /\ posts[r] \in Tally /\ outcome[r] \in Result
         /\ Good(requests[r], posts[r], outcome[r])
         /\ posts = [posts EXCEPT ![r] = posts[r]]
         /\ outcome = [outcome EXCEPT ![r] = outcome[r]]
<1>1. /\ requests \in [1..Len(requests) -> Reqs]
      /\ posts \in [1..Len(requests) -> Tally] /\ outcome \in [1..Len(requests) -> Result]
  BY LenProperties DEF DispatchInv
<1> QED BY <1>1 DEF DispatchInv

\* The next subscriber, or the end, once those before are settled.
LEMMA TurnGood ==
  ASSUME NEW x \in Reqs, NEW p \in Tally, NEW o \in Result, NEW y \in Turn(x),
         x.todo \subseteq x.listed,
         \A h \in Hooks : p[h] <= MaxAttempts,
         \A h \in x.listed \ x.todo : Settled(o, h),
         \A h \in x.todo : p[h] = 0
  PROVE  y \in Reqs /\ Good(y, p, o)
<1>1. CASE x.todo = {}
  <2>1. y = [x EXCEPT !.at = "done", !.hook = {}]
    BY <1>1 DEF Turn
  <2>2. /\ y \in Reqs /\ y.at = "done" /\ y.hook = {} /\ y.todo = {} /\ y.listed = x.listed
    BY <1>1, <2>1 DEF Reqs, Live
  <2> QED BY <1>1, <2>2 DEF Good, Asked0
<1>2. CASE x.todo # {}
  <2>1. PICK h \in x.todo :
          y = [x EXCEPT !.at = "decrypt", !.hook = {h}, !.todo = x.todo \ {h}, !.attempt = 1]
    BY <1>2 DEF Turn
  <2>2. h \in Hooks /\ 1 \in 1..MaxAttempts
    BY AttemptsAssumption DEF Reqs
  <2>3. /\ y \in Reqs /\ y.at = "decrypt" /\ y.hook = {h} /\ y.todo = x.todo \ {h}
        /\ y.listed = x.listed /\ y.attempt = 1
    BY <2>1, <2>2 DEF Reqs, Live
  <2>4. y.listed \ (y.todo \cup y.hook) = x.listed \ x.todo
    BY <2>1, <2>3
  <2> QED BY <2>2, <2>3, <2>4 DEF Good, Asked0
<1> QED BY <1>1, <1>2

\* The posts of r become p, which differs for h alone.
Posted(r, h, p) ==
  /\ p \in Tally /\ posts' = [posts EXCEPT ![r] = p]
  /\ \A k \in Hooks : p[k] <= MaxAttempts /\ (k # h => p[k] = posts[r][k])

\* An outcome h can have.
Fits(h, end) == end \in Ends /\ (end = "unreadable" <=> h \in Unreadable)

\* The delivery to h is over.
LEMMA EndedStep ==
  ASSUME DispatchInv, NEW r \in DOMAIN requests, NEW h \in Hooks, NEW end, NEW p,
         Posted(r, h, p), Fits(h, end),
         requests[r].hook = {h}, requests[r].at \in {"decrypt", "post"},
         DispatchNext(r, h, end), UNCHANGED active
  PROVE  DispatchInv'
<1>0. /\ p \in Tally /\ posts' = [posts EXCEPT ![r] = p]
      /\ \A k \in Hooks : p[k] <= MaxAttempts /\ (k # h => p[k] = posts[r][k])
      /\ end \in Ends /\ (end = "unreadable" <=> h \in Unreadable)
  BY DEF Posted, Fits
<1> DEFINE x == requests[r]
           o == [outcome[r] EXCEPT ![h] = {end}]
<1>1. x \in Reqs /\ posts[r] \in Tally /\ outcome[r] \in Result /\ Good(x, posts[r], outcome[r])
  BY RequestParts
<1>2. PICK y \in Turn(x) : SetRequest(r, y)
  BY DEF DispatchNext, Ended
<1>3. outcome' = [outcome EXCEPT ![r] = o]
  BY DEF DispatchNext, Ended
<1>4. o \in Result /\ o[h] = {end} /\ \A k \in Hooks \ {h} : o[k] = outcome[r][k]
  BY <1>0, <1>1 DEF Result
<1> HIDE DEF x, o
<1>5. /\ x.todo \subseteq x.listed /\ x.hook = {h} /\ h \notin x.todo
      /\ x.todo \subseteq Hooks /\ x.listed \subseteq Hooks
      /\ \A k \in x.listed \ (x.todo \cup {h}) : Settled(outcome[r], k)
      /\ \A k \in x.todo : posts[r][k] = 0
  BY <1>1 DEF Good, Reqs, x
<1>6. \A k \in x.listed \ x.todo : Settled(o, k)
  BY <1>0, <1>4, <1>5 DEF Settled
<1>7. \A k \in x.todo : p[k] = 0
  BY <1>0, <1>5
<1>8. y \in Reqs /\ Good(y, p, o)
  BY <1>0, <1>1, <1>2, <1>4, <1>5, <1>6, <1>7, TurnGood
<1> QED BY <1>0, <1>2, <1>3, <1>4, <1>8, OneRequest

\* Another attempt, or the end of them; n is the number of posts there are now.
LEMMA RetryStep ==
  ASSUME DispatchInv, NEW r \in DOMAIN requests, NEW h \in Hooks, NEW n \in Nat,
         posts' = [posts EXCEPT ![r] = [posts[r] EXCEPT ![h] = n]],
         requests[r].at = "post", requests[r].hook = {h}, n <= requests[r].attempt,
         Retry(r, h), UNCHANGED active
  PROVE  DispatchInv'
<1> DEFINE x == requests[r]
           p == [posts[r] EXCEPT ![h] = n]
<1>1. x \in Reqs /\ posts[r] \in Tally /\ outcome[r] \in Result /\ Good(x, posts[r], outcome[r])
  BY RequestParts
<1>2. p \in Tally /\ p[h] = n /\ \A k \in Hooks \ {h} : p[k] = posts[r][k]
  BY <1>1 DEF Tally
<1>3. x.attempt \in 1..MaxAttempts /\ MaxAttempts \in Nat
  BY <1>1, AttemptsAssumption DEF Reqs
<1>4. \A k \in Hooks : p[k] <= MaxAttempts /\ (k # h => p[k] = posts[r][k])
  BY <1>1, <1>2, <1>3 DEF Good, Tally
<1>5. h \notin Unreadable
  BY <1>1 DEF Good
<1>6. CASE x.attempt = MaxAttempts
  <2> DEFINE end == "exhausted"
  <2>1. DispatchNext(r, h, end) /\ Fits(h, end)
    BY <1>5, <1>6 DEF Retry, Fits, Ends
  <2>2. Posted(r, h, p)
    BY <1>2, <1>4 DEF Posted
  <2> HIDE DEF p, end
  <2> QED BY <2>1, <2>2, EndedStep
<1>7. CASE x.attempt # MaxAttempts
  <2> DEFINE y == [x EXCEPT !.attempt = x.attempt + 1]
  <2>1. SetRequest(r, y) /\ outcome' = [outcome EXCEPT ![r] = outcome[r]]
    BY <1>7, RequestParts DEF Retry
  <2>2. /\ y \in Reqs /\ y.at = "post" /\ y.hook = {h} /\ y.attempt = x.attempt + 1
        /\ y.todo = x.todo /\ y.listed = x.listed
    BY <1>1, <1>3, <1>7 DEF Reqs
  <2>3. p[h] < y.attempt
    BY <1>2, <1>3, <2>2
  <2>4. \A k \in x.todo : p[k] = 0
    BY <1>1, <1>2 DEF Good, Reqs
  <2>5. Good(y, p, outcome[r])
    BY <1>1, <1>4, <1>5, <2>2, <2>3, <2>4 DEF Good, Asked0
  <2> HIDE DEF x, p, y
  <2> QED BY <1>1, <1>2, <2>1, <2>2, <2>5, OneRequest DEF p
<1> QED BY <1>6, <1>7

LEMMA DispatchingStep ==
  ASSUME DispatchInv, NEW r \in DOMAIN requests, Dispatching(r)
  PROVE  DispatchInv'
<1> DEFINE x == requests[r]
<1>0. /\ x \in Reqs /\ posts[r] \in Tally /\ outcome[r] \in Result
      /\ Good(x, posts[r], outcome[r])
      /\ posts = [posts EXCEPT ![r] = posts[r]]
      /\ outcome = [outcome EXCEPT ![r] = outcome[r]]
  BY RequestParts
<1>1. CASE GetActiveWebhooksForEvent(r)
  <2>1. /\ x.at = "list" /\ UNCHANGED active
        /\ posts' = [posts EXCEPT ![r] = posts[r]]
        /\ outcome' = [outcome EXCEPT ![r] = outcome[r]]
    BY <1>0, <1>1 DEF GetActiveWebhooksForEvent
  <2>2. \A h \in Hooks : posts[r][h] = 0 /\ posts[r][h] <= MaxAttempts
    BY <1>0, <2>1 DEF Good, Asked0
  <2>3. CASE \E y \in Turn([x EXCEPT !.listed = active, !.todo = active]) : SetRequest(r, y)
    <3> DEFINE z == [x EXCEPT !.listed = active, !.todo = active]
    <3>1. PICK y \in Turn(z) : SetRequest(r, y)
      BY <2>3
    <3>2. z \in Reqs /\ z.listed = active /\ z.todo = active /\ active \subseteq Hooks
      BY <1>0 DEF Reqs, DispatchInv
    <3> HIDE DEF x, z
    <3>3. \A h \in z.todo : posts[r][h] = 0
      BY <2>2, <3>2
    <3>4. \A h \in z.listed \ z.todo : Settled(outcome[r], h)
      BY <3>2
    <3>5. y \in Reqs /\ Good(y, posts[r], outcome[r])
      BY <1>0, <2>2, <3>1, <3>2, <3>3, <3>4, TurnGood
    <3> QED BY <1>0, <2>1, <3>1, <3>5, OneRequest
  <2>4. CASE GotoR(r, "failed")
    <3> DEFINE y == [x EXCEPT !.at = "failed"]
    <3>1. y \in Reqs /\ Good(y, posts[r], outcome[r])
      BY <1>0, <2>1, <2>2 DEF Reqs, Good, Asked0
    <3>2. SetRequest(r, y)
      BY <2>4 DEF GotoR
    <3> HIDE DEF y
    <3> QED BY <1>0, <2>1, <3>1, <3>2, OneRequest
  <2> QED BY <1>1, <2>3, <2>4 DEF GetActiveWebhooksForEvent
<1>2. ASSUME NEW h \in Hooks, Decrypt(r, h) PROVE DispatchInv'
  <2>1. /\ x.at = "decrypt" /\ x.hook = {h} /\ UNCHANGED active
        /\ posts' = [posts EXCEPT ![r] = posts[r]]
    BY <1>0, <1>2 DEF Decrypt
  <2>2. CASE h \in Unreadable
    <3>1. DispatchNext(r, h, "unreadable") /\ Fits(h, "unreadable")
      BY <1>2, <2>2 DEF Decrypt, Fits, Ends
    <3>2. Posted(r, h, posts[r])
      BY <1>0, <2>1 DEF Good, Posted
    <3> QED BY <2>1, <3>1, <3>2, EndedStep
  <2>3. CASE h \notin Unreadable
    <3> DEFINE y == [x EXCEPT !.at = "post"]
    <3>1. SetRequest(r, y) /\ outcome' = [outcome EXCEPT ![r] = outcome[r]]
      BY <1>0, <1>2, <2>3 DEF Decrypt, GotoR
    <3>2. /\ y \in Reqs /\ y.at = "post" /\ y.hook = {h} /\ y.attempt = x.attempt
          /\ y.todo = x.todo /\ y.listed = x.listed
      BY <1>0, <2>1 DEF Reqs, Live
    <3>3. Good(y, posts[r], outcome[r])
      BY <1>0, <2>1, <2>3, <3>2 DEF Good, Asked0
    <3> HIDE DEF x, y
    <3> QED BY <1>0, <2>1, <3>1, <3>2, <3>3, OneRequest
  <2> QED BY <2>2, <2>3
<1>3. ASSUME NEW h \in Hooks, Deliver(r, h) PROVE DispatchInv'
  <2>1. x.at = "post" /\ x.hook = {h} /\ UNCHANGED active
    BY <1>3 DEF Deliver
  <2>2. /\ posts[r][h] \in Nat /\ posts[r][h] < x.attempt /\ x.attempt \in 1..MaxAttempts
        /\ MaxAttempts \in Nat /\ h \notin Unreadable
    BY <1>0, <2>1, AttemptsAssumption DEF Good, Tally, Reqs
  <2> DEFINE p == [posts[r] EXCEPT ![h] = posts[r][h] + 1]
  <2>3. p \in Tally /\ p[h] = posts[r][h] + 1 /\ \A k \in Hooks \ {h} : p[k] = posts[r][k]
    BY <1>0, <2>2 DEF Tally
  <2>4. ASSUME posts' = [posts EXCEPT ![r][h] = @ + 1]
        PROVE  posts' = [posts EXCEPT ![r] = p]
    BY <2>4
  <2>5. CASE Retry(r, h) /\ UNCHANGED posts
    <3>1. posts' = [posts EXCEPT ![r] = [posts[r] EXCEPT ![h] = posts[r][h]]]
      BY <1>0, <2>5 DEF Tally
    <3>2. posts[r][h] <= requests[r].attempt
      BY <2>2
    <3> HIDE DEF p
    <3> QED BY <2>1, <2>2, <2>5, <3>1, <3>2, RetryStep
  <2>6. CASE Retry(r, h) /\ posts' = [posts EXCEPT ![r][h] = @ + 1]
    <3> DEFINE n == posts[r][h] + 1
    <3>1. n \in Nat /\ n <= requests[r].attempt
      BY <2>2
    <3>2. posts' = [posts EXCEPT ![r] = [posts[r] EXCEPT ![h] = n]]
      BY <2>4, <2>6
    <3>3. Retry(r, h) /\ requests[r].at = "post" /\ requests[r].hook = {h}
      BY <2>1, <2>6
    <3> HIDE DEF x, p, n
    <3> QED BY <2>1, <3>1, <3>2, <3>3, RetryStep
  <2>7. ASSUME NEW end \in {"delivered", "refused"}, DispatchNext(r, h, end),
               posts' = [posts EXCEPT ![r][h] = @ + 1]
        PROVE  DispatchInv'
    <3>1. Fits(h, end)
      BY <2>2, <2>7 DEF Fits, Ends
    <3>2. Posted(r, h, p)
      BY <1>0, <2>2, <2>3, <2>4, <2>7 DEF Good, Posted
    <3> HIDE DEF p
    <3> QED BY <2>1, <2>7, <3>1, <3>2, EndedStep
  <2>8. CASE DispatchNext(r, h, "unbuilt") /\ UNCHANGED posts
    <3>1. Fits(h, "unbuilt")
      BY <2>2 DEF Fits, Ends
    <3>2. Posted(r, h, posts[r])
      BY <1>0, <2>1, <2>8 DEF Good, Posted
    <3> QED BY <2>1, <2>8, <3>1, <3>2, EndedStep
  <2> QED BY <1>3, <2>5, <2>6, <2>7, <2>8 DEF Deliver
<1> QED BY <1>1, <1>2, <1>3 DEF Dispatching

\* Request r moves on without a post or an outcome.
LEMMA MoveStep ==
  ASSUME DispatchInv, NEW r \in DOMAIN requests, NEW to \in {"send", "list", "failed"},
         requests[r].at \in {"audit", "send"}, GotoR(r, to),
         UNCHANGED <<active, posts, outcome>>
  PROVE  DispatchInv'
<1> DEFINE x == requests[r]
           y == [x EXCEPT !.at = to]
<1>1. /\ x \in Reqs /\ posts[r] \in Tally /\ outcome[r] \in Result
      /\ Good(x, posts[r], outcome[r])
      /\ posts' = [posts EXCEPT ![r] = posts[r]]
      /\ outcome' = [outcome EXCEPT ![r] = outcome[r]]
  BY RequestParts
<1>2. y \in Reqs /\ Good(y, posts[r], outcome[r])
  BY <1>1 DEF Reqs, Good, Asked0, Live
<1>3. SetRequest(r, y)
  BY DEF GotoR
<1> HIDE DEF x, y
<1> QED BY <1>1, <1>2, <1>3, OneRequest

LEMMA PublishStep ==
  ASSUME DispatchInv, Publish
  PROVE  /\ DispatchInv'
         /\ Len(requests') = Len(requests) + 1
         /\ requests'[Len(requests) + 1] = NewRequest
         /\ posts'[Len(requests) + 1] = [h \in Hooks |-> 0]
         /\ \A r \in DOMAIN requests : requests'[r] = requests[r] /\ posts'[r] = posts[r]
<1> DEFINE p == [h \in Hooks |-> 0]
           o == [h \in Hooks |-> {}]
<1>1. NewRequest \in Reqs /\ NewRequest.at = "audit" /\ NewRequest.listed = {}
      /\ NewRequest.todo = {} /\ NewRequest.hook = {}
  BY AttemptsAssumption DEF NewRequest, Reqs, Asked0
<1>2. p \in Tally /\ o \in Result /\ (\A h \in Hooks : p[h] = 0) /\ MaxAttempts \in Nat
  BY AttemptsAssumption DEF Tally, Result
<1>3. Good(NewRequest, p, o)
  BY <1>1, <1>2 DEF Good, Asked0
<1>4. /\ requests' = Append(requests, NewRequest) /\ posts' = Append(posts, p)
      /\ outcome' = Append(outcome, o) /\ UNCHANGED active
  BY DEF Publish
<1> HIDE DEF p, o
<1>5. /\ requests' \in Seq(Reqs) /\ posts' \in Seq(Tally) /\ outcome' \in Seq(Result)
      /\ Len(requests') = Len(requests) + 1 /\ Len(posts') = Len(requests) + 1
      /\ Len(outcome') = Len(requests) + 1 /\ Len(requests) \in Nat
      /\ DOMAIN requests = 1..Len(requests) /\ DOMAIN requests' = 1..(Len(requests) + 1)
  BY <1>1, <1>2, <1>4, AppendProperties, LenProperties DEF DispatchInv
<1>6. /\ requests'[Len(requests) + 1] = NewRequest /\ posts'[Len(requests) + 1] = p
      /\ outcome'[Len(requests) + 1] = o
      /\ \A r \in DOMAIN requests :
           requests'[r] = requests[r] /\ posts'[r] = posts[r] /\ outcome'[r] = outcome[r]
  BY <1>1, <1>2, <1>4, <1>5, AppendProperties DEF DispatchInv
<1>7. \A r \in DOMAIN requests' : Good(requests'[r], posts'[r], outcome'[r])
  BY <1>3, <1>5, <1>6 DEF DispatchInv
<1> QED BY <1>4, <1>5, <1>6, <1>7 DEF DispatchInv, p

LEMMA CrashStep ==
  ASSUME DispatchInv, Crash
  PROVE  /\ DispatchInv' /\ DOMAIN requests' = DOMAIN requests
         /\ \A r \in DOMAIN requests :
              requests'[r].at = requests[r].at \/ requests'[r].at = "crashed"
<1> DEFINE y(r) == IF requests[r].at \in {"done", "failed"} THEN requests[r]
                   ELSE [requests[r] EXCEPT !.at = "crashed"]
<1>1. /\ requests' = [r \in DOMAIN requests |-> y(r)]
      /\ UNCHANGED <<active, posts, outcome>>
  BY DEF Crash
<1>2. ASSUME NEW r \in DOMAIN requests
      PROVE  /\ y(r) \in Reqs /\ Good(y(r), posts[r], outcome[r])
             /\ y(r).at = requests[r].at \/ y(r).at = "crashed"
  <2>1. requests[r] \in Reqs /\ Good(requests[r], posts[r], outcome[r])
    BY RequestParts
  <2> QED BY <2>1 DEF Reqs, Good, Asked0, Live
<1>3. Len(requests) \in Nat /\ DOMAIN requests = 1..Len(requests)
  BY LenProperties DEF DispatchInv
<1> HIDE DEF y
<1>4. requests' \in [1..Len(requests) -> Reqs]
  BY <1>1, <1>2, <1>3
<1>5. requests' \in Seq(Reqs) /\ Len(requests') = Len(requests)
  BY <1>3, <1>4, SeqDef, LenProperties
<1> QED BY <1>1, <1>2, <1>5 DEF DispatchInv

---------------------------------------------------------------------------
(***************************************************************************)
(* Counting.  A request that may post, or has, has sent its command; one   *)
(* that is sending has its audit event.                                    *)
(***************************************************************************)
Announced == {r \in DOMAIN requests :
                requests[r].at \in Live \/ \E h \in Hooks : posts[r][h] > 0}
Sending == {r \in DOMAIN requests : requests[r].at = "send"}

CountInv ==
  /\ issued \in Nat /\ audited \in Nat
  /\ Cardinality(Announced) <= issued
  /\ issued + Cardinality(Sending) <= audited

LEMMA CountFinite ==
  ASSUME DispatchInv
  PROVE  /\ IsFiniteSet(DOMAIN requests)
         /\ \A S \in SUBSET DOMAIN requests : IsFiniteSet(S) /\ Cardinality(S) \in Nat
<1>1. DOMAIN requests = 1..Len(requests) /\ Len(requests) \in Nat
  BY LenProperties DEF DispatchInv
<1>2. IsFiniteSet(DOMAIN requests)
  BY <1>1, FS_Interval
<1> QED BY <1>2, FS_Subset, FS_CardinalityType

\* Nobody begins to send or to announce.
LEMMA CountShrinks ==
  ASSUME DispatchInv, CountInv, Announced' \subseteq Announced, Sending' \subseteq Sending,
         UNCHANGED <<issued, audited>>
  PROVE  CountInv'
<1>1. /\ IsFiniteSet(Announced) /\ Cardinality(Announced) \in Nat
      /\ IsFiniteSet(Sending) /\ Cardinality(Sending) \in Nat
  BY CountFinite DEF Announced, Sending
<1>2. /\ Cardinality(Announced') <= Cardinality(Announced) /\ Cardinality(Announced') \in Nat
      /\ Cardinality(Sending') <= Cardinality(Sending) /\ Cardinality(Sending') \in Nat
  BY <1>1, FS_Subset, FS_CardinalityType
<1>3. Cardinality(Announced)' = Cardinality(Announced') /\ Cardinality(Sending)' = Cardinality(Sending')
  OBVIOUS
<1> QED BY <1>1, <1>2, <1>3 DEF CountInv

\* Request r goes to x, and the other requests stay.
LEMMA OnlyRequest ==
  ASSUME DispatchInv, NEW r \in DOMAIN requests, NEW x, SetRequest(r, x),
         \A s \in DOMAIN requests \ {r} : posts'[s] = posts[s]
  PROVE  /\ requests'[r] = x
         /\ Announced' \ {r} = Announced \ {r} /\ Sending' \ {r} = Sending \ {r}
         /\ x.at = "send" <=> r \in Sending'
<1>1. DOMAIN requests' = DOMAIN requests /\ requests'[r] = x
  BY DEF SetRequest
<1>2. \A s \in DOMAIN requests \ {r} : requests'[s] = requests[s]
  BY DEF SetRequest
<1> QED BY <1>1, <1>2 DEF Announced, Sending

\* A dispatch posts for a request that has sent its command.
LEMMA DispatchingMoves ==
  ASSUME DispatchInv, NEW r \in DOMAIN requests, Dispatching(r)
  PROVE  /\ r \in Announced
         /\ \E x : SetRequest(r, x) /\ x.at # "send"
         /\ \A s \in DOMAIN requests \ {r} : posts'[s] = posts[s]
         /\ UNCHANGED <<issued, audited>>
<1>0. requests[r] \in Reqs
  BY RequestParts
<1>1. ASSUME NEW z \in Reqs, NEW x \in Turn(z) PROVE x.at # "send"
  BY <1>1 DEF Turn, Reqs
<1>2. ASSUME NEW h \in Hooks, NEW end, DispatchNext(r, h, end)
      PROVE  \E x : SetRequest(r, x) /\ x.at # "send"
  BY <1>0, <1>1, <1>2 DEF DispatchNext, Ended
<1>3. ASSUME NEW h \in Hooks, requests[r].at = "post", Retry(r, h)
      PROVE  \E x : SetRequest(r, x) /\ x.at # "send"
  <2>1. CASE requests[r].attempt = MaxAttempts
    BY <1>2, <1>3, <2>1 DEF Retry
  <2>2. CASE requests[r].attempt # MaxAttempts
    <3> DEFINE x == [requests[r] EXCEPT !.attempt = @ + 1]
    <3>1. SetRequest(r, x) /\ x.at # "send"
      BY <1>0, <1>3, <2>2 DEF Retry, Reqs
    <3> QED BY <3>1
  <2> QED BY <2>1, <2>2
<1>4. CASE GetActiveWebhooksForEvent(r)
  <2> DEFINE z == [requests[r] EXCEPT !.listed = active, !.todo = active]
             y == [requests[r] EXCEPT !.at = "failed"]
  <2>1. z \in Reqs /\ y.at # "send"
    BY <1>0 DEF Reqs, DispatchInv
  <2>2. (\E x \in Turn(z) : SetRequest(r, x)) \/ SetRequest(r, y)
    BY <1>4 DEF GetActiveWebhooksForEvent, GotoR
  <2>3. \E x : SetRequest(r, x) /\ x.at # "send"
    <3> HIDE DEF y, z
    <3> QED BY <1>1, <2>1, <2>2
  <2> QED BY <1>4, <2>3 DEF GetActiveWebhooksForEvent, Announced, Live, submissionVars
<1>5. ASSUME NEW h \in Hooks, Decrypt(r, h)
      PROVE  /\ r \in Announced
             /\ \E x : SetRequest(r, x) /\ x.at # "send"
             /\ UNCHANGED <<posts, issued, audited>>
  <2> DEFINE y == [requests[r] EXCEPT !.at = "post"]
  <2>1. y.at # "send"
    BY <1>0 DEF Reqs
  <2>2. DispatchNext(r, h, "unreadable") \/ SetRequest(r, y)
    BY <1>5 DEF Decrypt, GotoR
  <2>3. \E x : SetRequest(r, x) /\ x.at # "send"
    <3> HIDE DEF y
    <3> QED BY <1>2, <2>1, <2>2
  <2> QED BY <1>5, <2>3 DEF Decrypt, Announced, Live, submissionVars
<1>6. ASSUME NEW h \in Hooks, Deliver(r, h)
      PROVE  /\ r \in Announced
             /\ \E x : SetRequest(r, x) /\ x.at # "send"
             /\ \A s \in DOMAIN requests \ {r} : posts'[s] = posts[s]
             /\ UNCHANGED <<issued, audited>>
  <2>1. /\ requests[r].at = "post" /\ UNCHANGED <<issued, audited>>
        /\ posts' = [posts EXCEPT ![r][h] = @ + 1] \/ UNCHANGED posts
    BY <1>6 DEF Deliver, submissionVars
  <2>2. DOMAIN posts = DOMAIN requests
    BY LenProperties DEF DispatchInv
  <2>3. \A s \in DOMAIN requests \ {r} : posts'[s] = posts[s]
    BY <2>1, <2>2
  <2>4. \/ DispatchNext(r, h, "delivered") \/ DispatchNext(r, h, "refused")
        \/ DispatchNext(r, h, "unbuilt") \/ Retry(r, h)
    BY <1>6 DEF Deliver
  <2>5. \E x : SetRequest(r, x) /\ x.at # "send"
    BY <1>2, <1>3, <2>1, <2>4
  <2> QED BY <2>1, <2>3, <2>5 DEF Announced, Live
<1> QED BY <1>4, <1>5, <1>6 DEF Dispatching

LEMMA HookStep ==
  ASSUME DispatchInv, CountInv, HookNext \/ UNCHANGED hookVars
  PROVE  DispatchInv' /\ CountInv'
<1>1. ASSUME UNCHANGED <<requests, posts, outcome, issued, audited>>, active' \subseteq Hooks
      PROVE  DispatchInv' /\ CountInv'
  <2>1. Announced' = Announced /\ Sending' = Sending
    BY <1>1 DEF Announced, Sending
  <2> QED BY <1>1, <2>1, CountShrinks DEF DispatchInv
<1>2. CASE Publish
  <2>1. DispatchInv' /\ UNCHANGED <<issued, audited>>
    BY <1>2, PublishStep DEF Publish, submissionVars
  <2>2. Announced' \subseteq Announced /\ Sending' \subseteq Sending
    <3>1. /\ DOMAIN requests = 1..Len(requests) /\ DOMAIN requests' = 1..Len(requests')
          /\ Len(requests) \in Nat
      BY <2>1, LenProperties DEF DispatchInv
    <3>2. /\ Len(requests') = Len(requests) + 1
          /\ requests'[Len(requests) + 1] = NewRequest
          /\ posts'[Len(requests) + 1] = [h \in Hooks |-> 0]
          /\ \A r \in DOMAIN requests : requests'[r] = requests[r] /\ posts'[r] = posts[r]
      BY <1>2, PublishStep
    <3>3. NewRequest.at = "audit"
      BY DEF NewRequest
    <3>4. DOMAIN requests' = DOMAIN requests \cup {Len(requests) + 1}
      BY <3>1, <3>2
    <3> QED BY <3>2, <3>3, <3>4 DEF Announced, Sending, Live
  <2> QED BY <2>1, <2>2, CountShrinks
<1>3. CASE Crash
  <2>1. DispatchInv' /\ UNCHANGED <<posts, issued, audited>>
    BY <1>3, CrashStep DEF Crash, submissionVars
  <2>2. Announced' \subseteq Announced /\ Sending' \subseteq Sending
    BY <1>3, <2>1, CrashStep DEF Announced, Sending, Live
  <2> QED BY <2>1, <2>2, CountShrinks
<1>4. ASSUME NEW r \in DOMAIN requests, Dispatching(r) PROVE DispatchInv' /\ CountInv'
  <2>1. /\ r \in Announced /\ UNCHANGED <<issued, audited>>
        /\ \A s \in DOMAIN requests \ {r} : posts'[s] = posts[s]
    BY <1>4, DispatchingMoves
  <2>2. PICK x : SetRequest(r, x) /\ x.at # "send"
    BY <1>4, DispatchingMoves
  <2>3. Announced' \ {r} = Announced \ {r} /\ Sending' \ {r} = Sending \ {r} /\ r \notin Sending'
    BY <2>1, <2>2, OnlyRequest
  <2> QED BY <1>4, <2>1, <2>3, DispatchingStep, CountShrinks
<1>5. ASSUME NEW r \in DOMAIN requests, PublishAudit(r) PROVE DispatchInv' /\ CountInv'
  <2>1. requests[r].at = "audit" /\ UNCHANGED <<active, posts, outcome, issued>>
    BY <1>5 DEF PublishAudit
  <2>2. requests[r] \in Reqs /\ \A h \in Hooks : posts[r][h] = 0
    BY <2>1, RequestParts DEF Good, Asked0
  <2>3. r \notin Announced /\ r \notin Sending
    BY <2>1, <2>2 DEF Announced, Sending, Live
  <2>4. \A to : [requests[r] EXCEPT !.at = to].at = to
    BY <2>2 DEF Reqs
  <2>5. CASE audited' = audited /\ GotoR(r, "failed")
    <3>1. /\ Announced' \ {r} = Announced \ {r} /\ Sending' \ {r} = Sending \ {r}
          /\ r \notin Sending' /\ requests'[r].at = "failed"
      BY <2>1, <2>4, <2>5, OnlyRequest DEF GotoR
    <3>2. r \notin Announced'
      BY <2>1, <2>2, <3>1 DEF Announced, Live
    <3> QED BY <2>1, <2>3, <2>5, <3>1, <3>2, MoveStep, CountShrinks
  <2>6. CASE audited' = audited + 1 /\ GotoR(r, "send")
    <3>1. /\ Announced' \ {r} = Announced \ {r} /\ Sending' \ {r} = Sending \ {r}
          /\ r \in Sending' /\ requests'[r].at = "send"
      BY <2>1, <2>4, <2>6, OnlyRequest DEF GotoR
    <3>2. r \notin Announced'
      BY <2>1, <2>2, <3>1 DEF Announced, Live
    <3>3. Announced' = Announced /\ Sending' = Sending \cup {r}
      BY <2>3, <3>1, <3>2
    <3>4. IsFiniteSet(Sending) /\ Cardinality(Sending) \in Nat
      BY CountFinite DEF Sending
    <3>5. Cardinality(Sending') = Cardinality(Sending) + 1
      BY <2>3, <3>3, <3>4, FS_AddElement
    <3>6. Cardinality(Announced)' = Cardinality(Announced) /\ Cardinality(Sending)' = Cardinality(Sending) + 1
      BY <3>3, <3>5
    <3>7. CountInv'
      BY <2>1, <2>6, <3>4, <3>6 DEF CountInv
    <3> QED BY <2>1, <2>6, <3>7, MoveStep
  <2> QED BY <1>5, <2>5, <2>6 DEF PublishAudit
<1>6. ASSUME NEW r \in DOMAIN requests, PublishSend(r) PROVE DispatchInv' /\ CountInv'
  <2>1. requests[r].at = "send" /\ UNCHANGED <<active, posts, outcome, audited>>
    BY <1>6 DEF PublishSend
  <2>2. requests[r] \in Reqs /\ \A h \in Hooks : posts[r][h] = 0
    BY <2>1, RequestParts DEF Good, Asked0
  <2>3. r \notin Announced /\ r \in Sending
    BY <2>1, <2>2 DEF Announced, Sending, Live
  <2>4. \A to : [requests[r] EXCEPT !.at = to].at = to
    BY <2>2 DEF Reqs
  <2>5. CASE GotoR(r, "failed") /\ UNCHANGED issued
    <3>1. /\ Announced' \ {r} = Announced \ {r} /\ Sending' \ {r} = Sending \ {r}
          /\ r \notin Sending' /\ requests'[r].at = "failed"
      BY <2>1, <2>4, <2>5, OnlyRequest DEF GotoR
    <3>2. r \notin Announced'
      BY <2>1, <2>2, <3>1 DEF Announced, Live
    <3> QED BY <2>1, <2>3, <2>5, <3>1, <3>2, MoveStep, CountShrinks
  <2>6. CASE issued' = issued + 1 /\ GotoR(r, "list")
    <3>1. /\ Announced' \ {r} = Announced \ {r} /\ Sending' \ {r} = Sending \ {r}
          /\ r \notin Sending' /\ requests'[r].at = "list"
      BY <2>1, <2>4, <2>6, OnlyRequest DEF GotoR
    <3>2. DOMAIN requests' = DOMAIN requests
      BY <2>6 DEF GotoR, SetRequest
    <3>3. Announced' = Announced \cup {r} /\ Sending' = Sending \ {r}
      BY <2>3, <3>1, <3>2 DEF Announced, Live
    <3>4. /\ IsFiniteSet(Announced) /\ Cardinality(Announced) \in Nat
          /\ IsFiniteSet(Sending) /\ Cardinality(Sending) \in Nat
      BY CountFinite DEF Announced, Sending
    <3>5. /\ Cardinality(Announced') = Cardinality(Announced) + 1
          /\ Cardinality(Sending') = Cardinality(Sending) - 1
      BY <2>3, <3>3, <3>4, FS_AddElement, FS_RemoveElement
    <3>6. /\ Cardinality(Announced)' = Cardinality(Announced) + 1
          /\ Cardinality(Sending)' = Cardinality(Sending) - 1
      BY <3>5
    <3>7. CountInv'
      BY <2>1, <2>6, <3>4, <3>6 DEF CountInv
    <3> QED BY <2>1, <2>6, <3>7, MoveStep
  <2> QED BY <1>6, <2>5, <2>6 DEF PublishSend
<1>7. ASSUME NEW h \in Hooks, Create(h) \/ Delete(h) PROVE DispatchInv' /\ CountInv'
  BY <1>1, <1>7 DEF Create, Delete, DispatchInv, submissionVars
<1>8. CASE ApplyPublish \/ Regrade \/ ApproveAgain \/ UNCHANGED hookVars
  BY <1>1, <1>8 DEF ApplyPublish, Regrade, ApproveAgain, DispatchInv, hookVars, submissionVars
<1> QED BY <1>2, <1>3, <1>4, <1>5, <1>6, <1>7, <1>8 DEF HookNext

HookInv == DispatchInv /\ CountInv

LEMMA HookInitially == HookInit => HookInv
<1> SUFFICES ASSUME HookInit PROVE HookInv
  OBVIOUS
<1>1. Announced = {} /\ Sending = {}
  BY DEF HookInit, Announced, Sending
<1> QED BY <1>1, DispatchInit, FS_EmptySet DEF HookInit, HookInv, CountInv

LEMMA HookInvariance == Spec => []HookInv
<1>1. Init => HookInv
  BY HookInitially DEF Init
<1>2. HookInv /\ [Next]_vars => HookInv'
  BY HookStep DEF HookInv, Next, vars
<1> QED BY <1>1, <1>2, PTL DEF Spec

\* No subscriber hears of a publication whose command was not sent, and no
\* command is sent without its audit event, whoever races or fails.
THEOREM EventsHaveCommands == Spec => []AnnouncedOnlyIfSent
<1>1. HookInv => AnnouncedOnlyIfSent
  <2> SUFFICES ASSUME HookInv PROVE AnnouncedOnlyIfSent
    OBVIOUS
  <2> DEFINE A == {r \in DOMAIN requests : \E h \in Hooks : posts[r][h] > 0}
  <2>1. A \subseteq Announced /\ DispatchInv /\ CountInv
    BY DEF Announced, HookInv
  <2>2. IsFiniteSet(Announced) /\ Cardinality(Announced) \in Nat /\ Cardinality(Sending) \in Nat
    BY <2>1, CountFinite DEF Announced, Sending
  <2>3. Cardinality(A) <= Cardinality(Announced) /\ Cardinality(A) \in Nat
    BY <2>1, <2>2, FS_Subset, FS_CardinalityType
  <2> HIDE DEF A
  <2>4. Cardinality(A) <= issued /\ issued <= audited
    BY <2>1, <2>2, <2>3 DEF CountInv
  <2> QED BY <2>4 DEF AnnouncedOnlyIfSent, A
<1> QED BY <1>1, HookInvariance, PTL

\* One subscriber's failure is not another's: a dispatch that ran to its end has
\* settled every subscription it listed, within the attempts it has.
THEOREM EverySubscriberSettled == Spec => []DispatchComplete
<1>1. HookInv => DispatchComplete
  <2> SUFFICES ASSUME HookInv, NEW r \in DOMAIN requests
      PROVE  /\ \A h \in Hooks : posts[r][h] <= MaxAttempts
             /\ requests[r].at = "done" =>
                  \A h \in requests[r].listed :
                    /\ outcome[r][h] \subseteq Ends /\ outcome[r][h] # {}
                    /\ (outcome[r][h] = {"unreadable"}) <=> (h \in Unreadable)
    BY DEF DispatchComplete
  <2>1. Good(requests[r], posts[r], outcome[r])
    BY RequestParts DEF HookInv
  <2>2. requests[r].at = "done" => \A h \in requests[r].listed : Settled(outcome[r], h)
    BY <2>1 DEF Good
  <2>3. \A h \in requests[r].listed : Settled(outcome[r], h) =>
          /\ outcome[r][h] \subseteq Ends /\ outcome[r][h] # {}
          /\ (outcome[r][h] = {"unreadable"}) <=> (h \in Unreadable)
    BY DEF Settled
  <2> QED BY <2>1, <2>2, <2>3 DEF Good
<1> QED BY <1>1, HookInvariance, PTL
---------------------------------------------------------------------------
(***************************************************************************)
(* Moderation: papers.                                                     *)
(***************************************************************************)
LEMMA OptionalFacts ==
  /\ {} \in Optional
  /\ \A m \in Marks : {m} \in Optional /\ {m} # {}
BY DEF Optional

\* The effective mark of a paper is a mark that may be missing.
LEMMA OverlaidOptional ==
  ASSUME NEW q, q.v1 \in Optional, q.overlay \in Optional
  PROVE  Overlaid(q) \in Optional
BY DEF Overlaid

LEMMA EffectiveOptional ==
  ASSUME NEW q \in PaperRecords
  PROVE  effectiveGradedPaper(q) \in Optional
BY OverlaidOptional DEF effectiveGradedPaper, PaperRecords

LEMMA CurrentIsPaper ==
  ASSUME ModInv, Running
  PROVE  Current \in Papers
<1>1. comparison.rows \in Seq(MarkRows) /\ comparison.row \in 1..Len(comparison.rows)
  BY DEF ModInv, RowsInv, Comparisons
<1>2. comparison.rows[comparison.row] \in MarkRows
  BY <1>1, ElementOfSeq
<1> QED BY <1>2 DEF Current, MarkRows

\* The paper p becomes q.
Changed(p, q) ==
  \/ Upload(p) /\ q = [NoPaperYet EXCEPT !.uploaded = TRUE]
  \/ \E m \in Marks : Grade(p, m) /\ q = [paper[p] EXCEPT !.v1 = {m}, !.open = TRUE]
  \/ \E m \in Marks : Override(p, m) /\ q = [paper[p] EXCEPT !.overlay = {m}]
  \/ Approve(p) /\ q = [paper[p] EXCEPT !.approving = @ \cup {Overlaid(paper[p])}]
  \/ \E m \in Optional, sent \in BOOLEAN :
       /\ InsertFinalGrade(p, m, sent)
       /\ q = [paper[p] EXCEPT !.approving = @ \ {m}, !.final = m, !.sent = @ \/ sent]
  \/ ApplyApproval(p) /\ q = [paper[p] EXCEPT !.sent = FALSE, !.open = FALSE]

\* What a change makes of a paper, and what it leaves of it: an override that
\* the comparison at hand does not know of becomes the effective mark.
LEMMA ChangedPaper ==
  ASSUME PapersInv, NEW p \in Papers, NEW q, Changed(p, q)
  PROVE  /\ q \in PaperRecords /\ q.uploaded
         /\ p \in regradedSince' \/ q.v1 = paper[p].v1
         /\ \/ p \in regradedSince' \/ Overlaid(q) = Overlaid(paper[p])
            \/ Loading("paper", p) \/ Loading("reviews", p) => p \in overtaken'
            \/ effectiveGradedPaper(q) = Overlaid(q)
<1>0. NoPaperYet.v1 = {} /\ NoPaperYet.sent = FALSE /\ NoPaperYet.approving = {}
  BY DEF NoPaperYet
<1>1. paper[p] \in PaperRecords
  BY DEF PapersInv
<1>2. paper[p].uploaded \/ paper[p] = NoPaperYet
  BY DEF PapersInv
<1>3. CASE Upload(p) /\ q = [NoPaperYet EXCEPT !.uploaded = TRUE]
  <2>1. paper[p] = NoPaperYet
    BY <1>2, <1>3 DEF Upload
  <2>2. q = [uploaded |-> TRUE, open |-> FALSE, v1 |-> {}, overlay |-> {}, final |-> {},
             approving |-> {}, sent |-> FALSE]
    BY <1>3 DEF NoPaperYet
  <2> QED BY <2>1, <2>2, OptionalFacts DEF NoPaperYet, PaperRecords, Overlaid
<1>4. CASE \E m \in Marks :
             Grade(p, m) /\ q = [paper[p] EXCEPT !.v1 = {m}, !.open = TRUE]
  <2>1. paper[p].uploaded /\ p \in regradedSince'
    BY <1>4 DEF Grade
  <2> QED BY <1>1, <1>4, <2>1, OptionalFacts DEF PaperRecords
<1>5. CASE \E m \in Marks : Override(p, m) /\ q = [paper[p] EXCEPT !.overlay = {m}]
  <2>1. paper[p].v1 # {}
    BY <1>5 DEF Override
  <2>2. paper[p].uploaded
    BY <1>2, <2>1, <1>0
  <2>3. q \in PaperRecords /\ q.uploaded /\ q.v1 = paper[p].v1 /\ q.final = paper[p].final
    BY <1>1, <1>5, <2>2, OptionalFacts DEF PaperRecords
  <2>4. CASE paper[p].final = {}
    BY <2>3, <2>4 DEF effectiveGradedPaper
  <2>5. CASE paper[p].final # {}
    <3>1. Loading("paper", p) \/ Loading("reviews", p) => p \in overtaken'
      BY <1>5, <2>5 DEF Override
    <3> QED BY <2>3, <3>1
  <2> QED BY <2>3, <2>4, <2>5
<1>6. CASE Approve(p) /\ q = [paper[p] EXCEPT !.approving = @ \cup {Overlaid(paper[p])}]
  <2>1. paper[p].uploaded
    BY <1>0, <1>2, <1>6 DEF Approve
  <2>2. Overlaid(paper[p]) \in Optional
    BY <1>1, OverlaidOptional DEF PaperRecords
  <2>3. q \in PaperRecords /\ q.uploaded /\ q.v1 = paper[p].v1
        /\ q.overlay = paper[p].overlay
    BY <1>1, <1>6, <2>1, <2>2 DEF PaperRecords
  <2> QED BY <2>3 DEF Overlaid
<1>7. CASE \E m \in Optional, sent \in BOOLEAN :
             /\ InsertFinalGrade(p, m, sent)
             /\ q = [paper[p] EXCEPT !.approving = @ \ {m}, !.final = m, !.sent = @ \/ sent]
  <2>0. PICK m \in Optional, sent \in BOOLEAN :
             /\ InsertFinalGrade(p, m, sent)
             /\ q = [paper[p] EXCEPT !.approving = @ \ {m}, !.final = m, !.sent = @ \/ sent]
    BY <1>7
  <2>1. paper[p].uploaded
    BY <1>0, <1>2, <2>0 DEF InsertFinalGrade
  <2> DEFINE was == paper[p]
             sends == was.sent \/ sent
  <2>2. sends \in BOOLEAN /\ q = [was EXCEPT !.approving = was.approving \ {m}, !.final = m,
                                          !.sent = sends]
    BY <2>0
  <2> HIDE DEF was, sends
  <2>3. was \in PaperRecords /\ was.uploaded
    BY <1>1, <2>1 DEF was
  <2>4. q \in PaperRecords /\ q.uploaded /\ q.v1 = was.v1 /\ q.overlay = was.overlay
    BY <2>2, <2>3 DEF PaperRecords
  <2> QED BY <2>4 DEF was, Overlaid
<1>8. CASE ApplyApproval(p) /\ q = [paper[p] EXCEPT !.sent = FALSE, !.open = FALSE]
  <2>1. paper[p].uploaded
    BY <1>0, <1>2, <1>8 DEF ApplyApproval
  <2>2. q \in PaperRecords /\ q.uploaded /\ q.v1 = paper[p].v1
        /\ q.overlay = paper[p].overlay
    BY <1>1, <1>8, <2>1 DEF PaperRecords
  <2> QED BY <2>2 DEF Overlaid
<1> QED BY <1>3, <1>4, <1>5, <1>6, <1>7, <1>8 DEF Changed

\* Uploading, grading, overriding and approving keep the invariant.
LEMMA ChangeStep ==
  ASSUME ModInv, NEW p \in Papers,
         \/ Upload(p) \/ Approve(p) \/ ApplyApproval(p)
         \/ \E m \in Optional, sent \in BOOLEAN : InsertFinalGrade(p, m, sent)
         \/ \E m \in Marks : Grade(p, m) \/ Override(p, m)
  PROVE  ModInv'
<1>1. PICK q : /\ Changed(p, q) /\ SetPaper(p, q)
               /\ regradedSince \subseteq regradedSince' /\ overtaken \subseteq overtaken'
  BY DEF Changed, Upload, Grade, Override, Approve, InsertFinalGrade, ApplyApproval
<1>2. /\ q \in PaperRecords /\ q.uploaded
      /\ p \in regradedSince' \/ q.v1 = paper[p].v1
      /\ \/ p \in regradedSince' \/ Overlaid(q) = Overlaid(paper[p])
         \/ Loading("paper", p) \/ Loading("reviews", p) => p \in overtaken'
         \/ effectiveGradedPaper(q) = Overlaid(q)
  BY <1>1, ChangedPaper DEF ModInv
<1>3. /\ paper' = [paper EXCEPT ![p] = q]
      /\ effectiveSince' = [effectiveSince EXCEPT ![p] = @ \cup {effectiveGradedPaper(q)}]
      /\ UNCHANGED <<sessions, recorded, comparison>>
  BY <1>1 DEF SetPaper
<1>4. PapersInv'
  BY <1>2, <1>3 DEF ModInv, PapersInv
<1>5. SessionsInv' /\ RowsInv'
  BY <1>3 DEF ModInv, SessionsInv, SampleInv, RowsInv, Running, Current
<1>6. HistoryInv'
  <2>1. effectiveSince' \in [Papers -> SUBSET Optional]
    BY <1>2, <1>3, EffectiveOptional DEF ModInv, HistoryInv
  <2>2. ASSUME NEW o \in Papers
        PROVE  /\ effectiveSince[o] \subseteq effectiveSince'[o]
               /\ o # p => paper'[o] = paper[o]
               /\ paper'[p] = q /\ effectiveGradedPaper(q) \in effectiveSince'[p]
    BY <1>3 DEF ModInv, HistoryInv, PapersInv
  <2>3. (comparison.at # "idle" =>
           \A o \in Papers : effectiveGradedPaper(paper[o]) \in effectiveSince[o])'
    <3> SUFFICES ASSUME comparison.at # "idle", NEW o \in Papers
                 PROVE  effectiveGradedPaper(paper'[o]) \in effectiveSince'[o]
      BY <1>3
    <3>1. effectiveGradedPaper(paper[o]) \in effectiveSince[o]
      BY DEF ModInv, HistoryInv
    <3> QED BY <2>2, <3>1
  <2>4. comparison.cached \subseteq Papers
    BY DEF ModInv, RowsInv, Comparisons
  <2>5. (\A o \in comparison.cached \ Excused :
           comparison.effective[o] \in effectiveSince[o])'
    BY <1>1, <1>3, <2>2, <2>4 DEF ModInv, HistoryInv, Excused
  <2> QED BY <2>1, <2>3, <2>5 DEF HistoryInv
<1>7. Running' => CurrentInv'
  <2> DEFINE o == Current
  <2> SUFFICES ASSUME Running, o \notin regradedSince' \cup comparison.failed \cup overtaken'
               PROVE  /\ comparison.at \in {"final", "paper", "reviews"} =>
                           comparison.ai[o] = paper'[o].v1
                      /\ comparison.at \in {"paper", "reviews"} =>
                           Overlaid(paper'[o]) \in effectiveSince'[o]
                      /\ comparison.at = "reviews" =>
                           paper'[o].v1 # {} /\ comparison.effective[o] = paper'[o].v1
    BY <1>3 DEF CurrentInv, Current, Running, Excused
  <2>1. /\ comparison.at \in {"final", "paper", "reviews"} =>
             comparison.ai[o] = paper[o].v1
        /\ comparison.at \in {"paper", "reviews"} => Overlaid(paper[o]) \in effectiveSince[o]
        /\ comparison.at = "reviews" =>
             paper[o].v1 # {} /\ comparison.effective[o] = paper[o].v1
    BY <1>1 DEF ModInv, CurrentInv, Excused
  <2>2. /\ paper'[o].v1 = paper[o].v1
        /\ comparison.at \in {"paper", "reviews"} =>
             Overlaid(paper'[o]) \in effectiveSince'[o]
    <3>1. CASE o = p
      <4>1. paper'[p] = q /\ effectiveGradedPaper(q) \in effectiveSince'[p]
            /\ effectiveSince[p] \subseteq effectiveSince'[p]
        BY <1>3 DEF ModInv, PapersInv, HistoryInv
      <4>2. comparison.at \in {"paper", "reviews"} => Loading("paper", p) \/ Loading("reviews", p)
        BY <3>1 DEF Loading, Current
      <4>3. \/ Overlaid(q) = Overlaid(paper[p])
            \/ comparison.at \notin {"paper", "reviews"}
            \/ effectiveGradedPaper(q) = Overlaid(q)
        BY <1>2, <3>1, <4>2
      <4> QED BY <1>2, <2>1, <3>1, <4>1, <4>3
    <3>2. CASE o # p
      <4>1. o \in Papers
        BY CurrentIsPaper
      <4>2. paper'[o] = paper[o] /\ effectiveSince'[o] = effectiveSince[o]
        BY <1>3, <3>2, <4>1 DEF ModInv, PapersInv, HistoryInv
      <4> QED BY <2>1, <4>2
    <3> QED BY <3>1, <3>2
  <2> QED BY <2>1, <2>2
<1> QED BY <1>4, <1>5, <1>6, <1>7 DEF ModInv

---------------------------------------------------------------------------
(***************************************************************************)
(* Moderation: sessions.                                                   *)
(***************************************************************************)

\* A sample size that fits its column is stored as it was asked for; every
\* other one wraps.
LEMMA Narrowed ==
  ASSUME NEW n \in Nat
  PROVE  Int32(n) \in -Limit..(Limit - 1) /\ (n < Limit => Int32(n) = n)
<1>1. Limit \in Nat \ {0}
  BY LimitAssumption
<1>2. ASSUME NEW a \in Nat, NEW b \in Nat \ {0}
      PROVE  a % b \in 0..(b - 1) /\ (a < b => a % b = a)
  OBVIOUS
<1> DEFINE a == n + Limit
           b == 2 * Limit
<1>3. a \in Nat /\ b \in Nat \ {0}
  BY <1>1
<1>4. a % b \in 0..(b - 1) /\ (a < b => a % b = a)
  <2> HIDE DEF a, b
  <2> QED BY <1>2, <1>3
<1>5. Int32(n) = (a % b) - Limit
  BY DEF Int32
<1> DEFINE r == a % b
<1>6. r \in 0..(2 * Limit - 1) /\ (n < Limit => r = n + Limit)
  <2>1. n < Limit => a < b
    BY <1>1
  <2> QED BY <1>4, <2>1
<1>7. Int32(n) = r - Limit
  BY <1>5
<1> HIDE DEF r
<1> QED BY <1>1, <1>6, <1>7

\* The papers are listed in the order of their ids.
LEMMA ByIdIncreasing ==
  ASSUME NEW S, S \subseteq Papers
  PROVE  /\ IsFiniteSet(S) /\ Cardinality(S) \in Nat
         /\ ById(S) \in [1..Cardinality(S) -> S]
         /\ \A i, j \in 1..Cardinality(S) : i < j => ById(S)[i] < ById(S)[j]
<1>1. IsFiniteSet(S) /\ S \subseteq Nat
  BY PapersAssumption, FS_Subset
<1>2. \E f \in [1..Cardinality(S) -> S] :
        \A i, j \in 1..Cardinality(S) : i < j => f[i] < f[j]
  BY <1>1, IncreasingExists
<1> QED BY <1>1, <1>2, FS_CardinalityType DEF ById

\* The sample is the papers with the smallest ids, as many as were asked for.
LEMMA SampleIds ==
  ASSUME NEW S, S \subseteq Papers, NEW n \in Nat
  PROVE  /\ SampleSubmissions(S, n) \in Seq(Papers)
         /\ Range(SampleSubmissions(S, n)) =
              {p \in S : Cardinality({q \in S : q < p}) < Min({n, Cardinality(S)})}
<1> DEFINE c == Cardinality(S)
           f == ById(S)
           m == Min({n, c})
<1>1. /\ S \subseteq Nat /\ IsFiniteSet(S) /\ c \in Nat
      /\ f \in [1..c -> S]
      /\ \A i, j \in 1..c : i < j => f[i] < f[j]
  BY ByIdIncreasing, PapersAssumption
<1>2. m \in 0..c
  BY <1>1 DEF Min
<1>3. {f[i] : i \in 1..m} = {p \in S : Cardinality({q \in S : q < p}) < m}
  <2> HIDE DEF m, f
  <2> QED BY <1>1, <1>2, FirstOfIncreasing
<1> HIDE DEF f, m, c
<1>4. f \in Seq(Papers) /\ Len(f) = c
  <2>1. f \in [1..c -> Papers]
    BY <1>1
  <2> QED BY <1>1, <2>1
<1>5. /\ SubSeq(f, 1, m) \in Seq(Papers)
      /\ Len(SubSeq(f, 1, m)) = m
      /\ \A i \in 1..m : SubSeq(f, 1, m)[i] = f[i]
  BY <1>1, <1>2, <1>4, SubSeqProperties
<1>6. Range(SubSeq(f, 1, m)) = {f[i] : i \in 1..m}
  <2>1. DOMAIN SubSeq(f, 1, m) = 1..m
    BY <1>5
  <2> QED BY <1>5, <2>1 DEF Range
<1>7. SampleSubmissions(S, n) = SubSeq(f, 1, m)
  BY DEF SampleSubmissions, f, m, c
<1> QED BY <1>3, <1>5, <1>6, <1>7 DEF m, c

\* What leaves papers and comparison alone leaves their parts of the invariant.
LEMMA SessionsOnly ==
  ASSUME ModInv, UNCHANGED <<gradeVars, comparison>>, SessionsInv'
  PROVE  ModInv'
<1>1. PapersInv'
  BY DEF ModInv, PapersInv, gradeVars
<1>2. RowsInv' /\ HistoryInv'
  BY DEF ModInv, RowsInv, HistoryInv, Running, Current, gradeVars, Excused
<1>3. Running' => CurrentInv'
  BY DEF ModInv, CurrentInv, Running, Current, gradeVars, Excused
<1> QED BY <1>1, <1>2, <1>3 DEF ModInv

LEMMA SessionSet ==
  ASSUME ModInv, NEW i \in DOMAIN sessions, NEW r \in SessionRecords,
         SampleInv(r), SetSession(i, r)
  PROVE  ModInv'
<1>1. /\ sessions' = [sessions EXCEPT ![i] = r]
      /\ UNCHANGED <<gradeVars, comparison>> /\ recorded' = recorded
  BY DEF SetSession
<1>2. sessions' \in Seq(SessionRecords) /\ Len(sessions') = Len(sessions)
  BY <1>1 DEF ModInv, SessionsInv
<1>3. ASSUME NEW j \in DOMAIN sessions' PROVE SampleInv(sessions'[j])
  <2>1. j \in DOMAIN sessions /\ sessions'[j] = IF j = i THEN r ELSE sessions[j]
    BY <1>1 DEF ModInv, SessionsInv
  <2> QED BY <2>1 DEF ModInv, SessionsInv
<1>4. SessionsInv'
  BY <1>1, <1>2, <1>3 DEF ModInv, SessionsInv
<1> QED BY <1>1, <1>4, SessionsOnly

\* A session begins with nothing linked and no row recorded.
LEMMA CreateStep ==
  ASSUME ModInv, NEW n \in Asked, CreateModerationSession(n)
  PROVE  ModInv'
<1> DEFINE r == [asked |-> n, size |-> Int32(n), at |-> "select",
                 from |-> {}, todo |-> <<>>, linked |-> {}]
<1>1. /\ sessions' = Append(sessions, r) /\ recorded' = Append(recorded, <<>>)
      /\ UNCHANGED <<gradeVars, comparison>>
  BY DEF CreateModerationSession
<1>2. Int32(n) \in -Limit..(Limit - 1)
  BY Narrowed, LimitAssumption
<1>3. r \in SessionRecords /\ SampleInv(r)
  BY <1>2 DEF SessionRecords, SampleInv
<1> HIDE DEF r
<1>4. /\ sessions' \in Seq(SessionRecords) /\ Len(sessions') = Len(sessions) + 1
      /\ \A j \in 1..Len(sessions) : sessions'[j] = sessions[j]
      /\ sessions'[Len(sessions) + 1] = r
  BY <1>1, <1>3 DEF ModInv, SessionsInv
<1>5. recorded' \in Seq(Seq(MarkRows)) /\ Len(recorded') = Len(recorded) + 1
  BY <1>1 DEF ModInv, SessionsInv
<1>6. ASSUME NEW j \in DOMAIN sessions' PROVE SampleInv(sessions'[j])
  <2>1. Len(sessions) \in Nat /\ DOMAIN sessions = 1..Len(sessions)
        /\ DOMAIN sessions' = 1..Len(sessions')
    BY <1>4 DEF ModInv, SessionsInv
  <2>2. CASE j = Len(sessions) + 1
    BY <1>3, <1>4, <2>2
  <2>3. CASE j \in 1..Len(sessions)
    BY <1>4, <2>1, <2>3 DEF ModInv, SessionsInv
  <2> QED BY <1>4, <2>1, <2>2, <2>3
<1>7. SessionsInv'
  BY <1>4, <1>5, <1>6 DEF ModInv, SessionsInv
<1> QED BY <1>1, <1>7, SessionsOnly

\* What is selected is what is still to be linked.
LEMMA SelectStep ==
  ASSUME ModInv, NEW i \in DOMAIN sessions, SelectSample(i)
  PROVE  ModInv'
<1> DEFINE s == sessions[i]
           ids == SampleSubmissions(Uploaded, s.size)
<1>1. s \in SessionRecords /\ SampleInv(s) /\ s.at = "select"
  BY DEF ModInv, SessionsInv, SelectSample
<1>2. CASE s.size < 0
  <2> DEFINE r == [s EXCEPT !.at = "failed"]
  <2>1. r \in SessionRecords /\ SampleInv(r)
    BY <1>1 DEF SessionRecords, SampleInv
  <2>2. SetSession(i, r)
    BY <1>2 DEF SelectSample
  <2> HIDE DEF r
  <2> QED BY <2>1, <2>2, SessionSet
<1>3. CASE ~ (s.size < 0)
  <2> DEFINE r == [s EXCEPT !.from = Uploaded, !.todo = ids,
                            !.at = IF ids = <<>> THEN "created" ELSE "link"]
  <2>1. s.size \in Nat /\ Uploaded \subseteq Papers
    <3>1. s.size \in -Limit..(Limit - 1) /\ Limit \in Nat
      BY <1>1, LimitAssumption DEF SessionRecords
    <3> QED BY <1>3, <3>1 DEF Uploaded
  <2>2. ids \in Seq(Papers)
    BY <2>1, SampleIds
  <2>3. SetSession(i, r)
    BY <1>3 DEF SelectSample
  <2>4. r.linked = {} /\ r.todo = ids /\ r.size = s.size /\ r.from = Uploaded
        /\ r.asked = s.asked /\ r.at = IF ids = <<>> THEN "created" ELSE "link"
    BY <1>1 DEF SessionRecords, SampleInv
  <2>5. Ids(r) = Range(ids)
    BY <2>4 DEF Ids
  <2>6. r \in SessionRecords
    <3> HIDE DEF ids
    <3> QED BY <1>1, <2>1, <2>2 DEF SessionRecords
  <2>7. SampleInv(r)
    <3>1. s.size = Int32(s.asked)
      BY <1>1 DEF SampleInv
    <3> HIDE DEF r, ids
    <3> QED BY <2>1, <2>4, <2>5, <3>1 DEF SampleInv
  <2> HIDE DEF r
  <2> QED BY <2>3, <2>6, <2>7, SessionSet
<1> QED BY <1>2, <1>3

\* A link moves a paper from those still to be linked to the linked ones.
LEMMA LinkStep ==
  ASSUME ModInv, NEW i \in DOMAIN sessions, InsertLink(i)
  PROVE  ModInv'
<1> DEFINE s == sessions[i]
           r == [s EXCEPT !.linked = @ \cup {Head(s.todo)}, !.todo = Tail(@),
                          !.at = IF Len(s.todo) = 1 THEN "created" ELSE "link"]
<1>1. s \in SessionRecords /\ SampleInv(s) /\ s.at = "link"
  BY DEF ModInv, SessionsInv, InsertLink
<1>2. s.todo \in Seq(Papers) /\ s.todo # <<>> /\ Len(s.todo) \in Nat \ {0}
  <2>1. s.todo \in Seq(Papers) /\ s.todo # <<>>
    BY <1>1 DEF SessionRecords, SampleInv
  <2> QED BY <2>1
<1>3. /\ Tail(s.todo) \in Seq(Papers) /\ Head(s.todo) \in Papers
      /\ Len(Tail(s.todo)) = Len(s.todo) - 1
      /\ \A k \in 1..(Len(s.todo) - 1) : Tail(s.todo)[k] = s.todo[k + 1]
      /\ Head(s.todo) = s.todo[1]
  BY <1>2
<1>4. Range(s.todo) = {Head(s.todo)} \cup Range(Tail(s.todo))
  <2> DEFINE u == s.todo
             v == Tail(s.todo)
  <2>1. DOMAIN u = 1..Len(u) /\ DOMAIN v = 1..(Len(u) - 1) /\ Len(u) \in Nat \ {0}
    BY <1>2, <1>3
  <2>2. u[1] = Head(s.todo) /\ \A k \in 1..(Len(u) - 1) : v[k] = u[k + 1]
    BY <1>3
  <2> HIDE DEF u, v
  <2>3. \A k \in 1..Len(u) : k = 1 \/ (k - 1 \in 1..(Len(u) - 1) /\ u[k] = v[k - 1])
    BY <2>1, <2>2
  <2>4. Range(u) = {u[k] : k \in 1..Len(u)} /\ Range(v) = {v[k] : k \in 1..(Len(u) - 1)}
    BY <2>1 DEF Range
  <2>5. Range(u) \subseteq {Head(s.todo)} \cup Range(v)
    BY <2>2, <2>3, <2>4
  <2>6. \A k \in 1..(Len(u) - 1) : k + 1 \in 1..Len(u)
    BY <2>1
  <2>7. {Head(s.todo)} \cup Range(v) \subseteq Range(u)
    BY <2>1, <2>2, <2>4, <2>6
  <2>8. Range(u) = {Head(s.todo)} \cup Range(v)
    BY <2>5, <2>7
  <2> QED BY <2>8 DEF u, v
<1>5. Len(s.todo) = 1 <=> Tail(s.todo) = <<>>
  <2> DEFINE v == Tail(s.todo)
  <2>1. v \in Seq(Papers) /\ Len(v) = Len(s.todo) - 1 /\ Len(s.todo) \in Nat
    BY <1>2, <1>3
  <2> HIDE DEF v
  <2>2. v = <<>> <=> Len(v) = 0
    BY <2>1, EmptySeq
  <2>3. Len(s.todo) = 1 <=> v = <<>>
    BY <2>1, <2>2
  <2> QED BY <2>3 DEF v
<1>6. r \in SessionRecords
  BY <1>1, <1>3 DEF SessionRecords
<1>7. /\ r.linked = s.linked \cup {Head(s.todo)} /\ r.todo = Tail(s.todo)
      /\ r.at = (IF Len(s.todo) = 1 THEN "created" ELSE "link")
      /\ r.size = s.size /\ r.asked = s.asked /\ r.from = s.from
  BY <1>1 DEF SessionRecords
<1>8. Ids(r) = Ids(s)
  BY <1>7 DEF Ids
<1>9. SetSession(i, r)
  BY DEF InsertLink
<1> HIDE DEF r, s
<1>10. SampleInv(r)
  BY <1>1, <1>4, <1>5, <1>7, <1>8 DEF SampleInv
<1> QED BY <1>6, <1>9, <1>10, SessionSet

LEMMA CreationFailsStep ==
  ASSUME ModInv, NEW i \in DOMAIN sessions, CreationFails(i)
  PROVE  ModInv'
<1> DEFINE s == sessions[i]
           r == [s EXCEPT !.at = "failed"]
<1>1. s \in SessionRecords /\ SampleInv(s) /\ s.at \in {"select", "link"}
  BY DEF ModInv, SessionsInv, CreationFails
<1>2. r \in SessionRecords
  BY <1>1 DEF SessionRecords
<1>3. SampleInv(r)
  <2>1. r.at = "failed" /\ r.linked = s.linked /\ r.size = s.size /\ r.asked = s.asked
        /\ r.from = s.from
    BY <1>1 DEF SessionRecords
  <2>2. Ids(r) = Ids(s)
    BY <2>1 DEF Ids
  <2> HIDE DEF r
  <2> QED BY <1>1, <2>1, <2>2 DEF SampleInv
<1>4. SetSession(i, r)
  BY DEF CreationFails
<1> HIDE DEF r
<1> QED BY <1>2, <1>3, <1>4, SessionSet

LEMMA RecordStep ==
  ASSUME ModInv, NEW i \in DOMAIN sessions, NEW p \in Papers, NEW m \in Marks,
         RecordMark(i, p, m)
  PROVE  ModInv'
<1>1. /\ recorded' = [recorded EXCEPT ![i] = Append(@, [paper |-> p, marks |-> m])]
      /\ UNCHANGED <<gradeVars, comparison>> /\ sessions' = sessions
  BY DEF RecordMark
<1>2. i \in DOMAIN recorded /\ recorded[i] \in Seq(MarkRows)
  BY DEF ModInv, SessionsInv
<1>3. Append(recorded[i], [paper |-> p, marks |-> m]) \in Seq(MarkRows)
  BY <1>2 DEF MarkRows
<1>4. recorded' \in Seq(Seq(MarkRows)) /\ Len(recorded') = Len(recorded)
  BY <1>1, <1>2, <1>3 DEF ModInv, SessionsInv
<1>5. SessionsInv'
  BY <1>1, <1>4 DEF ModInv, SessionsInv
<1> QED BY <1>1, <1>5, SessionsOnly

---------------------------------------------------------------------------
(***************************************************************************)
(* Moderation: the comparison.                                             *)
(***************************************************************************)
LEMMA ComparisonOnly ==
  ASSUME ModInv, UNCHANGED <<gradeVars, sessions, recorded>>, comparison.at # "idle",
         RowsInv', Running' => CurrentInv',
         \A o \in comparison'.cached \ (regradedSince \cup comparison'.failed \cup overtaken) :
           comparison'.effective[o] \in effectiveSince[o]
  PROVE  ModInv'
<1>1. PapersInv' /\ SessionsInv'
  BY DEF ModInv, PapersInv, SessionsInv, SampleInv, gradeVars
<1>2. HistoryInv'
  BY DEF ModInv, HistoryInv, gradeVars, Excused
<1> QED BY <1>1, <1>2 DEF ModInv

\* The paper the comparison is at is one of the papers, and is not loaded.
LEMMA CurrentPaper ==
  ASSUME ModInv, NEW at \in {"v1", "final", "paper", "reviews"}, NEW p, Loading(at, p)
  PROVE  /\ comparison \in Comparisons /\ Running /\ p = Current
         /\ p \in Papers /\ paper[p] \in PaperRecords
         /\ comparison.row \in 1..Len(comparison.rows)
         /\ at # "v1" => p \notin comparison.cached
<1>1. comparison.at = at /\ p = Current
  BY DEF Loading, Current
<1>2. Running /\ comparison \in Comparisons /\ comparison.row \in 1..Len(comparison.rows)
  BY <1>1 DEF ModInv, RowsInv, Running
<1>3. comparison.rows \in Seq(MarkRows)
  BY <1>2 DEF Comparisons
<1>4. comparison.rows[comparison.row] \in MarkRows
  BY <1>2, <1>3, ElementOfSeq
<1>5. p \in Papers
  BY <1>1, <1>4 DEF Current, MarkRows
<1>6. at # "v1" => p \notin comparison.cached
  BY <1>1 DEF ModInv, RowsInv
<1> QED BY <1>1, <1>2, <1>5, <1>6 DEF ModInv, PapersInv

\* The comparison goes on to the next mark once the paper of this one is loaded.
LEMMA NextRowStep ==
  ASSUME ModInv, Running, NEW d \in Comparisons,
         d.row = comparison.row, d.rows = comparison.rows,
         comparison.cached \subseteq d.cached, Current \in d.cached,
         comparison.failed \subseteq d.failed,
         \A o \in d.cached \ (regradedSince \cup d.failed \cup overtaken) :
           d.effective[o] \in effectiveSince[o],
         SetComparison(NextRow(d))
  PROVE  ModInv'
<1> DEFINE e == NextRow(d)
<1>1. comparison.row \in 1..Len(comparison.rows) /\ Len(comparison.rows) \in Nat
      /\ \A k \in 1..(comparison.row - 1) : comparison.rows[k].paper \in comparison.cached
  <2>1. comparison.rows \in Seq(MarkRows)
    BY DEF ModInv, RowsInv, Comparisons
  <2> QED BY <2>1 DEF ModInv, RowsInv
<1>2. /\ e.row = comparison.row + 1 /\ e.rows = comparison.rows
      /\ e.at = (IF comparison.row = Len(comparison.rows) THEN "done" ELSE "v1")
      /\ e.cached = d.cached /\ e.failed = d.failed /\ e.effective = d.effective
      /\ e \in Comparisons
  <2> DEFINE a == IF d.row = Len(d.rows) THEN "done" ELSE "v1"
  <2>1. e = [d EXCEPT !.row = @ + 1, !.at = a]
    BY DEF NextRow
  <2>2. a = (IF comparison.row = Len(comparison.rows) THEN "done" ELSE "v1")
        /\ a \in {"v1", "done"}
    OBVIOUS
  <2> HIDE DEF a, e
  <2>3. d.row + 1 = comparison.row + 1 /\ d.row + 1 \in Nat
    BY <1>1
  <2> QED BY <2>1, <2>2, <2>3 DEF Comparisons
<1>3. comparison' = e /\ UNCHANGED <<gradeVars, sessions, recorded>>
  BY DEF SetComparison
<1> HIDE DEF e
<1>4. \A k \in 1..(e.row - 1) : e.rows[k].paper \in e.cached
  <2> SUFFICES ASSUME NEW k \in 1..comparison.row PROVE e.rows[k].paper \in e.cached
    BY <1>1, <1>2
  <2>1. CASE k = comparison.row
    BY <1>2, <2>1 DEF Current
  <2>2. CASE k \in 1..(comparison.row - 1)
    BY <1>1, <1>2, <2>2
  <2> QED BY <1>1, <2>1, <2>2
<1>5. RowsInv'
  <2>1. e.at = "v1" => e.row \in 1..Len(e.rows)
    BY <1>1, <1>2
  <2>2. e.at = "done" => e.row = Len(e.rows) + 1
    BY <1>1, <1>2
  <2>3. e.at \in {"v1", "done"}
    BY <1>2
  <2> QED BY <1>2, <1>3, <1>4, <2>1, <2>2, <2>3 DEF RowsInv, Running, Current
<1>6. CurrentInv'
  <2>1. e.at \notin {"final", "paper", "reviews"}
    BY <1>2
  <2> QED BY <1>3, <2>1 DEF CurrentInv
<1>7. comparison.at # "idle"
  BY DEF Running
<1> QED BY <1>2, <1>3, <1>5, <1>6, <1>7, ComparisonOnly

\* A mark the comparison settles on is one the paper has had since it began.
LEMMA LoadedStep ==
  ASSUME ModInv, Running, NEW F \in SUBSET Papers, comparison.failed \subseteq F,
         NEW p \in Papers, p = Current, p \notin comparison.cached, NEW m \in Optional,
         p \notin regradedSince \cup F \cup overtaken => m \in effectiveSince[p],
         SetComparison(Loaded([comparison EXCEPT !.failed = F], p, m))
  PROVE  ModInv'
<1> DEFINE d == [comparison EXCEPT !.failed = F, !.effective[p] = m, !.cached = @ \cup {p}]
<1>1. comparison \in Comparisons
  BY DEF ModInv, RowsInv
<1>2. /\ d \in Comparisons
      /\ d.row = comparison.row /\ d.rows = comparison.rows
      /\ d.cached = comparison.cached \cup {p} /\ d.failed = F
      /\ d.effective = [comparison.effective EXCEPT ![p] = m]
  BY <1>1 DEF Comparisons
<1>3. Loaded([comparison EXCEPT !.failed = F], p, m) = NextRow(d)
  <2>1. [[comparison EXCEPT !.failed = F] EXCEPT !.effective[p] = m, !.cached = @ \cup {p}] = d
    BY <1>1 DEF Comparisons
  <2> HIDE DEF d
  <2> QED BY <2>1 DEF Loaded
<1>4. comparison.effective \in [Papers -> Optional]
  BY <1>1 DEF Comparisons
<1> HIDE DEF d
<1>5. ASSUME NEW o \in d.cached \ (regradedSince \cup d.failed \cup overtaken)
      PROVE  d.effective[o] \in effectiveSince[o]
  <2>1. CASE o = p
    BY <1>2, <1>4, <1>5, <2>1
  <2>2. CASE o # p
    <3>1. o \in comparison.cached \ (regradedSince \cup comparison.failed \cup overtaken)
      BY <1>2, <1>5, <2>2
    <3>2. comparison.effective[o] \in effectiveSince[o]
      BY <3>1 DEF ModInv, HistoryInv, Excused
    <3> QED BY <1>2, <1>4, <2>2, <3>2
  <2> QED BY <2>1, <2>2
<1> QED BY <1>2, <1>3, <1>5, NextRowStep

\* Between two reads of a paper nothing of the loaded ones changes.
LEMMA ReadStep ==
  ASSUME ModInv, Running, NEW p \in Papers, p = Current, p \notin comparison.cached,
         NEW d \in Comparisons, d.at \in {"final", "paper", "reviews"},
         d.row = comparison.row, d.rows = comparison.rows, d.cached = comparison.cached,
         comparison.failed \subseteq d.failed,
         \A o \in Papers \ {p} : d.effective[o] = comparison.effective[o],
         p \notin regradedSince \cup d.failed \cup overtaken =>
           /\ d.ai[p] = paper[p].v1
           /\ d.at \in {"paper", "reviews"} => Overlaid(paper[p]) \in effectiveSince[p]
           /\ d.at = "reviews" => paper[p].v1 # {} /\ d.effective[p] = paper[p].v1,
         SetComparison(d)
  PROVE  ModInv'
<1>1. comparison' = d /\ UNCHANGED <<gradeVars, sessions, recorded>>
  BY DEF SetComparison
<1>2. RowsInv'
  BY <1>1 DEF ModInv, RowsInv, Running, Current
<1>3. ASSUME NEW o \in d.cached \ (regradedSince \cup d.failed \cup overtaken)
      PROVE  d.effective[o] \in effectiveSince[o]
  <2>1. o \in comparison.cached \ (regradedSince \cup comparison.failed \cup overtaken) /\ o # p
    BY <1>3
  <2>2. o \in Papers
    BY <2>1 DEF ModInv, RowsInv, Comparisons
  <2>3. comparison.effective[o] \in effectiveSince[o]
    BY <2>1 DEF ModInv, HistoryInv, Excused
  <2> QED BY <2>1, <2>2, <2>3
<1>4. CurrentInv'
  <2>1. Current' = p /\ paper' = paper /\ regradedSince' = regradedSince
    BY <1>1 DEF Current, gradeVars
  <2> QED BY <1>1, <2>1 DEF CurrentInv, Excused, gradeVars
<1>5. comparison.at # "idle"
  BY DEF Running
<1> QED BY <1>1, <1>2, <1>3, <1>4, <1>5, ComparisonOnly

LEMMA CompareStep ==
  ASSUME ModInv, NEW i \in DOMAIN sessions, GetComparison(i)
  PROVE  ModInv'
<1>1. /\ comparison' = [Idle EXCEPT !.at = "v1", !.session = i, !.rows = recorded[i]]
      /\ effectiveSince' = [p \in Papers |-> {effectiveGradedPaper(paper[p])}]
      /\ UNCHANGED <<paper, sessions, recorded>>
  BY DEF GetComparison
<1>2. recorded[i] \in Seq(MarkRows) /\ Len(recorded[i]) \in Nat \ {0} /\ i \in Nat
  <2>1. recorded[i] \in Seq(MarkRows) /\ recorded[i] # <<>> /\ i \in Nat
    BY DEF ModInv, SessionsInv, GetComparison
  <2> QED BY <2>1, EmptySeq
<1>3. /\ comparison'.at = "v1" /\ comparison'.row = 1 /\ comparison'.rows = recorded[i]
      /\ comparison'.cached = {} /\ comparison' \in Comparisons
  BY <1>1, <1>2, OptionalFacts DEF Idle, Comparisons
<1>4. PapersInv' /\ SessionsInv'
  BY <1>1 DEF ModInv, PapersInv, SessionsInv, SampleInv
<1>5. RowsInv'
  <2>1. 1..(comparison'.row - 1) = {}
    BY <1>3
  <2> QED BY <1>2, <1>3, <2>1 DEF RowsInv, Running, Current
<1>6. HistoryInv'
  <2>1. \A p \in Papers : effectiveGradedPaper(paper[p]) \in Optional
    BY EffectiveOptional DEF ModInv, PapersInv
  <2> QED BY <1>1, <1>3, <2>1 DEF HistoryInv
<1>7. CurrentInv'
  BY <1>3 DEF CurrentInv
<1> QED BY <1>4, <1>5, <1>6, <1>7 DEF ModInv

LEMMA LoadCachedStep ==
  ASSUME ModInv, NEW p \in Papers, LoadCached(p)
  PROVE  ModInv'
<1>1. comparison \in Comparisons /\ Running /\ p = Current
  BY CurrentPaper DEF LoadCached
<1>2. p \in comparison.cached /\ SetComparison(NextRow(comparison))
  BY DEF LoadCached
<1>3. \A o \in comparison.cached \ (regradedSince \cup comparison.failed \cup overtaken) :
        comparison.effective[o] \in effectiveSince[o]
  BY DEF ModInv, HistoryInv, Excused
<1> QED BY <1>1, <1>2, <1>3, NextRowStep

LEMMA LoadAIStep ==
  ASSUME ModInv, NEW p \in Papers, LoadAI(p)
  PROVE  ModInv'
<1> DEFINE d == [comparison EXCEPT !.ai[p] = paper[p].v1, !.at = "final"]
<1>1. comparison \in Comparisons /\ Running /\ p = Current /\ paper[p] \in PaperRecords
  BY CurrentPaper DEF LoadAI
<1>2. p \notin comparison.cached /\ SetComparison(d)
  BY DEF LoadAI
<1>3. /\ d \in Comparisons /\ d.at = "final" /\ d.ai[p] = paper[p].v1
      /\ d.row = comparison.row /\ d.rows = comparison.rows /\ d.cached = comparison.cached
      /\ d.failed = comparison.failed /\ d.effective = comparison.effective
  BY <1>1 DEF Comparisons, PaperRecords
<1> HIDE DEF d
<1> QED BY <1>1, <1>2, <1>3, ReadStep

LEMMA LoadFinalStep ==
  ASSUME ModInv, NEW p \in Papers, LoadFinal(p)
  PROVE  ModInv'
<1>1. /\ comparison \in Comparisons /\ Running /\ p = Current /\ paper[p] \in PaperRecords
      /\ p \notin comparison.cached /\ comparison.at = "final"
  BY CurrentPaper DEF LoadFinal, Loading
<1>2. CASE paper[p].final # {}
  <2>1. effectiveGradedPaper(paper[p]) \in effectiveSince[p]
    BY <1>1 DEF ModInv, HistoryInv
  <2>2. paper[p].final \in effectiveSince[p] /\ paper[p].final \in Optional
    BY <1>1, <1>2, <2>1 DEF effectiveGradedPaper, PaperRecords
  <2>3. comparison = [comparison EXCEPT !.failed = comparison.failed]
        /\ comparison.failed \in SUBSET Papers
    BY <1>1 DEF Comparisons
  <2>4. SetComparison(Loaded(comparison, p, paper[p].final))
    BY <1>2 DEF LoadFinal
  <2>5. SetComparison(Loaded([comparison EXCEPT !.failed = comparison.failed],
                             p, paper[p].final))
    BY <2>3, <2>4
  <2> QED BY <1>1, <2>2, <2>3, <2>5, LoadedStep
<1>3. CASE paper[p].final = {}
  <2> DEFINE d == [comparison EXCEPT !.effective[p] = {}, !.at = "paper"]
  <2>1. SetComparison(d)
    BY <1>3 DEF LoadFinal
  <2>2. /\ d \in Comparisons /\ d.at = "paper" /\ d.ai = comparison.ai
        /\ d.row = comparison.row /\ d.rows = comparison.rows
        /\ d.cached = comparison.cached /\ d.failed = comparison.failed
        /\ \A o \in Papers \ {p} : d.effective[o] = comparison.effective[o]
    BY <1>1, OptionalFacts DEF Comparisons
  <2>3. Overlaid(paper[p]) \in effectiveSince[p]
    <3>1. effectiveGradedPaper(paper[p]) \in effectiveSince[p]
      BY <1>1 DEF ModInv, HistoryInv, Running
    <3> QED BY <1>3, <3>1 DEF effectiveGradedPaper
  <2>4. p \notin regradedSince \cup comparison.failed \cup overtaken =>
          comparison.ai[p] = paper[p].v1
    BY <1>1 DEF ModInv, CurrentInv, Excused
  <2> HIDE DEF d
  <2> QED BY <1>1, <2>1, <2>2, <2>3, <2>4, ReadStep
<1> QED BY <1>2, <1>3

LEMMA LoadPaperStep ==
  ASSUME ModInv, NEW p \in Papers, LoadPaper(p)
  PROVE  ModInv'
<1>1. /\ comparison \in Comparisons /\ Running /\ p = Current /\ paper[p] \in PaperRecords
      /\ p \notin comparison.cached /\ comparison.at = "paper"
  BY CurrentPaper DEF LoadPaper, Loading
<1>2. p \notin regradedSince \cup comparison.failed \cup overtaken =>
        comparison.ai[p] = paper[p].v1 /\ Overlaid(paper[p]) \in effectiveSince[p]
  BY <1>1 DEF ModInv, CurrentInv, Excused
<1>3. CASE paper[p].v1 = {}
  <2>2. comparison.ai[p] \in Optional /\ comparison.failed \in SUBSET Papers
    BY <1>1 DEF Comparisons
  <2>3. p \notin regradedSince \cup comparison.failed \cup overtaken =>
          comparison.ai[p] \in effectiveSince[p]
    BY <1>2, <1>3 DEF Overlaid
  <2>4. SetComparison(Loaded(comparison, p, comparison.ai[p]))
    BY <1>3 DEF LoadPaper
  <2>5. comparison = [comparison EXCEPT !.failed = comparison.failed]
    BY <1>1 DEF Comparisons
  <2>6. SetComparison(Loaded([comparison EXCEPT !.failed = comparison.failed],
                             p, comparison.ai[p]))
    BY <2>4, <2>5
  <2> QED BY <1>1, <2>2, <2>3, <2>6, LoadedStep
<1>4. CASE paper[p].v1 # {}
  <2> DEFINE d == [comparison EXCEPT !.effective[p] = paper[p].v1, !.at = "reviews"]
  <2>1. SetComparison(d)
    BY <1>4 DEF LoadPaper
  <2>2. /\ d \in Comparisons /\ d.at = "reviews" /\ d.ai = comparison.ai
        /\ d.row = comparison.row /\ d.rows = comparison.rows
        /\ d.cached = comparison.cached /\ d.failed = comparison.failed
        /\ d.effective[p] = paper[p].v1
        /\ \A o \in Papers \ {p} : d.effective[o] = comparison.effective[o]
    BY <1>1 DEF Comparisons, PaperRecords
  <2> HIDE DEF d
  <2> QED BY <1>1, <1>2, <1>4, <2>1, <2>2, ReadStep
<1> QED BY <1>3, <1>4

LEMMA LoadReviewsStep ==
  ASSUME ModInv, NEW p \in Papers, LoadReviews(p)
  PROVE  ModInv'
<1> DEFINE m == Overlaid([v1 |-> comparison.effective[p], overlay |-> paper[p].overlay])
<1>1. /\ comparison \in Comparisons /\ Running /\ p = Current /\ paper[p] \in PaperRecords
      /\ p \notin comparison.cached /\ comparison.at = "reviews"
  BY CurrentPaper DEF LoadReviews, Loading
<1>2. p \notin regradedSince \cup comparison.failed \cup overtaken =>
        comparison.effective[p] = paper[p].v1 /\ Overlaid(paper[p]) \in effectiveSince[p]
  BY <1>1 DEF ModInv, CurrentInv, Excused
<1>3. m \in Optional /\ comparison.failed \in SUBSET Papers
  BY <1>1, OverlaidOptional DEF Comparisons, PaperRecords
<1>5. comparison.effective[p] = paper[p].v1 => m = Overlaid(paper[p])
  BY DEF Overlaid
<1>7. SetComparison(Loaded(comparison, p, m))
  BY DEF LoadReviews
<1> HIDE DEF m
<1>8. comparison = [comparison EXCEPT !.failed = comparison.failed]
  BY <1>1 DEF Comparisons
<1>9. SetComparison(Loaded([comparison EXCEPT !.failed = comparison.failed], p, m))
  BY <1>7, <1>8
<1>10. p \notin regradedSince \cup comparison.failed \cup overtaken => m \in effectiveSince[p]
  BY <1>2, <1>5
<1> QED BY <1>1, <1>3, <1>9, <1>10, LoadedStep

\* Of a paper whose read failed nothing is claimed.
LEMMA LoadFailsStep ==
  ASSUME ModInv, NEW p \in Papers, LoadFails(p)
  PROVE  ModInv'
<1> DEFINE f == comparison.failed \cup {p}
           c == [comparison EXCEPT !.failed = f]
<1>1. CASE /\ Loading("v1", p) /\ p \notin comparison.cached
           /\ SetComparison([c EXCEPT !.at = "final"])
  <2> DEFINE d == [c EXCEPT !.at = "final"]
  <2>1. comparison \in Comparisons /\ Running /\ p = Current
    BY <1>1, CurrentPaper
  <2>2. /\ d \in Comparisons /\ d.at = "final" /\ d.failed = f
        /\ d.row = comparison.row /\ d.rows = comparison.rows
        /\ d.cached = comparison.cached /\ d.effective = comparison.effective
    BY <2>1 DEF Comparisons
  <2>3. SetComparison(d)
    BY <1>1
  <2> HIDE DEF d
  <2> QED BY <1>1, <2>1, <2>2, <2>3, ReadStep
<1>2. CASE /\ \E at \in {"final", "paper", "reviews"} : Loading(at, p)
           /\ SetComparison(Loaded(c, p, c.ai[p]))
  <2>1. /\ comparison \in Comparisons /\ Running /\ p = Current
        /\ p \notin comparison.cached
    BY <1>2, CurrentPaper
  <2>2. c.ai[p] = comparison.ai[p] /\ comparison.ai[p] \in Optional /\ f \in SUBSET Papers
    BY <2>1 DEF Comparisons
  <2>3. SetComparison(Loaded([comparison EXCEPT !.failed = f], p, comparison.ai[p]))
    BY <1>2, <2>2
  <2> QED BY <2>1, <2>2, <2>3, LoadedStep
<1>3. \/ Loading("v1", p) /\ p \notin comparison.cached /\ SetComparison([c EXCEPT !.at = "final"])
      \/ /\ \E at \in {"final", "paper", "reviews"} : Loading(at, p)
         /\ SetComparison(Loaded(c, p, c.ai[p]))
  BY DEF LoadFails
<1> QED BY <1>1, <1>2, <1>3

---------------------------------------------------------------------------
LEMMA ModInitially == ModInit => ModInv
<1> SUFFICES ASSUME ModInit PROVE ModInv
  OBVIOUS
<1>1. /\ paper = [p \in Papers |-> NoPaperYet] /\ sessions = <<>> /\ recorded = <<>>
      /\ comparison = Idle /\ effectiveSince = [p \in Papers |-> {}]
  BY DEF ModInit
<1>2. PapersInv
  BY <1>1, OptionalFacts DEF PapersInv, PaperRecords, NoPaperYet
<1>3. SessionsInv
  BY <1>1 DEF SessionsInv
<1>4. comparison \in Comparisons /\ comparison.at = "idle" /\ comparison.cached = {}
  BY <1>1, OptionalFacts DEF Comparisons, Idle
<1>5. RowsInv /\ HistoryInv /\ ~Running
  BY <1>1, <1>4 DEF RowsInv, HistoryInv, Running
<1> QED BY <1>2, <1>3, <1>5 DEF ModInv

LEMMA ModStep == ModInv /\ (ModNext \/ UNCHANGED modVars) => ModInv'
<1> SUFFICES ASSUME ModInv, ModNext \/ UNCHANGED modVars PROVE ModInv'
  OBVIOUS
<1>1. ASSUME NEW p \in Papers,
             \/ Upload(p) \/ Approve(p) \/ ApplyApproval(p)
             \/ \E m \in Optional, sent \in BOOLEAN : InsertFinalGrade(p, m, sent)
             \/ \E m \in Marks : Grade(p, m) \/ Override(p, m)
      PROVE  ModInv'
  BY <1>1, ChangeStep
<1>2. ASSUME NEW p \in Papers,
             \/ LoadCached(p) \/ LoadAI(p) \/ LoadFinal(p)
             \/ LoadPaper(p) \/ LoadReviews(p) \/ LoadFails(p)
      PROVE  ModInv'
  BY <1>2, LoadCachedStep, LoadAIStep, LoadFinalStep, LoadPaperStep, LoadReviewsStep,
     LoadFailsStep
<1>3. ASSUME NEW i \in DOMAIN sessions, NEW p \in Papers, NEW m \in Marks, RecordMark(i, p, m)
      PROVE  ModInv'
  BY <1>3, RecordStep
<1>4. ASSUME NEW n \in Asked, CreateModerationSession(n) PROVE ModInv'
  BY <1>4, CreateStep
<1>5. ASSUME NEW i \in DOMAIN sessions,
             SelectSample(i) \/ InsertLink(i) \/ CreationFails(i) \/ GetComparison(i)
      PROVE  ModInv'
  BY <1>5, SelectStep, LinkStep, CreationFailsStep, CompareStep
<1>6. CASE UNCHANGED modVars
  <2>1. UNCHANGED <<gradeVars, comparison>> /\ SessionsInv'
    BY <1>6 DEF modVars, ModInv, SessionsInv, SampleInv
  <2> QED BY <2>1, SessionsOnly
<1> QED BY <1>1, <1>2, <1>3, <1>4, <1>5, <1>6 DEF ModNext

LEMMA ModInvariance == Spec => []ModInv
<1>1. Init => ModInv
  BY ModInitially DEF Init
<1>2. ModInv /\ [Next]_vars => ModInv'
  BY ModStep DEF Next, vars
<1> QED BY <1>1, <1>2, PTL DEF Spec

\* The records of moderation have their types, and sample_size fits its column
\* whatever was asked for.
THEOREM ModerationTyped == Spec => []ModTypeOK
<1>1. ModInv => ModTypeOK
  <2> SUFFICES ASSUME ModInv PROVE ModTypeOK
    OBVIOUS
  <2>1. ASSUME NEW p \in Papers
        PROVE  /\ {paper[p].uploaded, paper[p].open, paper[p].sent} \subseteq BOOLEAN
               /\ {paper[p].v1, paper[p].overlay, paper[p].final} \cup paper[p].approving
                    \subseteq Optional
    <3>1. paper[p] \in PaperRecords
      BY DEF ModInv, PapersInv
    <3> QED BY <3>1 DEF PaperRecords
  <2>2. ASSUME NEW i \in DOMAIN sessions
        PROVE  /\ sessions[i].at \in {"select", "link", "created", "failed"}
               /\ sessions[i].size \in -Limit..(Limit - 1)
               /\ sessions[i].linked \cup Range(sessions[i].todo) \subseteq Papers
    <3>1. sessions[i] \in SessionRecords
      BY DEF ModInv, SessionsInv
    <3>2. sessions[i].todo \in Seq(Papers)
      BY <3>1 DEF SessionRecords
    <3>3. Range(sessions[i].todo) \subseteq Papers
      BY <3>2 DEF Range
    <3> QED BY <3>1, <3>3 DEF SessionRecords
  <2>3. comparison \in Comparisons
    BY DEF ModInv, RowsInv
  <2> QED BY <2>1, <2>2, <2>3 DEF ModTypeOK, Comparisons
<1> QED BY <1>1, ModInvariance, PTL

\* A session samples the papers with the smallest ids, as many as were asked
\* for, whatever is uploaded meanwhile and wherever its creation fails.
THEOREM SamplesAsAsked == Spec => []SampleAsAsked
<1>1. ModInv => SampleAsAsked
  <2> SUFFICES ASSUME ModInv, NEW i \in DOMAIN sessions, sessions[i].asked < Limit
      PROVE  LET s == sessions[i]
                 n == Min({s.asked, Cardinality(s.from)})
                 sample == {p \in s.from : Cardinality({q \in s.from : q < p}) < n}
             IN  /\ s.linked \subseteq sample
                 /\ s.at = "created" => s.linked = sample
    BY DEF SampleAsAsked
  <2> DEFINE s == sessions[i]
             sample == {p \in s.from : Cardinality({q \in s.from : q < p})
                                         < Min({s.asked, Cardinality(s.from)})}
  <2>1. s \in SessionRecords /\ SampleInv(s)
    BY DEF ModInv, SessionsInv
  <2>2. s.asked \in Nat /\ s.from \subseteq Papers
    BY <2>1, LimitAssumption DEF SessionRecords
  <2>3. s.size = s.asked
    BY <2>1, <2>2, Narrowed DEF SampleInv
  <2>4. Ids(s) = sample
    BY <2>2, <2>3, SampleIds DEF Ids
  <2>5. s.linked \subseteq Ids(s)
    BY <2>1 DEF SampleInv
  <2>6. s.at = "created" => s.linked = Ids(s)
    <3>1. Range(<<>>) = {}
      BY DEF Range
    <3> QED BY <2>1, <3>1 DEF SampleInv
  <2> HIDE DEF sample
  <2>7. s.linked \subseteq sample /\ (s.at = "created" => s.linked = sample)
    BY <2>4, <2>5, <2>6
  <2> QED BY <2>7 DEF sample
<1> QED BY <1>1, ModInvariance, PTL

\* The teacher mark of a comparison was the paper's effective mark at some moment
\* of it, however its reads interleave with the teachers' work; only an override
\* that overtakes the final_grade row of an approval under way is told apart.
THEOREM TeacherMarksWereEffective == Spec => []TeacherMarkWasEffective
<1>1. ModInv => TeacherMarkWasEffective
  <2> SUFFICES ASSUME ModInv, comparison.at = "done", NEW k \in DOMAIN comparison.rows,
                      comparison.rows[k].paper \notin
                        regradedSince \cup comparison.failed \cup overtaken
      PROVE  \E m \in effectiveSince[comparison.rows[k].paper] :
               OrZero(comparison.effective[comparison.rows[k].paper]) = OrZero(m)
    BY DEF TeacherMarkWasEffective, Entries
  <2> DEFINE p == comparison.rows[k].paper
  <2>1. comparison.rows \in Seq(MarkRows)
    BY DEF ModInv, RowsInv, Comparisons
  <2>2. k \in 1..(comparison.row - 1)
    <3>1. DOMAIN comparison.rows = 1..Len(comparison.rows) /\ Len(comparison.rows) \in Nat
      BY <2>1
    <3>2. comparison.row = Len(comparison.rows) + 1
      BY DEF ModInv, RowsInv
    <3> QED BY <3>1, <3>2
  <2>3. p \in comparison.cached
    BY <2>2 DEF ModInv, RowsInv
  <2>4. comparison.effective[p] \in effectiveSince[p]
    BY <2>3 DEF ModInv, HistoryInv, Excused
  <2> QED BY <2>4
<1> QED BY <1>1, ModInvariance, PTL
=============================================================================
