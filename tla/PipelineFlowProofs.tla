------------------------- MODULE PipelineFlowProofs -------------------------
(***************************************************************************)
(* What Pipeline promises when one replica runs and no call of a consumer  *)
(* fails, for any number of submissions, requests and attempts: each       *)
(* submission at work has exactly one message or handler, each state has   *)
(* its artifacts, no marking pass is lost, and the state moves only along  *)
(* the edges of the transitions table.                                     *)
(***************************************************************************)
EXTENDS PipelineFlow, PipelineProofs, FiniteSetTheorems

---------------------------------------------------------------------------
(***************************************************************************)
(* The places where a submission's messages wait.                          *)
(***************************************************************************)
DrivingQueues == StageQueues \cup StageDLQs \cup {"results.q"}

LEMMA DrivingQueuesAre ==
  /\ DrivingQueues = Queues \ {"commands.q"}
  /\ "commands.q" \in Queues /\ "results.q" \in DrivingQueues
  /\ \A q \in StageQueues : q \in DrivingQueues /\ dlq(q) \in DrivingQueues
BY DEF DrivingQueues, Queues, WorkQueues, StageQueues, StageDLQs, dlq

\* The i-th message of q is one of s, in the queue contents qs.
IsAt(qs, s, q, i) == i \in DOMAIN qs[q] /\ qs[q][i].env.sub = s

\* The places of s's messages in the queue contents qs.
Places(qs, s) ==
  UNION {{<<q, i>> : i \in {j \in DOMAIN qs[q] : qs[q][j].env.sub = s}} : q \in DrivingQueues}

LEMMA WaitingPlaces ==
  ASSUME NEW s
  PROVE  Waiting(s) = Places(queue, s) /\ Waiting(s)' = Places(queue', s)
BY DEF Waiting, Places, DrivingQueues

LEMMA PlacesAre ==
  ASSUME NEW qs, NEW s
  PROVE  /\ \A q \in DrivingQueues : \A i : IsAt(qs, s, q, i) <=> <<q, i>> \in Places(qs, s)
         /\ \A x \in Places(qs, s) :
              \E q \in DrivingQueues : \E i : IsAt(qs, s, q, i) /\ x = <<q, i>>
BY DEF Places, IsAt

\* Nothing waits when there is no place.
LEMMA NothingWaits ==
  ASSUME NEW qs, NEW s
  PROVE  Places(qs, s) = {} <=> \A q \in DrivingQueues : \A i : ~IsAt(qs, s, q, i)
BY PlacesAre

\* One message waits when there is one place.
LEMMA OneWaits ==
  ASSUME NEW qs, NEW s
  PROVE  Single(Places(qs, s)) <=>
           \E q \in DrivingQueues : \E i :
             /\ IsAt(qs, s, q, i)
             /\ \A c \in DrivingQueues : \A j : IsAt(qs, s, c, j) => c = q /\ j = i
<1>1. ASSUME Single(Places(qs, s))
      PROVE  \E q \in DrivingQueues : \E i :
               /\ IsAt(qs, s, q, i)
               /\ \A c \in DrivingQueues : \A j : IsAt(qs, s, c, j) => c = q /\ j = i
  <2>1. PICK x \in Places(qs, s) : Places(qs, s) = {x}
    BY <1>1 DEF Single
  <2>0. PICK q \in DrivingQueues : \E i : IsAt(qs, s, q, i) /\ x = <<q, i>>
    BY PlacesAre
  <2>2. PICK i : IsAt(qs, s, q, i) /\ x = <<q, i>>
    BY <2>0
  <2>3. ASSUME NEW c \in DrivingQueues, NEW j, IsAt(qs, s, c, j)
        PROVE  c = q /\ j = i
    <3>1. <<c, j>> = <<q, i>>
      BY <2>1, <2>2, <2>3, PlacesAre
    <3> QED BY <3>1
  <2> QED BY <2>2, <2>3
<1>2. ASSUME NEW q \in DrivingQueues, NEW i, IsAt(qs, s, q, i),
             \A c \in DrivingQueues : \A j : IsAt(qs, s, c, j) => c = q /\ j = i
      PROVE  Single(Places(qs, s))
  <2>1. <<q, i>> \in Places(qs, s)
    BY <1>2, PlacesAre
  <2>2. \A x \in Places(qs, s) : x = <<q, i>>
    BY <1>2, PlacesAre
  <2> QED BY <2>1, <2>2 DEF Single
<1> QED BY <1>1, <1>2

---------------------------------------------------------------------------
(***************************************************************************)
(* What a publish, a delivery and a requeue do to the queue contents.      *)
(***************************************************************************)
Contents == [Queues -> Seq(Deliveries)]

\* ns is qs with a message more at the end of q.
AddedLast(qs, ns, q, env) ==
  \A c \in Queues :
    IF c # q THEN ns[c] = qs[c]
    ELSE /\ Len(qs[c]) \in Nat
         /\ DOMAIN qs[c] = 1..Len(qs[c])
         /\ DOMAIN ns[c] = 1..(Len(qs[c]) + 1)
         /\ ns[c][Len(qs[c]) + 1].env = env
         /\ \A i \in DOMAIN qs[c] : ns[c][i] = qs[c][i]

\* ns is qs with a message more at the front of q.
AddedFirst(qs, ns, q, env) ==
  \A c \in Queues :
    IF c # q THEN ns[c] = qs[c]
    ELSE /\ Len(qs[c]) \in Nat
         /\ DOMAIN qs[c] = 1..Len(qs[c])
         /\ DOMAIN ns[c] = 1..(Len(qs[c]) + 1)
         /\ ns[c][1].env = env
         /\ \A i \in DOMAIN qs[c] : ns[c][i + 1] = qs[c][i]

Added(qs, ns, q, env) == AddedLast(qs, ns, q, env) \/ AddedFirst(qs, ns, q, env)

LEMMA PublishedAt ==
  ASSUME queue \in Contents, NEW q \in Queues, NEW env \in Envelopes,
         queue' = Published(queue, q, env)
  PROVE  AddedLast(queue, queue', q, env)
<1> DEFINE d == Delivery(env, 0)
<1>1. d \in Deliveries /\ d.env = env
  BY DEF Delivery, Deliveries
<1>2. queue'[q] = Append(queue[q], d) /\ queue[q] \in Seq(Deliveries)
  BY DEF Published, Contents
<1>3. \A c \in Queues : c # q => queue'[c] = queue[c]
  BY DEF Published, Contents
<1> HIDE DEF d
<1>4. /\ DOMAIN queue'[q] = 1..(Len(queue[q]) + 1)
      /\ DOMAIN queue[q] = 1..Len(queue[q]) /\ Len(queue[q]) \in Nat
      /\ queue'[q][Len(queue[q]) + 1].env = env
      /\ \A i \in DOMAIN queue[q] : queue'[q][i] = queue[q][i]
  BY <1>1, <1>2, AppendProperties, LenProperties
<1> QED BY <1>3, <1>4 DEF AddedLast

\* What the queue gives is what is left with the message at the front again.
LEMMA TakenAt ==
  ASSUME queue \in Contents, NEW p \in Consumers, Receive(p)
  PROVE  /\ AddedFirst(queue', queue, QueueOf(p), queue[QueueOf(p)][1].env)
         /\ 1 \in DOMAIN queue[QueueOf(p)]
         /\ hand' = [hand EXCEPT ![p] = queue[QueueOf(p)][1]]
<1> DEFINE q == QueueOf(p)
<1>1. q \in Queues
  BY DEF Consumers, QueueOf
<1>2. queue[q] \in Seq(Deliveries) /\ queue[q] # <<>>
  BY <1>1 DEF Receive, Contents
<1>3. /\ queue'[q] = Tail(queue[q])
      /\ \A c \in Queues : c # q => queue'[c] = queue[c]
      /\ hand' = [hand EXCEPT ![p] = Head(queue[q])]
  BY <1>1 DEF Receive, Contents
<1>4. Len(queue[q]) \in Nat \ {0} /\ DOMAIN queue[q] = 1..Len(queue[q])
  BY <1>2, LenProperties, EmptySeq
<1>5. /\ Head(queue[q]) = queue[q][1]
      /\ Tail(queue[q]) \in Seq(Deliveries)
      /\ Len(Tail(queue[q])) = Len(queue[q]) - 1
      /\ \A i \in 1..Len(Tail(queue[q])) : Tail(queue[q])[i] = queue[q][i + 1]
  BY <1>2, HeadTailProperties
<1> HIDE DEF q
<1>6. /\ Len(queue'[q]) \in Nat /\ DOMAIN queue'[q] = 1..Len(queue'[q])
      /\ Len(queue[q]) = Len(queue'[q]) + 1
      /\ \A i \in DOMAIN queue'[q] : queue[q][i + 1] = queue'[q][i]
  BY <1>3, <1>4, <1>5, LenProperties
<1>7. DOMAIN queue[q] = 1..(Len(queue'[q]) + 1)
  BY <1>4, <1>6
<1>8. AddedFirst(queue', queue, q, queue[q][1].env)
  BY <1>3, <1>6, <1>7 DEF AddedFirst
<1>9. 1 \in DOMAIN queue[q] /\ hand' = [hand EXCEPT ![p] = queue[q][1]]
  BY <1>3, <1>4, <1>5
<1> QED BY <1>8, <1>9 DEF q

LEMMA RequeuedAt ==
  ASSUME queue \in Contents, NEW p \in Consumers, hand[p] \in Deliveries,
         queue' = Requeued(p)
  PROVE  AddedFirst(queue, queue', QueueOf(p), Env(p))
<1> DEFINE q == QueueOf(p)
           n == IF q \in WorkQueues THEN hand[p].count + 1 ELSE 0
           d == Delivery(hand[p].env, n)
<1>1. q \in Queues
  BY DEF Consumers, QueueOf
<1>2. n \in Nat
  BY DEF Deliveries
<1>3. d \in Deliveries /\ d.env = Env(p)
  BY <1>2 DEF Delivery, Deliveries, Env
<1>4. /\ queue'[q] = <<d>> \o queue[q]
      /\ \A c \in Queues : c # q => queue'[c] = queue[c]
  BY <1>1 DEF Requeued, Contents
<1> HIDE DEF d
<1>5. /\ <<d>> \in Seq(Deliveries) /\ Len(<<d>>) = 1 /\ <<d>>[1] = d
      /\ queue[q] \in Seq(Deliveries)
  BY <1>1, <1>3 DEF Contents
<1>6. Len(queue[q]) \in Nat /\ DOMAIN queue[q] = 1..Len(queue[q])
  BY <1>5, LenProperties
<1>7. /\ queue'[q] \in Seq(Deliveries)
      /\ Len(queue'[q]) = Len(queue[q]) + 1
      /\ queue'[q][1] = d
      /\ \A i \in 1..Len(queue[q]) : queue'[q][i + 1] = queue[q][i]
  <2>1. /\ <<d>> \o queue[q] \in Seq(Deliveries)
        /\ Len(<<d>> \o queue[q]) = Len(<<d>>) + Len(queue[q])
        /\ \A i \in 1..(Len(<<d>>) + Len(queue[q])) :
             (<<d>> \o queue[q])[i] = IF i <= Len(<<d>>) THEN <<d>>[i]
                                      ELSE queue[q][i - Len(<<d>>)]
    BY <1>5, ConcatProperties
  <2> QED BY <1>4, <1>5, <1>6, <2>1
<1>8. DOMAIN queue'[q] = 1..(Len(queue[q]) + 1)
  BY <1>7, LenProperties
<1> QED BY <1>3, <1>4, <1>6, <1>7, <1>8 DEF AddedFirst

\* A message more waits at one place more, for its own submission; the places
\* of the others stay or move on by one.
LEMMA AddedPlaces ==
  ASSUME NEW qs, NEW ns, NEW q \in Queues, NEW env, NEW s,
         Added(qs, ns, q, env)
  PROVE  /\ q = "commands.q" \/ s # env.sub =>
              /\ Places(ns, s) = {} <=> Places(qs, s) = {}
              /\ Single(Places(ns, s)) <=> Single(Places(qs, s))
         /\ q # "commands.q" /\ s = env.sub =>
              /\ Single(Places(ns, s)) <=> Places(qs, s) = {}
              /\ Places(ns, s) # {}
<1> DEFINE n == Len(qs[q]) + 1
           last == AddedLast(qs, ns, q, env)
           new == IF last THEN n ELSE 1
           moved(c, i) == IF c = q /\ ~last THEN i + 1 ELSE i
<1> USE DEF Added
<1>1. ASSUME NEW c \in Queues, NEW i, IsAt(qs, s, c, i)
      PROVE  IsAt(ns, s, c, moved(c, i)) /\ (c = q => moved(c, i) # new)
  BY <1>1 DEF IsAt, AddedLast, AddedFirst
<1>2. ASSUME NEW c \in Queues, NEW j, IsAt(ns, s, c, j), c = q => j # new
      PROVE  \E i : IsAt(qs, s, c, i) /\ j = moved(c, i)
  <2>1. CASE last
    BY <1>2, <2>1 DEF IsAt, AddedLast
  <2>2. CASE ~last /\ c = q
    <3>1. j - 1 \in DOMAIN qs[c] /\ ns[c][j] = qs[c][j - 1] /\ j = (j - 1) + 1
      BY <1>2, <2>2 DEF IsAt, AddedFirst
    <3> QED BY <1>2, <2>2, <3>1 DEF IsAt
  <2>3. CASE ~last /\ c # q
    BY <1>2, <2>3 DEF IsAt, AddedFirst
  <2> QED BY <2>1, <2>2, <2>3
<1>3. IsAt(ns, s, q, new) <=> s = env.sub
  BY DEF IsAt, AddedLast, AddedFirst
<1>4. \A c \in Queues : \A i, j : /\ IsAt(qs, s, c, i) /\ IsAt(qs, s, c, j)
                                 /\ moved(c, i) = moved(c, j)
                                 => i = j
  BY DEF IsAt, AddedFirst, AddedLast
<1>5. DrivingQueues = Queues \ {"commands.q"}
  BY DrivingQueuesAre
<1> HIDE DEF n, last, new, moved, Added
<1>6. CASE q = "commands.q" \/ s # env.sub
  <2>1. ASSUME NEW c \in DrivingQueues, NEW j, IsAt(ns, s, c, j)
        PROVE  \E i : IsAt(qs, s, c, i) /\ j = moved(c, i)
    BY <1>2, <1>3, <1>5, <1>6, <2>1
  <2>2. \A c \in DrivingQueues : \A i : IsAt(qs, s, c, i) => IsAt(ns, s, c, moved(c, i))
    BY <1>1, <1>5
  <2>3. Places(ns, s) = {} <=> Places(qs, s) = {}
    BY <2>1, <2>2, NothingWaits
  <2>4. ASSUME Single(Places(ns, s)) PROVE Single(Places(qs, s))
    <3>0. PICK c \in DrivingQueues :
            \E j : /\ IsAt(ns, s, c, j)
                   /\ \A d \in DrivingQueues : \A k : IsAt(ns, s, d, k) => d = c /\ k = j
      BY <2>4, OneWaits
    <3>1. PICK j : /\ IsAt(ns, s, c, j)
                   /\ \A d \in DrivingQueues : \A k : IsAt(ns, s, d, k) => d = c /\ k = j
      BY <3>0
    <3>2. PICK i : IsAt(qs, s, c, i) /\ j = moved(c, i)
      BY <2>1, <3>1
    <3>3. ASSUME NEW d \in DrivingQueues, NEW k, IsAt(qs, s, d, k) PROVE d = c /\ k = i
      BY <1>4, <1>5, <2>2, <3>1, <3>2, <3>3
    <3> QED BY <3>2, <3>3, OneWaits
  <2>5. ASSUME Single(Places(qs, s)) PROVE Single(Places(ns, s))
    <3>0. PICK c \in DrivingQueues :
            \E i : /\ IsAt(qs, s, c, i)
                   /\ \A d \in DrivingQueues : \A k : IsAt(qs, s, d, k) => d = c /\ k = i
      BY <2>5, OneWaits
    <3>1. PICK i : /\ IsAt(qs, s, c, i)
                   /\ \A d \in DrivingQueues : \A k : IsAt(qs, s, d, k) => d = c /\ k = i
      BY <3>0
    <3>2. IsAt(ns, s, c, moved(c, i))
      BY <2>2, <3>1
    <3>3. ASSUME NEW d \in DrivingQueues, NEW j, IsAt(ns, s, d, j)
          PROVE  d = c /\ j = moved(c, i)
      BY <2>1, <3>1, <3>3
    <3> QED BY <3>2, <3>3, OneWaits
  <2> QED BY <1>6, <2>3, <2>4, <2>5
<1>7. CASE q # "commands.q" /\ s = env.sub
  <2>1. q \in DrivingQueues /\ IsAt(ns, s, q, new)
    BY <1>3, <1>5, <1>7
  <2>2. Places(ns, s) # {}
    BY <2>1, NothingWaits
  <2>3. ASSUME Single(Places(ns, s)) PROVE Places(qs, s) = {}
    <3>1. \A c \in DrivingQueues : \A j : IsAt(ns, s, c, j) => c = q /\ j = new
      BY <2>1, <2>3, OneWaits
    <3>2. \A c \in DrivingQueues : \A i : ~IsAt(qs, s, c, i)
      BY <1>1, <1>5, <3>1
    <3> QED BY <3>2, NothingWaits
  <2>4. ASSUME Places(qs, s) = {} PROVE Single(Places(ns, s))
    <3>1. \A c \in DrivingQueues : \A i : ~IsAt(qs, s, c, i)
      BY <2>4, NothingWaits
    <3>2. \A c \in DrivingQueues : \A j : IsAt(ns, s, c, j) => c = q /\ j = new
      BY <1>2, <1>5, <3>1
    <3> QED BY <2>1, <3>2, OneWaits
  <2> QED BY <1>7, <2>2, <2>3, <2>4
<1> QED BY <1>6, <1>7
\* The messages after a step that adds one, and after one that takes one.
LEMMA AddedEnvs ==
  ASSUME NEW q \in Queues, NEW env,
         Added(queue, queue', q, env)
  PROVE  \A c \in Queues : \A e \in EnvsOn(c)' : e \in EnvsOn(c) \/ (c = q /\ e = env)
<1> USE DEF Added
<1> SUFFICES ASSUME NEW c \in Queues, NEW i \in DOMAIN queue'[c]
             PROVE  queue'[c][i].env \in EnvsOn(c) \/ (c = q /\ queue'[c][i].env = env)
  BY DEF EnvsOn
<1>1. CASE c # q
  BY <1>1 DEF EnvsOn, AddedLast, AddedFirst
<1>2. CASE c = q /\ AddedLast(queue, queue', q, env)
  <2>1. i = Len(queue[q]) + 1 \/ i \in DOMAIN queue[q]
    BY <1>2 DEF AddedLast
  <2> QED BY <1>2, <2>1 DEF EnvsOn, AddedLast
<1>3. CASE c = q /\ AddedFirst(queue, queue', q, env)
  <2>1. i = 1 \/ (i - 1 \in DOMAIN queue[q] /\ queue'[q][i] = queue[q][i - 1])
    <3>1. i = 1 \/ (i - 1 \in DOMAIN queue[q] /\ (i - 1) + 1 = i)
      BY <1>3 DEF AddedFirst
    <3>2. \A j \in DOMAIN queue[q] : queue'[q][j + 1] = queue[q][j]
      BY <1>3 DEF AddedFirst
    <3> QED BY <3>1, <3>2
  <2> QED BY <1>3, <2>1 DEF EnvsOn, AddedFirst
<1> QED BY <1>1, <1>2, <1>3

LEMMA TakenEnvs ==
  ASSUME NEW q \in Queues, NEW env, AddedFirst(queue', queue, q, env)
  PROVE  env \in EnvsOn(q) /\ \A c \in Queues : EnvsOn(c)' \subseteq EnvsOn(c)
<1>1. 1 \in DOMAIN queue[q] /\ queue[q][1].env = env
  BY DEF AddedFirst
<1>2. ASSUME NEW c \in Queues, NEW i \in DOMAIN queue'[c]
      PROVE  queue'[c][i].env \in EnvsOn(c)
  <2>1. CASE c # q
    BY <1>2, <2>1 DEF EnvsOn, AddedFirst
  <2>2. CASE c = q
    <3>1. i + 1 \in DOMAIN queue[q] /\ queue[q][i + 1] = queue'[q][i]
      BY <1>2, <2>2 DEF AddedFirst
    <3> QED BY <2>2, <3>1 DEF EnvsOn
  <2> QED BY <2>1, <2>2
<1> QED BY <1>1, <1>2 DEF EnvsOn

\* A message is about a submission, which it drives unless it is a command.
LEMMA EnvsAre ==
  ASSUME queue \in Contents, NEW q \in Queues, NEW env \in EnvsOn(q)
  PROVE  /\ env \in Envelopes /\ env.sub \in Submissions
         /\ q # "commands.q" => Waiting(env.sub) # {}
<1>1. PICK i \in DOMAIN queue[q] : env = queue[q][i].env
  BY DEF EnvsOn
<1>2. queue[q][i] \in Deliveries
  BY ElementOfSeq, LenProperties DEF Contents
<1>3. env \in Envelopes /\ env.sub \in Submissions
  BY <1>1, <1>2 DEF Deliveries, Envelopes
<1>4. IsAt(queue, env.sub, q, i)
  BY <1>1 DEF IsAt
<1> QED BY <1>3, <1>4, DrivingQueuesAre, NothingWaits, WaitingPlaces

---------------------------------------------------------------------------
(***************************************************************************)
(* What the orchestrator decides.                                          *)
(***************************************************************************)

\* A result that fits takes its submission to the next state, whose input it
\* brings.
LEMMA ResultDecision ==
  ASSUME NEW env, ResultFits(env)
  PROVE  LET s == env.sub
             next == Decision(state[s], env)
         IN  \/ /\ <<state[s], next>> \in {<<"queued", "splitting_pages">>,
                      <<"splitting_pages", "extracting_metadata">>,
                      <<"extracting_metadata", "transcribing">>}
                /\ "render-result.json" \in objects[s]
             \/ /\ state[s] = "transcribing"
                /\ "transcript.v1.json" \in objects[s] /\ flags[s] # NoFlags
                /\ \/ next = "grading"
                   \/ /\ next = "transcription_review_required"
                      /\ EvaluateGates(flags[s], DefaultTunables) # {}
             \/ state[s] = "grading" /\ next = "teacher_review" /\ graded[s] # 0
<1> DEFINE s == env.sub
           ev == StageToEvent(env.stage)
           fl == transcribeFlags(env)
           next == Decision(state[s], env)
           gates == EvaluateGates(flags[s], DefaultTunables)
<1>1. ev = "StageSucceeded" /\ ev # Err
  BY DEF ResultFits, StageToEvent, ResultStages, Err
<1>2. Err \notin gates
  BY DEF EvaluateGates, QualityFlags, Err
<1>3. fl = IF env.stage = "transcribe.result" THEN gates ELSE {}
  BY DEF ResultFits, transcribeFlags
<1>4. next = NextState(state[s], "StageSucceeded", fl)
  BY <1>1, <1>2, <1>3 DEF Decision
<1> HIDE DEF gates
<1>5. computeNext(state[s], "StageSucceeded", fl) = stageSucceededNext(state[s], fl)
  BY DEF computeNext
<1>6. CASE env.stage = "render.result"
  <2>1. state[s] \in {"queued", "splitting_pages", "extracting_metadata"}
        /\ "render-result.json" \in objects[s]
    BY <1>6 DEF ResultFits
  <2> QED
    BY <1>4, <1>5, <2>1
       DEF NextState, stageSucceededNext, CanTransition, transitions, States, Err
<1>7. CASE env.stage = "transcribe.result"
  <2>1. /\ state[s] = "transcribing"
        /\ "transcript.v1.json" \in objects[s] /\ flags[s] # NoFlags
    BY <1>7 DEF ResultFits
  <2>2. next = IF gates # {} THEN "transcription_review_required" ELSE "grading"
    BY <1>3, <1>4, <1>5, <1>7, <2>1
       DEF NextState, stageSucceededNext, CanTransition, transitions, States, Err
  <2> QED BY <2>1, <2>2 DEF gates
<1>8. CASE env.stage = "grade.result"
  <2>1. state[s] = "grading" /\ graded[s] # 0
    BY <1>8 DEF ResultFits
  <2> QED
    BY <1>4, <1>5, <2>1
       DEF NextState, stageSucceededNext, CanTransition, transitions, States, Err
<1> QED BY <1>6, <1>7, <1>8 DEF ResultFits

\* A command moves a submission that waits for a person, and no other.
LEMMA CommandDecision ==
  ASSUME NEW cur \in States \cup {NoState}, NEW env,
         env.stage \in CommandStages \ {"flagged_for_review"},
         Decision(cur, env) \notin {Err, cur}
  PROVE  /\ cur \notin Automatic \cup {NoState}
         /\ <<cur, Decision(cur, env)>> \in
              {<<"uploaded", "queued">>,
               <<"transcription_review_required", "transcribing">>,
               <<"transcription_review_required", "grading">>,
               <<"grading_review_required", "grading">>,
               <<"teacher_review", "approved">>, <<"approved", "published">>,
               <<"published", "exported">>, <<"approved", "grading">>,
               <<"published", "grading">>, <<"exported", "grading">>}
<1> DEFINE ev == StageToEvent(env.stage)
           next == Decision(cur, env)
<1>1. next = computeNext(cur, ev, transcribeFlags(env))
  BY DEF Decision, NextState
<1>2. ev \in Events \ {"StageSucceeded", "StageFailed", "FlaggedForReview"}
  BY DEF StageToEvent, CommandStages, ResultStages, Events
<1>3. <<cur, next>> \in
        {<<"uploaded", "queued">>,
         <<"transcription_review_required", "transcribing">>,
         <<"transcription_review_required", "grading">>,
         <<"grading_review_required", "grading">>,
         <<"teacher_review", "approved">>, <<"approved", "published">>,
         <<"published", "exported">>, <<"approved", "grading">>,
         <<"published", "grading">>, <<"exported", "grading">>}
  BY <1>1, <1>2 DEF computeNext, Events, Err
<1>4. cur \in {"uploaded", "transcription_review_required", "grading_review_required",
               "teacher_review", "approved", "published", "exported"}
  BY <1>3
<1> QED BY <1>3, <1>4, NullAssumption DEF Automatic, States
---------------------------------------------------------------------------
(***************************************************************************)
(* What a step leaves alone.                                               *)
(***************************************************************************)

\* The row of s stays as it is and what is stored for it stays stored.
RowStays(s) == /\ state'[s] = state[s]
               /\ objects[s] \subseteq objects'[s]
               /\ flags[s] # NoFlags => flags'[s] # NoFlags
               /\ graded[s] # 0 => graded'[s] # 0

LEMMA FitsKept ==
  ASSUME NEW q \in Queues, NEW env, RowStays(env.sub), Fits(q, env)
  PROVE  Fits(q, env)'
BY DEF RowStays, Fits, ResultFits

\* Consumer c does nothing.
Rests(c) == /\ hand'[c] = hand[c] /\ at'[c] = at[c] /\ seen'[c] = seen[c]
            /\ goal'[c] = goal[c] /\ mark'[c] = mark[c]

\* The handler of c fits, or is idle.
HandlerOK(c) == IF at[c] = "idle" THEN hand[c] = NoMsg ELSE HandlerFits(c)

\* A command brings no flags.
LEMMA CommandFlags ==
  ASSUME NEW env, env.stage \in CommandStages
  PROVE  transcribeFlags(env) = {} /\ transcribeFlags(env)' = {}
BY DEF CommandStages, transcribeFlags

\* A handler that rests still fits a row that is kept; its decision, unless a
\* command brought it, relies on the flags.
LEMMA HandlerKept ==
  ASSUME NEW c \in Consumers, Rests(c), HandlerOK(c),
         at[c] # "idle" => RowStays(Sub(c)),
         \/ at[c] # "set"
         \/ QueueOf(c) = "commands.q"
         \/ flags'[Sub(c)] = flags[Sub(c)]
  PROVE  HandlerOK(c)'
<1>1. CASE at[c] = "idle"
  BY <1>1 DEF Rests, HandlerOK
<1>2. CASE at[c] # "idle"
  <2> DEFINE s == Sub(c)
  <2>1. HandlerFits(c) /\ RowStays(s) /\ QueueOf(c) \in Queues
    BY <1>2 DEF HandlerOK, Consumers, QueueOf
  <2>2. Sub(c)' = s /\ Env(c)' = Env(c) /\ s = Env(c).sub
    BY DEF Rests, Sub, Env
  <2>3. at'[c] \in StepsOn(QueueOf(c)) \cup {"ack"}
    BY <2>1 DEF HandlerFits, Rests
  <2>4. at'[c] \notin {"dispatch", "ack"} => Fits(QueueOf(c), Env(c))'
    BY <2>1, <2>2, FitsKept DEF HandlerFits, Rests
  <2>5. StageDone(c)'
    BY <2>1, <2>2 DEF HandlerFits, StageDone, RowStays, Rests
  <2>6. ReadFits(c)'
    <3>1. ASSUME at[c] = "set"
          PROVE  Decision(seen[c], Env(c))' = Decision(seen[c], Env(c))
      <4>1. CASE QueueOf(c) = "commands.q"
        <5>1. Env(c).stage \in CommandStages
          BY <2>1, <3>1, <4>1 DEF HandlerFits, Fits
        <5>2. transcribeFlags(Env(c)) = {} /\ transcribeFlags(Env(c))' = {}
          BY <2>2, <5>1, CommandFlags DEF transcribeFlags, CommandStages
        <5> QED BY <2>2, <5>2 DEF Decision, Rests
      <4>2. CASE flags'[s] = flags[s]
        BY <2>2, <4>2 DEF Decision, Rests, transcribeFlags
      <4> QED BY <3>1, <4>1, <4>2
    <3> QED BY <2>1, <2>2, <3>1 DEF HandlerFits, ReadFits, RowStays, Rests
  <2> QED BY <1>2, <2>3, <2>4, <2>5, <2>6 DEF HandlerOK, HandlerFits, Rests
<1> QED BY <1>1, <1>2

\* A handler that rests and drives nothing still fits when its row moves: a
\* command may have been read while the submission was at work or not there.
LEMMA HandlerMoved ==
  ASSUME TypeInv, NEW c \in Consumers, Rests(c), HandlerOK(c),
         at[c] # "idle" => c \notin Held(Sub(c)),
         QueueOf(c) = "commands.q" /\ at[c] \in {"decide", "set"}
           => state[Sub(c)] \in Automatic \cup {NoState}
  PROVE  HandlerOK(c)'
<1>1. CASE at[c] = "idle"
  BY <1>1 DEF Rests, HandlerOK
<1>2. CASE at[c] # "idle"
  <2> DEFINE s == Sub(c)
  <2>1. HandlerFits(c) /\ QueueOf(c) \in Queues
    BY <1>2 DEF HandlerOK, Consumers, QueueOf
  <2>2. /\ Sub(c)' = s /\ Env(c)' = Env(c) /\ s = Env(c).sub
        /\ at'[c] = at[c] /\ seen'[c] = seen[c] /\ goal'[c] = goal[c]
    BY DEF Rests, Sub, Env
  <2>3. ~Busy(c)
    BY <1>2 DEF Held, TypeInv, HandlerShape
  <2>4. CASE at[c] = "ack"
    BY <1>2, <2>1, <2>2, <2>4
       DEF HandlerOK, HandlerFits, StageDone, ReadFits, StepsOn
  <2>5. CASE at[c] = "dispatch"
    <3>1. goal[c] \notin Automatic
      BY <2>3, <2>5 DEF Busy
    <3> QED
      BY <1>2, <2>1, <2>2, <2>5, <3>1
         DEF HandlerOK, HandlerFits, StageDone, ReadFits, StepsOn
  <2>6. CASE at[c] \notin {"dispatch", "ack"}
    <3>1. QueueOf(c) = "commands.q"
      BY <2>3, <2>6 DEF Busy
    <3>2. at[c] \in {"get", "decide", "set"} /\ Env(c).stage \in CommandStages
      BY <2>1, <2>6, <3>1 DEF HandlerFits, StepsOn, Fits
    <3>3. at[c] # "set"
      <4> SUFFICES ASSUME at[c] = "set" PROVE FALSE
        OBVIOUS
      <4>1. /\ seen[c] \in Automatic \cup {NoState}
            /\ Decision(seen[c], Env(c)) \notin {Err, seen[c]}
        BY <2>1, <3>1 DEF HandlerFits, ReadFits
      <4>2. Env(c).stage \in CommandStages \ {"flagged_for_review"}
        BY <2>1, <3>1 DEF HandlerFits, Fits
      <4>3. seen[c] \in States \cup {NoState}
        BY DEF TypeInv, TypeOK, HandlerTypeOK
      <4> QED BY <4>1, <4>2, <4>3, CommandDecision
    <3>4. at[c] = "decide" => seen[c] \in Automatic \cup {NoState}
      BY <2>1, <3>1 DEF HandlerFits, ReadFits
    <3> QED
      BY <1>2, <2>1, <2>2, <3>1, <3>2, <3>3, <3>4
         DEF HandlerOK, HandlerFits, StageDone, ReadFits, StepsOn, Fits
  <2> QED BY <2>4, <2>5, <2>6
<1> QED BY <1>1, <1>2

\* The state of a row is kept, and its flags are, unless it is transcribing.
LEMMA RowKept ==
  ASSUME NEW s, RowStays(s), RowFits(s),
         state[s] = "transcription_review_required" => flags'[s] = flags[s]
  PROVE  RowFits(s)'
BY DEF RowStays, RowFits

---------------------------------------------------------------------------
(***************************************************************************)
(* Who drives a submission.                                                *)
(***************************************************************************)

\* A handler at work on s is its only driver, and the pipeline has s.
LEMMA Working ==
  ASSUME NEW s, Driven(s), NEW p \in Held(s)
  PROVE  state[s] \in Automatic /\ Held(s) = {p} /\ Waiting(s) = {}
BY DEF Driven, Single

\* A message that drives s is its only driver.
LEMMA Queued ==
  ASSUME NEW s, Driven(s), Waiting(s) # {}
  PROVE  state[s] \in Automatic /\ Held(s) = {} /\ Single(Waiting(s))
BY DEF Driven, Single

\* Only the consumers in P take, give back or finish work.
LEMMA HeldAfter ==
  ASSUME NEW P, \A c \in Consumers \ P : Rests(c), NEW s
  PROVE  /\ Held(s)' \ P = Held(s) \ P
         /\ (\A p \in P : p \in Held(s)' <=> p \in Held(s)) => Held(s)' = Held(s)
<1>1. ASSUME NEW c \in Consumers \ P
      PROVE  c \in Held(s)' <=> c \in Held(s)
  <2>1. hand'[c] = hand[c] /\ at'[c] = at[c] /\ goal'[c] = goal[c]
    BY DEF Rests
  <2>2. Sub(c)' = Sub(c) /\ Busy(c)' = Busy(c)
    BY <2>1 DEF Sub, Env, Busy
  <2> QED BY <2>1, <2>2 DEF Held
<1>2. Held(s) \subseteq Consumers /\ Held(s)' \subseteq Consumers
  BY DEF Held
<1> QED BY <1>1, <1>2

\* The messages that stay fit, as a row moves only when none drives it.
LEMMA MessagesAfter ==
  ASSUME TypeInv, FlowInv,
         \A q \in Queues : \A e \in EnvsOn(q)' : e \in EnvsOn(q) \/ Fits(q, e)',
         \A s \in Submissions : RowStays(s) \/ Waiting(s) = {}
  PROVE  MessagesFit'
<1> SUFFICES ASSUME NEW q \in Queues, NEW e \in EnvsOn(q) PROVE Fits(q, e)'
  BY DEF MessagesFit
<1>1. Fits(q, e)
  BY DEF FlowInv, MessagesFit
<1>2. e.sub \in Submissions /\ (q # "commands.q" => Waiting(e.sub) # {})
  BY EnvsAre DEF TypeInv, TypeOK, BusTypeOK, Contents
<1>3. CASE RowStays(e.sub)
  BY <1>1, <1>3, FitsKept
<1>4. CASE q = "commands.q"
  BY <1>1, <1>4 DEF Fits
<1> QED BY <1>2, <1>3, <1>4

\* The handlers that rest fit, as a row moves only when none of them drives it.
LEMMA HandlersAfter ==
  ASSUME TypeInv, FlowInv, NEW P,
         \A c \in Consumers \ P : Rests(c),
         \A p \in P : HandlerOK(p)',
         \A s \in Submissions :
           \/ RowStays(s) /\ flags'[s] = flags[s]
           \/ RowStays(s) /\ Held(s) \subseteq P
           \/ /\ Held(s) \subseteq P
              /\ \/ state[s] \in Automatic \cup {NoState}
                 \/ \A c \in Consumers \ P : QueueOf(c) # "commands.q"
  PROVE  HandlersFit'
<1> SUFFICES ASSUME NEW c \in Consumers \ P PROVE HandlerOK(c)'
  BY DEF HandlersFit, HandlerOK
<1>1. Rests(c) /\ HandlerOK(c)
  BY DEF FlowInv, HandlersFit, HandlerOK
<1>2. CASE at[c] = "idle"
  BY <1>1, <1>2 DEF Rests, HandlerOK
<1>3. CASE at[c] # "idle"
  <2> DEFINE s == Sub(c)
  <2>1. s \in Submissions /\ hand[c] # NoMsg
    BY <1>3, AtWork DEF TypeInv, HandlerShape
  <2>2. CASE RowStays(s) /\ flags'[s] = flags[s]
    BY <1>1, <2>2, HandlerKept
  <2>3. CASE RowStays(s) /\ Held(s) \subseteq P
    <3>1. at[c] = "set" => QueueOf(c) = "commands.q"
      BY <2>1, <2>3 DEF Held, Busy
    <3> QED BY <1>1, <2>3, <3>1, HandlerKept
  <2>4. CASE /\ Held(s) \subseteq P
             /\ \/ state[s] \in Automatic \cup {NoState}
                \/ \A x \in Consumers \ P : QueueOf(x) # "commands.q"
    BY <1>1, <2>4, HandlerMoved
  <2> QED BY <2>1, <2>2, <2>3, <2>4
<1> QED BY <1>2, <1>3

---------------------------------------------------------------------------
(***************************************************************************)
(* The kinds of step.                                                      *)
(***************************************************************************)
Untouched(s) == /\ state'[s] = state[s] /\ objects'[s] = objects[s]
                /\ flags'[s] = flags[s] /\ graded'[s] = graded[s]

LEMMA UntouchedKeeps ==
  ASSUME NEW s, Untouched(s)
  PROVE  RowStays(s) /\ flags'[s] = flags[s]
BY DEF Untouched, RowStays

LEMMA OthersRest ==
  ASSUME TypeInv, FlowInv, NEW p \in Consumers,
         \A c \in Consumers \ {p} : Rests(c), HandlerOK(p)',
         \A s \in Submissions : Untouched(s)
  PROVE  HandlersFit'
<1> DEFINE P == {p}
<1>1. (\A c \in Consumers \ P : Rests(c)) /\ \A x \in P : HandlerOK(x)'
  OBVIOUS
<1>2. \A s \in Submissions : RowStays(s) /\ flags'[s] = flags[s]
  BY UntouchedKeeps
<1> HIDE DEF P
<1> QED BY <1>1, <1>2, HandlersAfter

SameWaiting(s) == /\ Waiting(s)' = {} <=> Waiting(s) = {}
                  /\ Single(Waiting(s))' <=> Single(Waiting(s))

\* Nobody takes or gives work.
LEMMA QuietStep ==
  ASSUME TypeInv, FlowInv, NEW P,
         \A c \in Consumers \ P : Rests(c),
         \A p \in P : HandlerOK(p)',
         \A q \in Queues : \A e \in EnvsOn(q)' : e \in EnvsOn(q) \/ Fits(q, e)',
         \A s \in Submissions :
           /\ RowStays(s) /\ SameWaiting(s)
           /\ \A p \in P : p \in Held(s)' <=> p \in Held(s)
           /\ \/ flags'[s] = flags[s]
              \/ state[s] # "transcription_review_required" /\ Held(s) \subseteq P
  PROVE  FlowInv'
<1>1. MessagesFit'
  BY MessagesAfter
<1>2. HandlersFit'
  BY HandlersAfter
<1>3. ASSUME NEW s \in Submissions PROVE RowFits(s)' /\ Driven(s)'
  <2>1. RowFits(s) /\ Driven(s)
    BY DEF FlowInv
  <2>2. RowFits(s)'
    BY <2>1, RowKept
  <2>3. Held(s)' = Held(s) /\ state'[s] = state[s]
    BY HeldAfter DEF RowStays
  <2>4. Driven(s)'
    BY <2>1, <2>3 DEF Driven, SameWaiting, Single
  <2> QED BY <2>2, <2>4
<1> QED BY <1>1, <1>2, <1>3 DEF FlowInv

\* p hands its work on as a message.
LEMMA GiveStep ==
  ASSUME TypeInv, FlowInv, NEW p \in Consumers, NEW s0, p \in Held(s0),
         \A c \in Consumers \ {p} : Rests(c),
         HandlerOK(p)', \A s : p \notin Held(s)',
         \A s \in Submissions : Untouched(s),
         NEW q \in DrivingQueues, NEW env, env.sub = s0, Fits(q, env)',
         Added(queue, queue', q, env)
  PROVE  FlowInv'
<1>1. q \in Queues /\ q # "commands.q"
  BY DrivingQueuesAre
<1>2. MessagesFit'
  BY <1>1, AddedEnvs, MessagesAfter, UntouchedKeeps
<1>3. HandlersFit'
  BY OthersRest
<1>4. ASSUME NEW s \in Submissions PROVE RowFits(s)' /\ Driven(s)'
  <2>1. RowFits(s) /\ Driven(s)
    BY DEF FlowInv
  <2>2. RowFits(s)' /\ state'[s] = state[s]
    BY <2>1, RowKept, UntouchedKeeps DEF Untouched
  <2>3. Held(s)' = Held(s) \ {p}
    <3>1. Held(s)' \ {p} = Held(s) \ {p}
      BY HeldAfter
    <3> QED BY <3>1
  <2>4. Waiting(s) = Places(queue, s) /\ Waiting(s)' = Places(queue', s)
    BY WaitingPlaces
  <2>5. CASE s = s0
    <3>1. state[s] \in Automatic /\ Held(s) = {p} /\ Waiting(s) = {}
      BY <2>1, <2>5, Working
    <3>2. Single(Places(queue', s))
      BY <1>1, <2>4, <2>5, <3>1, AddedPlaces
    <3> QED BY <2>2, <2>3, <2>4, <3>1, <3>2 DEF Driven, Single
  <2>6. CASE s # s0
    <3>1. p \notin Held(s)
      BY <2>6 DEF Held
    <3>2. /\ Places(queue', s) = {} <=> Places(queue, s) = {}
          /\ Single(Places(queue', s)) <=> Single(Places(queue, s))
      BY <1>1, <2>6, AddedPlaces
    <3> QED BY <2>1, <2>2, <2>3, <2>4, <3>1, <3>2 DEF Driven, Single
  <2> QED BY <2>5, <2>6
<1> QED BY <1>2, <1>3, <1>4 DEF FlowInv

\* p takes a message of s0; unless it is a command, it takes work.
LEMMA TakeStep ==
  ASSUME TypeInv, FlowInv, NEW p \in Consumers, NEW env,
         AddedFirst(queue', queue, QueueOf(p), env),
         \A c \in Consumers \ {p} : Rests(c),
         \A s : p \notin Held(s),
         \A s : p \in Held(s)' <=> s = env.sub /\ QueueOf(p) # "commands.q",
         HandlerOK(p)',
         \A s \in Submissions : Untouched(s)
  PROVE  FlowInv'
<1> DEFINE q == QueueOf(p)
<1>1. q \in Queues
  BY DEF Consumers, QueueOf
<1>2. Added(queue', queue, q, env)
  BY DEF Added
<1>3. MessagesFit'
  BY <1>1, TakenEnvs, MessagesAfter, UntouchedKeeps
<1>4. HandlersFit'
  BY OthersRest
<1>5. ASSUME NEW s \in Submissions PROVE RowFits(s)' /\ Driven(s)'
  <2>1. RowFits(s) /\ Driven(s)
    BY DEF FlowInv
  <2>2. RowFits(s)' /\ state'[s] = state[s]
    BY <2>1, RowKept, UntouchedKeeps DEF Untouched
  <2>3. Held(s)' \ {p} = Held(s)
    BY HeldAfter
  <2>4. Waiting(s) = Places(queue, s) /\ Waiting(s)' = Places(queue', s)
    BY WaitingPlaces
  <2>5. CASE q = "commands.q" \/ s # env.sub
    <3>1. Held(s)' = Held(s)
      BY <2>3, <2>5
    <3>2. /\ Places(queue, s) = {} <=> Places(queue', s) = {}
          /\ Single(Places(queue, s)) <=> Single(Places(queue', s))
      BY <1>1, <1>2, <2>5, AddedPlaces
    <3> QED BY <2>1, <2>2, <2>4, <3>1, <3>2 DEF Driven, Single
  <2>6. CASE q # "commands.q" /\ s = env.sub
    <3>1. /\ Single(Places(queue, s)) <=> Places(queue', s) = {}
          /\ Places(queue, s) # {}
      BY <1>1, <1>2, <2>6, AddedPlaces
    <3>2. state[s] \in Automatic /\ Held(s) = {} /\ Single(Waiting(s))
      BY <2>1, <2>4, <3>1, Queued
    <3>3. Held(s)' = {p}
      BY <2>3, <2>6, <3>2
    <3> QED BY <2>2, <2>4, <3>1, <3>2, <3>3 DEF Driven, Single
  <2> QED BY <2>5, <2>6
<1> QED BY <1>3, <1>4, <1>5 DEF FlowInv

\* The row of s0 moves; of the handlers of s0 only p drives it.
LEMMA RowMoves ==
  ASSUME TypeInv, FlowInv, NEW P, NEW s0 \in Submissions,
         queue' = queue,
         \A c \in Consumers \ P : Rests(c),
         \A p \in P : HandlerOK(p)',
         \A s \in Submissions \ {s0} :
           Untouched(s) /\ \A p \in P : p \in Held(s)' <=> p \in Held(s),
         Waiting(s0) = {}, Held(s0) \subseteq P,
         IF state'[s0] \in Automatic THEN P # {} /\ \A p \in P : Held(s0)' = {p}
         ELSE \A p \in P : p \notin Held(s0)',
         \/ state[s0] \in Automatic \cup {NoState}
         \/ \A c \in Consumers \ P : QueueOf(c) # "commands.q",
         RowFits(s0)'
  PROVE  FlowInv'
<1>1. \A q \in Queues : EnvsOn(q)' = EnvsOn(q)
  BY DEF EnvsOn
<1>2. MessagesFit'
  BY <1>1, MessagesAfter, UntouchedKeeps
<1>3. HandlersFit'
  BY HandlersAfter, UntouchedKeeps
<1>4. ASSUME NEW s \in Submissions PROVE RowFits(s)' /\ Driven(s)'
  <2>1. RowFits(s) /\ Driven(s)
    BY DEF FlowInv
  <2>2. Waiting(s)' = Waiting(s)
    BY WaitingPlaces
  <2>3. Held(s)' \ P = Held(s) \ P
    BY HeldAfter
  <2>4. CASE s = s0
    BY <2>2, <2>3, <2>4 DEF Driven, Single
  <2>5. CASE s # s0
    <3>1. Held(s)' = Held(s)
      BY <2>5, HeldAfter
    <3>2. RowFits(s)'
      BY <2>1, <2>5, RowKept, UntouchedKeeps
    <3> QED BY <2>1, <2>2, <2>5, <3>1, <3>2 DEF Driven, Single, Untouched
  <2> QED BY <2>4, <2>5
<1> QED BY <1>2, <1>3, <1>4 DEF FlowInv
---------------------------------------------------------------------------
(***************************************************************************)
(* Consumers.                                                              *)
(***************************************************************************)

\* The other consumers rest.
LEMMA OnlyOneActs ==
  ASSUME TypeInv, NEW p \in Consumers, ConsumerStep(p)
  PROVE  \A c \in Consumers \ {p} : Rests(c)
<1> SUFFICES ASSUME NEW c \in Consumers \ {p} PROVE Rests(c)
  OBVIOUS
<1> USE DEF Rests, Goto, TypeInv, TypeOK, BusTypeOK, HandlerTypeOK
<1>1. CASE Deliver(p)
  BY <1>1 DEF Deliver, Receive
<1>2. CASE Finish(p)
  BY <1>2 DEF Finish, Ack, Return
<1>3. CASE OrchestratorStep(p)
  BY <1>3
     DEF OrchestratorStep, GetSubmission, Decide, SetSubmissionState, dispatchNext,
         FailSubmission, Reject, Nack, Ack, Return, busVars
<1>4. CASE WorkerStep(p)
  BY <1>4
     DEF WorkerStep, Render, Transcribe, PutFlags, GradePaper,
         archivePriorGradedArtifact, PutGraded, PublishResult, StageRejects,
         Reject, Nack, Return, busVars
<1> QED BY <1>1, <1>2, <1>3, <1>4 DEF ConsumerStep

\* A handler at work fits its submission.
LEMMA AtWorkFits ==
  ASSUME TypeInv, FlowInv, NEW p \in Consumers, at[p] # "idle"
  PROVE  /\ hand[p] # NoMsg /\ HandlerFits(p) /\ QueueOf(p) \in Queues
         /\ Sub(p) \in Submissions /\ Sub(p) = Env(p).sub
         /\ RowFits(Sub(p)) /\ Driven(Sub(p))
         /\ \A s : p \in Held(s) <=> s = Sub(p) /\ Busy(p)
<1>1. hand[p] # NoMsg /\ Sub(p) \in Submissions
  BY AtWork DEF TypeInv, HandlerShape
<1> QED
  BY <1>1 DEF FlowInv, HandlersFit, Consumers, QueueOf, Held, Sub

\* A handler that goes on with its delivery, is about to return, or returns.
LEMMA HandlerGoes ==
  ASSUME TypeInv, FlowInv, NEW p \in Consumers, at[p] \notin {"idle", "dispatch", "ack"},
         hand'[p] = hand[p], RowStays(Sub(p)),
         at'[p] \in StepsOn(QueueOf(p)), at'[p] # "idle",
         StageDone(p)', ReadFits(p)'
  PROVE  HandlerOK(p)'
<1>1. Fits(QueueOf(p), Env(p)) /\ QueueOf(p) \in Queues /\ Sub(p) = Env(p).sub
  BY AtWorkFits DEF HandlerFits
<1>2. Fits(QueueOf(p), Env(p))' /\ Env(p)' = Env(p)
  BY <1>1, FitsKept DEF Env
<1> QED BY <1>2 DEF HandlerOK, HandlerFits, Fits, ResultFits

LEMMA HandlerDone ==
  ASSUME NEW p, at'[p] = "ack"
  PROVE  HandlerOK(p)'
BY DEF HandlerOK, HandlerFits, StageDone, ReadFits

LEMMA HandlerReturns ==
  ASSUME TypeInv, NEW p \in Consumers, Return(p), hand'[p] = NoMsg
  PROVE  HandlerOK(p)' /\ \A s : p \notin Held(s)'
BY DEF TypeInv, TypeOK, HandlerTypeOK, Return, Goto, HandlerOK, Held

\* A handler works at what it holds.
LEMMA QuietHandler ==
  ASSUME TypeInv, FlowInv, NEW p \in Consumers,
         \A c \in Consumers \ {p} : Rests(c), HandlerOK(p)', queue' = queue,
         \A s \in Submissions :
           /\ RowStays(s) /\ (p \in Held(s)' <=> p \in Held(s))
           /\ flags'[s] = flags[s] \/ (state[s] = "transcribing" /\ p \in Held(s))
  PROVE  FlowInv'
<1> DEFINE P == {p}
<1>1. /\ \A c \in Consumers \ P : Rests(c)
      /\ \A x \in P : HandlerOK(x)'
      /\ \A s \in Submissions : \A x \in P : x \in Held(s)' <=> x \in Held(s)
  OBVIOUS
<1>2. \A q \in Queues : EnvsOn(q)' = EnvsOn(q)
  BY DEF EnvsOn
<1>3. ASSUME NEW s \in Submissions
      PROVE  /\ SameWaiting(s)
             /\ \/ flags'[s] = flags[s]
                \/ state[s] # "transcription_review_required" /\ Held(s) \subseteq P
  <2>1. Waiting(s)' = Waiting(s)
    BY WaitingPlaces
  <2>2. p \in Held(s) => Held(s) = {p}
    BY Working DEF FlowInv
  <2> QED BY <2>1, <2>2 DEF SameWaiting, Single
<1> HIDE DEF P
<1> QED BY <1>1, <1>2, <1>3, QuietStep
\* A delivery is taken: a message becomes a handler at its first call.
LEMMA DeliverFlow ==
  ASSUME TypeInv, FlowInv, NEW p \in Consumers, Deliver(p)
  PROVE  FlowInv'
<1> DEFINE q == QueueOf(p)
<1> PICK env : env = queue[q][1].env
  OBVIOUS
<1>1. /\ AddedFirst(queue', queue, q, env)
      /\ 1 \in DOMAIN queue[q]
      /\ hand' = [hand EXCEPT ![p] = queue[q][1]]
      /\ q \in Queues
  BY TakenAt DEF Deliver, TypeInv, TypeOK, BusTypeOK, Contents, Consumers, QueueOf
<1>2. at[p] = "idle" /\ \A s : p \notin Held(s)
  BY DEF Deliver, Receive, TypeInv, HandlerShape, Held
<1>3. /\ \A c \in Consumers \ {p} : Rests(c)
      /\ \A s \in Submissions : Untouched(s)
  BY OnlyOneActs
     DEF ConsumerStep, Deliver, tableVars, storeVars, gradeVars, Untouched
<1>4. env \in EnvsOn(q) /\ Fits(q, env) /\ env.sub \in Submissions
  <2>1. env \in EnvsOn(q)
    BY <1>1 DEF EnvsOn
  <2> QED
    BY <1>1, <2>1, EnvsAre DEF FlowInv, MessagesFit, TypeInv, TypeOK, BusTypeOK, Contents
<1>5. queue[q][1] \in Deliveries
  BY <1>1, ElementOfSeq, LenProperties DEF TypeInv, TypeOK, BusTypeOK
<1>6. /\ hand'[p] = queue[q][1] /\ hand'[p] # NoMsg
      /\ Env(p)' = env /\ Sub(p)' = env.sub
      /\ at'[p] = FirstStep(q)
  BY <1>1, <1>5, EmptyAssumption
     DEF Env, Sub, Deliver, Goto, TypeInv, TypeOK, BusTypeOK, HandlerTypeOK
<1>7. Fits(q, Env(p))'
  <2>1. Fits(q, env)'
    BY <1>1, <1>3, <1>4, FitsKept, UntouchedKeeps
  <2> QED BY <1>6, <2>1 DEF Fits, ResultFits
<1>8. /\ FirstStep(q) \in StepsOn(q)
      /\ FirstStep(q) \in {"get", "render", "transcribe", "grade", "fail"}
  BY <1>1 DEF FirstStep, StepsOn
<1>9. HandlerOK(p)'
  BY <1>6, <1>7, <1>8 DEF HandlerOK, HandlerFits, StageDone, ReadFits
<1>10. \A s : p \in Held(s)' <=> s = env.sub /\ q # "commands.q"
  BY <1>6, <1>8 DEF Held, Busy
<1> QED BY <1>1, <1>2, <1>3, <1>9, <1>10, TakeStep

\* A handler that has done its work is acknowledged.
LEMMA FinishFlow ==
  ASSUME TypeInv, FlowInv, NEW p \in Consumers, Finish(p)
  PROVE  FlowInv'
<1>1. at[p] = "ack" /\ Ack(p) /\ Return(p) /\ queue' = queue
  BY DEF Finish, Ack
<1>2. hand'[p] = NoMsg
  BY <1>1 DEF Ack, TypeInv, TypeOK, BusTypeOK
<1>3. \A c \in Consumers \ {p} : Rests(c)
  BY OnlyOneActs DEF ConsumerStep
<1>4. HandlerOK(p)' /\ \A s : p \notin Held(s)'
  BY <1>1, <1>2, HandlerReturns
<1>5. \A s \in Submissions : p \notin Held(s) /\ RowStays(s) /\ flags'[s] = flags[s]
  BY <1>1 DEF Finish, Held, Busy, RowStays, tableVars, storeVars, gradeVars
<1> QED BY <1>1, <1>3, <1>4, <1>5, QuietHandler

\* The orchestrator reads a row.
LEMMA GetFlow ==
  ASSUME TypeInv, FlowInv, NEW p \in Consumers, GetSubmission(p)
  PROVE  FlowInv'
<1>1. /\ at[p] = "get" /\ at'[p] = "decide" /\ seen'[p] = state[Sub(p)]
      /\ UNCHANGED <<queue, hand, goal>>
      /\ UNCHANGED <<state, objects, flags, graded>>
  BY DEF GetSubmission, Goto, busVars, tableVars, storeVars, gradeVars, TypeInv,
         TypeOK, HandlerTypeOK
<1>2. HandlerFits(p) /\ QueueOf(p) \in {"commands.q", "results.q"}
  BY <1>1, AtWorkFits DEF HandlerFits, StepsOn
<1>3. \A s \in Submissions : RowStays(s)
  BY <1>1 DEF RowStays
<1>4. StageDone(p)' /\ ReadFits(p)'
  BY <1>1, <1>2 DEF StageDone, ReadFits, Sub, Env
<1>5. HandlerOK(p)'
  BY <1>1, <1>2, <1>3, <1>4, AtWorkFits, HandlerGoes DEF StepsOn
<1>6. \A s : p \in Held(s)' <=> p \in Held(s)
  BY <1>1 DEF Held, Busy, Sub, Env
<1>7. \A c \in Consumers \ {p} : Rests(c)
  BY OnlyOneActs DEF ConsumerStep, OrchestratorStep
<1> QED BY <1>1, <1>3, <1>5, <1>6, <1>7, QuietHandler

\* A handler that returns an error on a command: the command is tried again or
\* dropped.
LEMMA RejectCommand ==
  ASSUME TypeInv, FlowInv, NEW p \in Consumers, ConsumerStep(p), at[p] # "idle",
         QueueOf(p) = "commands.q", at[p] \notin {"dispatch", "ack"}, Reject(p),
         \A s \in Submissions : Untouched(s)
  PROVE  FlowInv'
<1> DEFINE P == {p}
<1>1. hand[p] \in Deliveries /\ Env(p) \in Envelopes
  BY AtWork
<1>2. /\ Return(p) /\ hand'[p] = NoMsg
      /\ queue' = Requeued(p) \/ queue' = queue
  BY DEF Reject, Nack, StageQueues, TypeInv, TypeOK, BusTypeOK
<1>3. \A s : p \notin Held(s)
  BY DEF Held, Busy
<1>4. HandlerOK(p)' /\ \A s : p \notin Held(s)'
  BY <1>2, HandlerReturns
<1>5. /\ \A c \in Consumers \ P : Rests(c)
      /\ \A x \in P : HandlerOK(x)'
      /\ \A s \in Submissions : \A x \in P : x \in Held(s)' <=> x \in Held(s)
  BY <1>3, <1>4, OnlyOneActs
<1>6. \A s \in Submissions : RowStays(s) /\ flags'[s] = flags[s]
  BY UntouchedKeeps
<1>7. /\ \A s \in Submissions : SameWaiting(s)
      /\ \A q \in Queues : \A e \in EnvsOn(q)' : e \in EnvsOn(q) \/ Fits(q, e)'
  <2>1. CASE queue' = queue
    BY <2>1, WaitingPlaces DEF SameWaiting, EnvsOn, Single
  <2>2. CASE queue' = Requeued(p)
    <3>1. Added(queue, queue', "commands.q", Env(p)) /\ "commands.q" \in Queues
      BY <1>1, <2>2, RequeuedAt, DrivingQueuesAre
         DEF Added, TypeInv, TypeOK, BusTypeOK, Contents
    <3>2. ASSUME NEW s PROVE SameWaiting(s)
      <4>1. /\ Places(queue', s) = {} <=> Places(queue, s) = {}
            /\ Single(Places(queue', s)) <=> Single(Places(queue, s))
        BY <3>1, AddedPlaces
      <4> QED BY <4>1, WaitingPlaces DEF SameWaiting, Single
    <3>3. \A e : e = Env(p) => Fits("commands.q", e)'
      BY AtWorkFits DEF HandlerFits, Fits
    <3> QED BY <3>1, <3>2, <3>3, AddedEnvs
  <2> QED BY <1>2, <2>1, <2>2
<1> HIDE DEF P
<1> QED BY <1>5, <1>6, <1>7, QuietStep
\* What is to be written: a decision is made on the state as it is, and moves
\* it along an edge; a result's is never refused nor a repetition.
LEMMA DecidingFits ==
  ASSUME TypeInv, FlowInv, NEW p \in Consumers, at[p] = "decide"
  PROVE  LET next == Decision(seen[p], Env(p)) IN
         /\ QueueOf(p) \in {"commands.q", "results.q"}
         /\ QueueOf(p) = "results.q" => next \notin {Err, seen[p]}
         /\ next \notin {Err, seen[p]} => seen[p] = state[Sub(p)]
<1> DEFINE next == Decision(seen[p], Env(p))
           s == Sub(p)
<1>1. HandlerFits(p) /\ s = Env(p).sub /\ QueueOf(p) \in Queues
  BY AtWorkFits
<1>2. QueueOf(p) \in {"commands.q", "results.q"} /\ Fits(QueueOf(p), Env(p))
  BY <1>1 DEF HandlerFits, StepsOn
<1>3. ASSUME QueueOf(p) = "results.q"
      PROVE  seen[p] = state[s] /\ next \notin {Err, seen[p]}
  <2>1. seen[p] = state[s] /\ ResultFits(Env(p))
    BY <1>1, <1>2, <1>3 DEF HandlerFits, ReadFits, Fits
  <2> HIDE DEF next
  <2>2. next = Decision(state[s], Env(p))
    BY <2>1 DEF next
  <2> QED BY <1>1, <2>1, <2>2, ResultDecision DEF Err
<1>4. ASSUME QueueOf(p) = "commands.q", next \notin {Err, seen[p]}
      PROVE  seen[p] = state[s]
  <2>1. Env(p).stage \in CommandStages \ {"flagged_for_review"}
    BY <1>2, <1>4 DEF Fits
  <2>2. seen[p] \in States \cup {NoState}
    BY DEF TypeInv, TypeOK, HandlerTypeOK
  <2>3. seen[p] \notin Automatic \cup {NoState}
    BY <1>4, <2>1, <2>2, CommandDecision
  <2> QED BY <1>1, <1>4, <2>3 DEF HandlerFits, ReadFits
<1> QED BY <1>2, <1>3, <1>4

LEMMA DecideFlow ==
  ASSUME TypeInv, FlowInv, NEW p \in Consumers, Decide(p)
  PROVE  FlowInv'
<1> DEFINE next == Decision(seen[p], Env(p))
           s == Sub(p)
<1>1. at[p] = "decide" /\ UNCHANGED <<state, objects, flags, graded>>
  BY DEF Decide, tableVars, storeVars, gradeVars
<1>2. /\ QueueOf(p) \in {"commands.q", "results.q"}
      /\ QueueOf(p) = "results.q" => next \notin {Err, seen[p]}
      /\ next \notin {Err, seen[p]} => seen[p] = state[s]
  BY <1>1, DecidingFits
<1>3. ConsumerStep(p) /\ \A c \in Consumers \ {p} : Rests(c)
  BY OnlyOneActs DEF ConsumerStep, OrchestratorStep
<1>4. \A u \in Submissions : Untouched(u) /\ RowStays(u) /\ flags'[u] = flags[u]
  BY <1>1 DEF Untouched, RowStays
<1> HIDE DEF next
<1>5. CASE next = Err /\ Reject(p)
  BY <1>1, <1>2, <1>3, <1>4, <1>5, RejectCommand
<1>6. CASE next = seen[p] /\ Ack(p) /\ Return(p)
  <2>1. QueueOf(p) = "commands.q"
    BY <1>2, <1>6
  <2>2. queue' = queue /\ hand'[p] = NoMsg
    BY <1>6 DEF Ack, TypeInv, TypeOK, BusTypeOK
  <2>3. HandlerOK(p)' /\ \A u : p \notin Held(u)'
    BY <1>6, <2>2, HandlerReturns
  <2>4. \A u : p \notin Held(u)
    BY <1>1, <2>1 DEF Held, Busy
  <2> QED BY <1>3, <1>4, <2>2, <2>3, <2>4, QuietHandler
<1>7. CASE /\ next \notin {Err, seen[p]}
           /\ goal' = [goal EXCEPT ![p] = next]
           /\ Goto(p, "set")
           /\ UNCHANGED <<busVars, seen, mark>>
  <2>1. /\ at'[p] = "set" /\ goal'[p] = next /\ seen'[p] = seen[p]
        /\ queue' = queue /\ hand' = hand
    BY <1>7 DEF Goto, busVars, TypeInv, TypeOK, HandlerTypeOK
  <2>2. Env(p)' = Env(p) /\ Sub(p)' = s
    BY <2>1 DEF Env, Sub
  <2>3. Decision(seen[p], Env(p))' = next
    BY <1>1, <2>1, <2>2 DEF next, Decision, transcribeFlags
  <2>4. StageDone(p)' /\ ReadFits(p)'
    <3>1. seen[p] = state[s]
      BY <1>2, <1>7
    <3> QED BY <1>1, <1>2, <1>7, <2>1, <2>2, <2>3, <3>1 DEF StageDone, ReadFits
  <2>5. HandlerOK(p)'
    <3>1. s \in Submissions
      BY <1>1, AtWorkFits
    <3> QED BY <1>1, <1>2, <1>4, <2>1, <2>4, <3>1, HandlerGoes DEF StepsOn
  <2>6. \A u : p \in Held(u)' <=> p \in Held(u)
    BY <1>1, <2>1, <2>2 DEF Held, Busy
  <2> QED BY <1>3, <1>4, <2>1, <2>5, <2>6, QuietHandler
<1> QED BY <1>5, <1>6, <1>7 DEF Decide, next

\* One consumer of a queue, one replica.
LEMMA OneConsumer ==
  ASSUME OneReplica, NEW p \in Consumers, NEW c \in Consumers \ {p}
  PROVE  QueueOf(c) # QueueOf(p)
<1>1. PICK r \in Replicas : Replicas = {r}
  BY DEF OneReplica
<1>2. p = <<r, QueueOf(p)>> /\ c = <<r, QueueOf(c)>>
  BY <1>1 DEF Consumers, QueueOf
<1> QED BY <1>2

\* What is written moves the state along an edge, to one whose artifacts exist.
LEMMA SettingFits ==
  ASSUME TypeInv, FlowInv, NEW p \in Consumers, at[p] = "set", NEW s, s = Sub(p)
  PROVE  /\ QueueOf(p) \in {"commands.q", "results.q"}
         /\ QueueOf(p) = "results.q" <=> p \in Held(s)
         /\ Waiting(s) = {} /\ Held(s) \subseteq {p}
         /\ state[s] \in Automatic => p \in Held(s)
         /\ state[s] # NoState
         /\ goal[p] \in States /\ CanTransition(state[s], goal[p])
         /\ UNCHANGED <<objects, flags, graded>> /\ state'[s] = goal[p] => RowFits(s)'
<1>1. /\ HandlerFits(p) /\ s = Env(p).sub /\ QueueOf(p) \in Queues
      /\ RowFits(s) /\ Driven(s) /\ s \in Submissions
      /\ \A u : p \in Held(u) <=> u = s /\ Busy(p)
  BY AtWorkFits
<1>2. QueueOf(p) \in {"commands.q", "results.q"} /\ Fits(QueueOf(p), Env(p))
  BY <1>1 DEF HandlerFits, StepsOn
<1>3. /\ state[s] = seen[p] /\ goal[p] = Decision(state[s], Env(p))
      /\ goal[p] \notin {Err, state[s]}
  BY <1>1 DEF HandlerFits, ReadFits
<1>4. state[s] \in States \cup {NoState} /\ NoState \notin States \cup {Err}
  BY <1>1, NullAssumption DEF TypeInv, TypeOK, RowTypeOK
<1>5. ASSUME QueueOf(p) = "results.q"
      PROVE  /\ state[s] \in Automatic
             /\ goal[p] \in States /\ CanTransition(state[s], goal[p])
             /\ UNCHANGED <<objects, flags, graded>> /\ state'[s] = goal[p] => RowFits(s)'
  <2>1. ResultFits(Env(p))
    BY <1>2, <1>5 DEF Fits
  <2>2. \/ /\ <<state[s], goal[p]>> \in {<<"queued", "splitting_pages">>,
                  <<"splitting_pages", "extracting_metadata">>,
                  <<"extracting_metadata", "transcribing">>}
           /\ "render-result.json" \in objects[s]
        \/ /\ state[s] = "transcribing"
           /\ "transcript.v1.json" \in objects[s] /\ flags[s] # NoFlags
           /\ \/ goal[p] = "grading"
              \/ /\ goal[p] = "transcription_review_required"
                 /\ EvaluateGates(flags[s], DefaultTunables) # {}
        \/ state[s] = "grading" /\ goal[p] = "teacher_review" /\ graded[s] # 0
    BY <1>1, <1>3, <2>1, ResultDecision
  <2>3. state[s] \in Automatic /\ goal[p] \in States
    BY <2>2 DEF Automatic, States
  <2>4. CanTransition(state[s], goal[p])
    BY <2>2 DEF States, CanTransition, transitions
  <2>5. ASSUME UNCHANGED <<objects, flags, graded>>, state'[s] = goal[p]
        PROVE  RowFits(s)'
    <3>1. state[s] # NoState
      BY <1>4, <2>3 DEF Automatic, States
    <3> QED BY <1>1, <2>2, <2>5, <3>1 DEF RowFits, Finalised
  <2> QED BY <2>3, <2>4, <2>5
<1>6. ASSUME QueueOf(p) = "commands.q"
      PROVE  /\ state[s] \notin Automatic \cup {NoState}
             /\ goal[p] \in States /\ CanTransition(state[s], goal[p])
             /\ UNCHANGED <<objects, flags, graded>> /\ state'[s] = goal[p] => RowFits(s)'
  <2>1. Env(p).stage \in CommandStages \ {"flagged_for_review"}
    BY <1>2, <1>6 DEF Fits
  <2>2. /\ state[s] \notin Automatic \cup {NoState}
        /\ <<state[s], goal[p]>> \in
             {<<"uploaded", "queued">>,
              <<"transcription_review_required", "transcribing">>,
              <<"transcription_review_required", "grading">>,
              <<"grading_review_required", "grading">>,
              <<"teacher_review", "approved">>, <<"approved", "published">>,
              <<"published", "exported">>, <<"approved", "grading">>,
              <<"published", "grading">>, <<"exported", "grading">>}
    BY <1>3, <1>4, <2>1, CommandDecision
  <2>3. goal[p] \in States
    BY <2>2 DEF States
  <2>4. CanTransition(state[s], goal[p])
    BY <2>2 DEF States, CanTransition, transitions
  <2>5. ASSUME UNCHANGED <<objects, flags, graded>>, state'[s] = goal[p]
        PROVE  RowFits(s)'
    BY <1>1, <2>2, <2>5 DEF RowFits, Finalised
  <2> QED BY <2>2, <2>3, <2>4, <2>5
<1>7. Busy(p) <=> QueueOf(p) = "results.q"
  BY <1>2 DEF Busy
<1>8. Waiting(s) = {} /\ Held(s) \subseteq {p}
  <2>1. CASE QueueOf(p) = "results.q"
    BY <1>1, <1>7, <2>1, Working
  <2>2. CASE QueueOf(p) = "commands.q"
    BY <1>1, <1>6, <2>2 DEF Driven
  <2> QED BY <1>2, <2>1, <2>2
<1> QED BY <1>1, <1>2, <1>4, <1>5, <1>6, <1>7, <1>8 DEF Automatic, States
\* p moves the row of its submission, which nobody else drives.
LEMMA HandlerMovesRow ==
  ASSUME TypeInv, FlowInv, OneReplica, NEW p \in Consumers, at[p] # "idle",
         NEW s0, s0 = Sub(p),
         ConsumerStep(p), HandlerOK(p)', UNCHANGED <<queue, hand>>,
         \A s \in Submissions \ {s0} : Untouched(s),
         Waiting(s0) = {}, Held(s0) \subseteq {p},
         Busy(p)' <=> state'[s0] \in Automatic,
         state[s0] \in Automatic \/ QueueOf(p) = "commands.q",
         RowFits(s0)'
  PROVE  FlowInv'
<1> DEFINE P == {p}
<1>1. /\ hand[p] # NoMsg /\ s0 \in Submissions
      /\ \A s : p \in Held(s) <=> s = s0 /\ Busy(p)
  BY AtWorkFits
<1>2. \A s : p \in Held(s)' <=> s = s0 /\ Busy(p)'
  BY <1>1 DEF Held, Sub, Env
<1>3. \A c \in Consumers \ P : Rests(c)
  BY OnlyOneActs
<1>4. \/ state[s0] \in Automatic \cup {NoState}
      \/ \A c \in Consumers \ P : QueueOf(c) # "commands.q"
  BY OneConsumer
<1>5. \A s \in Submissions \ {s0} :
        Untouched(s) /\ \A x \in P : x \in Held(s)' <=> x \in Held(s)
  BY <1>1, <1>2
<1>6. IF state'[s0] \in Automatic THEN P # {} /\ \A x \in P : Held(s0)' = {x}
      ELSE \A x \in P : x \notin Held(s0)'
  <2>1. Held(s0)' \ P = Held(s0) \ P
    BY <1>3, HeldAfter
  <2> QED BY <1>2, <2>1
<1>7. (\A x \in P : HandlerOK(x)') /\ Held(s0) \subseteq P /\ queue' = queue
  OBVIOUS
<1> HIDE DEF P
<1> QED BY <1>1, <1>3, <1>4, <1>5, <1>6, <1>7, RowMoves

LEMMA SetFlow ==
  ASSUME TypeInv, FlowInv, OneReplica, NEW p \in Consumers, SetSubmissionState(p)
  PROVE  FlowInv'
<1> PICK s0 : s0 = Sub(p)
  OBVIOUS
<1>1. /\ at[p] = "set" /\ s0 \in Submissions
      /\ UNCHANGED <<queue, hand, objects, flags, graded, goal>>
  BY AtWorkFits
     DEF SetSubmissionState, busVars, storeVars, gradeVars
<1>2. /\ at'[p] = "dispatch"
      /\ state'[s0] = goal[p]
      /\ \A s \in Submissions \ {s0} : state'[s] = state[s]
  BY <1>1
     DEF SetSubmissionState, Goto, TypeInv, TypeOK, RowTypeOK, HandlerTypeOK
<1>3. /\ QueueOf(p) \in {"commands.q", "results.q"}
      /\ QueueOf(p) = "results.q" <=> p \in Held(s0)
      /\ Waiting(s0) = {} /\ Held(s0) \subseteq {p}
      /\ state[s0] \in Automatic => p \in Held(s0)
      /\ RowFits(s0)'
  BY <1>1, <1>2, SettingFits
<1>4. Driven(s0)
  BY <1>1 DEF FlowInv
<1>5. Sub(p)' = s0
  BY <1>1 DEF Sub, Env
<1>6. HandlerOK(p)'
  BY <1>1, <1>2, <1>3, <1>5
     DEF HandlerOK, HandlerFits, StepsOn, StageDone, ReadFits
<1>7. Busy(p)' <=> state'[s0] \in Automatic
  BY <1>1, <1>2 DEF Busy
<1>8. state[s0] \in Automatic \/ QueueOf(p) = "commands.q"
  BY <1>3, <1>4, Working
<1>9. \A s \in Submissions \ {s0} : Untouched(s)
  BY <1>1, <1>2 DEF Untouched
<1>10. ConsumerStep(p)
  BY DEF ConsumerStep, OrchestratorStep
<1> QED BY <1>1, <1>3, <1>6, <1>7, <1>8, <1>9, <1>10, HandlerMovesRow

\* A dead letter finds its submission in the state of its stage, and fails it.
LEMMA FailingFits ==
  ASSUME TypeInv, FlowInv, NEW p \in Consumers, at[p] = "fail"
  PROVE  /\ state[Sub(p)] \in {"queued", "transcribing", "grading"}
         /\ p \in Held(Sub(p)) /\ QueueOf(p) # "commands.q"
<1>1. /\ HandlerFits(p) /\ Sub(p) = Env(p).sub /\ QueueOf(p) \in Queues
      /\ p \in Held(Sub(p)) <=> Busy(p)
  BY AtWorkFits
<1>2. /\ QueueOf(p) \in StageDLQs /\ Fits(QueueOf(p), Env(p))
      /\ QueueOf(p) \notin {"commands.q", "results.q"}
  <2>1. QueueOf(p) \notin WorkQueues
    BY <1>1 DEF HandlerFits, StepsOn, WorkQueues, StageQueues
  <2> QED BY <1>1, <2>1 DEF HandlerFits, Queues, WorkQueues
<1>3. state[Sub(p)] = StateOf(QueueOf(p))
  BY <1>1, <1>2 DEF Fits
<1>4. StateOf(QueueOf(p)) \in {"queued", "transcribing", "grading"}
  BY <1>2 DEF StageDLQs, StageQueues, dlq, StateOf
<1> QED BY <1>1, <1>2, <1>3, <1>4 DEF Busy

LEMMA FailFlow ==
  ASSUME TypeInv, FlowInv, OneReplica, NEW p \in Consumers, FailSubmission(p)
  PROVE  FlowInv'
<1> PICK s0 : s0 = Sub(p)
  OBVIOUS
<1>1. /\ at[p] = "fail" /\ s0 \in Submissions
      /\ UNCHANGED <<queue, hand, objects, flags, graded>>
  BY AtWorkFits DEF FailSubmission, busVars, storeVars, gradeVars
<1>2. /\ at'[p] = "ack"
      /\ state'[s0] = "failed"
      /\ \A s \in Submissions \ {s0} : state'[s] = state[s]
  BY <1>1 DEF FailSubmission, Goto, TypeInv, TypeOK, RowTypeOK, HandlerTypeOK
<1>3. state[s0] \in Automatic /\ p \in Held(s0)
  BY <1>1, FailingFits DEF Automatic
<1>4. Held(s0) = {p} /\ Waiting(s0) = {}
  BY <1>1, <1>3, Working DEF FlowInv
<1>5. HandlerOK(p)'
  BY <1>2, HandlerDone
<1>6. Busy(p)' <=> state'[s0] \in Automatic
  BY <1>2 DEF Busy, Automatic
<1>7. RowFits(s0)'
  BY <1>2 DEF RowFits, Finalised
<1>8. \A s \in Submissions \ {s0} : Untouched(s)
  BY <1>1, <1>2 DEF Untouched
<1>9. ConsumerStep(p)
  BY DEF ConsumerStep, OrchestratorStep
<1> QED BY <1>1, <1>3, <1>4, <1>5, <1>6, <1>7, <1>8, <1>9, HandlerMovesRow

\* The follow-up of a decided state is a message that fits it.
LEMMA DispatchFlow ==
  ASSUME TypeInv, FlowInv, NEW p \in Consumers, dispatchNext(p)
  PROVE  FlowInv'
<1> PICK s0 : s0 = Sub(p)
  OBVIOUS
<1>1. /\ at[p] = "dispatch" /\ at'[p] = "ack"
      /\ queue' = Dispatched(Env(p), goal[p])
      /\ UNCHANGED <<hand, state, objects, flags, graded>>
  BY DEF dispatchNext, Goto, tableVars, storeVars, gradeVars, TypeInv, TypeOK,
         HandlerTypeOK
<1>2. /\ s0 \in Submissions /\ s0 = Env(p).sub /\ HandlerFits(p) /\ RowFits(s0)
      /\ \A s : p \in Held(s) <=> s = s0 /\ Busy(p)
      /\ Env(p) \in Envelopes
  BY <1>1, AtWorkFits, AtWork
<1>3. \A c \in Consumers \ {p} : Rests(c)
  BY OnlyOneActs DEF ConsumerStep, OrchestratorStep
<1>4. \A s \in Submissions : Untouched(s) /\ RowStays(s) /\ flags'[s] = flags[s]
  BY <1>1 DEF Untouched, RowStays
<1>5. HandlerOK(p)' /\ \A s : p \notin Held(s)'
  BY <1>1, HandlerDone DEF Held, Busy
<1>6. CASE goal[p] \notin Automatic
  <2>1. queue' = queue
    BY <1>1, <1>6 DEF Dispatched, Automatic
  <2>2. \A s : p \notin Held(s)
    BY <1>1, <1>2, <1>6 DEF Busy
  <2> QED BY <1>3, <1>4, <1>5, <2>1, <2>2, QuietHandler
<1>7. CASE goal[p] \in Automatic
  <2>1. goal[p] = state[s0] /\ p \in Held(s0)
    BY <1>1, <1>2, <1>7 DEF HandlerFits, ReadFits, Busy
  <2>2. \E q \in DrivingQueues, env \in Envelopes :
          queue' = Published(queue, q, env) /\ env.sub = s0 /\ Fits(q, env)'
    <3> PICK ref : ref = IF srcKey[s0] THEN "source.pdf" ELSE Env(p).ref
      OBVIOUS
    <3>1. ref \in Refs /\ Env(p).ref \in Refs
      BY <1>2 DEF Envelopes, Refs
    <3>2. state'[s0] = goal[p]
      BY <1>1, <2>1
    <3>3. \A stage \in Stages, r \in Refs :
            /\ Envelope(s0, stage, r) \in Envelopes
            /\ Envelope(s0, stage, r).sub = s0 /\ Envelope(s0, stage, r).stage = stage
      BY <1>2 DEF Envelope, Envelopes
    <3>4. CASE goal[p] = "queued"
      <4>1. queue' = Published(queue, "render.q", Envelope(s0, "render", ref))
        BY <1>1, <1>2, <3>4 DEF Dispatched
      <4>2. ASSUME NEW env, env = Envelope(s0, "render", ref)
            PROVE  Fits("render.q", env)'
        BY <3>2, <3>4, <4>2 DEF Fits, StateOf, Envelope
      <4>3. PICK env \in Envelopes : env = Envelope(s0, "render", ref)
        BY <3>1, <3>3 DEF Stages, WorkStages
      <4>4. env.sub = s0
        BY <4>3 DEF Envelope
      <4>5. "render.q" \in DrivingQueues
        BY DrivingQueuesAre DEF StageQueues
      <4> QED BY <4>1, <4>2, <4>3, <4>4, <4>5
    <3>5. CASE goal[p] \in {"splitting_pages", "extracting_metadata"}
      <4>1. queue' = Published(queue, "results.q", Envelope(s0, "render.result", Env(p).ref))
        BY <1>1, <1>2, <3>5 DEF Dispatched
      <4>2. "render-result.json" \in objects'[s0]
        BY <1>1, <1>2, <2>1, <3>5, NullAssumption DEF RowFits, States
      <4>3. ASSUME NEW env, env = Envelope(s0, "render.result", Env(p).ref)
            PROVE  Fits("results.q", env)'
        BY <3>2, <3>5, <4>2, <4>3 DEF Fits, ResultFits, Envelope
      <4>4. PICK env \in Envelopes : env = Envelope(s0, "render.result", Env(p).ref)
        BY <3>1, <3>3 DEF Stages, ResultStages
      <4>5. env.sub = s0
        BY <4>4 DEF Envelope
      <4> QED BY <4>1, <4>3, <4>4, <4>5, DrivingQueuesAre
    <3>6. CASE goal[p] = "transcribing"
      <4>1. queue' = Published(queue, "transcribe.q", Envelope(s0, "transcribe", Env(p).ref))
        BY <1>1, <1>2, <3>6 DEF Dispatched
      <4>2. ASSUME NEW env, env = Envelope(s0, "transcribe", Env(p).ref)
            PROVE  Fits("transcribe.q", env)'
        BY <3>2, <3>6, <4>2 DEF Fits, StateOf, Envelope
      <4>3. PICK env \in Envelopes : env = Envelope(s0, "transcribe", Env(p).ref)
        BY <3>1, <3>3 DEF Stages, WorkStages
      <4>4. env.sub = s0
        BY <4>3 DEF Envelope
      <4>5. "transcribe.q" \in DrivingQueues
        BY DrivingQueuesAre DEF StageQueues
      <4> QED BY <4>1, <4>2, <4>3, <4>4, <4>5
    <3>7. CASE goal[p] = "grading"
      <4>1. queue' = Published(queue, "grade.q", Envelope(s0, "grade", Env(p).ref))
        BY <1>1, <1>2, <3>7 DEF Dispatched
      <4>2. ASSUME NEW env, env = Envelope(s0, "grade", Env(p).ref)
            PROVE  Fits("grade.q", env)'
        BY <3>2, <3>7, <4>2 DEF Fits, StateOf, Envelope
      <4>3. PICK env \in Envelopes : env = Envelope(s0, "grade", Env(p).ref)
        BY <3>1, <3>3 DEF Stages, WorkStages
      <4>4. env.sub = s0
        BY <4>3 DEF Envelope
      <4>5. "grade.q" \in DrivingQueues
        BY DrivingQueuesAre DEF StageQueues
      <4> QED BY <4>1, <4>2, <4>3, <4>4, <4>5
    <3> QED BY <1>7, <3>4, <3>5, <3>6, <3>7 DEF Automatic
  <2>3. PICK q \in DrivingQueues, env \in Envelopes :
          queue' = Published(queue, q, env) /\ env.sub = s0 /\ Fits(q, env)'
    BY <2>2
  <2>4. Added(queue, queue', q, env)
    BY <2>3, PublishedAt, DrivingQueuesAre DEF Added, TypeInv, TypeOK, BusTypeOK, Contents
  <2> QED BY <1>3, <1>4, <1>5, <2>1, <2>3, <2>4, GiveStep
<1> QED BY <1>6, <1>7
\* A stage worker goes on: what it stores adds to what is stored.
LEMMA WorkerGoes ==
  ASSUME TypeInv, FlowInv, NEW p \in Consumers, WorkerStep(p),
         at[p] \notin {"idle", "dispatch", "ack"},
         at'[p] \in StepsOn(QueueOf(p)) \cap StageSteps,
         QueueOf(p) \in StageQueues,
         UNCHANGED <<queue, hand, state>>,
         \A s \in Submissions :
           /\ objects[s] \subseteq objects'[s]
           /\ graded[s] # 0 => graded'[s] # 0
           /\ \/ flags'[s] = flags[s]
              \/ s = Sub(p) /\ QueueOf(p) = "transcribe.q" /\ flags'[s] # NoFlags,
         StageDone(p)'
  PROVE  FlowInv'
<1>1. /\ HandlerFits(p) /\ Sub(p) = Env(p).sub /\ Sub(p) \in Submissions
      /\ \A s : p \in Held(s) <=> s = Sub(p) /\ Busy(p)
  BY AtWorkFits
<1>2. /\ at'[p] \notin {"idle", "dispatch", "ack", "decide", "set"}
      /\ QueueOf(p) \notin {"commands.q", "results.q"}
  BY DEF StageSteps, StageQueues
<1>3. Busy(p) /\ Busy(p)' /\ Sub(p)' = Sub(p)
  BY <1>2 DEF Busy, Sub, Env
<1>4. \A s : p \in Held(s)' <=> p \in Held(s)
  BY <1>1, <1>3 DEF Held
<1>5. \A s \in Submissions : RowStays(s)
  BY DEF RowStays
<1>6. HandlerOK(p)'
  <2>1. ReadFits(p)'
    BY <1>2 DEF ReadFits
  <2> QED BY <1>1, <1>2, <1>5, <2>1, HandlerGoes
<1>7. QueueOf(p) = "transcribe.q" => state[Sub(p)] = "transcribing" /\ p \in Held(Sub(p))
  BY <1>1, <1>3 DEF HandlerFits, Fits, StateOf
<1>8. \A c \in Consumers \ {p} : Rests(c)
  BY OnlyOneActs DEF ConsumerStep
<1> QED BY <1>4, <1>5, <1>6, <1>7, <1>8, QuietHandler

LEMMA StoreFlow ==
  ASSUME TypeInv, FlowInv, NEW p \in Consumers,
         \/ Render(p) \/ Transcribe(p) \/ PutFlags(p) \/ GradePaper(p)
         \/ archivePriorGradedArtifact(p) \/ PutGraded(p)
  PROVE  FlowInv'
<1> PICK s0 : s0 = Sub(p)
  OBVIOUS
<1>1. at[p] \in {"render", "transcribe", "flags", "grade", "archive", "put"}
  BY DEF Render, Transcribe, PutFlags, GradePaper, archivePriorGradedArtifact, PutGraded
<1>2. WorkerStep(p) /\ UNCHANGED <<queue, hand, state>> /\ Sub(p)' = s0
  BY DEF WorkerStep, Render, Transcribe, PutFlags, GradePaper,
         archivePriorGradedArtifact, PutGraded, busVars, tableVars, Sub, Env
<1>3. HandlerFits(p) /\ s0 \in Submissions /\ QueueOf(p) \in Queues
  BY <1>1, AtWorkFits
<1>4. at[p] \in StepsOn(QueueOf(p)) /\ StageDone(p)
  BY <1>1, <1>3 DEF HandlerFits
<1> USE DEF TypeInv, TypeOK, StoreTypeOK, HandlerTypeOK, Goto
<1>5. CASE Render(p)
  <2>1. /\ QueueOf(p) = "render.q" /\ at'[p] = "report"
        /\ objects' = [objects EXCEPT ![s0] = @ \cup {"render-result.json"}]
        /\ UNCHANGED <<flags, graded>>
    BY <1>4, <1>5 DEF Render, StepsOn, gradeVars
  <2>2. \A s \in Submissions : objects[s] \subseteq objects'[s]
    BY <1>3, <2>1
  <2>3. StageDone(p)'
    BY <1>2, <1>3, <2>1 DEF StageDone
  <2> QED BY <1>1, <1>2, <2>1, <2>2, <2>3, WorkerGoes DEF StepsOn, StageSteps, StageQueues
<1>6. CASE Transcribe(p)
  <2>1. /\ QueueOf(p) = "transcribe.q" /\ at'[p] = "flags"
        /\ objects' = [objects EXCEPT ![s0] = @ \cup {"transcript.v1.json"}]
        /\ UNCHANGED <<flags, graded>>
    BY <1>4, <1>6 DEF Transcribe, StepsOn, gradeVars
  <2>2. \A s \in Submissions : objects[s] \subseteq objects'[s]
    BY <1>3, <2>1
  <2>3. StageDone(p)'
    BY <1>2, <1>3, <2>1 DEF StageDone
  <2> QED BY <1>1, <1>2, <2>1, <2>2, <2>3, WorkerGoes DEF StepsOn, StageSteps, StageQueues
<1>7. CASE PutFlags(p)
  <2>1. PICK paper \in Papers : flags' = [flags EXCEPT ![s0] = paper]
    BY <1>7 DEF PutFlags
  <2>2. /\ QueueOf(p) = "transcribe.q" /\ at[p] = "flags" /\ at'[p] = "report"
        /\ UNCHANGED <<objects, graded>>
    BY <1>4, <1>7 DEF PutFlags, StepsOn, gradeVars
  <2>3. flags'[s0] # NoFlags /\ \A s \in Submissions \ {s0} : flags'[s] = flags[s]
    BY <1>3, <2>1, NullAssumption
  <2>4. StageDone(p)'
    BY <1>2, <1>4, <2>2, <2>3 DEF StageDone
  <2> QED BY <1>1, <1>2, <2>2, <2>3, <2>4, WorkerGoes DEF StepsOn, StageSteps, StageQueues
<1>8. CASE GradePaper(p)
  <2>1. /\ QueueOf(p) = "grade.q" /\ at'[p] = "archive"
        /\ mark'[p] = passes[s0] + 1 /\ passes[s0] \in Nat
        /\ UNCHANGED <<objects, flags, graded>>
    BY <1>3, <1>4, <1>8 DEF GradePaper, StepsOn
  <2>2. StageDone(p)'
    BY <2>1 DEF StageDone
  <2> QED BY <1>1, <1>2, <2>1, <2>2, WorkerGoes DEF StepsOn, StageSteps, StageQueues
<1>9. CASE archivePriorGradedArtifact(p)
  <2>1. /\ QueueOf(p) = "grade.q" /\ at[p] = "archive" /\ at'[p] = "put"
        /\ UNCHANGED <<objects, flags, graded, mark>>
    BY <1>4, <1>9 DEF archivePriorGradedArtifact, StepsOn
  <2>2. StageDone(p)'
    BY <1>4, <2>1 DEF StageDone
  <2> QED BY <1>1, <1>2, <2>1, <2>2, WorkerGoes DEF StepsOn, StageSteps, StageQueues
<1>10. CASE PutGraded(p)
  <2>1. /\ QueueOf(p) = "grade.q" /\ at[p] = "put" /\ at'[p] = "report"
        /\ graded' = [graded EXCEPT ![s0] = mark[p]]
        /\ UNCHANGED <<objects, flags>>
    BY <1>4, <1>10 DEF PutGraded, StepsOn
  <2>2. graded'[s0] # 0 /\ \A s \in Submissions \ {s0} : graded'[s] = graded[s]
    BY <1>3, <1>4, <2>1 DEF StageDone
  <2>3. StageDone(p)'
    BY <1>2, <2>1, <2>2 DEF StageDone
  <2> QED BY <1>1, <1>2, <2>1, <2>2, <2>3, WorkerGoes DEF StepsOn, StageSteps, StageQueues
<1> QED BY <1>5, <1>6, <1>7, <1>8, <1>9, <1>10

\* A stage worker's message takes its place: its result, its delivery once more
\* or a dead letter.
LEMMA WorkerGives ==
  ASSUME TypeInv, FlowInv, NEW p \in Consumers, WorkerStep(p),
         at[p] \in StageSteps,
         HandlerOK(p)', \A s : p \notin Held(s)',
         UNCHANGED <<state, objects, flags, graded>>,
         NEW q \in DrivingQueues, NEW env, env.sub = Sub(p), Fits(q, env)',
         Added(queue, queue', q, env)
  PROVE  FlowInv'
<1>1. \A s \in Submissions : Untouched(s)
  BY DEF Untouched
<1>2. \A c \in Consumers \ {p} : Rests(c)
  BY OnlyOneActs DEF ConsumerStep
<1>3. p \in Held(Sub(p))
  <2>1. QueueOf(p) \in StageQueues
    BY DEF TypeInv, HandlerShape
  <2>2. Busy(p)
    BY <2>1 DEF Busy, StageSteps, StageQueues
  <2> QED BY <2>2, AtWorkFits DEF StageSteps
<1> QED BY <1>1, <1>2, <1>3, GiveStep

LEMMA ReportFlow ==
  ASSUME TypeInv, FlowInv, NEW p \in Consumers, PublishResult(p)
  PROVE  FlowInv'
<1> PICK s0 : s0 = Sub(p)
  OBVIOUS
<1>1. /\ at[p] = "report" /\ at[p] \in StageSteps /\ at'[p] = "ack"
      /\ UNCHANGED <<state, objects, flags, graded>>
  BY DEF PublishResult, StageSteps, Goto, tableVars, storeVars, gradeVars, TypeInv, TypeOK,
         HandlerTypeOK
<1>2. /\ HandlerFits(p) /\ s0 \in Submissions /\ s0 = Env(p).sub
      /\ QueueOf(p) \in StageQueues
  BY <1>1, AtWorkFits DEF TypeInv, HandlerShape
<1>3. state[s0] = StateOf(QueueOf(p)) /\ StageDone(p)
  BY <1>1, <1>2 DEF HandlerFits, Fits, StageQueues
<1> PICK env : env = Envelope(s0, Report[QueueOf(p)][1], Report[QueueOf(p)][2])
  OBVIOUS
<1>4. queue' = Published(queue, "results.q", env)
  BY DEF PublishResult, Publish
<1>5. /\ env \in Envelopes /\ env.sub = s0
      /\ env.stage = Report[QueueOf(p)][1] /\ env.ref = Report[QueueOf(p)][2]
  BY <1>2 DEF Envelope, Envelopes, Report, StageQueues, Stages, ResultStages, Refs
<1>6. Fits("results.q", env)'
  BY <1>1, <1>2, <1>3, <1>5 DEF Fits, ResultFits, StageQueues, StateOf, StageDone, Report
<1>7. Added(queue, queue', "results.q", env) /\ "results.q" \in DrivingQueues
  BY <1>4, <1>5, PublishedAt, DrivingQueuesAre
     DEF Added, TypeInv, TypeOK, BusTypeOK, Contents
<1>8. HandlerOK(p)' /\ \A s : p \notin Held(s)'
  BY <1>1, HandlerDone DEF Held, Busy
<1> QED BY <1>1, <1>5, <1>6, <1>7, <1>8, WorkerGives DEF WorkerStep

LEMMA StageRejectsFlow ==
  ASSUME TypeInv, FlowInv, NEW p \in Consumers, StageRejects(p)
  PROVE  FlowInv'
<1> PICK env : env = Env(p)
  OBVIOUS
<1>1. /\ at[p] \in {"render", "transcribe", "grade"} /\ at[p] \in StageSteps
      /\ Return(p) /\ Nack(p)
      /\ UNCHANGED <<state, objects, flags, graded>>
  BY DEF StageRejects, Reject, StageSteps, tableVars, storeVars, gradeVars
<1>2. /\ HandlerFits(p) /\ env.sub = Sub(p) /\ QueueOf(p) \in StageQueues
      /\ hand[p] \in Deliveries /\ env \in Envelopes
  BY <1>1, AtWorkFits, AtWork DEF TypeInv, HandlerShape
<1>3. state[env.sub] = StateOf(QueueOf(p))
  BY <1>1, <1>2 DEF HandlerFits, Fits, StageQueues
<1>4. HandlerOK(p)' /\ \A s : p \notin Held(s)'
  <2>1. hand'[p] = NoMsg
    BY <1>1 DEF Nack, TypeInv, TypeOK, BusTypeOK
  <2> QED BY <1>1, <2>1, HandlerReturns
<1>5. WorkerStep(p)
  BY DEF WorkerStep
<1>6. CASE queue' = Requeued(p)
  <2> PICK q : q = QueueOf(p)
    OBVIOUS
  <2>1. Added(queue, queue', q, env) /\ q \in DrivingQueues
    BY <1>2, <1>6, RequeuedAt, DrivingQueuesAre
       DEF Added, TypeInv, TypeOK, BusTypeOK, Contents
  <2>2. Fits(q, env)'
    BY <1>1, <1>2, <1>3 DEF Fits, StageQueues
  <2> QED BY <1>1, <1>2, <1>4, <1>5, <2>1, <2>2, WorkerGives
<1>7. CASE queue' = Published(queue, dlq(QueueOf(p)), hand[p].env)
  <2> PICK q : q = dlq(QueueOf(p))
    OBVIOUS
  <2>1. q \in DrivingQueues /\ q \in Queues
    BY <1>2, DrivingQueuesAre
  <2>2. Added(queue, queue', q, env)
    BY <1>2, <1>7, <2>1, PublishedAt
       DEF Added, TypeInv, TypeOK, BusTypeOK, Contents, Env
  <2>3. Fits(q, env)'
    BY <1>1, <1>2, <1>3 DEF Fits, StageQueues, dlq, StateOf
  <2> QED BY <1>1, <1>2, <1>4, <1>5, <2>1, <2>2, <2>3, WorkerGives
<1> QED BY <1>1, <1>2, <1>6, <1>7 DEF Nack
---------------------------------------------------------------------------
(***************************************************************************)
(* Requests.                                                               *)
(***************************************************************************)

\* A request stores something, or sends a command.
LEMMA QuietRequest ==
  ASSUME TypeInv, FlowInv, UNCHANGED <<hand, localVars, flags>>,
         \A s \in Submissions : RowStays(s),
         \/ queue' = queue
         \/ \E env \in Envelopes :
              /\ env.stage \in CommandStages \ {"flagged_for_review"}
              /\ queue' = Published(queue, "commands.q", env)
  PROVE  FlowInv'
<1> DEFINE P == {}
<1>1. /\ \A c \in Consumers \ P : Rests(c)
      /\ \A p \in P : HandlerOK(p)'
      /\ \A s \in Submissions : \A p \in P : p \in Held(s)' <=> p \in Held(s)
  BY DEF localVars, Rests
<1>2. /\ \A s \in Submissions : SameWaiting(s)
      /\ \A q \in Queues : \A e \in EnvsOn(q)' : e \in EnvsOn(q) \/ Fits(q, e)'
  <2>1. CASE queue' = queue
    BY <2>1, WaitingPlaces DEF SameWaiting, EnvsOn, Single
  <2>2. CASE queue' # queue
    <3>1. PICK env \in Envelopes :
            /\ env.stage \in CommandStages \ {"flagged_for_review"}
            /\ queue' = Published(queue, "commands.q", env)
      BY <2>2
    <3>2. Added(queue, queue', "commands.q", env) /\ "commands.q" \in Queues
      BY <3>1, PublishedAt, DrivingQueuesAre
         DEF Added, TypeInv, TypeOK, BusTypeOK, Contents
    <3>3. ASSUME NEW s PROVE SameWaiting(s)
      <4>1. /\ Places(queue', s) = {} <=> Places(queue, s) = {}
            /\ Single(Places(queue', s)) <=> Single(Places(queue, s))
        BY <3>2, AddedPlaces
      <4> QED BY <4>1, WaitingPlaces DEF SameWaiting, Single
    <3>4. Fits("commands.q", env)'
      BY <3>1 DEF Fits
    <3> QED BY <3>2, <3>3, <3>4, AddedEnvs
  <2> QED BY <2>1, <2>2
<1> HIDE DEF P
<1> QED BY <1>1, <1>2, QuietStep

LEMMA RequestFlow ==
  ASSUME Inv, FlowInv, NEW r \in Slots, RequestStep(r) \/ RequestFails(r)
  PROVE  FlowInv'
<1>0. TypeInv
  BY DEF Inv
<1>1. CASE PutPDF(r)
  <2>1. /\ objects' = [objects EXCEPT ![req[r].sub] = @ \cup {"source.pdf"}]
        /\ UNCHANGED <<queue, hand, localVars, state, flags, graded>>
    BY <1>1 DEF PutPDF, busVars, tableVars, gradeVars
  <2>2. \A s \in Submissions : RowStays(s)
    BY <1>0, <2>1 DEF RowStays, TypeInv, TypeOK, StoreTypeOK
  <2> QED BY <1>0, <2>1, <2>2, QuietRequest
<1>2. CASE SendCommand(r)
  <2>1. req[r] # NoReq /\ UNCHANGED <<hand, localVars, state, flags, objects, graded>>
    BY <1>2 DEF SendCommand, At, tableVars, storeVars, gradeVars
  <2>2. req[r] \in Requests /\ req[r].sub \in Submissions
    BY <1>0, <2>1, InRequest
  <2> PICK env : env = Envelope(req[r].sub, req[r].op, "")
    OBVIOUS
  <2>3. env \in Envelopes /\ env.stage \in CommandStages \ {"flagged_for_review"}
    BY <1>0, <1>2, <2>1, <2>2, SentCommand
       DEF SendCommand, At, Envelope, Envelopes, Requests, Stages, Refs
  <2>4. queue' = Published(queue, "commands.q", env)
    BY <1>2 DEF SendCommand, Publish
  <2> QED BY <1>0, <2>1, <2>3, <2>4, QuietRequest DEF RowStays
<1>3. CASE PutRegenerated(r)
  <2>1. req[r] # NoReq /\ req[r].at = "rewrite"
    BY <1>3 DEF PutRegenerated, At
  <2>2. req[r] \in Requests /\ req[r].op = "regenerate"
    BY <1>0, <2>1, InRequest DEF TypeInv, RequestShape, Requests
  <2>3. req[r].pass # 0
    BY <2>1, <2>2 DEF Inv, GateInv, RequestsWarranted, RequestWarranted
  <2>4. /\ graded' = [graded EXCEPT ![req[r].sub] = req[r].pass]
        /\ UNCHANGED <<queue, hand, localVars, state, flags, objects>>
    BY <1>3 DEF PutRegenerated, busVars, tableVars
  <2>5. \A s \in Submissions : RowStays(s)
    BY <1>0, <2>3, <2>4 DEF RowStays, TypeInv, TypeOK, StoreTypeOK
  <2> QED BY <1>0, <2>4, <2>5, QuietRequest
<1>4. CASE ~PutPDF(r) /\ ~SendCommand(r) /\ ~PutRegenerated(r)
  <2>1. UNCHANGED <<queue, hand, localVars, state, flags, objects, graded>>
    BY <1>4
       DEF RequestStep, RequestFails, SetSourcePDFKey, LoadGraded, InsertAuditEvent,
           PutSnapshot, InsertFinalGrade, busVars, tableVars, storeVars, gradeVars
  <2> QED BY <1>0, <2>1, QuietRequest DEF RowStays
<1> QED BY <1>1, <1>2, <1>3, <1>4

LEMMA OperatorFlow ==
  ASSUME TypeInv, FlowInv, "flagged_for_review" \notin OperatorCommands,
         NEW s \in Submissions, OperatorCommand(s)
  PROVE  FlowInv'
<1>1. PICK c \in OperatorCommands, ref \in {"", "render-result.json"} :
        Publish("commands.q", Envelope(s, c, ref))
  BY DEF OperatorCommand
<1> PICK env : env = Envelope(s, c, ref)
  OBVIOUS
<1>2. env \in Envelopes /\ env.stage \in CommandStages \ {"flagged_for_review"}
  BY OperatorAssumption DEF Envelope, Envelopes, Stages, CommandStages, Refs
<1>3. /\ queue' = Published(queue, "commands.q", env)
      /\ UNCHANGED <<hand, localVars, state, flags, objects, graded>>
  BY <1>1 DEF OperatorCommand, Publish, tableVars, storeVars, gradeVars
<1> QED BY <1>2, <1>3, QuietRequest DEF RowStays

\* A new submission is driven by nobody, before and after its upload.
LEMMA CallFlow ==
  ASSUME TypeInv, FlowInv, NEW r \in Slots, NEW s0 \in Submissions, Call(r, s0)
  PROVE  FlowInv'
<1>1. UNCHANGED <<queue, hand, localVars, flags, objects, graded>>
  BY DEF Call, PostSubmission, Approve, PublishHandler, Export, RegradeAppeal, Regenerate, Open,
         busVars, storeVars, gradeVars
<1>2. CASE PostSubmission(r, s0)
  <2> DEFINE P == {}
  <2>1. /\ state[s0] = NoState /\ state'[s0] = "uploaded"
        /\ \A s \in Submissions \ {s0} : Untouched(s)
    BY <1>1, <1>2 DEF PostSubmission, Untouched, TypeInv, TypeOK, RowTypeOK
  <2>2. state[s0] \notin Automatic
    BY <2>1, NullAssumption DEF States, Automatic
  <2>3. Waiting(s0) = {} /\ Held(s0) \subseteq P
    BY <2>2 DEF FlowInv, Driven
  <2>4. RowFits(s0)' /\ state'[s0] \notin Automatic
    BY <2>1 DEF RowFits, Finalised, Automatic
  <2>5. /\ \A c \in Consumers \ P : Rests(c)
        /\ \A p \in P : HandlerOK(p)'
        /\ \A s \in Submissions \ {s0} :
             Untouched(s) /\ \A p \in P : p \in Held(s)' <=> p \in Held(s)
        /\ IF state'[s0] \in Automatic THEN P # {} /\ \A p \in P : Held(s0)' = {p}
           ELSE \A p \in P : p \notin Held(s0)'
    BY <1>1, <2>1, <2>4 DEF localVars, Rests
  <2> HIDE DEF P
  <2> QED BY <1>1, <2>1, <2>3, <2>4, <2>5, RowMoves
<1>3. CASE ~PostSubmission(r, s0)
  <2>1. UNCHANGED state
    BY <1>3 DEF Call, Approve, PublishHandler, Export, RegradeAppeal, Regenerate
  <2> QED BY <1>1, <2>1, QuietRequest DEF RowStays
<1> QED BY <1>2, <1>3

---------------------------------------------------------------------------
(***************************************************************************)
(* The invariant.                                                          *)
(***************************************************************************)
LEMMA InitFlow == Init => FlowInv
<1> SUFFICES ASSUME Init PROVE FlowInv
  OBVIOUS
<1>1. \A q \in Queues : queue[q] = <<>> /\ DOMAIN queue[q] = {}
  BY DEF Init, BusInit
<1>2. MessagesFit
  BY <1>1 DEF MessagesFit, EnvsOn
<1>3. HandlersFit
  BY DEF Init, BusInit, HandlersFit
<1>4. ASSUME NEW s \in Submissions PROVE RowFits(s) /\ Driven(s)
  <2>1. state[s] = NoState /\ NoState \notin Automatic
    BY NullAssumption DEF Init, Automatic, States
  <2>2. RowFits(s)
    BY <2>1, NullAssumption DEF RowFits, Finalised, States
  <2>3. Held(s) = {}
    BY DEF Init, BusInit, Held
  <2>4. Waiting(s) = {}
    BY <1>1, NothingWaits, WaitingPlaces, DrivingQueuesAre DEF IsAt
  <2> QED BY <2>1, <2>2, <2>3, <2>4 DEF Driven
<1> QED BY <1>2, <1>3, <1>4 DEF FlowInv

LEMMA NextFlow == Sound /\ Inv /\ FlowInv /\ [Next]_vars => FlowInv'
<1> SUFFICES ASSUME Sound, Inv, TypeInv, FlowInv, [Next]_vars PROVE FlowInv'
  BY DEF Inv
<1>1. CASE UNCHANGED vars
  BY <1>1, QuietRequest DEF vars, busVars, tableVars, storeVars, gradeVars, RowStays
<1>2. ASSUME NEW p \in Consumers, ConsumerStep(p) PROVE FlowInv'
  <2>1. CASE Deliver(p) BY <2>1, DeliverFlow
  <2>2. CASE OrchestratorStep(p)
    BY <2>2, GetFlow, DecideFlow, SetFlow, DispatchFlow, FailFlow
       DEF OrchestratorStep, Sound
  <2>3. CASE WorkerStep(p)
    BY <2>3, StoreFlow, ReportFlow, StageRejectsFlow DEF WorkerStep
  <2>4. CASE Finish(p) BY <2>4, FinishFlow
  <2> QED BY <1>2, <2>1, <2>2, <2>3, <2>4 DEF ConsumerStep
<1>3. ASSUME NEW p \in Consumers, CallFails(p) \/ Crash(p) \/ Lose(p) PROVE FALSE
  BY <1>3 DEF CallFails, Crash, Lose, Fault, Sound
<1> QED
  BY <1>1, <1>2, <1>3, RequestFlow, CallFlow, OperatorFlow DEF Next, Sound

\* While one replica runs and no call of a consumer fails, the state of a
\* submission tells what its work item is: the message or the handler it names.
THEOREM FlowInvariance ==
  ASSUME Sound
  PROVE  Spec => []FlowInv
<1>1. Inv /\ FlowInv /\ [Next]_vars => FlowInv'
  BY NextFlow
<1> QED BY <1>1, InitFlow, Invariance, PTL DEF Spec
---------------------------------------------------------------------------
(***************************************************************************)
(* What follows.                                                           *)
(***************************************************************************)

\* The artifacts a state relies on are stored before the state is entered,
\* whatever a person sends back to work.
THEOREM InputsStored ==
  ASSUME Sound
  PROVE  Spec => []StageHasInput
<1>1. FlowInv => StageHasInput
  BY NullAssumption DEF FlowInv, RowFits, StageHasInput, States, Finalised
<1> QED BY <1>1, FlowInvariance, PTL

LEMMA CardinalityOfOne ==
  ASSUME NEW S, Single(S)
  PROVE  Cardinality(S) = 1
BY FS_Singleton DEF Single

\* Work is neither lost nor duplicated: through the automatic states a
\* submission has exactly one message or one handler with an effect to come,
\* and outside them none, for any number of submissions and requests at once.
THEOREM OneDriver ==
  ASSUME Sound
  PROVE  Spec => []OneWorkItem
<1>1. ASSUME FlowInv, NEW s \in Submissions
      PROVE  Cardinality(Pending(s)) = IF state[s] \in Automatic THEN 1 ELSE 0
  <2>1. Driven(s)
    BY <1>1 DEF FlowInv
  <2>2. CASE state[s] \in Automatic
    <3>1. Single(Pending(s))
      BY <2>1, <2>2 DEF Driven, Pending, Single
    <3> QED BY <2>2, <3>1, CardinalityOfOne
  <2>3. CASE state[s] \notin Automatic
    <3>1. Pending(s) = {}
      BY <2>1, <2>3 DEF Driven, Pending
    <3> QED BY <2>3, <3>1, FS_EmptySet
  <2> QED BY <2>2, <2>3
<1>2. FlowInv => OneWorkItem
  BY <1>1 DEF OneWorkItem
<1> QED BY <1>2, FlowInvariance, PTL

---------------------------------------------------------------------------
(***************************************************************************)
(* The refinement of Lifecycle.                                            *)
(***************************************************************************)

\* A write along an edge is an Advance.
LEMMA AdvanceStep ==
  ASSUME TypeInv, NEW s \in Submissions, NEW to \in States,
         state[s] # NoState, CanTransition(state[s], to),
         state' = [state EXCEPT ![s] = to]
  PROVE  Life!LifeNext
<1>1. to \in Life!States
  BY DEF States, Life!States
<1>2. Life!CanTransition(state[s], to)
  BY DEF CanTransition, Life!CanTransition, transitions, Life!transitions, States, Life!States
<1> QED BY <1>1, <1>2 DEF Life!Advance, Life!LifeNext

LEMMA LifeStep ==
  ASSUME Sound, TypeInv, FlowInv, [Next]_vars
  PROVE  Life!LifeNext \/ UNCHANGED state
<1>1. ASSUME NEW p \in Consumers, SetSubmissionState(p) PROVE Life!LifeNext
  <2> PICK s : s = Sub(p)
    OBVIOUS
  <2>1. at[p] = "set" /\ state' = [state EXCEPT ![s] = goal[p]]
    BY <1>1 DEF SetSubmissionState
  <2>2. /\ goal[p] \in States /\ CanTransition(state[s], goal[p])
        /\ state[s] # NoState
    BY <2>1, SettingFits
  <2>3. s \in Submissions
    BY <2>1, AtWorkFits
  <2> QED BY <2>1, <2>2, <2>3, AdvanceStep
<1>2. ASSUME NEW p \in Consumers, FailSubmission(p) PROVE Life!LifeNext
  <2> PICK s : s = Sub(p)
    OBVIOUS
  <2>1. at[p] = "fail" /\ state' = [state EXCEPT ![s] = "failed"]
    BY <1>2 DEF FailSubmission
  <2>2. state[s] \in {"queued", "transcribing", "grading"} /\ s \in Submissions
    BY <2>1, FailingFits, AtWorkFits
  <2>3. "failed" \in States /\ CanTransition(state[s], "failed")
    BY <2>2 DEF CanTransition, transitions, States
  <2>4. state[s] # NoState
    BY <2>2, NullAssumption DEF States
  <2> QED BY <2>1, <2>2, <2>3, <2>4, AdvanceStep
<1>3. ASSUME NEW r \in Slots, NEW s \in Submissions, Call(r, s)
      PROVE  Life!LifeNext \/ UNCHANGED state
  BY <1>3
     DEF Call, PostSubmission, Approve, PublishHandler, Export, RegradeAppeal, Regenerate,
         Life!Create, Life!LifeNext
<1>4. ASSUME NEW p \in Consumers, ConsumerStep(p),
             ~SetSubmissionState(p), ~FailSubmission(p)
      PROVE  UNCHANGED state
  BY <1>4
     DEF ConsumerStep, Deliver, Finish, OrchestratorStep, GetSubmission, Decide,
         dispatchNext, WorkerStep, Render, Transcribe, PutFlags, GradePaper,
         archivePriorGradedArtifact, PutGraded, PublishResult, StageRejects, tableVars
<1>5. ASSUME NEW p \in Consumers, CallFails(p) \/ Crash(p) \/ Lose(p)
      PROVE  UNCHANGED state
  BY <1>5 DEF CallFails, Crash, Lose, tableVars
<1>6. ASSUME NEW r \in Slots, RequestStep(r) \/ RequestFails(r)
      PROVE  UNCHANGED state
  BY <1>6
     DEF RequestStep, RequestFails, PutPDF, SetSourcePDFKey, LoadGraded, PutRegenerated,
         InsertAuditEvent, PutSnapshot, InsertFinalGrade, SendCommand, tableVars
<1>7. ASSUME NEW s \in Submissions, OperatorCommand(s) PROVE UNCHANGED state
  BY <1>7 DEF OperatorCommand, tableVars
<1>8. CASE UNCHANGED vars
  BY <1>8 DEF vars, tableVars
<1> QED BY <1>1, <1>2, <1>3, <1>4, <1>5, <1>6, <1>7, <1>8 DEF Next

\* The state follows the edges of the transitions table: although the write is
\* not conditional on the state that was read, nobody moves it in between.
THEOREM LifecycleRefinement ==
  ASSUME Sound
  PROVE  Spec => LifeSpec
<1>1. Init => Life!LifeInit
  BY DEF Init, Life!LifeInit
<1>2. TypeInv /\ FlowInv /\ [Next]_vars => [Life!LifeNext]_state
  BY LifeStep
<1> QED
  BY <1>1, <1>2, TypeInvariance, FlowInvariance, PTL DEF Spec, LifeSpec, Life!LifeSpec
---------------------------------------------------------------------------
(***************************************************************************)
(* Marking passes.                                                         *)
(***************************************************************************)

\* The pass of a handler that rests, when no pass of its submission moves.
LEMMA PassRests ==
  ASSUME NEW c \in Consumers, Rests(c), PassFits(c),
         \/ QueueOf(c) # "grade.q"
         \/ UNCHANGED <<graded, archive, undone, passes>>
  PROVE  PassFits(c)'
BY DEF Rests, PassFits, PassStored, Stored, Overwritten, Sub, Env

\* The passes that requests hold, when none is taken back.
LEMMA RequestsRest ==
  ASSUME TypeInv, PassInv, UNCHANGED req,
         \A s \in Submissions : Stored(s) \subseteq Stored(s)' \cup {0}
  PROVE  RequestsStored'
<1>1. \A r \in Slots : req[r] # NoReq => req[r].sub \in Submissions
  BY InRequest
<1> QED BY <1>1 DEF PassInv, RequestsStored

\* A pass is kept by whoever keeps it, or by the graded paper once the worker
\* that made it has stored it.
LEMMA PassesStay ==
  ASSUME PassInv, UNCHANGED <<graded, archive, undone, passes>>,
         \A c \in Consumers : \/ mark'[c] = mark[c] /\ hand'[c] = hand[c]
                              \/ at[c] \notin {"archive", "put"}
  PROVE  EveryPassKept'
<1> SUFFICES ASSUME NEW s \in Submissions, NEW n \in 1..passes[s]
             PROVE  \/ n = graded[s] \/ n \in archive[s] \/ n \in undone[s]
                    \/ \E c \in Consumers : /\ hand'[c] # NoMsg /\ Sub(c)' = s
                                            /\ mark'[c] = n
  BY DEF EveryPassKept
<1>1. CASE n = graded[s] \/ n \in archive[s] \/ n \in undone[s]
  BY <1>1
<1>2. ASSUME NEW c \in Consumers, hand[c] # NoMsg, Sub(c) = s, mark[c] = n
      PROVE  \/ n = graded[s] \/ n \in archive[s] \/ n \in undone[s]
             \/ hand'[c] # NoMsg /\ Sub(c)' = s /\ mark'[c] = n
  <2>1. CASE mark'[c] = mark[c] /\ hand'[c] = hand[c]
    BY <1>2, <2>1 DEF Sub, Env
  <2>2. CASE at[c] \notin {"archive", "put"}
    <3>1. n # 0
      OBVIOUS
    <3>2. s \in Submissions /\ mark[c] \in Stored(s) \cup {0}
      BY <1>2, <2>2 DEF PassInv, PassFits, PassStored, Stored
    <3> QED BY <1>2, <3>1, <3>2 DEF Stored, Overwritten
  <2> QED BY <1>2, <2>1, <2>2 DEF PassInv
<1> QED BY <1>1, <1>2 DEF PassInv, EveryPassKept

\* A consumer that is not about to store a pass.
LEMMA PassQuiet ==
  ASSUME TypeInv, PassInv, NEW p \in Consumers, \A c \in Consumers \ {p} : Rests(c),
         UNCHANGED <<graded, archive, undone, passes, req>>,
         at[p] \notin {"archive", "put"}, PassFits(p)'
  PROVE  PassInv'
<1>1. EveryPassKept'
  BY PassesStay DEF Rests
<1>2. \A c \in Consumers \ {p} : PassFits(c)'
  BY PassRests DEF PassInv
<1>3. RequestsStored'
  BY RequestsRest DEF Stored, Overwritten
<1> QED BY <1>1, <1>2, <1>3 DEF PassInv

\* The grade worker's steps.
LEMMA MarkStep ==
  ASSUME TypeInv, PassInv, OneReplica, NEW p \in Consumers, GradePaper(p)
  PROVE  PassInv'
<1> PICK s0 : s0 = Sub(p)
  OBVIOUS
<1>1. at[p] = "grade" /\ s0 \in Submissions /\ hand[p] # NoMsg
  BY AtWork DEF GradePaper, TypeInv, HandlerShape
<1>2. QueueOf(p) = "grade.q" /\ mark[p] \in Stored(s0) \cup {0}
  BY <1>1 DEF PassInv, PassFits, PassStored
<1>3. /\ at'[p] = "archive" /\ mark'[p] = passes[s0] + 1 /\ hand' = hand
      /\ passes[s0] \in Nat /\ passes'[s0] = passes[s0] + 1
      /\ \A s \in Submissions \ {s0} : passes'[s] = passes[s]
      /\ UNCHANGED <<graded, archive, undone, req>>
  BY <1>1
     DEF GradePaper, Goto, busVars, TypeInv, TypeOK, StoreTypeOK, HandlerTypeOK
<1>4. \A c \in Consumers \ {p} : Rests(c)
  BY OnlyOneActs DEF ConsumerStep, WorkerStep
<1>5. \A c \in Consumers : PassFits(c)'
  <2>1. \A c \in Consumers \ {p} : PassFits(c)'
    BY <1>2, <1>4, PassRests, OneConsumer DEF PassInv
  <2>2. PassFits(p)'
    BY <1>2, <1>3 DEF PassFits, PassStored, Stored, Overwritten, Sub, Env
  <2> QED BY <2>1, <2>2
<1>6. ASSUME NEW s \in Submissions, NEW n \in 1..passes'[s]
      PROVE  \/ n = graded[s] \/ n \in archive[s] \/ n \in undone[s]
             \/ \E c \in Consumers : /\ hand'[c] # NoMsg /\ Sub(c)' = s
                                     /\ mark'[c] = n
  <2>1. CASE s = s0 /\ n = passes[s0] + 1
    BY <1>1, <1>3, <2>1 DEF Sub, Env
  <2>2. CASE n \in 1..passes[s]
    <3>1. ASSUME NEW c \in Consumers, hand[c] # NoMsg, Sub(c) = s, mark[c] = n
          PROVE  \/ n = graded[s] \/ n \in archive[s] \/ n \in undone[s]
                 \/ hand'[c] # NoMsg /\ Sub(c)' = s /\ mark'[c] = n
      <4>1. CASE c = p
        BY <1>2, <2>2, <3>1, <4>1 DEF Stored, Overwritten
      <4>2. CASE c # p
        BY <1>4, <3>1, <4>2 DEF Rests, Sub, Env
      <4> QED BY <4>1, <4>2
    <3> QED BY <2>2, <3>1 DEF PassInv, EveryPassKept
  <2>3. n \in 1..passes[s] \/ (s = s0 /\ n = passes[s0] + 1)
    BY <1>3, <1>6
  <2> QED BY <2>1, <2>2, <2>3
<1>7. EveryPassKept'
  BY <1>3, <1>6 DEF EveryPassKept
<1>8. RequestsStored'
  BY <1>3, RequestsRest DEF Stored, Overwritten
<1> QED BY <1>5, <1>7, <1>8 DEF PassInv

LEMMA ArchiveStep ==
  ASSUME TypeInv, PassInv, OneReplica, NEW p \in Consumers, archivePriorGradedArtifact(p)
  PROVE  PassInv'
<1> PICK s0 : s0 = Sub(p)
  OBVIOUS
<1>1. at[p] = "archive" /\ s0 \in Submissions
  BY AtWork DEF archivePriorGradedArtifact
<1>2. QueueOf(p) = "grade.q" /\ mark[p] = passes[s0]
  BY <1>1 DEF PassInv, PassFits, PassStored
<1>3. /\ at'[p] = "put" /\ UNCHANGED <<hand, mark, graded, undone, passes, req>>
      /\ graded[s0] \in archive'[s0] \cup {0}
      /\ \A s \in Submissions : archive[s] \subseteq archive'[s]
  BY <1>1
     DEF archivePriorGradedArtifact, Goto, busVars, TypeInv, TypeOK, StoreTypeOK,
         HandlerTypeOK
<1>4. \A c \in Consumers \ {p} : PassFits(c)'
  BY <1>2, PassRests, OneConsumer, OnlyOneActs DEF PassInv, ConsumerStep, WorkerStep
<1>5. PassFits(p)'
  BY <1>2, <1>3 DEF PassFits, PassStored, Stored, Overwritten, Sub, Env
<1>6. EveryPassKept'
  <2>1. \A c \in Consumers : Sub(c)' = Sub(c)
    BY <1>3 DEF Sub, Env
  <2> QED BY <1>3, <2>1 DEF PassInv, EveryPassKept
<1>7. RequestsStored'
  BY <1>3, RequestsRest DEF Stored, Overwritten
<1> QED BY <1>4, <1>5, <1>6, <1>7 DEF PassInv

LEMMA StoreStep ==
  ASSUME TypeInv, PassInv, OneReplica, NEW p \in Consumers, PutGraded(p)
  PROVE  PassInv'
<1> PICK s0 : s0 = Sub(p)
  OBVIOUS
<1>1. at[p] = "put" /\ s0 \in Submissions
  BY AtWork DEF PutGraded
<1>2. QueueOf(p) = "grade.q" /\ graded[s0] \in Overwritten(s0) \cup {0}
  BY <1>1 DEF PassInv, PassFits, PassStored
<1>3. /\ at'[p] = "report" /\ UNCHANGED <<hand, mark, archive, undone, passes, req>>
      /\ graded'[s0] = mark[p]
      /\ \A s \in Submissions \ {s0} : graded'[s] = graded[s]
  BY <1>1
     DEF PutGraded, Goto, busVars, TypeInv, TypeOK, StoreTypeOK, HandlerTypeOK
<1>4. \A c \in Consumers \ {p} : PassFits(c)'
  BY <1>2, PassRests, OneConsumer, OnlyOneActs DEF PassInv, ConsumerStep, WorkerStep
<1>5. PassFits(p)'
  BY <1>2, <1>3 DEF PassFits, PassStored, Stored, Overwritten, Sub, Env
<1>6. EveryPassKept'
  <2>1. \A c \in Consumers : Sub(c)' = Sub(c)
    BY <1>3 DEF Sub, Env
  <2>2. \A s \in Submissions : \A n \in 1..passes[s] :
          n = graded[s] => n = graded'[s] \/ n \in archive[s] \/ n \in undone[s]
    BY <1>2, <1>3 DEF Overwritten
  <2> QED BY <1>3, <2>1, <2>2 DEF PassInv, EveryPassKept
<1>7. RequestsStored'
  BY <1>2, <1>3, RequestsRest DEF Stored, Overwritten
<1> QED BY <1>4, <1>5, <1>6, <1>7 DEF PassInv

\* A consumer takes a delivery, settles it, or goes on without marking.
LEMMA OtherPassSteps ==
  ASSUME TypeInv, PassInv, NEW p \in Consumers, ConsumerStep(p) \/ Lose(p),
         ~GradePaper(p), ~archivePriorGradedArtifact(p), ~PutGraded(p)
  PROVE  PassInv'
<1>1. UNCHANGED <<graded, archive, undone, passes, req>>
  BY DEF ConsumerStep, Lose, Deliver, Finish, OrchestratorStep, GetSubmission, Decide,
         SetSubmissionState, dispatchNext, FailSubmission, WorkerStep, Render,
         Transcribe, PutFlags, PublishResult, StageRejects, storeVars, gradeVars
<1>2. at[p] \notin {"archive", "put"}
  BY DEF ConsumerStep, Lose, Deliver, Receive, Finish, OrchestratorStep, GetSubmission, Decide,
         SetSubmissionState, dispatchNext, FailSubmission, WorkerStep, Render,
         Transcribe, PutFlags, PublishResult, StageRejects, TypeInv, HandlerShape
<1>3. \A c \in Consumers \ {p} : Rests(c)
  <2>1. CASE Lose(p)
    BY <2>1 DEF Lose, Goto, Rests, busVars, TypeInv, TypeOK, HandlerTypeOK
  <2> QED BY <2>1, OnlyOneActs
<1>4. PassFits(p)'
  <2> USE DEF Goto, TypeInv, TypeOK, BusTypeOK, HandlerTypeOK
  <2>1. CASE Deliver(p)
    <3>1. at[p] = "idle" /\ mark'[p] = mark[p] /\ at'[p] = FirstStep(QueueOf(p))
      BY <2>1 DEF Deliver, Receive, HandlerShape
    <3>2. mark[p] = 0
      BY <3>1 DEF PassInv, PassFits
    <3> QED BY <3>1, <3>2 DEF PassFits, PassStored, FirstStep
  <2>2. CASE Return(p)
    BY <2>2 DEF Return, PassFits
  <2>3. CASE ~Deliver(p) /\ ~Return(p)
    <3>1. /\ mark'[p] = mark[p] /\ hand'[p] = hand[p]
          /\ at[p] # "idle" /\ at'[p] \notin {"idle", "grade", "archive", "put"}
      BY <2>3
         DEF ConsumerStep, Lose, Finish, OrchestratorStep, GetSubmission, Decide,
             SetSubmissionState, dispatchNext, FailSubmission, WorkerStep, Render,
             Transcribe, PutFlags, PublishResult, StageRejects, Reject, busVars
    <3> QED
      BY <1>1, <1>2, <3>1 DEF PassInv, PassFits, PassStored, Stored, Overwritten, Sub, Env
  <2> QED BY <2>1, <2>2, <2>3
<1> QED BY <1>1, <1>2, <1>3, <1>4, PassQuiet

\* A request that leaves the graded paper alone holds a pass that was stored.
LEMMA RequestPass ==
  ASSUME TypeInv, PassInv, UNCHANGED <<hand, localVars, graded, archive, undone, passes>>,
         \A r \in Slots : req'[r] # NoReq =>
            \/ req'[r].pass \in {0, graded[req'[r].sub]}
            \/ req[r] # NoReq /\ req'[r].sub = req[r].sub /\ req'[r].pass = req[r].pass
  PROVE  PassInv'
<1>1. \A c \in Consumers : Rests(c) /\ PassFits(c)
  BY DEF Rests, localVars, PassInv
<1>2. EveryPassKept'
  BY <1>1, PassesStay DEF Rests
<1>3. RequestsStored'
  BY DEF PassInv, RequestsStored, Stored, Overwritten
<1> QED BY <1>1, <1>2, <1>3, PassRests DEF PassInv

\* Regenerate puts back a pass that was stored.
LEMMA RegeneratePass ==
  ASSUME TypeInv, PassInv, NEW r \in Slots, PutRegenerated(r)
  PROVE  PassInv'
<1> PICK s0, n0 : s0 = req[r].sub /\ n0 = req[r].pass
  OBVIOUS
<1>1. /\ req[r] # NoReq /\ s0 \in Submissions
      /\ n0 \in Stored(s0) \cup {0}
  BY InRequest DEF PutRegenerated, At, PassInv, RequestsStored
<1>2. /\ graded' = [graded EXCEPT ![s0] = n0]
      /\ undone' = [undone EXCEPT ![s0] = @ \cup ({graded[s0]} \ {n0})]
      /\ req' = [req EXCEPT ![r] = NoReq]
      /\ UNCHANGED <<hand, localVars, archive, passes>>
  BY DEF PutRegenerated, busVars
<1>3. /\ graded'[s0] = n0
      /\ undone'[s0] = undone[s0] \cup ({graded[s0]} \ {n0})
      /\ \A s \in Submissions \ {s0} : graded'[s] = graded[s] /\ undone'[s] = undone[s]
      /\ \A c \in Slots : req'[c] # NoReq => req'[c] = req[c]
  BY <1>1, <1>2 DEF TypeInv, TypeOK, StoreTypeOK, RequestTypeOK
<1>4. \A s \in Submissions : Stored(s) \subseteq Stored(s)'
  BY <1>2, <1>3 DEF Stored, Overwritten
<1>5. ASSUME NEW c \in Consumers PROVE PassFits(c)'
  <2>1. PassFits(c) /\ Rests(c) /\ Sub(c)' = Sub(c)
    BY <1>2 DEF PassInv, Rests, localVars, Sub, Env
  <2>2. CASE at[c] # "idle" /\ QueueOf(c) = "grade.q"
    <3>1. Sub(c) \in Submissions
      BY <2>2, AtWork
    <3>2. at[c] = "put" => graded'[Sub(c)] \in Overwritten(Sub(c))' \cup {0}
      BY <1>1, <1>2, <1>3, <2>1, <2>2, <3>1 DEF PassFits, PassStored, Stored, Overwritten
    <3>3. at[c] \notin {"archive", "put"} => mark[c] \in Stored(Sub(c))' \cup {0}
      BY <1>4, <2>1, <2>2, <3>1 DEF PassFits, PassStored
    <3> QED BY <1>2, <2>1, <2>2, <3>2, <3>3 DEF PassFits, PassStored, Rests
  <2>3. CASE ~(at[c] # "idle" /\ QueueOf(c) = "grade.q")
    BY <2>1, <2>3 DEF PassFits, Rests
  <2> QED BY <2>2, <2>3
<1>6. EveryPassKept'
  <2>1. \A c \in Consumers : Sub(c)' = Sub(c)
    BY <1>2 DEF Sub, Env
  <2>2. \A s \in Submissions, n \in Nat :
          n = graded[s] \/ n \in undone[s] => n = graded'[s] \/ n \in undone'[s]
    BY <1>3
  <2> QED BY <1>2, <2>1, <2>2 DEF PassInv, EveryPassKept, localVars
<1>7. RequestsStored'
  <2>1. \A c \in Slots : req[c] # NoReq => req[c].sub \in Submissions
    BY InRequest
  <2> QED BY <1>3, <1>4, <2>1 DEF PassInv, RequestsStored
<1> QED BY <1>5, <1>6, <1>7 DEF PassInv

LEMMA NextPass == Recording /\ TypeInv /\ PassInv /\ [Next]_vars => PassInv'
<1> SUFFICES ASSUME Recording, TypeInv, PassInv, [Next]_vars PROVE PassInv'
  OBVIOUS
<1>0. req \in [Slots -> Requests \cup {NoReq}]
  BY DEF TypeInv, TypeOK, RequestTypeOK
<1>1. CASE UNCHANGED <<hand, localVars, graded, archive, undone, passes, req>>
  BY <1>1, RequestPass
<1>2. ASSUME NEW p \in Consumers, ConsumerStep(p) \/ Lose(p) PROVE PassInv'
  BY <1>2, MarkStep, ArchiveStep, StoreStep, OtherPassSteps DEF Recording
<1>3. ASSUME NEW p \in Consumers, CallFails(p) \/ Crash(p) PROVE FALSE
  BY <1>3 DEF CallFails, Crash, Fault, Recording
<1>4. ASSUME NEW r \in Slots, RequestStep(r) \/ RequestFails(r), ~PutRegenerated(r)
      PROVE  PassInv'
  <2>1. UNCHANGED <<hand, localVars, graded, archive, undone, passes>>
    BY <1>4
       DEF RequestStep, RequestFails, PutPDF, SetSourcePDFKey, LoadGraded,
           InsertAuditEvent, PutSnapshot, InsertFinalGrade, SendCommand, busVars,
           storeVars, gradeVars
  <2>2. req[r] \in Requests
    BY <1>0, <1>4
       DEF RequestStep, RequestFails, PutPDF, SetSourcePDFKey, LoadGraded,
           InsertAuditEvent, PutSnapshot, InsertFinalGrade, SendCommand, At
  <2>3. ASSUME NEW step, GotoReq(r, step)
        PROVE  /\ req'[r].sub = req[r].sub /\ req'[r].pass = req[r].pass
               /\ \A c \in Slots \ {r} : req'[c] = req[c]
    BY <1>0, <2>2, <2>3 DEF GotoReq, Requests
  <2>4. \/ \E step : GotoReq(r, step)
        \/ req' = [req EXCEPT ![r] = NoReq]
        \/ req' = [req EXCEPT ![r].at = "audit", ![r].pass = graded[req[r].sub]]
    BY <1>4
       DEF RequestStep, RequestFails, PutPDF, SetSourcePDFKey, LoadGraded,
           InsertAuditEvent, PutSnapshot, InsertFinalGrade, SendCommand
  <2>5. CASE \E step : GotoReq(r, step)
    <3>1. /\ req'[r].sub = req[r].sub /\ req'[r].pass = req[r].pass
          /\ \A c \in Slots \ {r} : req'[c] = req[c]
      BY <2>3, <2>5
    <3>2. req[r] # NoReq
      BY <2>2, EmptyAssumption
    <3> QED BY <2>1, <3>1, <3>2, RequestPass
  <2>6. CASE req' = [req EXCEPT ![r] = NoReq]
    <3>1. req'[r] = NoReq /\ \A c \in Slots \ {r} : req'[c] = req[c]
      BY <1>0, <2>6
    <3> QED BY <2>1, <3>1, RequestPass
  <2>7. CASE req' = [req EXCEPT ![r].at = "audit", ![r].pass = graded[req[r].sub]]
    <3>1. /\ req'[r].sub = req[r].sub /\ req'[r].pass = graded[req[r].sub]
          /\ \A c \in Slots \ {r} : req'[c] = req[c]
      BY <1>0, <2>2, <2>7 DEF Requests
    <3> QED BY <2>1, <3>1, RequestPass
  <2> QED BY <2>4, <2>5, <2>6, <2>7
<1>5. ASSUME NEW r \in Slots, NEW s \in Submissions, Call(r, s) PROVE PassInv'
  <2>1. UNCHANGED <<hand, localVars, graded, archive, undone, passes>>
    BY <1>5
       DEF Call, PostSubmission, Approve, PublishHandler, Export, RegradeAppeal,
           Regenerate, Open, busVars, storeVars, gradeVars
  <2>2. \E op, step : req' = [req EXCEPT ![r] = [op |-> op, sub |-> s, at |-> step,
                                                 pass |-> 0]]
    BY <1>5
       DEF Call, PostSubmission, Approve, PublishHandler, Export, RegradeAppeal,
           Regenerate, Open
  <2>3. req'[r].pass = 0 /\ \A c \in Slots \ {r} : req'[c] = req[c]
    BY <1>0, <2>2
  <2> QED BY <2>1, <2>3, RequestPass
<1>6. ASSUME NEW s \in Submissions, OperatorCommand(s)
      PROVE  UNCHANGED <<hand, localVars, graded, archive, undone, passes, req>>
  BY <1>6 DEF OperatorCommand, storeVars, gradeVars
<1>7. CASE UNCHANGED vars
  BY <1>1, <1>7 DEF vars, busVars, storeVars, gradeVars
<1> QED
  BY <1>1, <1>2, <1>3, <1>4, <1>5, <1>6, <1>7, RegeneratePass DEF Next

\* No marking pass is lost: a regrade archives the graded paper it is about to
\* overwrite, so each pass is the graded paper, in an archive or in the hands
\* of the worker about to store it, even when messages are lost; only Regenerate
\* can undo one.
THEOREM PassesKept ==
  ASSUME Recording
  PROVE  Spec => []EveryPassKept
<1>1. Init => PassInv
  BY DEF Init, PassInv, PassFits, RequestsStored, EveryPassKept
<1>2. TypeInv /\ PassInv /\ [Next]_vars => PassInv'
  BY NextPass
<1>3. PassInv => EveryPassKept
  BY DEF PassInv
<1> QED BY <1>1, <1>2, <1>3, TypeInvariance, PTL DEF Spec
=============================================================================
