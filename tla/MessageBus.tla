---------------------------- MODULE MessageBus ----------------------------
(***************************************************************************)
(* The AMQP bus (internal/queue): quorum work queues, each with a          *)
(* dead-letter queue, and consumers that hold one unacknowledged delivery  *)
(* at a time (prefetch 1).  A delivery is an envelope with the broker's    *)
(* x-delivery-count.  The broker itself is external: a rejected or         *)
(* abandoned delivery returns to the front of a quorum queue with its      *)
(* count raised by one; a dead-letter queue is a classic queue, whose      *)
(* deliveries carry no count.                                              *)
(***************************************************************************)
EXTENDS Integers, Sequences, FiniteSets

CONSTANTS Replicas,      \* each replica runs one consumer per consumed queue
          MaxAttempts,   \* Bus.MaxAttempts
          NoMsg          \* the hand of a consumer that holds no delivery

ASSUME MaxAttemptsAssumption == MaxAttempts \in Nat \ {0}

VARIABLES queue,         \* queue[q]: the ready deliveries of q, oldest first
          hand           \* hand[p]: the delivery p has not acknowledged

busVars == <<queue, hand>>

StageQueues == {"render.q", "transcribe.q", "grade.q"}
WorkQueues  == StageQueues \cup {"commands.q", "results.q"}

\* The dead-letter queues that have a consumer.  What is dead-lettered from
\* commands.q and results.q stays in a queue nobody reads: it is not kept here.
dlq(q) == CASE q = "render.q"     -> "render.q.dlq"
            [] q = "transcribe.q" -> "transcribe.q.dlq"
            [] q = "grade.q"      -> "grade.q.dlq"

StageDLQs == {dlq(q) : q \in StageQueues}
Queues    == WorkQueues \cup StageDLQs

Consumers  == Replicas \X Queues
QueueOf(p) == p[2]

Delivery(env, n) == [env |-> env, count |-> n]

---------------------------------------------------------------------------
BusInit == /\ queue = [q \in Queues |-> <<>>]
           /\ hand = [p \in Consumers |-> NoMsg]

\* queue after publishing env to q in the queue contents qs.
Published(qs, q, env) == [qs EXCEPT ![q] = Append(@, Delivery(env, 0))]

Publish(q, env) == queue' = Published(queue, q, env)

\* The consumer's goroutine takes the next delivery from its channel.
Receive(p) == /\ hand[p] = NoMsg
              /\ queue[QueueOf(p)] # <<>>
              /\ hand' = [hand EXCEPT ![p] = Head(queue[QueueOf(p)])]
              /\ queue' = [queue EXCEPT ![QueueOf(p)] = Tail(@)]

\* The handler returned nil.
Ack(p) == /\ hand' = [hand EXCEPT ![p] = NoMsg]
          /\ UNCHANGED queue

\* The delivery goes back to the front of its queue.
Requeued(p) == LET q == QueueOf(p)
                   m == hand[p]
                   n == IF q \in WorkQueues THEN m.count + 1 ELSE 0
               IN  [queue EXCEPT ![q] = <<Delivery(m.env, n)>> \o @]

\* Mutants: one attempt too many; a last requeue along with the dead letter.
NackOnceMore(p) ==
  LET q == QueueOf(p)
      m == hand[p]
  IN  /\ queue' = IF m.count < MaxAttempts THEN Requeued(p)
                  ELSE IF q \in StageQueues THEN Published(queue, dlq(q), m.env)
                  ELSE queue
      /\ hand' = [hand EXCEPT ![p] = NoMsg]
NackTwice(p) ==
  LET q == QueueOf(p)
      m == hand[p]
  IN  /\ queue' = IF m.count + 1 < MaxAttempts THEN Requeued(p)
                  ELSE IF q \in StageQueues /\ m.count + 1 = MaxAttempts
                  THEN Published(Requeued(p), dlq(q), m.env)
                  ELSE queue
      /\ hand' = [hand EXCEPT ![p] = NoMsg]

\* The handler returned an error: requeue, or dead-letter once the attempts
\* are used up.  A dead-letter queue's deliveries are always requeued unless
\* a single attempt is allowed (their count is always 0).
Nack(p) ==
  LET q == QueueOf(p)
      m == hand[p]
  IN  /\ queue' = IF m.count + 1 < MaxAttempts THEN Requeued(p)
                  ELSE IF q \in StageQueues THEN Published(queue, dlq(q), m.env)
                  ELSE queue
      /\ hand' = [hand EXCEPT ![p] = NoMsg]

\* The consumer's process dies, or its connection does, before it answers.
Abandon(p) == /\ queue' = Requeued(p)
              /\ hand' = [hand EXCEPT ![p] = NoMsg]
===========================================================================
