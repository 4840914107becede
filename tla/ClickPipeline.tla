---------------------------- MODULE ClickPipeline ----------------------------
(***************************************************************************)
(* The analytics pipeline: a redirect schedules a background task, the     *)
(* task publishes a click event to RabbitMQ, a worker consumes it with     *)
(* manual acknowledgement and writes it to click_events, and whatever      *)
(* cannot be processed is dead-lettered.                                   *)
(*                                                                         *)
(* The broker and a worker each have their own view of their connection:   *)
(* link[w] is the broker's.  When it breaks the broker requeues what the   *)
(* worker has not acknowledged, while the worker, busy in a callback, goes *)
(* on with messages it already received until it notices.                  *)
(***************************************************************************)
EXTENDS Integers, FiniteSets

CONSTANTS
  Clicks,       \* what build_click_event_message makes, each with its event_id
  Unstorable,   \* well-formed, but no row PostgreSQL accepts (unknown url_id)
  Malformed,    \* not JSON, or an object without event_id or url_id
  Scalars,      \* JSON that is no container: looking for fields is a TypeError
  Workers,      \* consumer threads, one per worker process
  NoMessage,    \* no delivery is being handled
  MaxRetries,   \* MAX_RETRIES
  MaxConnectAttempts, \* max_attempts of connect_with_retry
  Prefetch,     \* basic_qos(prefetch_count)
  MaxFaults,    \* bound on connection losses and failed connection attempts
  MaxCrashes    \* bound on killed processes, backends and workers together

Messages == Clicks \cup Unstorable \cup Malformed \cup Scalars

ASSUME MessagesAssumption ==
  /\ Clicks \cap (Unstorable \cup Malformed \cup Scalars) = {}
  /\ Unstorable \cap (Malformed \cup Scalars) = {}
  /\ Malformed \cap Scalars = {}
  /\ NoMessage \notin Messages

ASSUME BoundsAssumption ==
  /\ MaxRetries \in Nat \ {0}
  /\ MaxConnectAttempts \in Nat \ {0}
  /\ Prefetch \in Nat \ {0}
  /\ MaxFaults \in Nat
  /\ MaxCrashes \in Nat

VARIABLES
  unsent,       \* messages nobody has made yet
  tasks,        \* background tasks of the backend, not yet run
  accepted,     \* messages the broker ever enqueued
  queue,        \* click_events, messages ready for delivery
  unacked,      \* unacked[w]: delivered to w, held by the broker until settled
  dlq,          \* click_events.dlq
  dlq_declared, \* does click_events.dlq exist?
  link,         \* link[w]: the broker has an open connection from w
  clicks,       \* clicks[m]: rows of click_events with the event_id of m
  step,         \* step[w]: where the consumer thread is
  received,     \* received[w]: deliveries in w's memory, callback not started
  holding,      \* holding[w]: the delivery handle_delivery works on
  attempt,      \* attempt[w]: its processing attempt
  tries,        \* tries[w]: failed attempts of this connect_with_retry
  consumer_connected, \* consumer_connected[w]: what w's health endpoint says
  faults, crashes

broker == <<accepted, queue, unacked, dlq, dlq_declared, link>>
thread == <<step, received, holding, attempt, tries, consumer_connected>>
bounds == <<faults, crashes>>
vars == <<unsent, tasks, broker, clicks, thread, bounds>>

ThreadSteps == {"down", "connecting", "declaring", "consuming", "processing",
                "acking", "nacking", "raised", "dead", "unresolved"}

Init ==
  /\ unsent = Messages
  /\ tasks = {}
  /\ accepted = {} /\ queue = {} /\ dlq = {}
  /\ unacked = [w \in Workers |-> {}]
  /\ dlq_declared = FALSE
  /\ link = [w \in Workers |-> FALSE]
  /\ clicks = [m \in Messages |-> 0]
  /\ step = [w \in Workers |-> "connecting"]
  /\ received = [w \in Workers |-> {}]
  /\ holding = [w \in Workers |-> NoMessage]
  /\ attempt = [w \in Workers |-> 0]
  /\ tries = [w \in Workers |-> 0]
  /\ consumer_connected = [w \in Workers |-> FALSE]
  /\ faults = 0 /\ crashes = 0

-----------------------------------------------------------------------------
(* The backend: redirect_to_long_url, record_click and publish().          *)

\* A redirect is answered; add_task leaves the click for after the response.
Redirect(m) ==
  /\ m \in unsent /\ m \in Clicks
  /\ unsent' = unsent \ {m}
  /\ tasks' = tasks \cup {m}
  /\ UNCHANGED <<broker, clicks, thread, bounds>>

Enqueue(m) ==
  /\ queue' = queue \cup {m}
  /\ accepted' = accepted \cup {m}

\* publish() reached the broker.  It may still raise while it closes the
\* connection; the error is logged and nothing is published again.
Publish(m) ==
  /\ m \in tasks
  /\ tasks' = tasks \ {m}
  /\ Enqueue(m)
  /\ UNCHANGED <<unsent, unacked, dlq, dlq_declared, link, clicks, thread, bounds>>

\* publish() failed: logged, and the event is dropped.
PublishFails(m) ==
  /\ m \in tasks
  /\ tasks' = tasks \ {m}
  /\ UNCHANGED <<unsent, broker, clicks, thread, bounds>>

\* The backend process is killed: its background tasks are gone.
BackendCrash ==
  /\ tasks # {} /\ crashes < MaxCrashes
  /\ tasks' = {}
  /\ crashes' = crashes + 1
  /\ UNCHANGED <<unsent, broker, clicks, thread, faults>>

\* Another producer puts a message of its own on the queue.
ForeignPublish(m) ==
  /\ m \in unsent /\ m \notin Clicks
  /\ unsent' = unsent \ {m}
  /\ Enqueue(m)
  /\ UNCHANGED <<tasks, unacked, dlq, dlq_declared, link, clicks, thread, bounds>>

-----------------------------------------------------------------------------
(* The broker's side of a connection.                                      *)

\* Whatever ends the connection of w, the broker takes back its deliveries.
BrokerDropsLink(w) ==
  /\ link' = [link EXCEPT ![w] = FALSE]
  /\ queue' = queue \cup unacked[w]
  /\ unacked' = [unacked EXCEPT ![w] = {}]
  /\ UNCHANGED <<accepted, dlq, dlq_declared>>

\* w has called basic_consume on this connection.
Subscribed(w) ==
  step[w] \in {"consuming", "processing", "acking", "nacking", "raised"}

Deliver(w) ==
  /\ link[w] /\ Subscribed(w)
  /\ Cardinality(unacked[w]) < Prefetch
  /\ \E m \in queue :
       /\ queue' = queue \ {m}
       /\ unacked' = [unacked EXCEPT ![w] = @ \cup {m}]
       /\ received' = [received EXCEPT ![w] = @ \cup {m}]
  /\ UNCHANGED <<unsent, tasks, accepted, dlq, dlq_declared, link, clicks, step,
                 holding, attempt, tries, consumer_connected, bounds>>

\* A broker restart, a network failure, or heartbeats the worker missed
\* because its only thread was in a callback.
ConnectionLost(w) ==
  /\ link[w] /\ faults < MaxFaults
  /\ faults' = faults + 1
  /\ BrokerDropsLink(w)
  /\ UNCHANGED <<unsent, tasks, clicks, thread, crashes>>

-----------------------------------------------------------------------------
(* The worker: connecting.                                                 *)

Goto(w, s) == step' = [step EXCEPT ![w] = s]

\* The thread leaves _consume_once, whose finally block clears the flag.
Leave(w, s) ==
  /\ Goto(w, s)
  /\ received' = [received EXCEPT ![w] = {}]
  /\ holding' = [holding EXCEPT ![w] = NoMessage]
  /\ attempt' = [attempt EXCEPT ![w] = 0]
  /\ tries' = [tries EXCEPT ![w] = 0]
  /\ consumer_connected' = [consumer_connected EXCEPT ![w] = FALSE]

\* Mutant: without run_consumer_forever, the thread ends with its connection.
ThreadEnds(w) == Leave(w, "dead")

\* Mutant: the deliveries of the old connection are kept in memory.
KeepReceived(w) ==
  /\ Goto(w, "connecting")
  /\ holding' = [holding EXCEPT ![w] = NoMessage]
  /\ attempt' = [attempt EXCEPT ![w] = 0]
  /\ tries' = [tries EXCEPT ![w] = 0]
  /\ consumer_connected' = [consumer_connected EXCEPT ![w] = FALSE]
  /\ UNCHANGED received

\* After an AMQPError run_consumer_forever starts over, with a clean connection.
Reconnect(w) == Leave(w, "connecting")

Connect(w) ==
  /\ step[w] = "connecting"
  /\ link' = [link EXCEPT ![w] = TRUE]
  /\ Goto(w, "declaring")
  /\ UNCHANGED <<unsent, tasks, accepted, queue, unacked, dlq, dlq_declared,
                 clicks, received, holding, attempt, tries, consumer_connected,
                 bounds>>

\* An attempt fails.  After an AMQPConnectionError there is another one; the last
\* raises, and run_consumer_forever calls again.  If the broker's host name does
\* not resolve, pika raises a socket.gaierror: neither connect_with_retry nor
\* run_consumer_forever catches it, and the thread ends.
ConnectFails(w) ==
  /\ step[w] = "connecting" /\ faults < MaxFaults
  /\ faults' = faults + 1
  /\ \/ /\ tries' = [tries EXCEPT ![w] = IF @ + 1 < MaxConnectAttempts THEN @ + 1 ELSE 0]
        /\ UNCHANGED <<step, received, holding, attempt, consumer_connected>>
     \/ Leave(w, "unresolved")
  /\ UNCHANGED <<unsent, tasks, broker, clicks, crashes>>

\* Mutant: as publish() does, only the main queue is declared.
MainQueueOnly == UNCHANGED dlq_declared

\* declare_queues: the dead-letter queue before the queue that refers to it.
DeclaredQueues == dlq_declared' = TRUE

\* declare_queues, basic_qos, basic_consume; the health flag is set last.
StartConsuming(w) ==
  /\ step[w] = "declaring" /\ link[w]
  /\ DeclaredQueues
  /\ Goto(w, "consuming")
  /\ consumer_connected' = [consumer_connected EXCEPT ![w] = TRUE]
  /\ UNCHANGED <<unsent, tasks, accepted, queue, unacked, dlq, link, clicks,
                 received, holding, attempt, tries, bounds>>

\* What the health endpoint of w answers.
Healthy(w) == consumer_connected[w]

\* The thread finds its connection closed.
NoticeLoss(w) ==
  /\ step[w] \in {"declaring", "consuming"} /\ ~link[w]
  /\ Reconnect(w)
  /\ UNCHANGED <<unsent, tasks, broker, clicks, bounds>>

-----------------------------------------------------------------------------
(* The worker: handle_delivery and ClickEventProcessor.process.            *)

\* Mutant: auto_ack, the broker forgets a message when its callback starts.
HandleAutoAcked(w) ==
  /\ step[w] = "consuming"
  /\ \E m \in received[w] :
       /\ received' = [received EXCEPT ![w] = @ \ {m}]
       /\ holding' = [holding EXCEPT ![w] = m]
       /\ unacked' = [unacked EXCEPT ![w] = @ \ {m}]
  /\ attempt' = [attempt EXCEPT ![w] = 1]
  /\ Goto(w, "processing")
  /\ UNCHANGED <<unsent, tasks, accepted, queue, dlq, dlq_declared, link, clicks,
                 tries, consumer_connected, bounds>>

\* The next delivery in memory; it may have been requeued in the meantime.
HandleDelivery(w) ==
  /\ step[w] = "consuming"
  /\ \E m \in received[w] :
       /\ received' = [received EXCEPT ![w] = @ \ {m}]
       /\ holding' = [holding EXCEPT ![w] = m]
  /\ attempt' = [attempt EXCEPT ![w] = 1]
  /\ Goto(w, "processing")
  /\ UNCHANGED <<unsent, tasks, broker, clicks, tries, consumer_connected, bounds>>

\* Mutant: the insert without ON CONFLICT and the unique index.
PlainInsert(m) == clicks' = [clicks EXCEPT ![m] = @ + 1]

\* INSERT ... ON CONFLICT (event_id) DO NOTHING.
InsertIdempotent(m) == clicks' = [clicks EXCEPT ![m] = IF @ = 0 THEN 1 ELSE @]

\* Mutant: one retry too many.
PastLastRetry(n) == n > MaxRetries

\* Mutant: one retry short.
OneRetryShort(n) == n + 1 >= MaxRetries

RetriesExhausted(n) == n >= MaxRetries

\* A ProcessingError: retry after a pause, or give up.
ProcessingFails(w) ==
  IF RetriesExhausted(attempt[w])
    THEN Goto(w, "nacking") /\ UNCHANGED attempt
    ELSE attempt' = [attempt EXCEPT ![w] = @ + 1] /\ UNCHANGED step

ProcessClick(w) ==
  /\ step[w] = "processing" /\ holding[w] \in Clicks
  /\ \/ InsertIdempotent(holding[w]) /\ Goto(w, "acking") /\ UNCHANGED attempt
     \/ UNCHANGED clicks /\ ProcessingFails(w)                \* not committed
     \/ InsertIdempotent(holding[w]) /\ ProcessingFails(w)    \* answer lost
  /\ UNCHANGED <<unsent, tasks, broker, received, holding, tries,
                 consumer_connected, bounds>>

ProcessUnstorable(w) ==
  /\ step[w] = "processing" /\ holding[w] \in Unstorable
  /\ ProcessingFails(w)
  /\ UNCHANGED <<unsent, tasks, broker, clicks, received, holding, tries,
                 consumer_connected, bounds>>

\* A MalformedMessageError goes to the dead-letter queue at once; the
\* TypeError on a scalar is caught by nobody.
ProcessMalformed(w) ==
  /\ step[w] = "processing"
  /\ \/ holding[w] \in Malformed /\ Goto(w, "nacking")
     \/ holding[w] \in Scalars /\ Goto(w, "raised")
  /\ UNCHANGED <<unsent, tasks, broker, clicks, received, holding, attempt,
                 tries, consumer_connected, bounds>>

\* basic_ack or basic_nack got through; the delivery is settled.
Settled(w) ==
  /\ link[w]
  /\ unacked' = [unacked EXCEPT ![w] = @ \ {holding[w]}]
  /\ holding' = [holding EXCEPT ![w] = NoMessage]
  /\ attempt' = [attempt EXCEPT ![w] = 0]
  /\ Goto(w, "consuming")
  /\ UNCHANGED <<unsent, tasks, accepted, dlq_declared, link, clicks, received,
                 tries, consumer_connected, bounds>>

Ack(w) ==
  /\ step[w] = "acking"
  /\ Settled(w)
  /\ UNCHANGED <<queue, dlq>>

\* Mutant: requeue=True.
Requeued(m) ==
  /\ queue' = queue \cup {m}
  /\ UNCHANGED dlq

\* requeue=False: the broker drops what it has no dead-letter queue for.
DeadLettered(m) ==
  /\ dlq' = IF dlq_declared THEN dlq \cup {m} ELSE dlq
  /\ UNCHANGED queue

Nack(w) ==
  /\ step[w] = "nacking"
  /\ Settled(w)
  /\ DeadLettered(holding[w])

\* The acknowledgement of a delivery on a lost connection: nothing reaches the
\* broker, and the thread notices now or goes on with what it has received.
SettleOnLostLink(w) ==
  /\ step[w] \in {"acking", "nacking"} /\ ~link[w]
  /\ \/ Reconnect(w)
     \/ /\ holding' = [holding EXCEPT ![w] = NoMessage]
        /\ attempt' = [attempt EXCEPT ![w] = 0]
        /\ Goto(w, "consuming")
        /\ UNCHANGED <<received, tries, consumer_connected>>
  /\ UNCHANGED <<unsent, tasks, broker, clicks, bounds>>

\* An exception other than AMQPError leaves _consume_once: close() succeeds
\* and the thread ends, or close() fails with an AMQPError of its own and
\* run_consumer_forever reconnects.
Unwind(w) ==
  /\ step[w] = "raised"
  /\ \/ link[w] /\ BrokerDropsLink(w) /\ Leave(w, "dead")
     \/ ~link[w] /\ Reconnect(w) /\ UNCHANGED broker
  /\ UNCHANGED <<unsent, tasks, clicks, bounds>>

-----------------------------------------------------------------------------
(* The worker process is killed, and started again by its operator.        *)

WorkerCrash(w) ==
  /\ step[w] # "down" /\ crashes < MaxCrashes
  /\ crashes' = crashes + 1
  /\ BrokerDropsLink(w)
  /\ Leave(w, "down")
  /\ UNCHANGED <<unsent, tasks, clicks, faults>>

WorkerStart(w) ==
  /\ step[w] = "down"
  /\ Goto(w, "connecting")
  /\ UNCHANGED <<unsent, tasks, broker, clicks, received, holding, attempt,
                 tries, consumer_connected, bounds>>

-----------------------------------------------------------------------------
\* What the consumer thread of w does next.
Consume(w) ==
  \/ Connect(w) \/ StartConsuming(w) \/ NoticeLoss(w)
  \/ HandleDelivery(w)
  \/ ProcessClick(w) \/ ProcessUnstorable(w) \/ ProcessMalformed(w)
  \/ Ack(w) \/ Nack(w) \/ SettleOnLostLink(w) \/ Unwind(w)

Next ==
  \/ \E m \in Messages :
       Redirect(m) \/ Publish(m) \/ PublishFails(m) \/ ForeignPublish(m)
  \/ BackendCrash
  \/ \E w \in Workers :
       \/ Deliver(w) \/ ConnectionLost(w) \/ ConnectFails(w)
       \/ Consume(w)
       \/ WorkerCrash(w) \/ WorkerStart(w)

\* A running thread keeps running, the broker delivers to its consumers and the
\* backend runs its background tasks; nobody promises that a killed worker is
\* started again.
Spec ==
  /\ Init /\ [][Next]_vars
  /\ \A m \in Messages : WF_vars(Publish(m) \/ PublishFails(m))
  /\ \A w \in Workers : WF_vars(Consume(w)) /\ WF_vars(Deliver(w))

-----------------------------------------------------------------------------
(* Properties.                                                             *)

TypeOK ==
  /\ unsent \subseteq Messages /\ tasks \subseteq Messages
  /\ accepted \subseteq Messages /\ queue \subseteq Messages
  /\ dlq \subseteq Messages
  /\ unacked \in [Workers -> SUBSET Messages]
  /\ dlq_declared \in BOOLEAN
  /\ link \in [Workers -> BOOLEAN]
  /\ clicks \in [Messages -> Nat]
  /\ step \in [Workers -> ThreadSteps]
  /\ received \in [Workers -> SUBSET Messages]
  /\ holding \in [Workers -> Messages \cup {NoMessage}]
  /\ attempt \in [Workers -> 0..MaxRetries]
  /\ tries \in [Workers -> 0..(MaxConnectAttempts - 1)]
  /\ consumer_connected \in [Workers -> BOOLEAN]
  /\ faults \in 0..MaxFaults /\ crashes \in 0..MaxCrashes

\* However often an event is redelivered, even to two workers at once or while
\* the first one is still writing it, it is counted at most once.
CountedOnce == \A m \in Messages : clicks[m] <= 1

\* Everything the broker accepted is stored, dead-lettered, or still in the
\* broker's hands: no crash, connection loss or failed write loses it.
NothingLost ==
  \A m \in accepted :
    \/ clicks[m] > 0
    \/ m \in queue \cup dlq
    \/ \E w \in Workers : m \in unacked[w]

\* The broker has a message in one place, and an acknowledgement that gets
\* through settles a delivery that is still the worker's own: a worker that was
\* disconnected in a callback cannot settle, drop or dead-letter a message that
\* was given back to the queue or to another worker meanwhile.
OneCopy ==
  /\ queue \cap dlq = {}
  /\ \A w \in Workers : unacked[w] \cap (queue \cup dlq) = {}
  /\ \A v, w \in Workers : v # w => unacked[v] \cap unacked[w] = {}
  /\ \A w \in Workers :
       link[w] /\ step[w] \in {"acking", "nacking"} => holding[w] \in unacked[w]

\* A genuine click reaches the dead-letter queue only after MAX_RETRIES
\* attempts within one delivery.
DeadLetterJustified ==
  [][\A m \in Clicks \cap (dlq' \ dlq) :
       \E w \in Workers : holding[w] = m /\ attempt[w] = MaxRetries]_vars

\* w is not running: its process was killed, or its thread could not look up the
\* broker's name.  It runs again only if somebody starts the process again.
Stopped(w) == step[w] \in {"down", "unresolved"}

Processed(m) == m \in dlq \/ clicks[m] > 0

\* Accepted, and nobody is left to work on it.
Stranded(m) == m \in accepted /\ \A w \in Workers : Stopped(w)

\* Every accepted message is eventually stored or dead-lettered, as long as one
\* worker is left: it takes over whatever the others had, and neither a message nor
\* a broken connection may stop it.  With none left the promise is due again from
\* the moment that one is started.  (Refuted with Scalars, which end the thread.)
AcceptedSettles ==
  \A m \in Messages : m \in accepted ~> Processed(m) \/ Stranded(m)

\* The click of every answered redirect comes to an end: it is stored, or
\* dead-lettered, or it was dropped by its own publisher before the broker
\* accepted it, and no other failure makes it disappear.
RedirectSettles ==
  \A m \in Clicks :
    m \in tasks ~> Processed(m) \/ Stranded(m) \/ m \notin tasks \cup accepted

\* A worker is consuming again after every loss of its connection, and its health
\* endpoint says so, unless it was killed or could not look up the broker's name:
\* no other failure of a connection or of PostgreSQL ends its thread.
WorkerRecovers ==
  \A w \in Workers : []<>(Healthy(w) \/ Stopped(w))

-----------------------------------------------------------------------------
(* ClickPipeline implements ClickLedger.                                   *)

Delivered == UNION {unacked[w] : w \in Workers}

Stage(m) ==
  IF m \in unsent THEN "unmade"
  ELSE IF m \in tasks THEN "scheduled"
  ELSE IF m \notin accepted THEN "lost"
  ELSE IF m \in dlq THEN "dead"
  ELSE IF m \in queue \cup Delivered THEN "pending" ELSE "done"

Stages == [m \in Messages |-> Stage(m)]

Ledger == INSTANCE ClickLedger WITH
  Foreign <- Unstorable \cup Malformed \cup Scalars,
  stage <- Stages, count <- clicks

\* Broker, workers and PostgreSQL together keep one ledger, whatever breaks: each
\* message goes forward only, and nothing accepted is done before it is counted.
ImplementsLedger == Ledger!Spec

-----------------------------------------------------------------------------
(* The inductive invariant the safety properties rest on.                  *)

\* In a callback the thread works on a message, and only there.
HoldsInCallback ==
  \A w \in Workers :
    step[w] \in {"processing", "acking", "nacking", "raised"} <=>
      holding[w] \in Messages

\* basic_ack is only ever sent for an event whose row is committed.
AckAfterCommit ==
  \A w \in Workers : step[w] = "acking" => clicks[holding[w]] > 0

\* A click is given up only when its attempts are used up.
NackAfterRetries ==
  \A w \in Workers :
    step[w] = "nacking" /\ holding[w] \in Clicks => attempt[w] = MaxRetries

\* Nobody consumes before the dead-letter queue exists.
DlqBeforeConsuming ==
  \A w \in Workers : Subscribed(w) => dlq_declared

\* A message is made, accepted and settled in this order, each once.
LifeInOrder ==
  /\ unsent \cap (tasks \cup accepted) = {}
  /\ tasks \cap accepted = {} /\ tasks \subseteq Clicks
  /\ queue \cup dlq \subseteq accepted
  /\ \A w \in Workers : unacked[w] \subseteq accepted

\* On an open connection the worker has in memory only what it has to settle; a
\* broken one leaves the broker nothing to wait for, and a new one starts empty.
DeliveriesMatch ==
  \A w \in Workers :
    /\ link[w] => /\ step[w] \notin {"down", "connecting", "dead", "unresolved"}
                  /\ received[w] \subseteq unacked[w]
                  /\ holding[w] \in Messages =>
                       holding[w] \in unacked[w] \ received[w]
    /\ ~link[w] => unacked[w] = {}
    /\ ~Subscribed(w) => received[w] = {}
    /\ received[w] \subseteq accepted
    /\ holding[w] \in Messages => holding[w] \in accepted

\* What every step preserves: a message leaves the broker's hands only for a
\* committed row or a dead-letter queue that exists.
IndInv ==
  /\ TypeOK
  /\ HoldsInCallback
  /\ AckAfterCommit
  /\ NackAfterRetries
  /\ DlqBeforeConsuming
  /\ LifeInOrder
  /\ DeliveriesMatch
  /\ CountedOnce
  /\ NothingLost
  /\ OneCopy

=============================================================================
