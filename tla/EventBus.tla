------------------------------ MODULE EventBus ------------------------------
(***************************************************************************)
(* The RabbitMQ topic exchange "order_events" as the three Go services use *)
(* it, and the AMQP client loop (for d := range msgs) they have in common. *)
(*                                                                         *)
(* A message waits in the durable queue of its routing key (queue) until   *)
(* the broker pushes it to a subscribed instance.  Every subscription is   *)
(* auto-ack with no prefetch limit: the broker forgets a message the       *)
(* moment it is pushed, and until the loop takes it the message exists     *)
(* only in the memory of that instance (inbox).  The head of a busy        *)
(* instance's inbox is the message its loop body is working on.            *)
(***************************************************************************)
EXTENDS Naturals, Sequences

CONSTANTS
    Order,          \* the order ids a run creates
    OrderSvc,       \* instances (processes) of the order service
    PaymentSvc,     \* instances of the payment service
    DeliverySvc,    \* instances of the delivery service
    MaxCrashes,     \* bound on process crashes
    MaxOutages,     \* bound on connection losses and broker restarts
    MaxDbErrors     \* bound on failed database calls

ASSUME InstancesDisjoint ==
    /\ OrderSvc \cap PaymentSvc = {}
    /\ OrderSvc \cap DeliverySvc = {}
    /\ PaymentSvc \cap DeliverySvc = {}

ASSUME BudgetsNat ==
    /\ MaxCrashes \in Nat
    /\ MaxOutages \in Nat
    /\ MaxDbErrors \in Nat

Service == OrderSvc \cup PaymentSvc \cup DeliverySvc

\* Each routing key is bound to one queue, each queue feeds one kind of service.
Key == {"order.created", "payment.succeeded", "order.paid", "order.delivered"}

Queue == {"payment_service_queue", "delivery_service_queue",
          "order_service_events_queue"}

QueueOf(key) ==
    CASE key = "order.created" -> "payment_service_queue"
      [] key = "order.paid" -> "delivery_service_queue"
      [] OTHER -> "order_service_events_queue"

QueueFor(s) ==
    CASE s \in PaymentSvc -> "payment_service_queue"
      [] s \in DeliverySvc -> "delivery_service_queue"
      [] OTHER -> "order_service_events_queue"

\* Mutant: only the first topic of the order service's list is bound.
KeysFor_FirstTopic(s) ==
    {key \in Key \ {"order.delivered"} : QueueOf(key) = QueueFor(s)}

KeysFor(s) == {key \in Key : QueueOf(key) = QueueFor(s)}

Message == [key : Key, order : Order]

Step == {"idle", "history", "emit", "publish"}

Event(key, o) == [key |-> key, order |-> o]

VARIABLES
    bound,   \* routing keys bound to their (declared) queue
    queue,   \* per queue: the messages the broker holds
    up,      \* running processes
    starting,\* processes that are still setting their consumer up
    sub,     \* processes subscribed to their queue on a live connection
    pub,     \* processes whose publishing channel is alive
    inbox,   \* per process: messages pushed to it, auto-acked, not finished
    step,    \* per process: where its consumer loop body is
    faults   \* how many faults of each kind have happened

busVars == <<bound, queue, up, starting, sub, pub, inbox, step, faults>>

-----------------------------------------------------------------------------
\* Faults are environment steps drawn from a budget.
FaultKind == {"crash", "outage", "db"}

Budget(kind) == CASE kind = "crash"  -> MaxCrashes
                  [] kind = "outage" -> MaxOutages
                  [] OTHER            -> MaxDbErrors

Fault(kind) ==
    /\ faults[kind] < Budget(kind)
    /\ faults' = [faults EXCEPT ![kind] = @ + 1]

NoFaults == \A kind \in FaultKind : faults[kind] = 0

\* PublishWithContext with mandatory = false and every error ignored: the
\* message is gone when the channel is dead or no queue is bound to its key.
Publish(s, key, o) ==
    queue' = IF s \in pub /\ key \in bound
             THEN [queue EXCEPT ![QueueOf(key)] = Append(@, Event(key, o))]
             ELSE queue

\* The broker pushes the oldest message to a subscriber and, the subscription
\* being auto-ack, forgets it.
PushToConsumer(s) ==
    /\ s \in sub
    /\ queue[QueueFor(s)] # <<>>
    /\ inbox' = [inbox EXCEPT ![s] = Append(@, Head(queue[QueueFor(s)]))]
    /\ queue' = [queue EXCEPT ![QueueFor(s)] = Tail(@)]
    /\ UNCHANGED <<bound, up, starting, sub, pub, step, faults>>

\* The loop of s is at its range statement and a message has arrived.
Receiving(s) == step[s] = "idle" /\ inbox[s] # <<>>

\* The loop body of s is over: it forgets the message and ranges again.
FinishMessage(s) ==
    /\ inbox' = [inbox EXCEPT ![s] = Tail(@)]
    /\ step' = [step EXCEPT ![s] = "idle"]

-----------------------------------------------------------------------------
\* Process start: dial (until the broker answers), open the publishing channel,
\* declare exchange and queue.
Start(s) ==
    /\ s \notin up
    /\ up' = up \cup {s}
    /\ starting' = starting \cup {s}
    /\ pub' = pub \cup {s}
    /\ UNCHANGED <<bound, queue, sub, inbox, step, faults>>

\* One QueueBind call, in the order of the service's list of topics.  (To bind
\* a key again, as every later instance does, changes nothing.)
BindKey(s) ==
    /\ s \in starting
    /\ \E key \in KeysFor(s) \ bound :
           /\ key = "order.delivered" => "payment.succeeded" \in bound
           /\ bound' = bound \cup {key}
    /\ UNCHANGED <<queue, up, starting, sub, pub, inbox, step, faults>>

\* Mutant: the queue is declared and bound, and never consumed.
Subscribe_NeverConsumes(s) ==
    /\ s \in starting
    /\ KeysFor(s) \subseteq bound
    /\ starting' = starting \ {s}
    /\ UNCHANGED <<bound, queue, up, sub, pub, inbox, step, faults>>

\* Consume, once every topic is bound: the process ranges over its messages.
Subscribe(s) ==
    /\ s \in starting
    /\ KeysFor(s) \subseteq bound
    /\ starting' = starting \ {s}
    /\ sub' = sub \cup {s}
    /\ UNCHANGED <<bound, queue, up, pub, inbox, step, faults>>

\* Mutant: the connections outlive the process.
Vanish_KeepsConnections(s) ==
    /\ up' = up \ {s}
    /\ UNCHANGED <<starting, sub, pub>>
    /\ inbox' = [inbox EXCEPT ![s] = <<>>]
    /\ step' = [step EXCEPT ![s] = "idle"]

\* The process is gone with everything it held in memory.
Vanish(s) ==
    /\ up' = up \ {s}
    /\ starting' = starting \ {s}
    /\ sub' = sub \ {s}
    /\ pub' = pub \ {s}
    /\ inbox' = [inbox EXCEPT ![s] = <<>>]
    /\ step' = [step EXCEPT ![s] = "idle"]

\* Mutant: manual acknowledgement, so that what s had not finished goes back to
\* its queue.
CrashProcess_Redelivers(s) ==
    /\ s \in up
    /\ Fault("crash")
    /\ Vanish(s)
    /\ queue' = [queue EXCEPT ![QueueFor(s)] = inbox[s] \o @]
    /\ UNCHANGED bound

CrashProcess(s) ==
    /\ s \in up
    /\ Fault("crash")
    /\ Vanish(s)
    /\ UNCHANGED <<bound, queue>>

\* What a closing consumer channel leaves of an inbox: the client library
\* drops what the loop has not taken; the message being worked on survives.
InHand(s) == IF step[s] = "idle" THEN <<>> ELSE SubSeq(inbox[s], 1, 1)

\* One TCP connection dies, or a call on it fails.  The payment and delivery
\* services consume and publish on the same one; the order service has one for
\* each direction.  During the set-up of the consumer main of the order service
\* logs the error and serves gRPC without one, with whatever is bound so far;
\* main of the other two gives up (log.Fatalf: ExitAfterLoop).
LoseConsumerConnection(s) ==
    /\ s \in sub \cup starting
    /\ Fault("outage")
    /\ sub' = sub \ {s}
    /\ starting' = starting \ {s}
    /\ pub' = IF s \in OrderSvc THEN pub ELSE pub \ {s}
    /\ inbox' = [inbox EXCEPT ![s] = InHand(s)]
    /\ UNCHANGED <<bound, queue, up, step>>

LoseProducerConnection(s) ==
    /\ s \in OrderSvc \cap pub
    /\ Fault("outage")
    /\ pub' = pub \ {s}
    /\ UNCHANGED <<bound, queue, up, starting, sub, inbox, step>>

\* Exchange, queues and bindings are durable; messages are published without
\* DeliveryMode, hence transient: a broker restart keeps the former, loses the
\* latter, and cuts every connection.  An order service that has not dialled
\* for its consumer yet (NewRabbitMQConsumer retries) still can.
RestartBroker ==
    /\ Fault("outage")
    /\ queue' = [q \in Queue |-> <<>>]
    /\ sub' = {}
    /\ pub' = {}
    /\ starting' \in SUBSET (starting \cap OrderSvc)
    /\ inbox' = [s \in Service |-> InHand(s)]
    /\ UNCHANGED <<bound, up, step>>

\* The main function of the payment and of the delivery service ends with its
\* range loop, which ends when the consumer channel is closed, or with a failed
\* set-up: the process exits and can be restarted.  The order service has no such
\* exit: its loop is a goroutine, and the gRPC server keeps the process up.
ExitAfterLoop(s) ==
    /\ s \in (PaymentSvc \cup DeliverySvc) \cap (up \ (sub \cup starting))
    /\ step[s] = "idle"
    /\ inbox[s] = <<>>
    /\ Vanish(s)
    /\ UNCHANGED <<bound, queue, faults>>

-----------------------------------------------------------------------------
BusInit ==
    /\ bound = {}
    /\ queue = [q \in Queue |-> <<>>]
    /\ up = {}
    /\ starting = {}
    /\ sub = {}
    /\ pub = {}
    /\ inbox = [s \in Service |-> <<>>]
    /\ step = [s \in Service |-> "idle"]
    /\ faults = [kind \in FaultKind |-> 0]

BusTypeOK ==
    /\ bound \subseteq Key
    /\ queue \in [Queue -> Seq(Message)]
    /\ up \subseteq Service
    /\ starting \subseteq up
    /\ sub \subseteq up \ starting
    /\ pub \subseteq up
    /\ inbox \in [Service -> Seq(Message)]
    /\ step \in [Service -> Step]
    /\ faults \in [FaultKind -> Nat]
    /\ \A kind \in FaultKind : faults[kind] <= Budget(kind)
=============================================================================
