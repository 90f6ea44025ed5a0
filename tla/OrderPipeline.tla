---------------------------- MODULE OrderPipeline ---------------------------
(***************************************************************************)
(* The order pipeline: order, payment and delivery services, any number of *)
(* instances of each, talking through the event bus.                       *)
(***************************************************************************)
EXTENDS OrderService, PaymentService, DeliveryService

\* Whether orders are taken only once every queue is bound.  Nothing in the
\* code or in docker-compose.yml waits for that: TRUE is an assumption about
\* how the system is rolled out.
CONSTANT OrdersWaitForRollout

ASSUME RolloutBoolean == OrdersWaitForRollout \in BOOLEAN

vars == <<busVars, orderVars, payments, shipments>>

workerVars == <<payments, shipments>>

TypeOK == BusTypeOK /\ OrderTypeOK /\ PaymentTypeOK /\ DeliveryTypeOK

Init == BusInit /\ OrderInit /\ PaymentInit /\ DeliveryInit

Admitted == OrdersWaitForRollout => bound = Key

CreatesOrder(s, o) ==
    /\ Admitted
    /\ CreateOrder(s, o) \/ CreateOrderCommitUnknown(s, o)
    /\ UNCHANGED workerVars

\* The steps of an order service's handlers and consumer.
OrderStep(s) ==
    /\ \/ \E o \in Order : EmitOrderCreated(s, o)
       \/ UpdateStatus(s) \/ UpdateStatusFails(s)
       \/ AddHistory(s) \/ AddHistoryFails(s)
       \/ EmitOrderPaid(s) \/ GetOrderFails(s)
    /\ UNCHANGED workerVars

PaymentStep(s) ==
    /\ ChargePayment(s) \/ PublishPaymentSucceeded(s)
    /\ UNCHANGED <<orderVars, shipments>>

DeliveryStep(s) ==
    /\ ShipOrder(s) \/ PublishOrderDelivered(s)
    /\ UNCHANGED <<orderVars, payments>>

\* The life of a process and of its connections.
ProcessStep(s) ==
    \/ /\ Start(s) \/ BindKey(s) \/ Subscribe(s)
       /\ UNCHANGED <<orderVars, workerVars>>
    \/ /\ PushToConsumer(s) \/ ExitAfterLoop(s)
       /\ UNCHANGED <<orderVars, workerVars>>
    \/ /\ LoseConsumerConnection(s) \/ LoseProducerConnection(s)
       /\ UNCHANGED <<orderVars, workerVars>>
    \/ /\ CrashOrderService(s)
       /\ UNCHANGED workerVars
    \/ /\ s \in PaymentSvc \cup DeliverySvc
       /\ CrashProcess(s)
       /\ UNCHANGED <<orderVars, workerVars>>

BrokerStep ==
    /\ RestartBroker
    /\ UNCHANGED <<orderVars, workerVars>>

Next ==
    \/ \E s \in OrderSvc, o \in Order : CreatesOrder(s, o)
    \/ \E s \in Service : \/ OrderStep(s)
                          \/ PaymentStep(s)
                          \/ DeliveryStep(s)
                          \/ ProcessStep(s)
    \/ BrokerStep

Spec == Init /\ [][Next]_vars

-----------------------------------------------------------------------------
(* Where the work on an order is.  An order that is not yet delivered is    *)
(* carried by a token: a pending goroutine, or a message held by a queue or *)
(* by an instance.                                                          *)

EmitTokens(o) == {<<"emitting", s, 0>> : s \in {t \in OrderSvc : o \in emitting[t]}}

QueueTokens(o) ==
    UNION {{<<"queue", q, i>> : i \in {j \in DOMAIN queue[q] : queue[q][j].order = o}}
            : q \in Queue}

InboxTokens(o) ==
    UNION {{<<"inbox", s, i>> : i \in {j \in DOMAIN inbox[s] : inbox[s][j].order = o}}
            : s \in Service}

Tokens(o) == EmitTokens(o) \cup QueueTokens(o) \cup InboxTokens(o)

\* An order nobody will ever work on again.
Stranded(o) == status[o] \in {"CREATED", "PAID"} /\ Tokens(o) = {}

\* The memory of s holds the work on o.
HoldsOrder(s, o) == \/ s \in OrderSvc /\ o \in emitting[s]
                    \/ \E i \in DOMAIN inbox[s] : inbox[s][i].order = o

\* The order service's queue is all that is left of the work on o, and no
\* instance that runs consumes from it or is about to.
WaitsForNobody(o) ==
    /\ \E i \in DOMAIN queue["order_service_events_queue"] :
           queue["order_service_events_queue"][i].order = o
    /\ OrderSvc \cap (sub \cup starting) = {}

\* What has happened to an order: its row, its payments, its shipments.
Stage(o) == <<status[o], payments[o], shipments[o]>>

\* Where an order stands while a message about it waits to be worked on.
StageOnArrival(m) ==
    CASE m.key = "order.created"     -> <<"CREATED", 0, 0>>
      [] m.key = "payment.succeeded" -> <<"CREATED", 1, 0>>
      [] m.key = "order.paid"        -> <<"PAID", 1, 0>>
      [] m.key = "order.delivered"   -> <<"PAID", 1, 1>>

\* Where it stands once the handler of the message has done its first step.
StageInHand(m) ==
    CASE m.key = "order.created"     -> <<"CREATED", 1, 0>>
      [] m.key = "payment.succeeded" -> <<"PAID", 1, 0>>
      [] m.key = "order.paid"        -> <<"PAID", 1, 1>>
      [] m.key = "order.delivered"   -> <<"DELIVERED", 1, 1>>

InHandAt(s, i) == i = 1 /\ step[s] # "idle"

-----------------------------------------------------------------------------
(* Safety.                                                                  *)

\* Nothing in the code tells one delivery of an event from another, so that
\* charging once, shipping once and never moving a status backwards all rest
\* on there being, at every moment and across all instances, at most one
\* goroutine or message that carries the order.
SingleToken == \A o \in Order : \A x, y \in Tokens(o) : x = y

\* A token never disagrees with the database and with the outside world: a
\* queued payment.succeeded means charged once, row CREATED; a queued
\* order.paid means row PAID, not shipped; and so on, whatever other processes
\* did since it was published.
TokensAgree ==
    /\ \A s \in OrderSvc : \A o \in emitting[s] : Stage(o) = <<"CREATED", 0, 0>>
    /\ \A q \in Queue : \A i \in DOMAIN queue[q] :
           /\ QueueOf(queue[q][i].key) = q
           /\ Stage(queue[q][i].order) = StageOnArrival(queue[q][i])
    /\ \A s \in Service : \A i \in DOMAIN inbox[s] :
           LET m == inbox[s][i] IN
           /\ QueueOf(m.key) = QueueFor(s)
           /\ Stage(m.order) = IF InHandAt(s, i) THEN StageInHand(m)
                                                 ELSE StageOnArrival(m)

\* The status history is a record one can trust up to holes: no row appears
\* twice or out of order, and no row is ahead of the order's status.
HistoryFaithful ==
    \A o \in Order :
        /\ history[o] \in {<<>>, <<"PAID">>, <<"DELIVERED">>, <<"PAID", "DELIVERED">>}
        /\ history[o] = <<"PAID">> => status[o] \in {"PAID", "DELIVERED"}
        /\ history[o] \in {<<"DELIVERED">>, <<"PAID", "DELIVERED">>}
               => status[o] = "DELIVERED"

\* As long as nothing fails, an order can only get lost because the queue of
\* the next service is not bound yet: never between a payment and the row that
\* records it, nor between a shipment and its row; and not at all once orders
\* wait for the rollout.
LossHasCause ==
    NoFaults =>
        \A o \in Order :
            Stranded(o) => /\ ~OrdersWaitForRollout
                           /\ Stage(o) \in {<<"CREATED", 0, 0>>, <<"PAID", 1, 0>>}

\* As long as nothing fails, work waits for nobody who does not exist: a queue
\* with a message has a subscriber, or an instance between its QueueBind and its
\* Consume calls, whichever services came up first and however their start-ups
\* interleave; and who holds an order can publish what follows.
WorkIsServed ==
    NoFaults =>
        /\ \A q \in Queue :
               queue[q] # <<>> => \E s \in sub \cup starting : QueueFor(s) = q
        /\ \A s \in Service : inbox[s] # <<>> => s \in pub
        /\ \A s \in OrderSvc : emitting[s] # {} => s \in pub

\* An order that is lost is lost for good: there is no outbox, no retry and no scan
\* of the table, so that neither a restart nor a message about another order takes
\* its work up again, and its row stays as it is.
LostForGood == [][\A o \in Order : Stranded(o) => Stranded(o)' /\ Stage(o)' = Stage(o)]_vars

\* No fault reaches further than what it hits.  The step that loses an order
\* is one of these: a COMMIT that answers an error, the restart of a broker that
\* held its message, the end of the process or of the subscription whose memory
\* held it, or a step of the very loop body or goroutine that was working on it,
\* which finds its channel dead, a key unbound, or its UPDATE or its lookup
\* failing.  (A failing history row loses nothing.)
LossIsLocal ==
    [][\A o \in Order : ~Stranded(o) /\ Stranded(o)' =>
           \/ status[o] = "none"
           \/ QueueTokens(o) # {} /\ sub' = {} /\ pub' = {}
           \/ \E s \in Service :
                  /\ HoldsOrder(s, o)
                  /\ \/ s \in up \ up'
                     \/ s \in sub \ sub'
                     \/ s \notin pub \/ bound # Key
                     \/ step[s] \in {"idle", "emit"} /\ faults'["db"] > faults["db"]
      ]_vars

\* The pipeline, crashes, outages and database errors included, does no more
\* than the abstract lifecycle of each order allows: no double charge or
\* shipment, no shipment before the row is PAID, no status that moves back.
Lifecycle == INSTANCE OrderLifecycle
ImplementsLifecycle == Lifecycle!Spec

-----------------------------------------------------------------------------
(* The invariant that carries the safety proofs (OrderPipelineProofs).      *)

\* A loop body works on the head of its inbox, at a step of its own service;
\* order.paid is only ever emitted on behalf of a payment.
LoopsOK ==
    \A s \in Service :
        /\ step[s] # "idle" => inbox[s] # <<>>
        /\ step[s] \in {"history", "emit"} => s \in OrderSvc
        /\ step[s] = "publish" => s \notin OrderSvc
        /\ step[s] = "emit" => Head(inbox[s]).key = "payment.succeeded"

\* The only combinations of row, payments and shipments an order goes through.
StagesOK ==
    \A o \in Order :
        Stage(o) \in {<<"none", 0, 0>>, <<"CREATED", 0, 0>>, <<"CREATED", 1, 0>>,
                     <<"PAID", 1, 0>>, <<"PAID", 1, 1>>, <<"DELIVERED", 1, 1>>}

IndInv == TypeOK /\ LoopsOK /\ SingleToken /\ TokensAgree /\ StagesOK

-----------------------------------------------------------------------------
(* Liveness.                                                                *)

\* The Go scheduler runs every goroutine and every loop body, the broker pushes
\* what it holds to a subscriber, a process that is starting goes on, and a
\* supervisor (the ECS service of terraform/) starts one that is not running.
Fairness ==
    /\ \A s \in OrderSvc :
           /\ \A o \in Order : WF_vars(EmitOrderCreated(s, o) /\ UNCHANGED workerVars)
           /\ WF_vars(/\ UpdateStatus(s) \/ AddHistory(s) \/ EmitOrderPaid(s)
                      /\ UNCHANGED workerVars)
    /\ \A s \in PaymentSvc : WF_vars(PaymentStep(s))
    /\ \A s \in DeliverySvc : WF_vars(DeliveryStep(s))
    /\ \A s \in Service :
           /\ WF_vars(PushToConsumer(s) /\ UNCHANGED <<orderVars, workerVars>>)
           /\ WF_vars(ExitAfterLoop(s) /\ UNCHANGED <<orderVars, workerVars>>)
           /\ WF_vars(Start(s) /\ UNCHANGED <<orderVars, workerVars>>)
           /\ WF_vars(BindKey(s) /\ UNCHANGED <<orderVars, workerVars>>)
           /\ WF_vars(Subscribe(s) /\ UNCHANGED <<orderVars, workerVars>>)

FairSpec == Spec /\ Fairness

\* Every order that was created is delivered in the end, is lost for good, or
\* waits for a consumer the order service has lost: with a supervisor that
\* restarts what has exited, no order waits for ever in a queue of the payment or
\* delivery service or in the memory of an instance.
EveryOrderSettles ==
    \A o \in Order :
        status[o] = "CREATED"
            ~> (status[o] = "DELIVERED" \/ Stranded(o) \/ WaitsForNobody(o))

\* order_service/README.md: "Subscribe to payment and delivery events".  While
\* the order service runs, an event in its queue is consumed in the end.
OrderEventsAreConsumed ==
    queue["order_service_events_queue"] # <<>>
        ~> queue["order_service_events_queue"] = <<>>
=============================================================================
