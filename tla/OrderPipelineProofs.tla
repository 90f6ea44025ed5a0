------------------------- MODULE OrderPipelineProofs ------------------------
(***************************************************************************)
(* Proofs about the order pipeline, for any number of orders and of        *)
(* instances of each service and any budget of faults: type correctness,   *)
(* at most one token per order, and tokens that agree with the database.   *)
(*                                                                         *)
(* The argument: every step moves the token of one order (from a goroutine *)
(* to a queue, from a queue to an inbox, from an inbox back to a queue),   *)
(* drops tokens, or creates one for an order that did not exist.           *)
(***************************************************************************)
EXTENDS OrderPipeline, SequenceTheorems, TLAPS

USE DEF busVars, orderVars, workerVars

-----------------------------------------------------------------------------
(* Sequences.                                                               *)

\* What is left of a sequence without its head.
LEMMA TailOf ==
    ASSUME NEW S, NEW q \in Seq(S), q # <<>>
    PROVE  /\ Tail(q) \in Seq(S)
           /\ Head(q) \in S /\ Head(q) = q[1] /\ 1 \in DOMAIN q
           /\ \A i \in DOMAIN Tail(q) : i + 1 \in DOMAIN q /\ Tail(q)[i] = q[i + 1]
  OBVIOUS

\* What a sequence holds after an Append.
LEMMA AppendOf ==
    ASSUME NEW S, NEW q \in Seq(S), NEW e \in S
    PROVE  /\ Append(q, e) \in Seq(S)
           /\ DOMAIN Append(q, e) = DOMAIN q \cup {Len(q) + 1}
           /\ Len(q) + 1 \notin DOMAIN q
           /\ Append(q, e)[Len(q) + 1] = e
           /\ \A i \in DOMAIN q : Append(q, e)[i] = q[i]
  OBVIOUS

\* What is left when only the first element is kept.
LEMMA FirstOf ==
    ASSUME NEW S, NEW q \in Seq(S), q # <<>>
    PROVE  /\ SubSeq(q, 1, 1) \in Seq(S)
           /\ DOMAIN SubSeq(q, 1, 1) = {1}
           /\ SubSeq(q, 1, 1)[1] = q[1]
           /\ SubSeq(q, 1, 1) # <<>>
  OBVIOUS

-----------------------------------------------------------------------------
(* The bus.                                                                 *)

\* Every key and every service has its queue, and which one it is.
LEMMA Routing ==
    /\ \A key \in Key : QueueOf(key) \in Queue
    /\ \A s \in Service : QueueFor(s) \in Queue
    /\ \A s \in PaymentSvc : QueueFor(s) = "payment_service_queue"
    /\ \A s \in DeliverySvc : QueueFor(s) = "delivery_service_queue"
    /\ \A s \in OrderSvc : QueueFor(s) = "order_service_events_queue"
    /\ QueueOf("order.created") = "payment_service_queue"
    /\ QueueOf("order.paid") = "delivery_service_queue"
    /\ QueueOf("payment.succeeded") = "order_service_events_queue"
    /\ QueueOf("order.delivered") = "order_service_events_queue"
  <1>1. \A key \in Key : QueueOf(key) \in Queue
    BY Zenon DEF QueueOf, Queue
  <1>2. \A s \in Service : QueueFor(s) \in Queue
    BY Zenon DEF QueueFor, Queue
  <1>3. \A s \in PaymentSvc : QueueFor(s) = "payment_service_queue"
    BY Zenon, InstancesDisjoint DEF QueueFor
  <1>4. \A s \in DeliverySvc : QueueFor(s) = "delivery_service_queue"
    BY Zenon, InstancesDisjoint DEF QueueFor
  <1>5. \A s \in OrderSvc : QueueFor(s) = "order_service_events_queue"
    BY Zenon, InstancesDisjoint DEF QueueFor
  <1>6. QueueOf("order.created") = "payment_service_queue"
    BY Zenon DEF QueueOf
  <1>7. QueueOf("order.paid") = "delivery_service_queue"
    BY Zenon DEF QueueOf
  <1>8. QueueOf("payment.succeeded") = "order_service_events_queue"
    BY Zenon DEF QueueOf
  <1>9. QueueOf("order.delivered") = "order_service_events_queue"
    BY Zenon DEF QueueOf
  <1> QED
    BY <1>1, <1>2, <1>3, <1>4, <1>5, <1>6, <1>7, <1>8, <1>9

\* A fault keeps the counters within their budget.
LEMMA FaultType ==
    ASSUME TypeOK, NEW kind \in FaultKind, Fault(kind)
    PROVE  /\ faults' \in [FaultKind -> Nat]
           /\ \A k \in FaultKind : faults'[k] <= Budget(k)
  <1> DEFINE b(k) == Budget(k)
  <1>1. \A k \in FaultKind : b(k) \in Nat
    BY BudgetsNat, Zenon DEF Budget
  <1>2. /\ faults \in [FaultKind -> Nat]
        /\ \A k \in FaultKind : faults[k] <= b(k)
        /\ faults[kind] < b(kind)
        /\ faults' = [faults EXCEPT ![kind] = @ + 1]
    BY DEF TypeOK, BusTypeOK, Fault
  <1> HIDE DEF b
  <1>3. /\ faults' \in [FaultKind -> Nat]
        /\ \A k \in FaultKind : faults'[k] <= b(k)
    BY <1>1, <1>2
  <1> QED
    BY <1>3 DEF b

\* A publish changes no queue, or appends one message to the queue of its key.
LEMMA PublishType ==
    ASSUME TypeOK, NEW s \in Service, NEW key \in Key, NEW o \in Order,
           Publish(s, key, o)
    PROVE  queue' \in [Queue -> Seq(Message)]
  <1> DEFINE m == Event(key, o)
             q == QueueOf(key)
  <1>1. m \in Message
    BY DEF Message, Event
  <1>2. q \in Queue
    BY Routing
  <1>3. queue \in [Queue -> Seq(Message)]
    BY DEF TypeOK, BusTypeOK
  <1>4. queue' = queue \/ queue' = [queue EXCEPT ![q] = Append(@, m)]
    BY DEF Publish
  <1> HIDE DEF m, q
  <1>5. Append(queue[q], m) \in Seq(Message)
    BY <1>1, <1>2, <1>3
  <1> QED
    BY <1>2, <1>3, <1>4, <1>5

\* A busy loop has a message in hand, about an order of the run.
LEMMA HeadType ==
    ASSUME TypeOK, NEW s \in Service, inbox[s] # <<>>
    PROVE  /\ Head(inbox[s]) \in Message
           /\ Head(inbox[s]).order \in Order
           /\ Head(inbox[s]).key \in Key
           /\ Tail(inbox[s]) \in Seq(Message)
  <1>1. inbox[s] \in Seq(Message)
    BY DEF TypeOK, BusTypeOK
  <1>2. Head(inbox[s]) \in Message /\ Tail(inbox[s]) \in Seq(Message)
    BY <1>1
  <1> QED
    BY <1>2 DEF Message

-----------------------------------------------------------------------------
(* Types.                                                                   *)

TypeInv == TypeOK /\ LoopsOK

\* The parts of TypeInv, by the variables they are about.
LEMMA TypeInvParts ==
    TypeInv <=>
        /\ bound \subseteq Key
        /\ queue \in [Queue -> Seq(Message)]
        /\ up \subseteq Service /\ starting \subseteq up
        /\ sub \subseteq up \ starting /\ pub \subseteq up
        /\ inbox \in [Service -> Seq(Message)]
        /\ step \in [Service -> Step]
        /\ faults \in [FaultKind -> Nat]
        /\ \A k \in FaultKind : faults[k] <= Budget(k)
        /\ status \in [Order -> Status]
        /\ history \in [Order -> Seq({"PAID", "DELIVERED"})]
        /\ emitting \in [OrderSvc -> SUBSET Order]
        /\ payments \in [Order -> Nat]
        /\ shipments \in [Order -> Nat]
        /\ LoopsOK
  BY DEF TypeInv, TypeOK, BusTypeOK, OrderTypeOK, PaymentTypeOK, DeliveryTypeOK

LEMMA TypeInvInit ==
    ASSUME Init PROVE TypeInv
  <1>1. \A k \in FaultKind : faults[k] <= Budget(k)
    <2>1. \A k \in FaultKind : faults[k] = 0
      BY DEF Init, BusInit
    <2>2. \A k \in FaultKind : Budget(k) \in Nat
      BY BudgetsNat, Zenon DEF Budget
    <2> QED
      BY <2>1, <2>2
  <1>2. LoopsOK
    BY DEF Init, BusInit, LoopsOK
  <1> QED
    BY <1>1, <1>2, TypeInvParts
    DEF Init, BusInit, OrderInit, PaymentInit, DeliveryInit, Step, Status

\* Finishing a message leaves the loop idle and the rest of its inbox.
LEMMA FinishType ==
    ASSUME TypeInv, NEW s \in Service, inbox[s] # <<>>, FinishMessage(s)
    PROVE  /\ inbox' \in [Service -> Seq(Message)]
           /\ step' \in [Service -> Step]
           /\ LoopsOK'
  <1>1. Tail(inbox[s]) \in Seq(Message)
    BY HeadType DEF TypeInv
  <1>2. /\ inbox \in [Service -> Seq(Message)] /\ step \in [Service -> Step] /\ LoopsOK
    BY DEF TypeInv, TypeOK, BusTypeOK
  <1>3. /\ inbox' = [inbox EXCEPT ![s] = Tail(@)]
        /\ step' = [step EXCEPT ![s] = "idle"]
    BY DEF FinishMessage
  <1>4. inbox' \in [Service -> Seq(Message)] /\ step' \in [Service -> Step]
    BY <1>1, <1>2, <1>3 DEF Step
  <1>5. LoopsOK'
    BY <1>2, <1>3 DEF LoopsOK
  <1> QED
    BY <1>4, <1>5

LEMMA TypeInvCreates ==
    ASSUME TypeInv, NEW s \in OrderSvc, NEW o \in Order, CreatesOrder(s, o)
    PROVE  TypeInv'
  <1>1. CASE CreateOrder(s, o)
    <2>1. /\ status' \in [Order -> Status]
          /\ UNCHANGED <<history, busVars, payments, shipments>>
      BY <1>1, TypeInvParts DEF CreateOrder, CreatesOrder, Status
    <2>2. emitting' \in [OrderSvc -> SUBSET Order]
      BY <1>1, TypeInvParts DEF CreateOrder
    <2> QED
      BY <2>1, <2>2 DEF TypeInv, TypeOK, BusTypeOK, OrderTypeOK, PaymentTypeOK,
                        DeliveryTypeOK, LoopsOK
  <1>2. CASE CreateOrderCommitUnknown(s, o)
    <2>1. /\ status' \in [Order -> Status]
          /\ UNCHANGED <<history, emitting, bound, queue, up, starting, sub, pub, inbox, step,
                         payments, shipments>>
      BY <1>2, TypeInvParts DEF CreateOrderCommitUnknown, CreatesOrder, Status
    <2>2. /\ faults' \in [FaultKind -> Nat]
          /\ \A k \in FaultKind : faults'[k] <= Budget(k)
      BY <1>2, FaultType DEF CreateOrderCommitUnknown, TypeInv, FaultKind
    <2> QED
      BY <2>1, <2>2 DEF TypeInv, TypeOK, BusTypeOK, OrderTypeOK, PaymentTypeOK,
                        DeliveryTypeOK, LoopsOK
  <1> QED
    BY <1>1, <1>2 DEF CreatesOrder

LEMMA TypeInvOrderStep ==
    ASSUME TypeInv, NEW s \in Service, OrderStep(s)
    PROVE  TypeInv'
  <1> DEFINE m == Head(inbox[s])
  <1>0. inbox[s] # <<>> => /\ m.order \in Order
                           /\ m.key \in Key
                           /\ Target(m) \in {"PAID", "DELIVERED"}
    BY HeadType DEF TypeInv, Target
  <1>1. CASE \E o \in Order : EmitOrderCreated(s, o)
    <2> PICK o \in Order : EmitOrderCreated(s, o)
      BY <1>1
    <2>1. queue' \in [Queue -> Seq(Message)]
      BY PublishType DEF EmitOrderCreated, TypeInv, Key
    <2>2. emitting' \in [OrderSvc -> SUBSET Order]
      BY TypeInvParts DEF EmitOrderCreated
    <2>3. UNCHANGED <<status, history, bound, up, starting, sub, pub, inbox, step, faults,
                      payments, shipments>>
      BY DEF EmitOrderCreated, OrderStep
    <2> QED
      BY <2>1, <2>2, <2>3 DEF TypeInv, TypeOK, BusTypeOK, OrderTypeOK, PaymentTypeOK,
                              DeliveryTypeOK, LoopsOK
  <1>2. CASE UpdateStatus(s)
    <2>1. inbox[s] # <<>>
      BY <1>2 DEF UpdateStatus, Receiving
    <2>2. status' \in [Order -> Status]
      BY <1>0, <1>2, <2>1, TypeInvParts DEF UpdateStatus, Status
    <2>3. step' \in [Service -> Step]
      BY <1>2, TypeInvParts DEF UpdateStatus, Step
    <2>4. LoopsOK'
      BY <1>2, <2>1, TypeInvParts DEF UpdateStatus, LoopsOK
    <2>5. UNCHANGED <<history, emitting, bound, queue, up, starting, sub, pub, inbox, faults,
                      payments, shipments>>
      BY <1>2 DEF UpdateStatus, OrderStep
    <2> QED
      BY <2>2, <2>3, <2>4, <2>5 DEF TypeInv, TypeOK, BusTypeOK, OrderTypeOK,
                                    PaymentTypeOK, DeliveryTypeOK
  <1>3. CASE UpdateStatusFails(s)
    <2>1. inbox[s] # <<>>
      BY <1>3 DEF UpdateStatusFails, Receiving
    <2>2. status' \in [Order -> Status]
      BY <1>0, <1>3, <2>1, TypeInvParts DEF UpdateStatusFails, Status
    <2>3. /\ inbox' \in [Service -> Seq(Message)]
          /\ step' \in [Service -> Step]
          /\ LoopsOK'
      BY <1>3, <2>1, FinishType DEF UpdateStatusFails
    <2>4. /\ faults' \in [FaultKind -> Nat]
          /\ \A k \in FaultKind : faults'[k] <= Budget(k)
      BY <1>3, FaultType DEF UpdateStatusFails, TypeInv, FaultKind
    <2>5. UNCHANGED <<history, emitting, bound, queue, up, starting, sub, pub, payments, shipments>>
      BY <1>3 DEF UpdateStatusFails, OrderStep
    <2> QED
      BY <2>2, <2>3, <2>4, <2>5 DEF TypeInv, TypeOK, BusTypeOK, OrderTypeOK,
                                    PaymentTypeOK, DeliveryTypeOK
  <1>4. ASSUME s \in OrderSvc, step[s] = "history", AfterHistory(s)
        PROVE  /\ inbox' \in [Service -> Seq(Message)]
               /\ step' \in [Service -> Step]
               /\ LoopsOK'
    <2>1. inbox[s] # <<>>
      BY <1>4 DEF TypeInv, LoopsOK
    <2>2. CASE Target(m) = "PAID"
      <3>1. m.key = "payment.succeeded"
        BY <2>2 DEF Target
      <3>2. step' = [step EXCEPT ![s] = "emit"] /\ inbox' = inbox
        BY <1>4, <2>2 DEF AfterHistory
      <3> QED
        BY <1>4, <2>1, <3>1, <3>2, TypeInvParts DEF LoopsOK, Step
    <2>3. CASE Target(m) # "PAID"
      BY <1>4, <2>1, <2>3, FinishType DEF AfterHistory
    <2> QED
      BY <2>2, <2>3
  <1>5. CASE AddHistory(s)
    <2>1. inbox[s] # <<>>
      BY <1>5 DEF AddHistory, TypeInv, LoopsOK
    <2>2. history' \in [Order -> Seq({"PAID", "DELIVERED"})]
      BY <1>0, <1>5, <2>1, TypeInvParts DEF AddHistory
    <2>3. UNCHANGED <<status, emitting, bound, queue, up, starting, sub, pub, faults,
                      payments, shipments>>
      BY <1>5 DEF AddHistory, OrderStep
    <2> QED
      BY <1>4, <1>5, <2>2, <2>3 DEF AddHistory, TypeInv, TypeOK, BusTypeOK, OrderTypeOK,
                                    PaymentTypeOK, DeliveryTypeOK
  <1>6. CASE AddHistoryFails(s)
    <2>1. /\ faults' \in [FaultKind -> Nat]
          /\ \A k \in FaultKind : faults'[k] <= Budget(k)
      BY <1>6, FaultType DEF AddHistoryFails, TypeInv, FaultKind
    <2>2. UNCHANGED <<status, history, emitting, bound, queue, up, starting, sub, pub,
                      payments, shipments>>
      BY <1>6 DEF AddHistoryFails, OrderStep
    <2> QED
      BY <1>4, <1>6, <2>1, <2>2 DEF AddHistoryFails, TypeInv, TypeOK, BusTypeOK,
                                    OrderTypeOK, PaymentTypeOK, DeliveryTypeOK
  <1>7. CASE EmitOrderPaid(s)
    <2>1. inbox[s] # <<>>
      BY <1>7 DEF EmitOrderPaid, TypeInv, LoopsOK
    <2>2. queue' \in [Queue -> Seq(Message)]
      BY <1>0, <1>7, <2>1, PublishType DEF EmitOrderPaid, TypeInv, Key
    <2>3. /\ inbox' \in [Service -> Seq(Message)]
          /\ step' \in [Service -> Step]
          /\ LoopsOK'
      BY <1>7, <2>1, FinishType DEF EmitOrderPaid
    <2>4. UNCHANGED <<status, history, emitting, bound, up, starting, sub, pub, faults,
                      payments, shipments>>
      BY <1>7 DEF EmitOrderPaid, OrderStep
    <2> QED
      BY <2>2, <2>3, <2>4 DEF TypeInv, TypeOK, BusTypeOK, OrderTypeOK, PaymentTypeOK,
                              DeliveryTypeOK
  <1>8. CASE GetOrderFails(s)
    <2>1. inbox[s] # <<>>
      BY <1>8 DEF GetOrderFails, TypeInv, LoopsOK
    <2>2. /\ inbox' \in [Service -> Seq(Message)]
          /\ step' \in [Service -> Step]
          /\ LoopsOK'
      BY <1>8, <2>1, FinishType DEF GetOrderFails
    <2>3. /\ faults' \in [FaultKind -> Nat]
          /\ \A k \in FaultKind : faults'[k] <= Budget(k)
      BY <1>8, FaultType DEF GetOrderFails, TypeInv, FaultKind
    <2>4. UNCHANGED <<status, history, emitting, bound, queue, up, starting, sub, pub,
                      payments, shipments>>
      BY <1>8 DEF GetOrderFails, OrderStep
    <2> QED
      BY <2>2, <2>3, <2>4 DEF TypeInv, TypeOK, BusTypeOK, OrderTypeOK, PaymentTypeOK,
                              DeliveryTypeOK
  <1> QED
    BY <1>1, <1>2, <1>3, <1>5, <1>6, <1>7, <1>8 DEF OrderStep

LEMMA TypeInvPaymentStep ==
    ASSUME TypeInv, NEW s \in Service, PaymentStep(s)
    PROVE  TypeInv'
  <1>0. inbox[s] # <<>> => Head(inbox[s]).order \in Order
    BY HeadType DEF TypeInv
  <1>1. CASE ChargePayment(s)
    <2>1. inbox[s] # <<>> /\ s \notin OrderSvc
      BY <1>1, InstancesDisjoint DEF ChargePayment, Receiving
    <2>2. payments' \in [Order -> Nat]
      BY <1>0, <1>1, <2>1, TypeInvParts DEF ChargePayment
    <2>3. step' \in [Service -> Step]
      BY <1>1, TypeInvParts DEF ChargePayment, Step
    <2>4. LoopsOK'
      BY <1>1, <2>1, TypeInvParts DEF ChargePayment, LoopsOK
    <2>5. UNCHANGED <<bound, queue, up, starting, sub, pub, inbox, faults, orderVars, shipments>>
      BY <1>1 DEF ChargePayment, PaymentStep
    <2> QED
      BY <2>2, <2>3, <2>4, <2>5 DEF TypeInv, TypeOK, BusTypeOK, OrderTypeOK,
                                    PaymentTypeOK, DeliveryTypeOK
  <1>2. CASE PublishPaymentSucceeded(s)
    <2>1. inbox[s] # <<>>
      BY <1>2 DEF PublishPaymentSucceeded, TypeInv, LoopsOK
    <2>2. queue' \in [Queue -> Seq(Message)]
      BY <1>0, <1>2, <2>1, PublishType DEF PublishPaymentSucceeded, TypeInv, Key
    <2>3. /\ inbox' \in [Service -> Seq(Message)]
          /\ step' \in [Service -> Step]
          /\ LoopsOK'
      BY <1>2, <2>1, FinishType DEF PublishPaymentSucceeded
    <2>4. UNCHANGED <<bound, up, starting, sub, pub, faults, orderVars, payments, shipments>>
      BY <1>2 DEF PublishPaymentSucceeded, PaymentStep
    <2> QED
      BY <2>2, <2>3, <2>4 DEF TypeInv, TypeOK, BusTypeOK, OrderTypeOK, PaymentTypeOK,
                              DeliveryTypeOK
  <1> QED
    BY <1>1, <1>2 DEF PaymentStep

LEMMA TypeInvDeliveryStep ==
    ASSUME TypeInv, NEW s \in Service, DeliveryStep(s)
    PROVE  TypeInv'
  <1>0. inbox[s] # <<>> => Head(inbox[s]).order \in Order
    BY HeadType DEF TypeInv
  <1>1. CASE ShipOrder(s)
    <2>1. inbox[s] # <<>> /\ s \notin OrderSvc
      BY <1>1, InstancesDisjoint DEF ShipOrder, Receiving
    <2>2. shipments' \in [Order -> Nat]
      BY <1>0, <1>1, <2>1, TypeInvParts DEF ShipOrder
    <2>3. step' \in [Service -> Step]
      BY <1>1, TypeInvParts DEF ShipOrder, Step
    <2>4. LoopsOK'
      BY <1>1, <2>1, TypeInvParts DEF ShipOrder, LoopsOK
    <2>5. UNCHANGED <<bound, queue, up, starting, sub, pub, inbox, faults, orderVars, payments>>
      BY <1>1 DEF ShipOrder, DeliveryStep
    <2> QED
      BY <2>2, <2>3, <2>4, <2>5 DEF TypeInv, TypeOK, BusTypeOK, OrderTypeOK,
                                    PaymentTypeOK, DeliveryTypeOK
  <1>2. CASE PublishOrderDelivered(s)
    <2>1. inbox[s] # <<>>
      BY <1>2 DEF PublishOrderDelivered, TypeInv, LoopsOK
    <2>2. queue' \in [Queue -> Seq(Message)]
      BY <1>0, <1>2, <2>1, PublishType DEF PublishOrderDelivered, TypeInv, Key
    <2>3. /\ inbox' \in [Service -> Seq(Message)]
          /\ step' \in [Service -> Step]
          /\ LoopsOK'
      BY <1>2, <2>1, FinishType DEF PublishOrderDelivered
    <2>4. UNCHANGED <<bound, up, starting, sub, pub, faults, orderVars, payments, shipments>>
      BY <1>2 DEF PublishOrderDelivered, DeliveryStep
    <2> QED
      BY <2>2, <2>3, <2>4 DEF TypeInv, TypeOK, BusTypeOK, OrderTypeOK, PaymentTypeOK,
                              DeliveryTypeOK
  <1> QED
    BY <1>1, <1>2 DEF DeliveryStep

\* A closing channel leaves at most the message in hand.
LEMMA InHandType ==
    ASSUME TypeInv, NEW s \in Service
    PROVE  /\ InHand(s) \in Seq(Message)
           /\ step[s] = "idle" => InHand(s) = <<>>
           /\ step[s] # "idle" => /\ InHand(s) # <<>>
                                  /\ DOMAIN InHand(s) = {1}
                                  /\ InHand(s)[1] = inbox[s][1]
                                  /\ Head(InHand(s)) = Head(inbox[s])
  <1>1. inbox[s] \in Seq(Message)
    BY TypeInvParts
  <1>2. CASE step[s] = "idle"
    BY <1>2 DEF InHand
  <1>3. CASE step[s] # "idle"
    <2>1. inbox[s] # <<>>
      BY <1>3 DEF TypeInv, LoopsOK
    <2>2. InHand(s) = SubSeq(inbox[s], 1, 1)
      BY <1>3 DEF InHand
    <2>3. /\ InHand(s) \in Seq(Message) /\ InHand(s) # <<>>
          /\ DOMAIN InHand(s) = {1} /\ InHand(s)[1] = inbox[s][1]
      BY <1>1, <2>1, <2>2, FirstOf
    <2>4. Head(InHand(s)) = InHand(s)[1] /\ Head(inbox[s]) = inbox[s][1]
      BY <1>1, <2>1, <2>3
    <2> QED
      BY <1>3, <2>3, <2>4
  <1> QED
    BY <1>2, <1>3

\* A process that vanishes leaves an idle loop and nothing else.
LEMMA VanishType ==
    ASSUME TypeInv, NEW s \in Service, Vanish(s)
    PROVE  /\ up' \subseteq Service /\ starting' \subseteq up'
           /\ sub' \subseteq up' \ starting' /\ pub' \subseteq up'
           /\ inbox' \in [Service -> Seq(Message)]
           /\ step' \in [Service -> Step]
           /\ LoopsOK'
  <1>1. /\ up' \subseteq Service /\ starting' \subseteq up'
        /\ sub' \subseteq up' \ starting' /\ pub' \subseteq up'
    BY TypeInvParts DEF Vanish
  <1>2. inbox' \in [Service -> Seq(Message)] /\ step' \in [Service -> Step]
    BY TypeInvParts DEF Vanish, Step
  <1>3. LoopsOK'
    BY TypeInvParts DEF Vanish, LoopsOK
  <1> QED
    BY <1>1, <1>2, <1>3

\* What is appended is behind what was there.
LEMMA AppendBehind ==
    ASSUME NEW q \in Seq(Message), NEW m \in Message
    PROVE  Append(q, m) # <<>> /\ (q # <<>> => Head(Append(q, m)) = Head(q))
  <1>1. Append(q, m) # <<>> /\ \A i \in 1..Len(q) : Append(q, m)[i] = q[i]
    BY AppendProperties
  <1>2. ASSUME q # <<>>
        PROVE  Head(Append(q, m)) = Head(q)
    <2>1. 1 \in 1..Len(q)
      BY <1>2, EmptySeq
    <2>2. Append(q, m)[1] = q[1]
      BY <1>1, <2>1
    <2>3. \A s : Head(s) = s[1]
      OBVIOUS
    <2> QED  BY <2>2, <2>3, Zenon
  <1> QED  BY <1>1, <1>2

LEMMA TypeInvProcessStep ==
    ASSUME TypeInv, NEW s \in Service, ProcessStep(s)
    PROVE  TypeInv'
  <1> USE DEF TypeOK, BusTypeOK, OrderTypeOK, PaymentTypeOK, DeliveryTypeOK
  <1>f. ASSUME NEW kind \in FaultKind, Fault(kind)
        PROVE  /\ faults' \in [FaultKind -> Nat]
               /\ \A k \in FaultKind : faults'[k] <= Budget(k)
    BY <1>f, FaultType DEF TypeInv
  <1>1. CASE (Start(s) \/ BindKey(s) \/ Subscribe(s)) /\ UNCHANGED <<orderVars, workerVars>>
    <2>1. /\ UNCHANGED <<queue, inbox, step, faults, orderVars, workerVars>>
          /\ up' \subseteq Service /\ starting' \subseteq up'
          /\ sub' \subseteq up' \ starting' /\ pub' \subseteq up' /\ bound' \subseteq Key
      BY <1>1, TypeInvParts DEF Start, BindKey, Subscribe, KeysFor
    <2> QED
      BY <2>1 DEF TypeInv, LoopsOK
  <1>2. CASE PushToConsumer(s) /\ UNCHANGED <<orderVars, workerVars>>
    <2> DEFINE q == QueueFor(s)
    <2>1. q \in Queue /\ queue[q] \in Seq(Message) /\ queue[q] # <<>>
      BY <1>2, Routing, TypeInvParts DEF PushToConsumer
    <2>2. Head(queue[q]) \in Message /\ Tail(queue[q]) \in Seq(Message)
      BY <2>1
    <2>3. inbox[s] \in Seq(Message) /\ Append(inbox[s], Head(queue[q])) \in Seq(Message)
      BY <2>2, TypeInvParts
    <2>4. /\ inbox' = [inbox EXCEPT ![s] = Append(@, Head(queue[q]))]
          /\ queue' = [queue EXCEPT ![q] = Tail(@)]
          /\ UNCHANGED <<bound, up, starting, sub, pub, step, faults, orderVars, workerVars>>
      BY <1>2 DEF PushToConsumer
    <2> HIDE DEF q
    <2>5. inbox' \in [Service -> Seq(Message)] /\ queue' \in [Queue -> Seq(Message)]
      BY <2>1, <2>2, <2>3, <2>4, TypeInvParts
    <2>6. /\ Append(inbox[s], Head(queue[q])) # <<>>
          /\ inbox[s] # <<>> => Head(Append(inbox[s], Head(queue[q]))) = Head(inbox[s])
      BY <2>2, <2>3, AppendBehind
    <2>7. LoopsOK'
      BY <2>4, <2>6, TypeInvParts DEF LoopsOK
    <2> QED
      BY <2>4, <2>5, <2>7 DEF TypeInv
  <1>3. CASE ExitAfterLoop(s) /\ UNCHANGED <<orderVars, workerVars>>
    BY <1>3, VanishType DEF ExitAfterLoop, TypeInv
  <1>4. CASE LoseConsumerConnection(s) /\ UNCHANGED <<orderVars, workerVars>>
    <2>1. /\ sub' = sub \ {s} /\ starting' = starting \ {s} /\ pub' \subseteq pub
          /\ UNCHANGED <<bound, queue, up, step>>
          /\ inbox' = [inbox EXCEPT ![s] = InHand(s)]
      BY <1>4 DEF LoseConsumerConnection
    <2>2. inbox' \in [Service -> Seq(Message)]
      BY <2>1, InHandType, TypeInvParts
    <2>3. LoopsOK'
      BY <2>1, InHandType, TypeInvParts DEF LoopsOK
    <2> QED
      BY <1>4, <1>f, <2>1, <2>2, <2>3 DEF LoseConsumerConnection, FaultKind, TypeInv
  <1>5. CASE LoseProducerConnection(s) /\ UNCHANGED <<orderVars, workerVars>>
    BY <1>5, <1>f DEF LoseProducerConnection, FaultKind, TypeInv, LoopsOK
  <1>6. CASE CrashOrderService(s) /\ UNCHANGED workerVars
    <2>1. emitting' \in [OrderSvc -> SUBSET Order]
      BY <1>6, TypeInvParts DEF CrashOrderService
    <2> QED
      BY <1>6, <1>f, <2>1, VanishType
      DEF CrashOrderService, CrashProcess, FaultKind, TypeInv
  <1>7. CASE CrashProcess(s) /\ UNCHANGED <<orderVars, workerVars>>
    BY <1>7, <1>f, VanishType DEF CrashProcess, FaultKind, TypeInv
  <1> QED
    BY <1>1, <1>2, <1>3, <1>4, <1>5, <1>6, <1>7 DEF ProcessStep

LEMMA TypeInvBrokerStep ==
    ASSUME TypeInv, BrokerStep
    PROVE  TypeInv'
  <1>1. /\ faults' \in [FaultKind -> Nat]
        /\ \A k \in FaultKind : faults'[k] <= Budget(k)
    BY FaultType DEF BrokerStep, RestartBroker, FaultKind, TypeInv
  <1>2. inbox' \in [Service -> Seq(Message)]
    BY InHandType DEF BrokerStep, RestartBroker
  <1>3. queue' \in [Queue -> Seq(Message)]
    BY DEF BrokerStep, RestartBroker
  <1>4. LoopsOK'
    BY InHandType, TypeInvParts DEF BrokerStep, RestartBroker, LoopsOK
  <1> QED
    BY <1>1, <1>2, <1>3, <1>4 DEF BrokerStep, RestartBroker, TypeInv, TypeOK, BusTypeOK,
                                  OrderTypeOK, PaymentTypeOK, DeliveryTypeOK

LEMMA TypeInvStep ==
    ASSUME TypeInv, [Next]_vars
    PROVE  TypeInv'
  <1>1. CASE UNCHANGED vars
    BY <1>1 DEF vars, TypeInv, TypeOK, BusTypeOK, OrderTypeOK, PaymentTypeOK,
                DeliveryTypeOK, LoopsOK
  <1>2. CASE Next
    BY <1>2, TypeInvCreates, TypeInvOrderStep, TypeInvPaymentStep, TypeInvDeliveryStep,
       TypeInvProcessStep, TypeInvBrokerStep
    DEF Next
  <1> QED
    BY <1>1, <1>2

\* Every reachable state is well typed: in particular only running processes
\* hold connections, and no fault goes over its budget.
THEOREM Typing == Spec => []TypeOK
  <1>1. Init => TypeInv
    BY TypeInvInit
  <1>2. TypeInv /\ [Next]_vars => TypeInv'
    BY TypeInvStep
  <1>3. TypeInv => TypeOK
    BY DEF TypeInv
  <1> QED
    BY <1>1, <1>2, <1>3, PTL DEF Spec

-----------------------------------------------------------------------------
(* Tokens, one predicate per place.                                         *)

EmitAt(s, o) == s \in OrderSvc /\ o \in emitting[s]

QueueAt(q, i, m) == q \in Queue /\ i \in DOMAIN queue[q] /\ m = queue[q][i]

InboxAt(s, i, m) == s \in Service /\ i \in DOMAIN inbox[s] /\ m = inbox[s][i]

\* SingleToken, by pairs of places.
Apart ==
    /\ \A s, t, o : EmitAt(s, o) /\ EmitAt(t, o) => s = t
    /\ \A s, o, q, i, m : EmitAt(s, o) /\ QueueAt(q, i, m) => m.order # o
    /\ \A s, o, t, i, m : EmitAt(s, o) /\ InboxAt(t, i, m) => m.order # o
    /\ \A q, i, m, r, j, n :
           QueueAt(q, i, m) /\ QueueAt(r, j, n) /\ m.order = n.order => q = r /\ i = j
    /\ \A q, i, m, t, j, n :
           QueueAt(q, i, m) /\ InboxAt(t, j, n) => m.order # n.order
    /\ \A s, i, m, t, j, n :
           InboxAt(s, i, m) /\ InboxAt(t, j, n) /\ m.order = n.order => s = t /\ i = j

\* TokensAgree, by places.
Agree ==
    /\ \A s, o : EmitAt(s, o) => Stage(o) = <<"CREATED", 0, 0>>
    /\ \A q, i, m : QueueAt(q, i, m) =>
           /\ QueueOf(m.key) = q
           /\ Stage(m.order) = StageOnArrival(m)
    /\ \A s, i, m : InboxAt(s, i, m) =>
           /\ QueueOf(m.key) = QueueFor(s)
           /\ InHandAt(s, i) => Stage(m.order) = StageInHand(m)
           /\ ~InHandAt(s, i) => Stage(m.order) = StageOnArrival(m)

\* Every place holds tokens of orders of the run.
LEMMA PlacesType ==
    ASSUME TypeInv
    PROVE  /\ \A s, o : EmitAt(s, o) => o \in Order
           /\ \A q, i, m : QueueAt(q, i, m) =>
                  m \in Message /\ m.order \in Order /\ m.key \in Key /\ i \in Nat /\ i >= 1
           /\ \A s, i, m : InboxAt(s, i, m) =>
                  m \in Message /\ m.order \in Order /\ m.key \in Key /\ i \in Nat /\ i >= 1
  <1>1. \A s, o : EmitAt(s, o) => o \in Order
    BY TypeInvParts DEF EmitAt
  <1>2. ASSUME NEW q, NEW i, NEW m, QueueAt(q, i, m)
        PROVE  m \in Message /\ i \in Nat /\ i >= 1
    BY <1>2, TypeInvParts DEF QueueAt
  <1>3. ASSUME NEW s, NEW i, NEW m, InboxAt(s, i, m)
        PROVE  m \in Message /\ i \in Nat /\ i >= 1
    BY <1>3, TypeInvParts DEF InboxAt
  <1>4. \A m \in Message : m.order \in Order /\ m.key \in Key
    BY DEF Message
  <1> QED
    BY <1>1, <1>2, <1>3, <1>4

LEMMA TokensByPlace ==
    ASSUME NEW o
    PROVE  \A x : x \in Tokens(o) <=>
               \/ \E s : x = <<"emitting", s, 0>> /\ EmitAt(s, o)
               \/ \E q, i, m : x = <<"queue", q, i>> /\ QueueAt(q, i, m) /\ m.order = o
               \/ \E s, i, m : x = <<"inbox", s, i>> /\ InboxAt(s, i, m) /\ m.order = o
  BY DEF Tokens, EmitTokens, QueueTokens, InboxTokens, EmitAt, QueueAt, InboxAt

LEMMA ApartIsSingleToken ==
    ASSUME TypeInv PROVE SingleToken <=> Apart
  <1>1. ASSUME SingleToken PROVE Apart
    <2>1. \A o \in Order : \A x, y \in Tokens(o) : x = y
      BY <1>1 DEF SingleToken
    <2>2. \A s, o : EmitAt(s, o) => o \in Order /\ <<"emitting", s, 0>> \in Tokens(o)
      <3>1. \A s, o : EmitAt(s, o) => <<"emitting", s, 0>> \in Tokens(o)
        BY TokensByPlace, Zenon
      <3> QED
        BY <3>1, PlacesType
    <2>3. \A q, i, m : QueueAt(q, i, m) =>
              m.order \in Order /\ <<"queue", q, i>> \in Tokens(m.order)
      <3>1. \A q, i, m : QueueAt(q, i, m) => <<"queue", q, i>> \in Tokens(m.order)
        BY TokensByPlace, Zenon
      <3> QED
        BY <3>1, PlacesType
    <2>4. \A s, i, m : InboxAt(s, i, m) =>
              m.order \in Order /\ <<"inbox", s, i>> \in Tokens(m.order)
      <3>1. \A s, i, m : InboxAt(s, i, m) => <<"inbox", s, i>> \in Tokens(m.order)
        BY TokensByPlace, Zenon
      <3> QED
        BY <3>1, PlacesType
    <2>5. ASSUME NEW s, NEW o, NEW t,
                 EmitAt(s, o), EmitAt(t, o)
          PROVE  s = t
      <3>1. <<"emitting", s, 0>> = <<"emitting", t, 0>>
        BY <2>5, <2>1, <2>2, Zenon
      <3> QED
        BY <3>1
    <2>6. ASSUME NEW s, NEW o, NEW q, NEW i, NEW m,
                 EmitAt(s, o), QueueAt(q, i, m), m.order = o
          PROVE  FALSE
      <3>1. o \in Order /\ <<"emitting", s, 0>> \in Tokens(o) /\ <<"queue", q, i>> \in Tokens(o)
        BY <2>6, <2>2, <2>3
      <3>2. <<"emitting", s, 0>> = <<"queue", q, i>>
        BY <3>1, <2>1, Zenon
      <3> QED
        BY <3>2
    <2>7. ASSUME NEW s, NEW o, NEW t, NEW i, NEW m,
                 EmitAt(s, o), InboxAt(t, i, m), m.order = o
          PROVE  FALSE
      <3>1. o \in Order /\ <<"emitting", s, 0>> \in Tokens(o) /\ <<"inbox", t, i>> \in Tokens(o)
        BY <2>7, <2>2, <2>4
      <3>2. <<"emitting", s, 0>> = <<"inbox", t, i>>
        BY <3>1, <2>1, Zenon
      <3> QED
        BY <3>2
    <2>8. ASSUME NEW q, NEW i, NEW m, NEW r, NEW j, NEW n,
                 QueueAt(q, i, m), QueueAt(r, j, n), m.order = n.order
          PROVE  q = r /\ i = j
      <3>1. <<"queue", q, i>> = <<"queue", r, j>>
        BY <2>8, <2>1, <2>3, Zenon
      <3> QED
        BY <3>1
    <2>9. ASSUME NEW q, NEW i, NEW m, NEW t, NEW j, NEW n,
                 QueueAt(q, i, m), InboxAt(t, j, n), m.order = n.order
          PROVE  FALSE
      <3>1. <<"queue", q, i>> = <<"inbox", t, j>>
        BY <2>9, <2>1, <2>3, <2>4
      <3> QED
        BY <3>1
    <2>10. ASSUME NEW s, NEW i, NEW m, NEW t, NEW j, NEW n,
                 InboxAt(s, i, m), InboxAt(t, j, n), m.order = n.order
          PROVE  s = t /\ i = j
      <3>1. <<"inbox", s, i>> = <<"inbox", t, j>>
        BY <2>10, <2>1, <2>4, Zenon
      <3> QED
        BY <3>1
    <2> QED
      BY <2>5, <2>6, <2>7, <2>8, <2>9, <2>10 DEF Apart
  <1>2. ASSUME Apart PROVE SingleToken
    BY <1>2, TokensByPlace, PlacesType DEF SingleToken, Apart
  <1> QED
    BY <1>1, <1>2

LEMMA AgreeIsTokensAgree == TokensAgree <=> Agree
  BY DEF TokensAgree, Agree, EmitAt, QueueAt, InboxAt

-----------------------------------------------------------------------------
(* How the bus moves tokens.                                                *)

\* Finishing a message takes the head of an inbox away, and the rest moves up.
LEMMA FinishMoves ==
    ASSUME TypeInv, NEW s \in Service, inbox[s] # <<>>, FinishMessage(s)
    PROVE  /\ InboxAt(s, 1, Head(inbox[s]))
           /\ \A t, i, m : InboxAt(t, i, m)' =>
                  \/ t # s /\ InboxAt(t, i, m)
                  \/ t = s /\ InboxAt(s, i + 1, m)
           /\ \A t \in Service : \A i : InHandAt(t, i)' <=> t # s /\ InHandAt(t, i)
  <1>1. inbox[s] \in Seq(Message) /\ inbox \in [Service -> Seq(Message)]
        /\ step \in [Service -> Step]
    BY TypeInvParts
  <1>2. InboxAt(s, 1, Head(inbox[s]))
    BY <1>1, TailOf DEF InboxAt
  <1>3. ASSUME NEW t, NEW i, NEW m, InboxAt(t, i, m)'
        PROVE  \/ t # s /\ InboxAt(t, i, m)
               \/ t = s /\ InboxAt(s, i + 1, m)
    <2>1. CASE t = s
      BY <1>1, <1>3, <2>1, TailOf DEF InboxAt, FinishMessage
    <2>2. CASE t # s
      BY <1>1, <1>3, <2>2 DEF InboxAt, FinishMessage
    <2> QED
      BY <2>1, <2>2
  <1>4. \A t \in Service : \A i : InHandAt(t, i)' <=> t # s /\ InHandAt(t, i)
    BY <1>1 DEF InHandAt, FinishMessage
  <1> QED
    BY <1>2, <1>3, <1>4

\* A publish adds at most one message, behind the last place of the queue of
\* its key.
LEMMA PublishMoves ==
    ASSUME TypeInv, NEW s \in Service, NEW key \in Key, NEW o \in Order
    PROVE  /\ \A m : ~QueueAt(QueueOf(key), Len(queue[QueueOf(key)]) + 1, m)
           /\ Publish(s, key, o) =>
                  \A q, i, m : QueueAt(q, i, m)' =>
                      \/ QueueAt(q, i, m)
                      \/ /\ q = QueueOf(key)
                         /\ i = Len(queue[QueueOf(key)]) + 1
                         /\ m = Event(key, o)
  <1> DEFINE p == QueueOf(key)
             e == Event(key, o)
             k == Len(queue[p]) + 1
  <1>1. e \in Message /\ p \in Queue /\ queue \in [Queue -> Seq(Message)]
    BY Routing, TypeInvParts DEF Message, Event
  <1>2. Publish(s, key, o) => queue' = queue \/ queue' = [queue EXCEPT ![p] = Append(@, e)]
    BY DEF Publish
  <1> HIDE DEF e, p
  <1>3. /\ DOMAIN Append(queue[p], e) = DOMAIN queue[p] \cup {k}
        /\ k \notin DOMAIN queue[p]
        /\ Append(queue[p], e)[k] = e
        /\ \A i \in DOMAIN queue[p] : Append(queue[p], e)[i] = queue[p][i]
    BY <1>1, AppendOf
  <1>4. \A m : ~QueueAt(p, k, m)
    BY <1>3 DEF QueueAt
  <1>5. Publish(s, key, o) =>
            \A q, i, m : QueueAt(q, i, m)' =>
                \/ QueueAt(q, i, m)
                \/ q = p /\ i = k /\ m = e
    BY <1>1, <1>2, <1>3 DEF QueueAt
  <1> QED
    BY <1>4, <1>5 DEF e, p

\* A push takes the head of a queue to a fresh place of an inbox, where it is
\* not in hand.
LEMMA PushMoves ==
    ASSUME TypeInv, NEW s \in Service, PushToConsumer(s)
    PROVE  \E k :
               /\ \A m : ~InboxAt(s, k, m)
               /\ ~InHandAt(s, k)
               /\ QueueAt(QueueFor(s), 1, Head(queue[QueueFor(s)]))
               /\ \A t, i, m : InboxAt(t, i, m)' =>
                      \/ InboxAt(t, i, m)
                      \/ t = s /\ i = k /\ m = Head(queue[QueueFor(s)])
               /\ \A q, i, m : QueueAt(q, i, m)' =>
                      \/ q # QueueFor(s) /\ QueueAt(q, i, m)
                      \/ q = QueueFor(s) /\ QueueAt(q, i + 1, m)
  <1> DEFINE p == QueueFor(s)
             e == Head(queue[p])
             k == Len(inbox[s]) + 1
  <1>1. /\ p \in Queue /\ queue \in [Queue -> Seq(Message)] /\ queue[p] # <<>>
        /\ inbox \in [Service -> Seq(Message)]
        /\ inbox' = [inbox EXCEPT ![s] = Append(@, e)]
        /\ queue' = [queue EXCEPT ![p] = Tail(@)]
    BY Routing, TypeInvParts DEF PushToConsumer
  <1> HIDE DEF p
  <1>2. /\ e \in Message /\ e = queue[p][1] /\ 1 \in DOMAIN queue[p]
        /\ \A i \in DOMAIN Tail(queue[p]) :
               i + 1 \in DOMAIN queue[p] /\ Tail(queue[p])[i] = queue[p][i + 1]
    BY <1>1, TailOf
  <1> HIDE DEF e
  <1>3. /\ DOMAIN Append(inbox[s], e) = DOMAIN inbox[s] \cup {k}
        /\ k \notin DOMAIN inbox[s]
        /\ Append(inbox[s], e)[k] = e
        /\ \A i \in DOMAIN inbox[s] : Append(inbox[s], e)[i] = inbox[s][i]
    BY <1>1, <1>2, AppendOf
  <1>4. \A m : ~InboxAt(s, k, m)
    BY <1>3 DEF InboxAt
  <1>5. ~InHandAt(s, k)
    <2>1. k = 1 => inbox[s] = <<>>
      BY <1>1
    <2> QED
      BY <2>1 DEF InHandAt, TypeInv, LoopsOK
  <1>6. QueueAt(p, 1, e)
    BY <1>1, <1>2 DEF QueueAt
  <1>7. \A t, i, m : InboxAt(t, i, m)' =>
            \/ InboxAt(t, i, m)
            \/ t = s /\ i = k /\ m = e
    BY <1>1, <1>3 DEF InboxAt
  <1>8. \A q, i, m : QueueAt(q, i, m)' =>
            \/ q # p /\ QueueAt(q, i, m)
            \/ q = p /\ QueueAt(q, i + 1, m)
    BY <1>1, <1>2 DEF QueueAt
  <1> QED
    BY <1>4, <1>5, <1>6, <1>7, <1>8 DEF p, e

-----------------------------------------------------------------------------
(* The invariant, and how each kind of move keeps it.                       *)

TokenInv == TypeInv /\ Apart /\ Agree /\ StagesOK

\* Where an order stands, by the key of the message that carries it.
LEMMA StageOf ==
    ASSUME NEW m
    PROVE  /\ m.key = "order.created" =>
                  /\ StageOnArrival(m) = <<"CREATED", 0, 0>>
                  /\ StageInHand(m) = <<"CREATED", 1, 0>>
           /\ m.key = "payment.succeeded" =>
                  /\ StageOnArrival(m) = <<"CREATED", 1, 0>>
                  /\ StageInHand(m) = <<"PAID", 1, 0>>
           /\ m.key = "order.paid" =>
                  /\ StageOnArrival(m) = <<"PAID", 1, 0>>
                  /\ StageInHand(m) = <<"PAID", 1, 1>>
           /\ m.key = "order.delivered" =>
                  /\ StageOnArrival(m) = <<"PAID", 1, 1>>
                  /\ StageInHand(m) = <<"DELIVERED", 1, 1>>
  <1>1. m.key = "order.created" => StageOnArrival(m) = <<"CREATED", 0, 0>>
    BY Zenon DEF StageOnArrival
  <1>2. m.key = "payment.succeeded" => StageOnArrival(m) = <<"CREATED", 1, 0>>
    BY Zenon DEF StageOnArrival
  <1>3. m.key = "order.paid" => StageOnArrival(m) = <<"PAID", 1, 0>>
    BY Zenon DEF StageOnArrival
  <1>4. m.key = "order.delivered" => StageOnArrival(m) = <<"PAID", 1, 1>>
    BY Zenon DEF StageOnArrival
  <1>5. m.key = "order.created" => StageInHand(m) = <<"CREATED", 1, 0>>
    BY Zenon DEF StageInHand
  <1>6. m.key = "payment.succeeded" => StageInHand(m) = <<"PAID", 1, 0>>
    BY Zenon DEF StageInHand
  <1>7. m.key = "order.paid" => StageInHand(m) = <<"PAID", 1, 1>>
    BY Zenon DEF StageInHand
  <1>8. m.key = "order.delivered" => StageInHand(m) = <<"DELIVERED", 1, 1>>
    BY Zenon DEF StageInHand
  <1> QED
    BY <1>1, <1>2, <1>3, <1>4, <1>5, <1>6, <1>7, <1>8

\* Tokens that disappear, with nothing else changing about the orders.
LEMMA DropKeepsTokens ==
    ASSUME TokenInv, TypeInv',
           \A s, o : EmitAt(s, o)' => EmitAt(s, o),
           \A q, i, m : QueueAt(q, i, m)' => QueueAt(q, i, m),
           \A s, i, m : InboxAt(s, i, m)' => /\ InboxAt(s, i, m)
                                             /\ InHandAt(s, i)' <=> InHandAt(s, i),
           UNCHANGED <<status, payments, shipments>>
    PROVE  TokenInv'
  <1>1. \A o : Stage(o)' = Stage(o)
    BY DEF Stage
  <1>2. Apart'
    BY DEF TokenInv, Apart
  <1>3. Agree'
    BY <1>1 DEF TokenInv, Agree
  <1>4. StagesOK'
    BY <1>1 DEF TokenInv, StagesOK
  <1> QED
    BY <1>2, <1>3, <1>4 DEF TokenInv

\* The first step of a handler: the message it took is in hand, and what its
\* order has been through is what the message in hand says.
LEMMA TakeInHandKeepsTokens ==
    ASSUME TokenInv, TypeInv',
           NEW s \in Service, NEW h, inbox[s] # <<>>, h = Head(inbox[s]),
           step[s] = "idle", step'[s] # "idle",
           \A t \in Service : t # s => step'[t] = step[t],
           UNCHANGED <<emitting, queue, inbox>>,
           \A o : o # h.order => Stage(o)' = Stage(o),
           Stage(h.order)' = StageInHand(h)
    PROVE  TokenInv'
  <1>1. InboxAt(s, 1, h)
    BY TypeInvParts, TailOf DEF TokenInv, InboxAt
  <1>2. h.key \in Key
    BY <1>1, PlacesType DEF TokenInv
  <1>3. /\ \A t, o : EmitAt(t, o)' <=> EmitAt(t, o)
        /\ \A q, i, m : QueueAt(q, i, m)' <=> QueueAt(q, i, m)
        /\ \A t, i, m : InboxAt(t, i, m)' <=> InboxAt(t, i, m)
    BY DEF EmitAt, QueueAt, InboxAt
  <1>4. Apart'
    BY <1>3 DEF TokenInv, Apart
  <1>5. \A t, i, m : InboxAt(t, i, m) =>
            (InHandAt(t, i)' <=> (t # s /\ InHandAt(t, i)) \/ (t = s /\ i = 1))
    BY DEF InHandAt, InboxAt
  <1>6. \A t, i, m : InboxAt(t, i, m) /\ m.order = h.order => t = s /\ i = 1 /\ m = h
    <2>1. \A t, i, m : InboxAt(t, i, m) /\ m.order = h.order => t = s /\ i = 1
      BY <1>1 DEF TokenInv, Apart
    <2> QED
      BY <1>1, <2>1 DEF InboxAt
  <1>7. Agree'
    <2>1. \A t, o : EmitAt(t, o) => o # h.order
      BY <1>1 DEF TokenInv, Apart
    <2>2. \A q, i, m : QueueAt(q, i, m) => m.order # h.order
      BY <1>1 DEF TokenInv, Apart
    <2>5. ASSUME NEW t, NEW i, NEW m, InboxAt(t, i, m)
          PROVE  /\ QueueOf(m.key) = QueueFor(t)
                 /\ InHandAt(t, i)' => Stage(m.order)' = StageInHand(m)
                 /\ ~InHandAt(t, i)' => Stage(m.order)' = StageOnArrival(m)
      <3>1. CASE m.order = h.order
        <4>1. t = s /\ i = 1 /\ m = h /\ InHandAt(t, i)'
          BY <1>5, <1>6, <2>5, <3>1
        <4> QED
          BY <2>5, <4>1 DEF TokenInv, Agree
      <3>2. CASE m.order # h.order
        <4>1. Stage(m.order)' = Stage(m.order)
          BY <3>2
        <4>2. InHandAt(t, i)' <=> InHandAt(t, i)
          <5>1. ~(t = s /\ i = 1)
            BY <1>1, <2>5, <3>2 DEF InboxAt
          <5>2. CASE t = s
            BY <1>5, <2>5, <5>1, <5>2 DEF InHandAt
          <5>3. CASE t # s
            BY <1>5, <2>5, <5>3
          <5> QED
            BY <5>2, <5>3
        <4> QED
          BY <2>5, <4>1, <4>2 DEF TokenInv, Agree
      <3> QED
        BY <3>1, <3>2
    <2> QED
      BY <1>3, <2>1, <2>2, <2>5 DEF TokenInv, Agree
  <1>8. StagesOK'
    <2>1. StageInHand(h) \in {<<"CREATED", 1, 0>>, <<"PAID", 1, 0>>, <<"PAID", 1, 1>>,
                              <<"DELIVERED", 1, 1>>}
      BY <1>2, StageOf DEF Key
    <2> QED
      BY <2>1 DEF TokenInv, StagesOK
  <1> QED
    BY <1>4, <1>7, <1>8 DEF TokenInv

\* The end of a handler: the token in hand is dropped, or moves to the queue of
\* the event that the handler publishes.
LEMMA FinishKeepsTokens ==
    ASSUME TokenInv, TypeInv',
           NEW s \in Service, NEW h, inbox[s] # <<>>, h = Head(inbox[s]),
           FinishMessage(s), UNCHANGED emitting,
           NEW key \in Key,
           \/ UNCHANGED queue
           \/ /\ Publish(s, key, h.order)
              /\ Stage(h.order)' = StageOnArrival(Event(key, h.order)),
           \A o : o # h.order => Stage(o)' = Stage(o),
           StagesOK'
    PROVE  TokenInv'
  <1> DEFINE e == Event(key, h.order)
             p == QueueOf(key)
  <1>1. /\ InboxAt(s, 1, h)
        /\ \A t, i, m : InboxAt(t, i, m)' =>
               \/ t # s /\ InboxAt(t, i, m)
               \/ t = s /\ InboxAt(s, i + 1, m)
        /\ \A t \in Service : \A i : InHandAt(t, i)' <=> t # s /\ InHandAt(t, i)
    BY FinishMoves DEF TokenInv
  <1>2. h.order \in Order
    BY <1>1, PlacesType DEF TokenInv
  <1>3. \A t, o : EmitAt(t, o)' <=> EmitAt(t, o)
    BY DEF EmitAt
  <1>e. /\ e.order = h.order /\ QueueOf(e.key) = p
        /\ \/ UNCHANGED queue
           \/ Publish(s, key, h.order) /\ Stage(h.order)' = StageOnArrival(e)
    BY DEF Event
  <1> DEFINE k == Len(queue[p]) + 1
  <1>3b. /\ \A m : ~QueueAt(p, k, m)
         /\ Publish(s, key, h.order) =>
                \A q, i, m : QueueAt(q, i, m)' =>
                    QueueAt(q, i, m) \/ (q = p /\ i = k /\ m = e)
    BY <1>2, PublishMoves DEF TokenInv
  <1> HIDE DEF k, e, p
  <1>4. \A q, i, m : QueueAt(q, i, m)' =>
            \/ QueueAt(q, i, m)
            \/ /\ q = p /\ i = k /\ m = e
               /\ Stage(h.order)' = StageOnArrival(e)
    <2>1. CASE UNCHANGED queue
      BY <2>1 DEF QueueAt
    <2>2. CASE Publish(s, key, h.order) /\ Stage(h.order)' = StageOnArrival(e)
      BY <1>3b, <2>2
    <2> QED
      BY <1>e, <2>1, <2>2
  <1>5. \A t, i, m : InboxAt(t, i, m)' => m.order # h.order
    <2>1. \A i, m : InboxAt(s, i, m)' => i \in Nat /\ i + 1 # 1
      BY DEF InboxAt, TypeInv, TypeOK, BusTypeOK
    <2> QED
      BY <1>1, <2>1 DEF TokenInv, Apart
  <1>6. Apart'
    <2>1. \A t, u, o : EmitAt(t, o)' /\ EmitAt(u, o)' => t = u
      BY <1>3 DEF TokenInv, Apart
    <2>2. \A t, o, q, i, m : EmitAt(t, o)' /\ QueueAt(q, i, m)' => m.order # o
      BY <1>1, <1>3, <1>4, <1>e DEF TokenInv, Apart
    <2>3. \A t, o, u, i, m : EmitAt(t, o)' /\ InboxAt(u, i, m)' => m.order # o
      BY <1>1, <1>3 DEF TokenInv, Apart
    <2>4. \A q, i, m, r, j, n :
              QueueAt(q, i, m)' /\ QueueAt(r, j, n)' /\ m.order = n.order
                  => q = r /\ i = j
      BY <1>1, <1>3b, <1>4, <1>e DEF TokenInv, Apart
    <2>5. \A q, i, m, t, j, n :
              QueueAt(q, i, m)' /\ InboxAt(t, j, n)' => m.order # n.order
      BY <1>1, <1>4, <1>5, <1>e DEF TokenInv, Apart
    <2>6. ASSUME NEW t, NEW i, NEW m, NEW u, NEW j, NEW n,
                 InboxAt(t, i, m)', InboxAt(u, j, n)', m.order = n.order
          PROVE  t = u /\ i = j
      <3>1. i \in Nat /\ j \in Nat
        BY <2>6 DEF InboxAt, TypeInv, TypeOK, BusTypeOK
      <3>2. \A v, a, x, w, b, y :
                InboxAt(v, a, x) /\ InboxAt(w, b, y) /\ x.order = y.order => v = w /\ a = b
        BY DEF TokenInv, Apart
      <3> QED
        BY <1>1, <2>6, <3>1, <3>2
    <2> QED
      BY <2>1, <2>2, <2>3, <2>4, <2>5, <2>6 DEF Apart
  <1>7. Agree'
    <2>1. \A t, o : EmitAt(t, o)' => Stage(o)' = <<"CREATED", 0, 0>>
      BY <1>1, <1>3 DEF TokenInv, Agree, Apart
    <2>2. ASSUME NEW q, NEW i, NEW m, QueueAt(q, i, m)'
          PROVE  QueueOf(m.key) = q /\ Stage(m.order)' = StageOnArrival(m)
      BY <1>1, <1>4, <1>e, <2>2 DEF TokenInv, Agree, Apart
    <2>3. ASSUME NEW t, NEW i, NEW m, InboxAt(t, i, m)'
          PROVE  /\ QueueOf(m.key) = QueueFor(t)
                 /\ InHandAt(t, i)' => Stage(m.order)' = StageInHand(m)
                 /\ ~InHandAt(t, i)' => Stage(m.order)' = StageOnArrival(m)
      <3>1. Stage(m.order)' = Stage(m.order)
        BY <1>5, <2>3
      <3>2. CASE t # s
        BY <1>1, <2>3, <3>1, <3>2 DEF TokenInv, Agree, InboxAt
      <3>3. CASE t = s
        <4>1. i \in Nat /\ i >= 1 /\ InboxAt(s, i + 1, m)
          BY <1>1, <2>3, <3>3 DEF InboxAt, TypeInv, TypeOK, BusTypeOK
        <4>2. ~InHandAt(s, i + 1) /\ ~InHandAt(s, i)'
          BY <1>1, <4>1 DEF InHandAt
        <4> QED
          BY <3>1, <3>3, <4>1, <4>2 DEF TokenInv, Agree
      <3> QED
        BY <3>2, <3>3
    <2> QED
      BY <2>1, <2>2, <2>3 DEF Agree
  <1> QED
    BY <1>6, <1>7 DEF TokenInv

\* A push moves a token from the head of a queue to the end of an inbox.
LEMMA PushKeepsTokens ==
    ASSUME TokenInv, TypeInv', NEW s \in Service, PushToConsumer(s),
           UNCHANGED <<status, emitting, payments, shipments>>
    PROVE  TokenInv'
  <1> DEFINE p == QueueFor(s)
  <1>1. PICK k :
            /\ \A m : ~InboxAt(s, k, m)
            /\ ~InHandAt(s, k)
            /\ QueueAt(p, 1, Head(queue[p]))
            /\ \A t, i, m : InboxAt(t, i, m)' =>
                   InboxAt(t, i, m) \/ (t = s /\ i = k /\ m = Head(queue[p]))
            /\ \A q, i, m : QueueAt(q, i, m)' =>
                   (q # p /\ QueueAt(q, i, m)) \/ (q = p /\ QueueAt(p, i + 1, m))
    BY PushMoves DEF TokenInv
  <1> DEFINE h == Head(queue[p])
  <1> HIDE DEF h, p
  <1>2. /\ QueueAt(p, 1, h)
        /\ \A t, i, m : InboxAt(t, i, m)' => InboxAt(t, i, m) \/ (t = s /\ i = k /\ m = h)
    BY <1>1 DEF h
  <1>3. \A t, o : EmitAt(t, o)' <=> EmitAt(t, o)
    BY DEF EmitAt
  <1>4. \A t, i : InHandAt(t, i)' <=> InHandAt(t, i)
    BY DEF InHandAt, PushToConsumer
  <1>5. \A o : Stage(o)' = Stage(o)
    BY DEF Stage
  <1>6. \A q, i, m : QueueAt(q, i, m)' => i \in Nat /\ i >= 1
    BY DEF QueueAt, TypeInv, TypeOK, BusTypeOK
  <1>7. \A q, i, m : QueueAt(q, i, m)' =>
            /\ m.order # h.order
            /\ \E j : QueueAt(q, j, m)
    <2>1. ASSUME NEW q, NEW i, NEW m, QueueAt(q, i, m)'
          PROVE  m.order # h.order /\ \E j : QueueAt(q, j, m)
      <3>1. CASE q # p
        BY <1>1, <1>2, <2>1, <3>1 DEF TokenInv, Apart
      <3>2. CASE q = p
        <4>1. QueueAt(p, i + 1, m) /\ i \in Nat /\ i >= 1
          BY <1>1, <1>6, <2>1, <3>2
        <4>2. m.order = h.order => i + 1 = 1
          BY <1>2, <4>1 DEF TokenInv, Apart
        <4> QED
          BY <3>2, <4>1, <4>2
      <3> QED
        BY <3>1, <3>2
    <2> QED
      BY <2>1
  <1>8. Apart'
    <2>1. \A t, u, o : EmitAt(t, o)' /\ EmitAt(u, o)' => t = u
      BY <1>3 DEF TokenInv, Apart
    <2>2. \A t, o, q, i, m : EmitAt(t, o)' /\ QueueAt(q, i, m)' => m.order # o
      BY <1>3, <1>7 DEF TokenInv, Apart
    <2>3. \A t, o, u, i, m : EmitAt(t, o)' /\ InboxAt(u, i, m)' => m.order # o
      BY <1>2, <1>3 DEF TokenInv, Apart
    <2>4. ASSUME NEW q, NEW i, NEW m, NEW r, NEW j, NEW n,
                 QueueAt(q, i, m)', QueueAt(r, j, n)', m.order = n.order
          PROVE  q = r /\ i = j
      <3>1. i \in Nat /\ j \in Nat
        BY <1>6, <2>4
      <3>2. \A u, a, x, w, b, y :
                QueueAt(u, a, x) /\ QueueAt(w, b, y) /\ x.order = y.order => u = w /\ a = b
        BY DEF TokenInv, Apart
      <3>3. q = r
        BY <1>7, <2>4, <3>2
      <3> QED
        BY <1>1, <2>4, <3>1, <3>2, <3>3
    <2>5. \A q, i, m, t, j, n :
              QueueAt(q, i, m)' /\ InboxAt(t, j, n)' => m.order # n.order
      BY <1>2, <1>7 DEF TokenInv, Apart
    <2>6. \A t, i, m, u, j, n :
              InboxAt(t, i, m)' /\ InboxAt(u, j, n)' /\ m.order = n.order => t = u /\ i = j
      BY <1>2 DEF TokenInv, Apart
    <2> QED
      BY <2>1, <2>2, <2>3, <2>4, <2>5, <2>6 DEF Apart
  <1>9. Agree'
    <2>1. \A t, o : EmitAt(t, o)' => Stage(o)' = <<"CREATED", 0, 0>>
      BY <1>3, <1>5 DEF TokenInv, Agree
    <2>2. \A q, i, m : QueueAt(q, i, m)' =>
              QueueOf(m.key) = q /\ Stage(m.order)' = StageOnArrival(m)
      BY <1>5, <1>7 DEF TokenInv, Agree
    <2>3. ASSUME NEW t, NEW i, NEW m, InboxAt(t, i, m)'
          PROVE  /\ QueueOf(m.key) = QueueFor(t)
                 /\ InHandAt(t, i)' => Stage(m.order)' = StageInHand(m)
                 /\ ~InHandAt(t, i)' => Stage(m.order)' = StageOnArrival(m)
      <3>1. CASE InboxAt(t, i, m)
        BY <1>4, <1>5, <3>1 DEF TokenInv, Agree
      <3>2. CASE t = s /\ i = k /\ m = h
        <4>1. QueueOf(h.key) = QueueFor(s) /\ Stage(h.order) = StageOnArrival(h)
          BY <1>2 DEF TokenInv, Agree, p
        <4> QED
          BY <1>1, <1>4, <1>5, <3>2, <4>1
      <3> QED
        BY <1>2, <2>3, <3>1, <3>2
    <2> QED
      BY <2>1, <2>2, <2>3 DEF Agree
  <1> QED
    BY <1>5, <1>8, <1>9 DEF TokenInv, StagesOK

\* An order that does not exist yet has no token.
LEMMA NoneHasNoToken ==
    ASSUME TokenInv, NEW o \in Order, status[o] = "none"
    PROVE  /\ \A s : ~EmitAt(s, o)
           /\ \A q, i, m : QueueAt(q, i, m) => m.order # o
           /\ \A s, i, m : InboxAt(s, i, m) => m.order # o
           /\ payments[o] = 0 /\ shipments[o] = 0
  <1>1. \A m : m.key \in Key =>
            /\ StageOnArrival(m) \in {<<"CREATED", 0, 0>>, <<"CREATED", 1, 0>>,
                                      <<"PAID", 1, 0>>, <<"PAID", 1, 1>>}
            /\ StageInHand(m) \in {<<"CREATED", 1, 0>>, <<"PAID", 1, 0>>,
                                   <<"PAID", 1, 1>>, <<"DELIVERED", 1, 1>>}
    BY StageOf DEF Key
  <1>2. /\ Stage(o) \notin {<<"CREATED", 0, 0>>, <<"CREATED", 1, 0>>, <<"PAID", 1, 0>>,
                            <<"PAID", 1, 1>>, <<"DELIVERED", 1, 1>>}
        /\ payments[o] = 0 /\ shipments[o] = 0
    <2>1. Stage(o) = <<status[o], payments[o], shipments[o]>>
      BY DEF Stage
    <2>2. Stage(o) = <<"none", 0, 0>>
      BY <2>1 DEF TokenInv, StagesOK
    <2> QED
      BY <2>1, <2>2
  <1>3. \A s : ~EmitAt(s, o)
    BY <1>2 DEF TokenInv, Agree
  <1>4. \A q, i, m : QueueAt(q, i, m) => m.order # o
    BY <1>1, <1>2, PlacesType DEF TokenInv, Agree
  <1>5. \A s, i, m : InboxAt(s, i, m) => m.order # o
    BY <1>1, <1>2, PlacesType DEF TokenInv, Agree
  <1> QED
    BY <1>2, <1>3, <1>4, <1>5

-----------------------------------------------------------------------------
(* Every action keeps the invariant.                                        *)

LEMMA TokensCreates ==
    ASSUME TokenInv, NEW s \in OrderSvc, NEW o \in Order, CreatesOrder(s, o)
    PROVE  TokenInv'
  <1>0. TypeInv'
    BY TypeInvCreates DEF TokenInv
  <1>1. /\ status[o] = "none"
        /\ status' = [status EXCEPT ![o] = "CREATED"]
        /\ UNCHANGED <<queue, inbox, step, payments, shipments>>
    BY DEF CreatesOrder, CreateOrder, CreateOrderCommitUnknown
  <1>2. \A t, x : EmitAt(t, x)' => EmitAt(t, x) \/ (t = s /\ x = o)
    BY TypeInvParts DEF CreatesOrder, CreateOrder, CreateOrderCommitUnknown, EmitAt,
                        TokenInv
  <1>3. /\ \A q, i, m : QueueAt(q, i, m)' <=> QueueAt(q, i, m)
        /\ \A t, i, m : InboxAt(t, i, m)' <=> InboxAt(t, i, m)
        /\ \A t, i : InHandAt(t, i)' <=> InHandAt(t, i)
    BY <1>1 DEF QueueAt, InboxAt, InHandAt
  <1>4. /\ \A t : ~EmitAt(t, o)
        /\ \A q, i, m : QueueAt(q, i, m) => m.order # o
        /\ \A t, i, m : InboxAt(t, i, m) => m.order # o
        /\ payments[o] = 0 /\ shipments[o] = 0
    BY <1>1, NoneHasNoToken
  <1>5. Stage(o)' = <<"CREATED", 0, 0>>
    BY <1>1, <1>4, TypeInvParts DEF TokenInv, Stage
  <1>6. \A x : x # o => Stage(x)' = Stage(x)
    BY <1>1, TypeInvParts DEF TokenInv, Stage
  <1>7. Apart'
    BY <1>2, <1>3, <1>4 DEF TokenInv, Apart
  <1>8. Agree'
    BY <1>2, <1>3, <1>4, <1>5, <1>6 DEF TokenInv, Agree
  <1>9. StagesOK'
    BY <1>5, <1>6 DEF TokenInv, StagesOK
  <1> QED
    BY <1>0, <1>7, <1>8, <1>9 DEF TokenInv

LEMMA TokensPaymentStep ==
    ASSUME TokenInv, NEW s \in Service, PaymentStep(s)
    PROVE  TokenInv'
  <1>0. TypeInv'
    BY TypeInvPaymentStep DEF TokenInv
  <1> PICK h : h = Head(inbox[s])
    OBVIOUS
  <1>1. inbox[s] # <<>> => h.order \in Order /\ InboxAt(s, 1, h)
    BY HeadType, TailOf, TypeInvParts DEF TokenInv, TypeInv, InboxAt
  <1>2. s \in PaymentSvc /\ inbox[s] # <<>> => h.key = "order.created"
    <2>1. s \in PaymentSvc /\ inbox[s] # <<>> =>
              QueueOf(h.key) = QueueFor(s) /\ h.key \in Key
      BY <1>1, PlacesType DEF TokenInv, Agree
    <2> QED
      BY <2>1, Routing DEF Key
  <1>3. CASE ChargePayment(s)
    <2>1. /\ s \in PaymentSvc /\ inbox[s] # <<>> /\ step[s] = "idle"
          /\ step' = [step EXCEPT ![s] = "publish"]
          /\ payments' = [payments EXCEPT ![h.order] = @ + 1]
          /\ UNCHANGED <<emitting, queue, inbox, status, shipments>>
      BY <1>3 DEF ChargePayment, Receiving, PaymentStep
    <2>2. Stage(h.order) = <<"CREATED", 0, 0>> /\ h.order \in Order
      <3>1. ~InHandAt(s, 1)
        BY <2>1 DEF InHandAt
      <3> QED
        BY <1>1, <1>2, <2>1, <3>1, StageOf DEF TokenInv, Agree
    <2>3. Stage(h.order)' = <<"CREATED", 1, 0>>
      BY <2>1, <2>2, TypeInvParts DEF TokenInv, Stage
    <2>4. \A o : o # h.order => Stage(o)' = Stage(o)
      BY <2>1, TypeInvParts DEF TokenInv, Stage
    <2>5. step'[s] # "idle" /\ \A t \in Service : t # s => step'[t] = step[t]
      BY <2>1, TypeInvParts DEF TokenInv
    <2>6. StageInHand(h) = <<"CREATED", 1, 0>>
      BY <1>2, <2>1, StageOf
    <2> QED
      BY <1>0, <2>1, <2>3, <2>4, <2>5, <2>6, TakeInHandKeepsTokens
  <1>4. CASE PublishPaymentSucceeded(s)
    <2>1. /\ s \in PaymentSvc /\ inbox[s] # <<>> /\ step[s] # "idle"
          /\ FinishMessage(s) /\ Publish(s, "payment.succeeded", h.order)
          /\ UNCHANGED <<emitting, status, payments, shipments>>
      BY <1>4 DEF PublishPaymentSucceeded, PaymentStep, TokenInv, TypeInv, LoopsOK
    <2>2. \A o : Stage(o)' = Stage(o)
      BY <2>1 DEF Stage
    <2>3. Stage(h.order) = <<"CREATED", 1, 0>>
      <3>1. InHandAt(s, 1)
        BY <2>1 DEF InHandAt
      <3> QED
        BY <1>1, <1>2, <2>1, <3>1, StageOf DEF TokenInv, Agree
    <2>4. StageOnArrival(Event("payment.succeeded", h.order)) = <<"CREATED", 1, 0>>
      BY StageOf DEF Event
    <2>5. StagesOK'
      BY <2>2 DEF TokenInv, StagesOK
    <2>6. "payment.succeeded" \in Key
      BY DEF Key
    <2> QED
      BY <1>0, <2>1, <2>2, <2>3, <2>4, <2>5, <2>6, FinishKeepsTokens
  <1> QED
    BY <1>3, <1>4 DEF PaymentStep

LEMMA TokensDeliveryStep ==
    ASSUME TokenInv, NEW s \in Service, DeliveryStep(s)
    PROVE  TokenInv'
  <1>0. TypeInv'
    BY TypeInvDeliveryStep DEF TokenInv
  <1> PICK h : h = Head(inbox[s])
    OBVIOUS
  <1>1. inbox[s] # <<>> => h.order \in Order /\ InboxAt(s, 1, h)
    BY HeadType, TailOf, TypeInvParts DEF TokenInv, TypeInv, InboxAt
  <1>2. s \in DeliverySvc /\ inbox[s] # <<>> => h.key = "order.paid"
    <2>1. s \in DeliverySvc /\ inbox[s] # <<>> =>
              QueueOf(h.key) = QueueFor(s) /\ h.key \in Key
      BY <1>1, PlacesType DEF TokenInv, Agree
    <2> QED
      BY <2>1, Routing DEF Key
  <1>3. CASE ShipOrder(s)
    <2>1. /\ s \in DeliverySvc /\ inbox[s] # <<>> /\ step[s] = "idle"
          /\ step' = [step EXCEPT ![s] = "publish"]
          /\ shipments' = [shipments EXCEPT ![h.order] = @ + 1]
          /\ UNCHANGED <<emitting, queue, inbox, status, payments>>
      BY <1>3 DEF ShipOrder, Receiving, DeliveryStep
    <2>2. Stage(h.order) = <<"PAID", 1, 0>> /\ h.order \in Order
      <3>1. ~InHandAt(s, 1)
        BY <2>1 DEF InHandAt
      <3> QED
        BY <1>1, <1>2, <2>1, <3>1, StageOf DEF TokenInv, Agree
    <2>3. Stage(h.order)' = <<"PAID", 1, 1>>
      BY <2>1, <2>2, TypeInvParts DEF TokenInv, Stage
    <2>4. \A o : o # h.order => Stage(o)' = Stage(o)
      BY <2>1, TypeInvParts DEF TokenInv, Stage
    <2>5. step'[s] # "idle" /\ \A t \in Service : t # s => step'[t] = step[t]
      BY <2>1, TypeInvParts DEF TokenInv
    <2>6. StageInHand(h) = <<"PAID", 1, 1>>
      BY <1>2, <2>1, StageOf
    <2> QED
      BY <1>0, <2>1, <2>3, <2>4, <2>5, <2>6, TakeInHandKeepsTokens
  <1>4. CASE PublishOrderDelivered(s)
    <2>1. /\ s \in DeliverySvc /\ inbox[s] # <<>> /\ step[s] # "idle"
          /\ FinishMessage(s) /\ Publish(s, "order.delivered", h.order)
          /\ UNCHANGED <<emitting, status, payments, shipments>>
      BY <1>4 DEF PublishOrderDelivered, DeliveryStep, TokenInv, TypeInv, LoopsOK
    <2>2. \A o : Stage(o)' = Stage(o)
      BY <2>1 DEF Stage
    <2>3. Stage(h.order) = <<"PAID", 1, 1>>
      <3>1. InHandAt(s, 1)
        BY <2>1 DEF InHandAt
      <3> QED
        BY <1>1, <1>2, <2>1, <3>1, StageOf DEF TokenInv, Agree
    <2>4. StageOnArrival(Event("order.delivered", h.order)) = <<"PAID", 1, 1>>
      BY StageOf DEF Event
    <2>5. StagesOK'
      BY <2>2 DEF TokenInv, StagesOK
    <2>6. "order.delivered" \in Key
      BY DEF Key
    <2> QED
      BY <1>0, <2>1, <2>2, <2>3, <2>4, <2>5, <2>6, FinishKeepsTokens
  <1> QED
    BY <1>3, <1>4 DEF DeliveryStep

LEMMA TokensEmitOrderCreated ==
    ASSUME TokenInv, NEW s \in Service, NEW o \in Order, EmitOrderCreated(s, o),
           UNCHANGED workerVars, TypeInv'
    PROVE  TokenInv'
  <1> DEFINE p == QueueOf("order.created")
             e == Event("order.created", o)
             k == Len(queue[p]) + 1
  <1>1. /\ EmitAt(s, o)
        /\ Publish(s, "order.created", o)
        /\ emitting' = [emitting EXCEPT ![s] = @ \ {o}]
        /\ UNCHANGED <<status, inbox, step, payments, shipments>>
    BY DEF EmitOrderCreated, EmitAt
  <1>2. /\ \A m : ~QueueAt(p, k, m)
        /\ \A q, i, m : QueueAt(q, i, m)' =>
               QueueAt(q, i, m) \/ (q = p /\ i = k /\ m = e)
    BY <1>1, PublishMoves DEF TokenInv, Key
  <1>3. e.order = o /\ QueueOf(e.key) = p /\ StageOnArrival(e) = <<"CREATED", 0, 0>>
    BY StageOf DEF Event
  <1> HIDE DEF p, e, k
  <1>4. \A t, x : EmitAt(t, x)' => EmitAt(t, x) /\ x # o
    <2>1. \A t, x : EmitAt(t, x)' => EmitAt(t, x) /\ ~(t = s /\ x = o)
      BY <1>1, TypeInvParts DEF TokenInv, EmitAt
    <2> QED
      BY <1>1, <2>1 DEF TokenInv, Apart
  <1>5. /\ \A t, i, m : InboxAt(t, i, m)' <=> InboxAt(t, i, m)
        /\ \A t, i : InHandAt(t, i)' <=> InHandAt(t, i)
        /\ \A x : Stage(x)' = Stage(x)
    BY <1>1 DEF InboxAt, InHandAt, Stage
  <1>6. Apart'
    BY <1>1, <1>2, <1>3, <1>4, <1>5 DEF TokenInv, Apart
  <1>7. Agree'
    BY <1>1, <1>2, <1>3, <1>4, <1>5 DEF TokenInv, Agree
  <1>8. StagesOK'
    BY <1>5 DEF TokenInv, StagesOK
  <1> QED
    BY <1>6, <1>7, <1>8 DEF TokenInv

\* What the order service's consumer has at hand, by the step it is at.
LEMMA OrderLoop ==
    ASSUME TokenInv, NEW s \in OrderSvc, NEW h, h = Head(inbox[s]), inbox[s] # <<>>
    PROVE  /\ InboxAt(s, 1, h) /\ h.order \in Order
           /\ h.key \in {"payment.succeeded", "order.delivered"}
           /\ step[s] = "idle" => Stage(h.order) = StageOnArrival(h)
           /\ step[s] # "idle" => Stage(h.order) = StageInHand(h)
  <1>1. s \in Service /\ InboxAt(s, 1, h) /\ h.order \in Order /\ h.key \in Key
    BY HeadType, TailOf, TypeInvParts DEF TokenInv, TypeInv, InboxAt, Service
  <1>2. QueueOf(h.key) = "order_service_events_queue"
    BY <1>1, Routing DEF TokenInv, Agree
  <1>3. h.key \in {"payment.succeeded", "order.delivered"}
    BY <1>1, <1>2, Routing DEF Key
  <1>4. InHandAt(s, 1) <=> step[s] # "idle"
    BY DEF InHandAt
  <1> QED
    BY <1>1, <1>3, <1>4 DEF TokenInv, Agree

\* A finished message of the order service that leads to no event.
LEMMA TokensFinishSilently ==
    ASSUME TokenInv, TypeInv', NEW s \in OrderSvc, inbox[s] # <<>>, FinishMessage(s),
           UNCHANGED <<status, emitting, queue, payments, shipments>>
    PROVE  TokenInv'
  <1> PICK h : h = Head(inbox[s])
    OBVIOUS
  <1>1. \A o : Stage(o)' = Stage(o)
    BY DEF Stage
  <1>2. StagesOK'
    BY <1>1 DEF TokenInv, StagesOK
  <1>3. "order.paid" \in Key /\ s \in Service
    BY DEF Key, Service
  <1> QED
    BY <1>1, <1>2, <1>3, FinishKeepsTokens

LEMMA TokensAfterHistory ==
    ASSUME TokenInv, TypeInv', NEW s \in OrderSvc, step[s] = "history", AfterHistory(s),
           UNCHANGED <<status, emitting, queue, payments, shipments>>
    PROVE  TokenInv'
  <1>1. inbox[s] # <<>> /\ s \in Service
    BY DEF TokenInv, TypeInv, LoopsOK, Service
  <1>2. CASE Target(Head(inbox[s])) = "PAID"
    <2>1. step' = [step EXCEPT ![s] = "emit"] /\ inbox' = inbox
      BY <1>2 DEF AfterHistory
    <2>2. /\ \A t, o : EmitAt(t, o)' => EmitAt(t, o)
          /\ \A q, i, m : QueueAt(q, i, m)' => QueueAt(q, i, m)
          /\ \A t, i, m : InboxAt(t, i, m)' => InboxAt(t, i, m)
      BY <2>1 DEF EmitAt, QueueAt, InboxAt
    <2>3. \A t \in Service : \A i : InHandAt(t, i)' <=> InHandAt(t, i)
      BY <2>1, TypeInvParts DEF TokenInv, InHandAt
    <2>4. \A t, i, m : InboxAt(t, i, m) => t \in Service
      BY DEF InboxAt
    <2> QED
      BY <2>2, <2>3, <2>4, DropKeepsTokens
  <1>3. CASE Target(Head(inbox[s])) # "PAID"
    BY <1>1, <1>3, TokensFinishSilently DEF AfterHistory
  <1> QED
    BY <1>2, <1>3

\* The UPDATE of a status, applied to the order of the message at the head.
LEMMA StageUpdated ==
    ASSUME TokenInv, NEW s \in OrderSvc, NEW h, h = Head(inbox[s]), inbox[s] # <<>>,
           step[s] = "idle",
           status' = [status EXCEPT ![h.order] = Target(h)],
           UNCHANGED <<payments, shipments>>
    PROVE  /\ Stage(h.order)' = StageInHand(h)
           /\ \A o : o # h.order => Stage(o)' = Stage(o)
           /\ StagesOK'
  <1>1. /\ h.order \in Order /\ h.key \in {"payment.succeeded", "order.delivered"}
        /\ Stage(h.order) = StageOnArrival(h)
    BY OrderLoop
  <1>2. Stage(h.order)' = <<Target(h), payments[h.order], shipments[h.order]>>
    BY <1>1, TypeInvParts DEF TokenInv, Stage
  <1>3. Stage(h.order)' = StageInHand(h)
    <2>1. CASE h.key = "payment.succeeded"
      <3>1. Stage(h.order) = <<"CREATED", 1, 0>> /\ StageInHand(h) = <<"PAID", 1, 0>>
        BY <1>1, <2>1, StageOf
      <3>2. payments[h.order] = 1 /\ shipments[h.order] = 0 /\ Target(h) = "PAID"
        BY <2>1, <3>1 DEF Stage, Target
      <3> QED
        BY <1>2, <3>1, <3>2
    <2>2. CASE h.key = "order.delivered"
      <3>1. Stage(h.order) = <<"PAID", 1, 1>> /\ StageInHand(h) = <<"DELIVERED", 1, 1>>
        BY <1>1, <2>2, StageOf
      <3>2. payments[h.order] = 1 /\ shipments[h.order] = 1 /\ Target(h) = "DELIVERED"
        BY <2>2, <3>1 DEF Stage, Target
      <3> QED
        BY <1>2, <3>1, <3>2
    <2> QED
      BY <1>1, <2>1, <2>2
  <1>4. \A o : o # h.order => Stage(o)' = Stage(o)
    BY <1>1, TypeInvParts DEF TokenInv, Stage
  <1>5. StageInHand(h) \in {<<"PAID", 1, 0>>, <<"DELIVERED", 1, 1>>}
    BY <1>1, StageOf
  <1> QED
    BY <1>3, <1>4, <1>5 DEF TokenInv, StagesOK

LEMMA TokensOrderStep ==
    ASSUME TokenInv, NEW s \in Service, OrderStep(s)
    PROVE  TokenInv'
  <1>0. TypeInv' /\ UNCHANGED workerVars
    BY TypeInvOrderStep DEF TokenInv, OrderStep
  <1> PICK h : h = Head(inbox[s])
    OBVIOUS
  <1>1. CASE \E o \in Order : EmitOrderCreated(s, o)
    BY <1>0, <1>1, TokensEmitOrderCreated
  <1>2. CASE UpdateStatus(s)
    <2>1. /\ s \in OrderSvc /\ inbox[s] # <<>> /\ step[s] = "idle"
          /\ status' = [status EXCEPT ![h.order] = Target(h)]
          /\ step' = [step EXCEPT ![s] = "history"]
          /\ UNCHANGED <<emitting, queue, inbox>>
      BY <1>2 DEF UpdateStatus, Receiving
    <2>2. /\ Stage(h.order)' = StageInHand(h)
          /\ \A o : o # h.order => Stage(o)' = Stage(o)
      BY <1>0, <2>1, StageUpdated
    <2>3. step'[s] # "idle" /\ \A t \in Service : t # s => step'[t] = step[t]
      BY <2>1, TypeInvParts DEF TokenInv
    <2> QED
      BY <1>0, <2>1, <2>2, <2>3, TakeInHandKeepsTokens
  <1>3. CASE UpdateStatusFails(s)
    <2>1. /\ s \in OrderSvc /\ inbox[s] # <<>> /\ step[s] = "idle"
          /\ FinishMessage(s)
          /\ UNCHANGED <<emitting, queue>>
          /\ status' = [status EXCEPT ![h.order] = Target(h)] \/ status' = status
      BY <1>3 DEF UpdateStatusFails, Receiving
    <2>2. /\ \A o : o # h.order => Stage(o)' = Stage(o)
          /\ StagesOK'
      <3>1. CASE status' = [status EXCEPT ![h.order] = Target(h)]
        BY <1>0, <2>1, <3>1, StageUpdated
      <3>2. CASE status' = status
        <4>1. \A o : Stage(o)' = Stage(o)
          BY <1>0, <3>2 DEF Stage
        <4> QED
          BY <4>1 DEF TokenInv, StagesOK
      <3> QED
        BY <2>1, <3>1, <3>2
    <2>3. "order.paid" \in Key
      BY DEF Key
    <2> QED
      BY <1>0, <2>1, <2>2, <2>3, FinishKeepsTokens
  <1>4. CASE AddHistory(s)
    BY <1>0, <1>4, TokensAfterHistory DEF AddHistory
  <1>5. CASE AddHistoryFails(s)
    BY <1>0, <1>5, TokensAfterHistory DEF AddHistoryFails
  <1>6. CASE EmitOrderPaid(s)
    <2>1. /\ s \in OrderSvc /\ inbox[s] # <<>> /\ step[s] = "emit"
          /\ FinishMessage(s) /\ Publish(s, "order.paid", h.order)
          /\ UNCHANGED <<emitting, status, payments, shipments>>
      BY <1>0, <1>6 DEF EmitOrderPaid, TokenInv, TypeInv, LoopsOK
    <2>2. \A o : Stage(o)' = Stage(o)
      BY <2>1 DEF Stage
    <2>3. Stage(h.order) = <<"PAID", 1, 0>>
      <3>1. h.key = "payment.succeeded"
        BY <2>1 DEF TokenInv, TypeInv, LoopsOK
      <3> QED
        BY <2>1, <3>1, OrderLoop, StageOf
    <2>4. StageOnArrival(Event("order.paid", h.order)) = <<"PAID", 1, 0>>
      BY StageOf DEF Event
    <2>5. StagesOK'
      BY <2>2 DEF TokenInv, StagesOK
    <2>6. "order.paid" \in Key
      BY DEF Key
    <2> QED
      BY <1>0, <2>1, <2>2, <2>3, <2>4, <2>5, <2>6, FinishKeepsTokens
  <1>7. CASE GetOrderFails(s)
    <2>1. s \in OrderSvc /\ inbox[s] # <<>>
      BY <1>7 DEF GetOrderFails, TokenInv, TypeInv, LoopsOK
    <2> QED
      BY <1>0, <1>7, <2>1, TokensFinishSilently DEF GetOrderFails
  <1> QED
    BY <1>1, <1>2, <1>3, <1>4, <1>5, <1>6, <1>7 DEF OrderStep

\* A process that goes away takes its tokens with it.
LEMMA VanishDrops ==
    ASSUME TypeInv, NEW s \in Service, Vanish(s)
    PROVE  \A t, i, m : InboxAt(t, i, m)' =>
               InboxAt(t, i, m) /\ (InHandAt(t, i)' <=> InHandAt(t, i))
  <1>1. /\ inbox' = [inbox EXCEPT ![s] = <<>>]
        /\ step' = [step EXCEPT ![s] = "idle"]
        /\ inbox \in [Service -> Seq(Message)] /\ step \in [Service -> Step]
    BY TypeInvParts DEF Vanish
  <1> QED
    BY <1>1 DEF InboxAt, InHandAt

\* A closing consumer channel leaves the message in hand, in its place.
LEMMA InHandDrops ==
    ASSUME TypeInv, NEW t \in Service, inbox'[t] = InHand(t), step'[t] = step[t]
    PROVE  \A i, m : InboxAt(t, i, m)' =>
               InboxAt(t, i, m) /\ (InHandAt(t, i)' <=> InHandAt(t, i))
  <1>1. CASE step[t] = "idle"
    BY <1>1, InHandType DEF InboxAt
  <1>2. CASE step[t] # "idle"
    <2>1. inbox[t] # <<>> /\ inbox[t] \in Seq(Message)
      BY <1>2, TypeInvParts DEF TypeInv, LoopsOK
    <2>2. 1 \in DOMAIN inbox[t]
      BY <2>1, TailOf
    <2> QED
      BY <1>2, <2>2, InHandType DEF InboxAt, InHandAt
  <1> QED
    BY <1>1, <1>2

LEMMA TokensProcessStep ==
    ASSUME TokenInv, NEW s \in Service, ProcessStep(s)
    PROVE  TokenInv'
  <1>0. TypeInv' /\ TypeInv
    BY TypeInvProcessStep DEF TokenInv
  <1>1. CASE UNCHANGED <<queue, inbox, step, emitting, status, payments, shipments>>
    BY <1>0, <1>1, DropKeepsTokens DEF EmitAt, QueueAt, InboxAt, InHandAt
  <1>2. CASE (Start(s) \/ BindKey(s) \/ Subscribe(s)) /\ UNCHANGED <<orderVars, workerVars>>
    BY <1>1, <1>2 DEF Start, BindKey, Subscribe
  <1>3. CASE PushToConsumer(s) /\ UNCHANGED <<orderVars, workerVars>>
    BY <1>0, <1>3, PushKeepsTokens
  <1>4. CASE ExitAfterLoop(s) /\ UNCHANGED <<orderVars, workerVars>>
    <2>1. Vanish(s) /\ UNCHANGED <<queue, emitting, status, payments, shipments>>
      BY <1>4 DEF ExitAfterLoop
    <2>2. /\ \A t, o : EmitAt(t, o)' => EmitAt(t, o)
          /\ \A q, i, m : QueueAt(q, i, m)' => QueueAt(q, i, m)
      BY <2>1 DEF EmitAt, QueueAt
    <2> QED
      BY <1>0, <2>1, <2>2, VanishDrops, DropKeepsTokens
  <1>5. CASE LoseConsumerConnection(s) /\ UNCHANGED <<orderVars, workerVars>>
    <2>1. /\ inbox' = [inbox EXCEPT ![s] = InHand(s)]
          /\ inbox \in [Service -> Seq(Message)]
          /\ UNCHANGED <<step, queue, emitting, status, payments, shipments>>
      BY <1>0, <1>5, TypeInvParts DEF LoseConsumerConnection
    <2>2. /\ \A t, o : EmitAt(t, o)' => EmitAt(t, o)
          /\ \A q, i, m : QueueAt(q, i, m)' => QueueAt(q, i, m)
      BY <2>1 DEF EmitAt, QueueAt
    <2>3. \A i, m : InboxAt(s, i, m)' =>
              InboxAt(s, i, m) /\ (InHandAt(s, i)' <=> InHandAt(s, i))
      BY <1>0, <2>1, InHandDrops
    <2>4. \A t, i, m : t # s /\ InboxAt(t, i, m)' =>
              InboxAt(t, i, m) /\ (InHandAt(t, i)' <=> InHandAt(t, i))
      BY <2>1 DEF InboxAt, InHandAt
    <2>5. \A t, i, m : InboxAt(t, i, m)' =>
              InboxAt(t, i, m) /\ (InHandAt(t, i)' <=> InHandAt(t, i))
      BY <2>3, <2>4
    <2> QED
      BY <1>0, <2>1, <2>2, <2>5, DropKeepsTokens
  <1>6. CASE LoseProducerConnection(s) /\ UNCHANGED <<orderVars, workerVars>>
    BY <1>1, <1>6 DEF LoseProducerConnection
  <1>7. CASE CrashOrderService(s) /\ UNCHANGED workerVars
    <2>1. /\ Vanish(s) /\ UNCHANGED <<queue, status, payments, shipments>>
          /\ emitting' = [emitting EXCEPT ![s] = {}]
      BY <1>7 DEF CrashOrderService, CrashProcess
    <2>2. \A t, o : EmitAt(t, o)' => EmitAt(t, o)
      BY <1>0, <2>1, TypeInvParts DEF EmitAt
    <2>3. \A q, i, m : QueueAt(q, i, m)' => QueueAt(q, i, m)
      BY <2>1 DEF QueueAt
    <2> QED
      BY <1>0, <2>1, <2>2, <2>3, VanishDrops, DropKeepsTokens
  <1>8. CASE CrashProcess(s) /\ UNCHANGED <<orderVars, workerVars>>
    <2>1. Vanish(s) /\ UNCHANGED <<queue, emitting, status, payments, shipments>>
      BY <1>8 DEF CrashProcess
    <2>2. /\ \A t, o : EmitAt(t, o)' => EmitAt(t, o)
          /\ \A q, i, m : QueueAt(q, i, m)' => QueueAt(q, i, m)
      BY <2>1 DEF EmitAt, QueueAt
    <2> QED
      BY <1>0, <2>1, <2>2, VanishDrops, DropKeepsTokens
  <1> QED
    BY <1>2, <1>3, <1>4, <1>5, <1>6, <1>7, <1>8 DEF ProcessStep

LEMMA TokensBrokerStep ==
    ASSUME TokenInv, BrokerStep
    PROVE  TokenInv'
  <1>0. TypeInv' /\ TypeInv
    BY TypeInvBrokerStep DEF TokenInv
  <1>1. /\ queue' = [q \in Queue |-> <<>>]
        /\ inbox' = [t \in Service |-> InHand(t)]
        /\ UNCHANGED <<step, emitting, status, payments, shipments>>
    BY DEF BrokerStep, RestartBroker
  <1>2. /\ \A t, o : EmitAt(t, o)' => EmitAt(t, o)
        /\ \A q, i, m : ~QueueAt(q, i, m)'
    BY <1>1 DEF EmitAt, QueueAt
  <1>3. ASSUME NEW t \in Service
        PROVE  \A i, m : InboxAt(t, i, m)' =>
                   InboxAt(t, i, m) /\ (InHandAt(t, i)' <=> InHandAt(t, i))
    BY <1>0, <1>1, InHandDrops
  <1>4. \A t, i, m : InboxAt(t, i, m)' => t \in Service
    BY DEF InboxAt
  <1> QED
    BY <1>0, <1>1, <1>2, <1>3, <1>4, DropKeepsTokens

LEMMA TokensInit ==
    ASSUME Init PROVE TokenInv
  <1>1. TypeInv
    BY TypeInvInit
  <1>2. /\ \A s, o : ~EmitAt(s, o)
        /\ \A q, i, m : ~QueueAt(q, i, m)
        /\ \A s, i, m : ~InboxAt(s, i, m)
    BY DEF Init, BusInit, OrderInit, EmitAt, QueueAt, InboxAt
  <1>3. StagesOK
    BY DEF Init, OrderInit, PaymentInit, DeliveryInit, StagesOK, Stage
  <1> QED
    BY <1>1, <1>2, <1>3 DEF TokenInv, Apart, Agree

LEMMA TokenInvStep ==
    ASSUME TokenInv, [Next]_vars
    PROVE  TokenInv'
  <1>1. CASE UNCHANGED vars
    <2>1. TypeInv'
      BY TypeInvStep DEF TokenInv
    <2> QED
      BY <1>1, <2>1, DropKeepsTokens DEF vars, EmitAt, QueueAt, InboxAt, InHandAt
  <1>2. CASE Next
    BY <1>2, TokensCreates, TokensOrderStep, TokensPaymentStep, TokensDeliveryStep,
       TokensProcessStep, TokensBrokerStep
    DEF Next
  <1> QED
    BY <1>1, <1>2

-----------------------------------------------------------------------------
(* What the invariant gives.                                                *)

\* TokenInv is invariant, for any number of orders and of instances and any
\* budget of faults.
THEOREM TokensInvariant == Spec => []TokenInv
  <1>1. Init => TokenInv
    BY TokensInit
  <1>2. TokenInv /\ [Next]_vars => TokenInv'
    BY TokenInvStep
  <1> QED
    BY <1>1, <1>2, PTL DEF Spec

\* No order is ever carried by two goroutines or messages at once, although
\* nothing in the services looks for duplicates.
THEOREM AtMostOneToken == Spec => []SingleToken
  <1>1. TokenInv => SingleToken
    BY ApartIsSingleToken DEF TokenInv
  <1> QED
    BY <1>1, TokensInvariant, PTL

\* Whatever fails, an order is charged and shipped once at most, shipped only once
\* its row is PAID, and DELIVERED only once shipped.
THEOREM ChargedAndShippedOnce == Spec => []StagesOK
  <1>1. TokenInv => StagesOK
    BY DEF TokenInv
  <1> QED
    BY <1>1, TokensInvariant, PTL

\* A message in transit always tells the truth about its order.
THEOREM TokensTellTheTruth == Spec => []TokensAgree
  <1>1. TokenInv => TokensAgree
    BY AgreeIsTokensAgree DEF TokenInv
  <1> QED
    BY <1>1, TokensInvariant, PTL
=============================================================================
