------------------------ MODULE OrderRefinementProofs ------------------------
(***************************************************************************)
(* The pipeline implements OrderLifecycle.  TokenInv does the work: the    *)
(* message a handler acts on says where its order stands, which is the     *)
(* guard of the abstract action the handler's step maps to.  It also keeps *)
(* the rows of the status history in order, and says where an order stands *)
(* when nobody carries it on.  Only a step of its holder drops an order.   *)
(***************************************************************************)
EXTENDS OrderPipelineProofs

USE DEF busVars, orderVars, workerVars

LEMMA InitImplements == Init => Lifecycle!Init
  BY DEF Init, OrderInit, PaymentInit, DeliveryInit, Lifecycle!Init

\* A step of a handler changes nothing but its bookkeeping, or is the abstract
\* step its message stands for.
LEMMA CreatesImplements ==
    ASSUME TokenInv, NEW s \in OrderSvc, NEW o \in Order, CreatesOrder(s, o)
    PROVE  Lifecycle!Place(o)
  BY DEF CreatesOrder, CreateOrder, CreateOrderCommitUnknown, Lifecycle!Place

\* The UPDATE of the consumer: MarkPaid for a payment.succeeded message,
\* MarkDelivered for an order.delivered message.
LEMMA UpdateImplements ==
    ASSUME TokenInv, NEW s \in OrderSvc, NEW h, h = Head(inbox[s]), inbox[s] # <<>>,
           step[s] = "idle",
           status' = [status EXCEPT ![h.order] = Target(h)],
           UNCHANGED <<payments, shipments>>
    PROVE  Lifecycle!MarkPaid(h.order) \/ Lifecycle!MarkDelivered(h.order)
  <1>1. /\ h.order \in Order /\ h.key \in {"payment.succeeded", "order.delivered"}
        /\ Stage(h.order) = StageOnArrival(h)
    BY OrderLoop
  <1>2. CASE h.key = "payment.succeeded"
    <2>1. Stage(h.order) = <<"CREATED", 1, 0>>
      BY <1>1, <1>2, StageOf
    <2>2. status[h.order] = "CREATED" /\ payments[h.order] = 1 /\ Target(h) = "PAID"
      BY <1>2, <2>1 DEF Stage, Target
    <2> QED
      BY <2>2 DEF Lifecycle!MarkPaid
  <1>3. CASE h.key = "order.delivered"
    <2>1. Stage(h.order) = <<"PAID", 1, 1>>
      BY <1>1, <1>3, StageOf
    <2>2. status[h.order] = "PAID" /\ shipments[h.order] = 1 /\ Target(h) = "DELIVERED"
      BY <1>3, <2>1 DEF Stage, Target
    <2> QED
      BY <2>2 DEF Lifecycle!MarkDelivered
  <1> QED
    BY <1>1, <1>2, <1>3

LEMMA OrderStepImplements ==
    ASSUME TokenInv, NEW s \in Service, OrderStep(s)
    PROVE  [Lifecycle!Next]_(Lifecycle!vars)
  <1> PICK h : h = Head(inbox[s])
    OBVIOUS
  <1>1. CASE UNCHANGED <<status, payments, shipments>>
    BY <1>1 DEF Lifecycle!vars
  <1>2. CASE /\ s \in OrderSvc /\ inbox[s] # <<>> /\ step[s] = "idle"
             /\ status' = [status EXCEPT ![h.order] = Target(h)]
             /\ UNCHANGED <<payments, shipments>>
    <2>1. h.order \in Order
      BY <1>2, OrderLoop
    <2>2. Lifecycle!MarkPaid(h.order) \/ Lifecycle!MarkDelivered(h.order)
      BY <1>2, UpdateImplements
    <2> QED
      BY <2>1, <2>2 DEF Lifecycle!Next
  <1>3. CASE UpdateStatus(s)
    BY <1>2, <1>3 DEF OrderStep, UpdateStatus, Receiving
  <1>4. CASE UpdateStatusFails(s)
    BY <1>1, <1>2, <1>4 DEF OrderStep, UpdateStatusFails, Receiving
  <1>5. CASE \/ \E o \in Order : EmitOrderCreated(s, o)
             \/ AddHistory(s) \/ AddHistoryFails(s)
             \/ EmitOrderPaid(s) \/ GetOrderFails(s)
    BY <1>1, <1>5 DEF OrderStep, EmitOrderCreated, AddHistory, AddHistoryFails,
                      EmitOrderPaid, GetOrderFails
  <1> QED
    BY <1>3, <1>4, <1>5 DEF OrderStep

\* ChargePayment is Charge, on an order nobody has charged.
LEMMA PaymentStepImplements ==
    ASSUME TokenInv, NEW s \in Service, PaymentStep(s)
    PROVE  [Lifecycle!Next]_(Lifecycle!vars)
  <1> PICK h : h = Head(inbox[s])
    OBVIOUS
  <1>1. CASE ChargePayment(s)
    <2>1. /\ s \in PaymentSvc /\ inbox[s] # <<>> /\ ~InHandAt(s, 1)
          /\ payments' = [payments EXCEPT ![h.order] = @ + 1]
          /\ UNCHANGED <<status, shipments>>
      BY <1>1 DEF ChargePayment, Receiving, PaymentStep, InHandAt
    <2>2. InboxAt(s, 1, h) /\ h.order \in Order /\ h.key \in Key
      BY <2>1, HeadType, TailOf, TypeInvParts DEF TokenInv, TypeInv, InboxAt
    <2>3. h.key = "order.created"
      BY <2>1, <2>2, Routing DEF TokenInv, Agree, Key
    <2>4. Stage(h.order) = <<"CREATED", 0, 0>>
      BY <2>1, <2>2, <2>3, StageOf DEF TokenInv, Agree
    <2>5. Lifecycle!Charge(h.order)
      BY <2>1, <2>4 DEF Stage, Lifecycle!Charge
    <2> QED
      BY <2>2, <2>5 DEF Lifecycle!Next
  <1>2. CASE PublishPaymentSucceeded(s)
    BY <1>2 DEF PublishPaymentSucceeded, PaymentStep, Lifecycle!vars
  <1> QED
    BY <1>1, <1>2 DEF PaymentStep

\* ShipOrder is Ship, on a PAID order nobody has shipped.
LEMMA DeliveryStepImplements ==
    ASSUME TokenInv, NEW s \in Service, DeliveryStep(s)
    PROVE  [Lifecycle!Next]_(Lifecycle!vars)
  <1> PICK h : h = Head(inbox[s])
    OBVIOUS
  <1>1. CASE ShipOrder(s)
    <2>1. /\ s \in DeliverySvc /\ inbox[s] # <<>> /\ ~InHandAt(s, 1)
          /\ shipments' = [shipments EXCEPT ![h.order] = @ + 1]
          /\ UNCHANGED <<status, payments>>
      BY <1>1 DEF ShipOrder, Receiving, DeliveryStep, InHandAt
    <2>2. InboxAt(s, 1, h) /\ h.order \in Order /\ h.key \in Key
      BY <2>1, HeadType, TailOf, TypeInvParts DEF TokenInv, TypeInv, InboxAt
    <2>3. h.key = "order.paid"
      BY <2>1, <2>2, Routing DEF TokenInv, Agree, Key
    <2>4. Stage(h.order) = <<"PAID", 1, 0>>
      BY <2>1, <2>2, <2>3, StageOf DEF TokenInv, Agree
    <2>5. Lifecycle!Ship(h.order)
      BY <2>1, <2>4 DEF Stage, Lifecycle!Ship
    <2> QED
      BY <2>2, <2>5 DEF Lifecycle!Next
  <1>2. CASE PublishOrderDelivered(s)
    BY <1>2 DEF PublishOrderDelivered, DeliveryStep, Lifecycle!vars
  <1> QED
    BY <1>1, <1>2 DEF DeliveryStep

\* Starts, stops, pushes and broken connections are invisible.
LEMMA ProcessStepStutters ==
    ASSUME NEW s \in Service, ProcessStep(s)
    PROVE  UNCHANGED Lifecycle!vars
  BY DEF ProcessStep, CrashOrderService, Lifecycle!vars

LEMMA StepImplements ==
    ASSUME TokenInv, [Next]_vars
    PROVE  [Lifecycle!Next]_(Lifecycle!vars)
  <1>1. CASE UNCHANGED vars
    BY <1>1 DEF vars, Lifecycle!vars
  <1>2. CASE \E s \in OrderSvc, o \in Order : CreatesOrder(s, o)
    BY <1>2, CreatesImplements DEF Lifecycle!Next
  <1>3. CASE \E s \in Service : OrderStep(s)
    BY <1>3, OrderStepImplements
  <1>4. CASE \E s \in Service : PaymentStep(s)
    BY <1>4, PaymentStepImplements
  <1>5. CASE \E s \in Service : DeliveryStep(s)
    BY <1>5, DeliveryStepImplements
  <1>6. CASE \E s \in Service : ProcessStep(s)
    BY <1>6, ProcessStepStutters
  <1>7. CASE BrokerStep
    BY <1>7 DEF BrokerStep, Lifecycle!vars
  <1> QED
    BY <1>1, <1>2, <1>3, <1>4, <1>5, <1>6, <1>7 DEF Next

\* Whatever fails and whenever, each order is charged and shipped at most once,
\* in the right order, and its row never moves back.
THEOREM Refinement == Spec => ImplementsLifecycle
  <1>1. Init => Lifecycle!Init
    BY InitImplements
  <1>2. TokenInv /\ [Next]_vars => [Lifecycle!Next]_(Lifecycle!vars)
    BY StepImplements
  <1> QED
    BY <1>1, <1>2, TokensInvariant, PTL DEF Spec, ImplementsLifecycle, Lifecycle!Spec
-----------------------------------------------------------------------------
(* The status history.  Two instances that wrote rows of one order in turn  *)
(* could swap them; the token keeps them apart.                             *)

\* No row is there yet that the message in hand stands for, or a later one.
RowDue(m) ==
    IF m.key = "payment.succeeded" THEN history[m.order] = <<>>
                                   ELSE history[m.order] \in {<<>>, <<"PAID">>}

HistoryInv ==
    /\ HistoryFaithful
    /\ \A s \in OrderSvc : step[s] = "history" => RowDue(Head(inbox[s]))

\* The second element of a sequence.
LEMMA AppendPair ==
    ASSUME NEW a, NEW b
    PROVE  Append(<<a>>, b) = <<a, b>>
  <1> DEFINE q == Append(<<a>>, b)
  <1>1. q \in Seq({a, b}) /\ Len(q) = 2 /\ q[1] = a /\ q[2] = b
    OBVIOUS
  <1>2. /\ <<a, b>> \in Seq({a, b}) /\ Len(<<a, b>>) = 2
        /\ <<a, b>>[1] = a /\ <<a, b>>[2] = b
    OBVIOUS
  <1>3. \A i \in 1..2 : i = 1 \/ i = 2
    OBVIOUS
  <1> HIDE DEF q
  <1>4. q = <<a, b>>
    BY <1>1, <1>2, <1>3, SeqEqual
  <1> QED
    BY <1>4 DEF q

\* A status moves on by one, if it moves.
LEMMA StatusAdvances ==
    ASSUME TokenInv, [Next]_vars, NEW o \in Order
    PROVE  \/ status'[o] = status[o]
           \/ status[o] = "none" /\ status'[o] = "CREATED"
           \/ status[o] = "CREATED" /\ status'[o] = "PAID"
           \/ status[o] = "PAID" /\ status'[o] = "DELIVERED"
  <1>1. [Lifecycle!Next]_(Lifecycle!vars)
    BY StepImplements
  <1>2. status \in [Order -> Status]
    BY TypeInvParts DEF TokenInv
  <1> QED
    BY <1>1, <1>2 DEF Lifecycle!Next, Lifecycle!vars, Lifecycle!Place, Lifecycle!Charge,
                      Lifecycle!MarkPaid, Lifecycle!Ship, Lifecycle!MarkDelivered

\* Rows are written by AddHistory only.
LEMMA RowsAreAdded ==
    ASSUME [Next]_vars
    PROVE  history' = history \/ \E s \in OrderSvc : AddHistory(s) /\ UNCHANGED workerVars
  <1>1. CASE UNCHANGED vars
    BY <1>1 DEF vars
  <1>2. CASE \E s \in OrderSvc, o \in Order : CreatesOrder(s, o)
    BY <1>2 DEF CreatesOrder, CreateOrder, CreateOrderCommitUnknown
  <1>3. ASSUME NEW s \in Service, OrderStep(s)
        PROVE  history' = history \/ (s \in OrderSvc /\ AddHistory(s) /\ UNCHANGED workerVars)
    <2>1. CASE AddHistory(s)
      BY <1>3, <2>1 DEF AddHistory, OrderStep
    <2>2. CASE ~AddHistory(s)
      BY <1>3, <2>2 DEF OrderStep, EmitOrderCreated, UpdateStatus, UpdateStatusFails,
                        AddHistoryFails, EmitOrderPaid, GetOrderFails
    <2> QED
      BY <2>1, <2>2
  <1>4. CASE \E s \in Service : PaymentStep(s) \/ DeliveryStep(s)
    BY <1>4 DEF PaymentStep, DeliveryStep
  <1>5. CASE \E s \in Service : ProcessStep(s)
    BY <1>5 DEF ProcessStep, CrashOrderService
  <1>6. CASE BrokerStep
    BY <1>6 DEF BrokerStep
  <1> QED
    BY <1>1, <1>2, <1>3, <1>4, <1>5, <1>6 DEF Next

\* The loop body of s is at the row it is to write because it has just done the
\* UPDATE, or was there before, with the same message in hand.
AtRow(s) == step'[s] = "history" =>
    UpdateStatus(s) \/ (step[s] = "history" /\ Head(inbox'[s]) = Head(inbox[s]))

\* The loop of t moves; those of the other instances do not.
LEMMA OnlyLoopOf ==
    ASSUME TypeInv, NEW t \in Service,
           \A s \in Service \ {t} : step'[s] = step[s] /\ inbox'[s] = inbox[s],
           AtRow(t)
    PROVE  \A s \in OrderSvc : AtRow(s)
  BY DEF AtRow, Service

LEMMA RowFollowsUpdate ==
    ASSUME TokenInv, [Next]_vars
    PROVE  \A s \in OrderSvc : AtRow(s)
  <1>0. /\ TypeInv /\ OrderSvc \subseteq Service
        /\ inbox \in [Service -> Seq(Message)] /\ step \in [Service -> Step]
        /\ \A s \in Service : step[s] # "idle" => inbox[s] # <<>>
    BY TypeInvParts DEF TokenInv, Service, TypeInv, LoopsOK
  <1>1. CASE UNCHANGED <<inbox, step>>
    BY <1>1 DEF AtRow
  <1>2. CASE \E s \in OrderSvc, o \in Order : CreatesOrder(s, o)
    BY <1>1, <1>2 DEF CreatesOrder, CreateOrder, CreateOrderCommitUnknown
  <1>3. ASSUME NEW t \in Service, OrderStep(t)
        PROVE  \A s \in OrderSvc : AtRow(s)
    <2>1. CASE UpdateStatus(t)
      BY <1>0, <2>1, OnlyLoopOf DEF UpdateStatus, AtRow
    <2>2. CASE AfterHistory(t) \/ FinishMessage(t)
      <3>1. CASE inbox' = [inbox EXCEPT ![t] = Tail(@)] /\ step' = [step EXCEPT ![t] = "idle"]
        BY <1>0, <3>1, OnlyLoopOf DEF AtRow
      <3>2. CASE inbox' = inbox /\ step' = [step EXCEPT ![t] = "emit"]
        BY <1>0, <3>2, OnlyLoopOf DEF AtRow
      <3> QED
        BY <2>2, <3>1, <3>2 DEF AfterHistory, FinishMessage
    <2>3. CASE \E o \in Order : EmitOrderCreated(t, o)
      BY <1>1, <2>3 DEF EmitOrderCreated
    <2> QED
      BY <1>3, <2>1, <2>2, <2>3 DEF OrderStep, UpdateStatusFails, AddHistory, AddHistoryFails,
                                    EmitOrderPaid, GetOrderFails
  <1>4. ASSUME NEW t \in Service, PaymentStep(t) \/ DeliveryStep(t)
        PROVE  \A s \in OrderSvc : AtRow(s)
    <2>1. \/ inbox' = inbox /\ step' = [step EXCEPT ![t] = "publish"]
          \/ /\ inbox' = [inbox EXCEPT ![t] = Tail(@)]
             /\ step' = [step EXCEPT ![t] = "idle"]
      BY <1>4 DEF PaymentStep, DeliveryStep, ChargePayment, ShipOrder, FinishMessage,
                  PublishPaymentSucceeded, PublishOrderDelivered
    <2> QED
      BY <1>0, <2>1, OnlyLoopOf DEF AtRow
  <1>5. ASSUME NEW t \in Service, ProcessStep(t)
        PROVE  \A s \in OrderSvc : AtRow(s)
    <2>1. CASE UNCHANGED <<inbox, step>>
      BY <1>1, <2>1
    <2>2. CASE Vanish(t)
      BY <1>0, <2>2, OnlyLoopOf DEF Vanish, AtRow
    <2>3. CASE PushToConsumer(t)
      <3> PICK e : e = Head(queue[QueueFor(t)])
        OBVIOUS
      <3>1. inbox' = [inbox EXCEPT ![t] = Append(@, e)] /\ step' = step
        BY <2>3 DEF PushToConsumer
      <3>2. e \in Message
        BY <2>3, Routing, TypeInvParts, <1>0 DEF PushToConsumer
      <3>3. inbox[t] # <<>> => Head(Append(inbox[t], e)) = Head(inbox[t])
        BY <1>0, <3>2
      <3> QED
        BY <1>0, <3>1, <3>3, OnlyLoopOf DEF AtRow
    <2>4. CASE LoseConsumerConnection(t)
      <3>1. inbox' = [inbox EXCEPT ![t] = InHand(t)] /\ step' = step
        BY <2>4 DEF LoseConsumerConnection
      <3>2. step[t] # "idle" => Head(InHand(t)) = Head(inbox[t])
        BY <1>0, InHandType
      <3> QED
        BY <1>0, <3>1, <3>2, OnlyLoopOf DEF AtRow
    <2> QED
      BY <1>5, <2>1, <2>2, <2>3, <2>4
      DEF ProcessStep, Start, BindKey, Subscribe, ExitAfterLoop, LoseProducerConnection,
          CrashOrderService, CrashProcess
  <1>6. CASE BrokerStep
    <2>1. \A s \in Service : inbox'[s] = InHand(s) /\ step' = step
      BY <1>6 DEF BrokerStep, RestartBroker
    <2>2. \A s \in Service : step[s] # "idle" => Head(InHand(s)) = Head(inbox[s])
      BY <1>0, InHandType
    <2> QED
      BY <1>0, <2>1, <2>2 DEF AtRow
  <1> QED
    BY <1>1, <1>2, <1>3, <1>4, <1>5, <1>6 DEF Next, vars

\* Without a new row the history stays faithful: no status moves back.
LEMMA FaithfulUnwritten ==
    ASSUME TokenInv, HistoryFaithful, [Next]_vars, history' = history
    PROVE  HistoryFaithful'
  BY StatusAdvances DEF HistoryFaithful

LEMMA HistoryUnwritten ==
    ASSUME TokenInv, HistoryInv, [Next]_vars, history' = history
    PROVE  HistoryInv'
  <1>1. HistoryFaithful'
    BY FaithfulUnwritten DEF HistoryInv
  <1>2. ASSUME NEW s \in OrderSvc, step'[s] = "history"
        PROVE  RowDue(Head(inbox[s]))' 
    <2> PICK h : h = Head(inbox[s])
      OBVIOUS
    <2>1. CASE step[s] = "history" /\ Head(inbox'[s]) = Head(inbox[s])
      <3>1. RowDue(h)
        BY <2>1 DEF HistoryInv
      <3> QED
        BY <2>1, <3>1 DEF RowDue
    <2>2. CASE UpdateStatus(s)
      <3>1. inbox' = inbox /\ inbox[s] # <<>> /\ step[s] = "idle"
        BY <2>2 DEF UpdateStatus, Receiving
      <3>2. /\ h.order \in Order /\ h.key \in {"payment.succeeded", "order.delivered"}
            /\ Stage(h.order) = StageOnArrival(h)
        BY <3>1, OrderLoop
      <3>3. h.key = "payment.succeeded" => status[h.order] = "CREATED"
        BY <3>2, StageOf DEF Stage
      <3>4. h.key = "order.delivered" => status[h.order] = "PAID"
        BY <3>2, StageOf DEF Stage
      <3>5. RowDue(h)
        BY <3>2, <3>3, <3>4 DEF HistoryInv, HistoryFaithful, RowDue
      <3> QED
        BY <3>1, <3>5 DEF RowDue
    <2> QED
      BY <1>2, <2>1, <2>2, RowFollowsUpdate DEF AtRow
  <1> QED
    BY <1>1, <1>2 DEF HistoryInv

LEMMA HistoryWritten ==
    ASSUME TokenInv, HistoryInv, [Next]_vars, NEW t \in OrderSvc, AddHistory(t)
    PROVE  HistoryInv'
  <1> PICK h : h = Head(inbox[t])
    OBVIOUS
  <1>1. /\ step[t] = "history" /\ inbox[t] # <<>> /\ t \in Service
        /\ history' = [history EXCEPT ![h.order] = Append(@, Target(h))]
        /\ status' = status
    BY DEF AddHistory, TokenInv, TypeInv, LoopsOK, Service
  <1>2. /\ InboxAt(t, 1, h) /\ h.order \in Order
        /\ h.key \in {"payment.succeeded", "order.delivered"}
        /\ Stage(h.order) = StageInHand(h)
    BY <1>1, OrderLoop
  <1>3. RowDue(h) /\ history \in [Order -> Seq({"PAID", "DELIVERED"})]
    BY <1>1, TypeInvParts DEF HistoryInv, TokenInv
  <1>4. HistoryFaithful'
    <2>1. CASE h.key = "payment.succeeded"
      <3>1. status[h.order] = "PAID" /\ Target(h) = "PAID" /\ history[h.order] = <<>>
        BY <1>2, <1>3, <2>1, StageOf DEF Stage, Target, RowDue
      <3>2. history'[h.order] = <<"PAID">>
        BY <1>1, <1>2, <1>3, <3>1
      <3> QED
        BY <1>1, <1>2, <1>3, <3>1, <3>2 DEF HistoryInv, HistoryFaithful
    <2>2. CASE h.key = "order.delivered"
      <3>1. /\ status[h.order] = "DELIVERED" /\ Target(h) = "DELIVERED"
            /\ history[h.order] \in {<<>>, <<"PAID">>}
        BY <1>2, <1>3, <2>2, StageOf DEF Stage, Target, RowDue
      <3>2. history'[h.order] \in {<<"DELIVERED">>, <<"PAID", "DELIVERED">>}
        <4>1. history'[h.order] = Append(history[h.order], "DELIVERED")
          BY <1>1, <1>2, <1>3, <3>1
        <4>2. CASE history[h.order] = <<>>
          BY <4>1, <4>2
        <4>3. CASE history[h.order] = <<"PAID">>
          <5>1. Append(<<"PAID">>, "DELIVERED") = <<"PAID", "DELIVERED">>
            BY AppendPair
          <5> QED
            BY <4>1, <4>3, <5>1
        <4> QED
          BY <3>1, <4>2, <4>3
      <3> QED
        BY <1>1, <1>2, <1>3, <3>1, <3>2 DEF HistoryInv, HistoryFaithful
    <2> QED
      BY <1>2, <2>1, <2>2
  <1>5. ASSUME NEW s \in OrderSvc, step'[s] = "history"
        PROVE  RowDue(Head(inbox[s]))'
    <2> PICK g : g = Head(inbox[s])
      OBVIOUS
    <2>1. s # t /\ step[s] = "history" /\ inbox'[s] = inbox[s]
      <3>1. \/ inbox' = inbox /\ step' = [step EXCEPT ![t] = "emit"]
            \/ /\ inbox' = [inbox EXCEPT ![t] = Tail(@)]
               /\ step' = [step EXCEPT ![t] = "idle"]
        BY DEF AddHistory, AfterHistory, FinishMessage
      <3> QED
        BY <1>1, <1>5, <3>1, TypeInvParts DEF TokenInv, Service
    <2>2. inbox[s] # <<>> /\ RowDue(g)
      BY <2>1 DEF HistoryInv, TokenInv, TypeInv, LoopsOK, Service
    <2>3. InboxAt(s, 1, g) /\ g.order \in Order
      BY <2>2, OrderLoop
    <2>4. g.order # h.order
      BY <1>2, <2>1, <2>3 DEF TokenInv, Apart
    <2>5. history'[g.order] = history[g.order]
      BY <1>1, <1>3, <2>3, <2>4
    <2> QED
      BY <2>1, <2>2, <2>5 DEF RowDue
  <1> QED
    BY <1>4, <1>5 DEF HistoryInv

\* Rows of the history are unique, in order, and never ahead of the status, for
\* any number of instances that write them and whichever of their calls fail.
THEOREM HistoryIsFaithful == Spec => []HistoryFaithful
  <1>1. Init => HistoryInv
    BY DEF Init, BusInit, OrderInit, HistoryInv, HistoryFaithful, Service
  <1>2. TokenInv /\ HistoryInv /\ [Next]_vars => HistoryInv'
    BY RowsAreAdded, HistoryUnwritten, HistoryWritten
  <1>3. HistoryInv => HistoryFaithful
    BY DEF HistoryInv
  <1> QED
    BY <1>1, <1>2, <1>3, TokensInvariant, PTL DEF Spec
-----------------------------------------------------------------------------
(* Without a fault, an order is only lost to a queue that is not bound.     *)

\* The orders some messages are about.
Orders(q) == {q[i].order : i \in DOMAIN q}

\* Somebody will work on an order.
Carried(o) ==
    \/ \E s \in OrderSvc : o \in emitting[s]
    \/ \E q \in Queue : o \in Orders(queue[q])
    \/ \E s \in Service : o \in Orders(inbox[s])

\* Who is up is connected, and has bound its keys once it is through with its start;
\* who is not holds nothing.
Intact ==
    /\ sub \cup starting = up /\ pub = up
    /\ \A s \in sub : KeysFor(s) \subseteq bound
    /\ \A s \in OrderSvc : emitting[s] # {} => s \in up
    /\ \A s \in Service : inbox[s] # <<>> => s \in up

\* Whoever has created an order has bound what leads back to the order service.
Routed ==
    (\E o \in Order : status[o] # "none") =>
        /\ {"payment.succeeded", "order.delivered"} \subseteq bound
        /\ OrdersWaitForRollout => bound = Key

\* The losses LossHasCause admits.
Excused(o) == ~OrdersWaitForRollout /\ Stage(o) \in {<<"CREATED", 0, 0>>, <<"PAID", 1, 0>>}

NoneLost == \A o \in Order : status[o] \in {"CREATED", "PAID"} => Carried(o) \/ Excused(o)

LossInv == NoFaults => Intact /\ Routed /\ NoneLost

LEMMA CarriedHasToken ==
    ASSUME NEW o, Carried(o)
    PROVE  Tokens(o) # {}
  <1>1. CASE \E s \in OrderSvc : o \in emitting[s]
    BY <1>1, TokensByPlace DEF EmitAt
  <1>2. CASE \E q \in Queue : o \in Orders(queue[q])
    BY <1>2, TokensByPlace DEF Orders, QueueAt
  <1>3. CASE \E s \in Service : o \in Orders(inbox[s])
    BY <1>3, TokensByPlace DEF Orders, InboxAt
  <1> QED
    BY <1>1, <1>2, <1>3 DEF Carried

LEMMA LossInvSuffices == LossInv => LossHasCause
  BY CarriedHasToken DEF LossInv, NoneLost, LossHasCause, Stranded, Excused

LEMMA OrdersOfTail ==
    ASSUME NEW q \in Seq(Message), q # <<>>
    PROVE  /\ Head(q).order \in Orders(q)
           /\ Orders(q) \subseteq Orders(Tail(q)) \cup {Head(q).order}
  <1>1. /\ Len(q) \in Nat \ {0} /\ DOMAIN q = 1..Len(q) /\ Head(q) = q[1]
        /\ Len(Tail(q)) = Len(q) - 1 /\ DOMAIN Tail(q) = 1..Len(Tail(q))
        /\ \A i \in 1..Len(Tail(q)) : Tail(q)[i] = q[i + 1]
    BY HeadTailProperties, EmptySeq, LenProperties, TailOf
  <1>2. Head(q).order \in Orders(q)
    BY <1>1 DEF Orders
  <1>3. ASSUME NEW i \in DOMAIN q, i # 1
        PROVE  q[i].order \in Orders(Tail(q))
    <2>1. i - 1 \in DOMAIN Tail(q) /\ Tail(q)[i - 1] = q[i]
      BY <1>1, <1>3
    <2> QED
      BY <2>1 DEF Orders
  <1> QED
    BY <1>1, <1>2, <1>3 DEF Orders

LEMMA OrdersOfAppend ==
    ASSUME NEW q \in Seq(Message), NEW m \in Message
    PROVE  Orders(q) \subseteq Orders(Append(q, m)) /\ m.order \in Orders(Append(q, m))
  BY AppendOf DEF Orders

\* A fault ends the runs LossHasCause is about; no other step changes the count.
LEMMA FaultEnds ==
    ASSUME TypeInv, NEW kind \in FaultKind, Fault(kind)
    PROVE  ~NoFaults'
  <1>1. faults \in [FaultKind -> Nat] /\ faults' = [faults EXCEPT ![kind] = @ + 1]
    BY TypeInvParts DEF Fault
  <1>2. faults'[kind] # 0
    BY <1>1
  <1> QED
    BY <1>2 DEF NoFaults

\* A step that takes no order from anybody, and leaves the others where they stood.
LEMMA CarriedKeepsNoneLost ==
    ASSUME NoneLost, \A o \in Order : Carried(o) => Carried(o)',
           \A o \in Order : Carried(o)' \/ Stage(o)' = Stage(o)
    PROVE  NoneLost'
  BY DEF NoneLost, Excused, Stage

\* A step that moves no message, and only concerns the orders somebody carries.
LEMMA NothingMoves ==
    ASSUME LossInv, NoFaults, UNCHANGED <<bound, queue, up, starting, sub, pub, inbox, emitting>>,
           NEW o \in Order, Carried(o), status[o] # "none",
           \A x \in Order \ {o} : status'[x] = status[x] /\ Stage(x)' = Stage(x)
    PROVE  Intact' /\ Routed' /\ NoneLost'
  <1>1. \A x \in Order : Carried(x)' <=> Carried(x)
    BY DEF Carried
  <1>2. Intact'
    BY DEF LossInv, Intact, KeysFor
  <1>3. Routed'
    BY DEF LossInv, Routed
  <1>4. NoneLost'
    BY <1>1, CarriedKeepsNoneLost DEF LossInv
  <1> QED
    BY <1>2, <1>3, <1>4

\* A published event that is routed carries its order on.
LEMMA PublishCarries ==
    ASSUME TypeInv, NEW s \in pub, NEW key \in bound, NEW o \in Order, Publish(s, key, o)
    PROVE  /\ o \in Orders(queue'[QueueOf(key)])
           /\ \A q \in Queue : Orders(queue[q]) \subseteq Orders(queue'[q])
  <1> PICK m, k : m = Event(key, o) /\ k = QueueOf(key)
    OBVIOUS
  <1>1. m \in Message /\ m.order = o /\ key \in Key
    BY TypeInvParts DEF Message, Event
  <1>2. k \in Queue
    BY <1>1, Routing
  <1>3. queue' = [queue EXCEPT ![k] = Append(@, m)] /\ queue \in [Queue -> Seq(Message)]
    BY TypeInvParts DEF Publish
  <1>4. queue'[k] = Append(queue[k], m) /\ \A q \in Queue \ {k} : queue'[q] = queue[q]
    BY <1>2, <1>3
  <1>5. /\ Orders(queue[k]) \subseteq Orders(Append(queue[k], m))
        /\ m.order \in Orders(Append(queue[k], m))
    BY <1>1, <1>2, <1>3, OrdersOfAppend
  <1> QED
    BY <1>1, <1>2, <1>4, <1>5

LEMMA PublishKeepsQueues ==
    ASSUME TypeInv, NEW s, NEW key, NEW o \in Order, Publish(s, key, o)
    PROVE  \A q \in Queue : Orders(queue[q]) \subseteq Orders(queue'[q])
  <1>1. CASE s \in pub /\ key \in bound
    BY <1>1, PublishCarries
  <1>2. CASE ~(s \in pub /\ key \in bound)
    BY <1>2 DEF Publish
  <1> QED
    BY <1>1, <1>2

\* A loop body that ends lets go of the order it has worked on, and of no other.
LEMMA FinishCarries ==
    ASSUME TypeInv, NEW s \in Service, inbox[s] # <<>>, FinishMessage(s),
           UNCHANGED emitting, \A q \in Queue : Orders(queue[q]) \subseteq Orders(queue'[q])
    PROVE  \A x : Carried(x) /\ x # Head(inbox[s]).order => Carried(x)'
  <1>1. Orders(inbox[s]) \subseteq Orders(Tail(inbox[s])) \cup {Head(inbox[s]).order}
    BY OrdersOfTail, TypeInvParts
  <1>2. inbox'[s] = Tail(inbox[s]) /\ \A t \in Service \ {s} : inbox'[t] = inbox[t]
    BY TypeInvParts DEF FinishMessage
  <1> QED
    BY <1>1, <1>2 DEF Carried

\* The last step of a message: its order is carried on, is over, or is excused.
LEMMA LastStep ==
    ASSUME TypeInv, LossInv, NoFaults, NEW s \in Service, inbox[s] # <<>>, FinishMessage(s),
           UNCHANGED <<bound, up, starting, sub, pub, emitting, status, payments, shipments>>,
           \A q \in Queue : Orders(queue[q]) \subseteq Orders(queue'[q]),
           NEW o, o = Head(inbox[s]).order,
           status[o] \in {"CREATED", "PAID"} => Carried(o)' \/ Excused(o)
    PROVE  Intact' /\ Routed' /\ NoneLost'
  <1>1. \A x : Carried(x) /\ x # o => Carried(x)'
    BY FinishCarries
  <1>2. NoneLost'
    BY <1>1 DEF LossInv, NoneLost, Excused, Stage
  <1>3. \A t \in Service : inbox'[t] # <<>> => inbox[t] # <<>>
    BY TypeInvParts DEF FinishMessage
  <1>4. Intact' /\ Routed'
    BY <1>3 DEF LossInv, Intact, Routed, KeysFor
  <1> QED
    BY <1>2, <1>4

-----------------------------------------------------------------------------
(* The steps.                                                               *)

LEMMA RoutingOfOrders ==
    \A s \in OrderSvc : {"payment.succeeded", "order.delivered"} \subseteq KeysFor(s)
  BY Routing DEF KeysFor, Key

LEMMA LossCreates ==
    ASSUME TokenInv, LossInv, NEW s \in OrderSvc, NEW o \in Order, CreatesOrder(s, o)
    PROVE  LossInv'
  <1>1. CASE CreateOrderCommitUnknown(s, o)
    BY <1>1, FaultEnds DEF CreateOrderCommitUnknown, TokenInv, FaultKind, LossInv
  <1>2. CASE CreateOrder(s, o) /\ NoFaults
    <2>1. /\ emitting' = [emitting EXCEPT ![s] = @ \cup {o}]
          /\ status' = [status EXCEPT ![o] = "CREATED"]
          /\ s \in up \ starting /\ UNCHANGED <<history, bound, queue, up, starting, sub, pub, inbox, faults>>
          /\ Admitted
      BY <1>2 DEF CreateOrder, CreatesOrder, Serving
    <2>2. /\ emitting \in [OrderSvc -> SUBSET Order] /\ status \in [Order -> Status]
          /\ UNCHANGED <<payments, shipments>>
      BY TypeInvParts DEF TokenInv, CreatesOrder
    <2>3. /\ o \in emitting'[s] /\ \A t \in OrderSvc : emitting[t] \subseteq emitting'[t]
          /\ \A t \in OrderSvc \ {s} : emitting'[t] = emitting[t]
          /\ \A x \in Order \ {o} : status'[x] = status[x]
      BY <2>1, <2>2
    <2>4. Carried(o)' /\ \A x : Carried(x) => Carried(x)'
      BY <2>1, <2>3 DEF Carried
    <2>5. NoneLost'
      BY <1>2, <2>2, <2>3, <2>4 DEF LossInv, NoneLost, Excused, Stage
    <2>6. Intact'
      BY <1>2, <2>1, <2>3 DEF LossInv, Intact, KeysFor
    <2>7. Routed'
      <3>1. KeysFor(s) \subseteq bound
        BY <1>2, <2>1 DEF LossInv, Intact
      <3> QED
        BY <2>1, <3>1, RoutingOfOrders DEF Routed, Admitted
    <2> QED
      BY <2>5, <2>6, <2>7 DEF LossInv
  <1>3. CASE CreateOrder(s, o) /\ ~NoFaults
    BY <1>3 DEF CreateOrder, LossInv, NoFaults
  <1> QED
    BY <1>1, <1>2, <1>3 DEF CreatesOrder

\* Every message at an instance is carried, and somebody has created its order.
LEMMA HeadCarried ==
    ASSUME TokenInv, NEW s \in Service, inbox[s] # <<>>, NEW h, h = Head(inbox[s])
    PROVE  /\ h.order \in Order /\ h.key \in Key /\ Carried(h.order)
           /\ InboxAt(s, 1, h) /\ status[h.order] # "none"
  <1>1. InboxAt(s, 1, h) /\ h.order \in Order /\ h.key \in Key
    BY HeadType, TailOf, TypeInvParts DEF TokenInv, TypeInv, InboxAt
  <1>2. Carried(h.order)
    BY OrdersOfTail, TypeInvParts DEF TokenInv, Carried
  <1>3. Stage(h.order) \in {StageOnArrival(h), StageInHand(h)}
    BY <1>1 DEF TokenInv, Agree
  <1>4. Stage(h.order)[1] # "none"
    <2>1. CASE h.key = "order.created"
      BY <1>3, <2>1, StageOf
    <2>2. CASE h.key = "payment.succeeded"
      BY <1>3, <2>2, StageOf
    <2>3. CASE h.key = "order.paid"
      BY <1>3, <2>3, StageOf
    <2>4. CASE h.key = "order.delivered"
      BY <1>3, <2>4, StageOf
    <2> QED
      BY <1>1, <2>1, <2>2, <2>3, <2>4 DEF Key
  <1> QED
    BY <1>1, <1>2, <1>4 DEF Stage

\* What holds of a process with something to do, and of an order it works on.
LEMMA Connected ==
    ASSUME LossInv, NoFaults
    PROVE  /\ \A s \in Service : inbox[s] # <<>> => s \in pub
           /\ \A s \in OrderSvc : emitting[s] # {} => s \in pub
           /\ \A o \in Order : status[o] # "none" =>
                  /\ "payment.succeeded" \in bound /\ "order.delivered" \in bound
                  /\ OrdersWaitForRollout => bound = Key
  BY DEF LossInv, Intact, Routed

\* A loop body's last publish: of an order that is Excused if the key is unbound.
LEMMA LastPublish ==
    ASSUME TokenInv, LossInv, NoFaults, NEW s \in Service, inbox[s] # <<>>, FinishMessage(s),
           UNCHANGED <<bound, up, starting, sub, pub, emitting, status, payments, shipments>>,
           NEW o, o = Head(inbox[s]).order, NEW key \in Key, Publish(s, key, o),
           key \in bound \/ Excused(o)
    PROVE  Intact' /\ Routed' /\ NoneLost'
  <1>1. o \in Order /\ s \in pub
    BY HeadCarried, Connected
  <1>2. TypeInv
    BY DEF TokenInv
  <1>3. \A q \in Queue : Orders(queue[q]) \subseteq Orders(queue'[q])
    BY <1>1, <1>2, PublishKeepsQueues
  <1>4. CASE key \in bound
    <2>1. o \in Orders(queue'[QueueOf(key)]) /\ QueueOf(key) \in Queue
      BY <1>1, <1>2, <1>4, PublishCarries, Routing
    <2>2. Carried(o)'
      BY <2>1 DEF Carried
    <2> QED
      BY <1>2, <1>3, <2>2, LastStep
  <1>5. CASE Excused(o)
    BY <1>2, <1>3, <1>5, LastStep
  <1> QED
    BY <1>4, <1>5

LEMMA LossPaymentStep ==
    ASSUME TokenInv, LossInv, NEW s \in Service, PaymentStep(s)
    PROVE  LossInv'
  <1>0. s \in PaymentSvc /\ inbox[s] # <<>> /\ UNCHANGED faults /\ (NoFaults' <=> NoFaults)
    BY DEF PaymentStep, ChargePayment, PublishPaymentSucceeded, Receiving, TokenInv, TypeInv,
           LoopsOK, NoFaults
  <1> PICK h : h = Head(inbox[s])
    OBVIOUS
  <1>1. h.order \in Order /\ Carried(h.order) /\ status[h.order] # "none"
    BY <1>0, HeadCarried
  <1>2. CASE ChargePayment(s) /\ NoFaults
    <2>1. /\ payments' = [payments EXCEPT ![h.order] = @ + 1]
          /\ UNCHANGED <<bound, queue, up, starting, sub, pub, inbox, emitting, status, shipments>>
      BY <1>2 DEF ChargePayment, PaymentStep
    <2>2. \A x \in Order \ {h.order} : status'[x] = status[x] /\ Stage(x)' = Stage(x)
      BY <2>1, TypeInvParts DEF TokenInv, Stage
    <2> QED
      BY <1>1, <1>2, <2>1, <2>2, NothingMoves DEF LossInv
  <1>3. CASE PublishPaymentSucceeded(s) /\ NoFaults
    <2>1. /\ Publish(s, "payment.succeeded", h.order) /\ FinishMessage(s)
          /\ UNCHANGED <<bound, up, starting, sub, pub, emitting, status, payments, shipments>>
      BY <1>3 DEF PublishPaymentSucceeded, PaymentStep
    <2>2. "payment.succeeded" \in bound /\ "payment.succeeded" \in Key
      BY <1>1, <1>3, Connected DEF Key
    <2> QED
      BY <1>0, <1>3, <2>1, <2>2, LastPublish DEF LossInv
  <1> QED
    BY <1>0, <1>2, <1>3 DEF PaymentStep, LossInv

LEMMA LossDeliveryStep ==
    ASSUME TokenInv, LossInv, NEW s \in Service, DeliveryStep(s)
    PROVE  LossInv'
  <1>0. s \in DeliverySvc /\ inbox[s] # <<>> /\ UNCHANGED faults /\ (NoFaults' <=> NoFaults)
    BY DEF DeliveryStep, ShipOrder, PublishOrderDelivered, Receiving, TokenInv, TypeInv,
           LoopsOK, NoFaults
  <1> PICK h : h = Head(inbox[s])
    OBVIOUS
  <1>1. h.order \in Order /\ Carried(h.order) /\ status[h.order] # "none"
    BY <1>0, HeadCarried
  <1>2. CASE ShipOrder(s) /\ NoFaults
    <2>1. /\ shipments' = [shipments EXCEPT ![h.order] = @ + 1]
          /\ UNCHANGED <<bound, queue, up, starting, sub, pub, inbox, emitting, status, payments>>
      BY <1>2 DEF ShipOrder, DeliveryStep
    <2>2. \A x \in Order \ {h.order} : status'[x] = status[x] /\ Stage(x)' = Stage(x)
      BY <2>1, TypeInvParts DEF TokenInv, Stage
    <2> QED
      BY <1>1, <1>2, <2>1, <2>2, NothingMoves DEF LossInv
  <1>3. CASE PublishOrderDelivered(s) /\ NoFaults
    <2>1. /\ Publish(s, "order.delivered", h.order) /\ FinishMessage(s)
          /\ UNCHANGED <<bound, up, starting, sub, pub, emitting, status, payments, shipments>>
      BY <1>3 DEF PublishOrderDelivered, DeliveryStep
    <2>2. "order.delivered" \in bound /\ "order.delivered" \in Key
      BY <1>1, <1>3, Connected DEF Key
    <2> QED
      BY <1>0, <1>3, <2>1, <2>2, LastPublish DEF LossInv
  <1> QED
    BY <1>0, <1>2, <1>3 DEF DeliveryStep, LossInv

LEMMA LossEmitOrderCreated ==
    ASSUME TokenInv, LossInv, NoFaults, NEW s \in Service, NEW o \in Order,
           EmitOrderCreated(s, o), UNCHANGED workerVars
    PROVE  Intact' /\ Routed' /\ NoneLost'
  <1>1. /\ s \in OrderSvc /\ o \in emitting[s] /\ Publish(s, "order.created", o)
        /\ emitting' = [emitting EXCEPT ![s] = @ \ {o}]
        /\ UNCHANGED <<status, payments, shipments, bound, up, starting, sub, pub, inbox>>
    BY DEF EmitOrderCreated
  <1>2. s \in pub /\ TypeInv /\ "order.created" \in Key
    BY <1>1, Connected DEF TokenInv, Key
  <1>3. Stage(o) = <<"CREATED", 0, 0>>
    BY <1>1 DEF TokenInv, Agree, EmitAt
  <1>4. \A q \in Queue : Orders(queue[q]) \subseteq Orders(queue'[q])
    BY <1>1, <1>2, PublishKeepsQueues
  <1>5. /\ \A t \in OrderSvc : emitting[t] \subseteq emitting'[t] \cup {o}
        /\ \A t \in OrderSvc : emitting'[t] \subseteq emitting[t]
    BY <1>1, TypeInvParts DEF TokenInv
  <1>6. \A x \in Order \ {o} : Carried(x) => Carried(x)'
    BY <1>1, <1>4, <1>5 DEF Carried
  <1>7. Carried(o)' \/ Excused(o)
    <2>1. CASE "order.created" \in bound
      <3>1. o \in Orders(queue'[QueueOf("order.created")]) /\ QueueOf("order.created") \in Queue
        BY <1>1, <1>2, <2>1, PublishCarries, Routing
      <3> QED
        BY <3>1 DEF Carried
    <2>2. CASE "order.created" \notin bound
      <3>1. status[o] # "none"
        BY <1>3 DEF Stage
      <3> QED
        BY <1>2, <1>3, <2>2, <3>1, Connected DEF Excused
    <2> QED
      BY <2>1, <2>2
  <1>8. NoneLost'
    BY <1>1, <1>6, <1>7 DEF LossInv, NoneLost, Excused, Stage
  <1>9. Intact' /\ Routed'
    BY <1>1, <1>5 DEF LossInv, Intact, Routed, KeysFor
  <1> QED
    BY <1>8, <1>9

LEMMA LossOrderStep ==
    ASSUME TokenInv, LossInv, NEW s \in Service, OrderStep(s)
    PROVE  LossInv'
  <1> PICK h : h = Head(inbox[s])
    OBVIOUS
  <1>1. CASE UpdateStatusFails(s) \/ AddHistoryFails(s) \/ GetOrderFails(s)
    BY <1>1, FaultEnds DEF UpdateStatusFails, AddHistoryFails, GetOrderFails, TokenInv,
                           FaultKind, LossInv
  <1>2. CASE ~NoFaults /\ UNCHANGED faults
    BY <1>2 DEF LossInv, NoFaults
  <1>3. CASE NoFaults /\ \E o \in Order : EmitOrderCreated(s, o)
    BY <1>3, LossEmitOrderCreated DEF OrderStep, LossInv
  <1>4. CASE NoFaults /\ UpdateStatus(s)
    <2>1. s \in OrderSvc /\ inbox[s] # <<>> /\ UNCHANGED workerVars
      BY <1>4 DEF UpdateStatus, Receiving, OrderStep
    <2>2. /\ status' = [status EXCEPT ![h.order] = Target(h)]
          /\ UNCHANGED <<bound, queue, up, starting, sub, pub, inbox, emitting, payments, shipments>>
      BY <1>4, <2>1 DEF UpdateStatus
    <2>3. h.order \in Order /\ Carried(h.order) /\ status[h.order] # "none"
      BY <2>1, HeadCarried
    <2>4. \A x \in Order \ {h.order} : status'[x] = status[x] /\ Stage(x)' = Stage(x)
      BY <2>2, TypeInvParts DEF TokenInv, Stage
    <2> QED
      BY <1>4, <2>2, <2>3, <2>4, NothingMoves DEF LossInv
  <1>5. CASE NoFaults /\ AddHistory(s)
    <2>1. /\ s \in OrderSvc /\ step[s] = "history" /\ inbox[s] # <<>> /\ AfterHistory(s)
          /\ UNCHANGED <<bound, queue, up, starting, sub, pub, emitting, status, payments, shipments>>
      BY <1>5 DEF AddHistory, OrderStep, TokenInv, TypeInv, LoopsOK
    <2>2. /\ h.order \in Order /\ Carried(h.order) /\ status[h.order] # "none"
      BY <2>1, HeadCarried
    <2>3. CASE Target(h) = "PAID"
      <3>1. inbox' = inbox
        BY <2>1, <2>3 DEF AfterHistory
      <3>2. \A x \in Order \ {h.order} : status'[x] = status[x] /\ Stage(x)' = Stage(x)
        BY <2>1 DEF Stage
      <3> QED
        BY <1>5, <2>1, <2>2, <3>1, <3>2, NothingMoves DEF LossInv
    <2>4. CASE Target(h) # "PAID"
      <3>1. FinishMessage(s)
        BY <2>1, <2>4 DEF AfterHistory
      <3>2. h.key = "order.delivered" /\ Stage(h.order) = StageInHand(h)
        BY <2>1, <2>4, OrderLoop DEF Target
      <3>3. Stage(h.order) = <<"DELIVERED", 1, 1>>
        BY <3>2, StageOf
      <3>4. status[h.order] = "DELIVERED"
        BY <3>3 DEF Stage
      <3>5. \A q \in Queue : Orders(queue[q]) \subseteq Orders(queue'[q])
        BY <2>1
      <3>6. TypeInv
        BY DEF TokenInv
      <3> QED
        BY <1>5, <2>1, <3>1, <3>4, <3>5, <3>6, LastStep DEF LossInv
    <2> QED
      BY <2>3, <2>4
  <1>6. CASE NoFaults /\ EmitOrderPaid(s)
    <2>1. /\ s \in OrderSvc /\ step[s] = "emit" /\ inbox[s] # <<>>
          /\ FinishMessage(s) /\ Publish(s, "order.paid", h.order)
          /\ UNCHANGED <<bound, up, starting, sub, pub, emitting, status, payments, shipments>>
          /\ h.key = "payment.succeeded"
      BY <1>6 DEF EmitOrderPaid, OrderStep, TokenInv, TypeInv, LoopsOK
    <2>2. Stage(h.order) = StageInHand(h)
      BY <2>1, OrderLoop
    <2>3. Stage(h.order) = <<"PAID", 1, 0>>
      BY <2>1, <2>2, StageOf
    <2>4. h.order \in Order /\ status[h.order] # "none" /\ "order.paid" \in Key
      BY <2>1, HeadCarried DEF Key
    <2>5. "order.paid" \in bound \/ Excused(h.order)
      BY <1>6, <2>3, <2>4, Connected DEF Excused
    <2> QED
      BY <1>6, <2>1, <2>4, <2>5, LastPublish DEF LossInv
  <1>7. UNCHANGED faults \/ UpdateStatusFails(s) \/ AddHistoryFails(s) \/ GetOrderFails(s)
    BY DEF OrderStep, EmitOrderCreated, UpdateStatus, AddHistory, EmitOrderPaid
  <1> QED
    BY <1>1, <1>2, <1>3, <1>4, <1>5, <1>6, <1>7 DEF OrderStep

\* A message moves from its queue to an instance: its order is still carried.
LEMMA PushCarries ==
    ASSUME TypeInv, NEW s \in Service, PushToConsumer(s), UNCHANGED emitting
    PROVE  /\ \A x : Carried(x) => Carried(x)'
           /\ \A t \in Service : inbox'[t] # <<>> => inbox[t] # <<>> \/ t = s
  <1> PICK k, e : k = QueueFor(s) /\ e = Head(queue[k])
    OBVIOUS
  <1>1. /\ s \in sub /\ queue[k] # <<>> /\ k \in Queue
        /\ inbox' = [inbox EXCEPT ![s] = Append(@, e)]
        /\ queue' = [queue EXCEPT ![k] = Tail(@)]
        /\ UNCHANGED <<bound, up, starting, sub, pub>>
    BY Routing DEF PushToConsumer
  <1>2. queue \in [Queue -> Seq(Message)] /\ inbox \in [Service -> Seq(Message)]
    BY TypeInvParts
  <1>3. e \in Message /\ Orders(queue[k]) \subseteq Orders(Tail(queue[k])) \cup {e.order}
    <2>1. queue[k] \in Seq(Message)
      BY <1>1, <1>2
    <2>2. e \in Message
      BY <1>1, <2>1, TailOf
    <2> QED
      BY <1>1, <2>1, <2>2, OrdersOfTail
  <1>4. /\ Orders(inbox[s]) \subseteq Orders(Append(inbox[s], e))
        /\ e.order \in Orders(Append(inbox[s], e))
    <2>1. inbox[s] \in Seq(Message)
      BY <1>2
    <2> QED
      BY <1>3, <2>1, OrdersOfAppend
  <1>5. /\ inbox'[s] = Append(inbox[s], e) /\ queue'[k] = Tail(queue[k])
        /\ \A t \in Service \ {s} : inbox'[t] = inbox[t]
        /\ \A q \in Queue \ {k} : queue'[q] = queue[q]
    <2>1. inbox'[s] = Append(inbox[s], e) /\ \A t \in Service \ {s} : inbox'[t] = inbox[t]
      BY <1>1, <1>2
    <2>2. queue'[k] = Tail(queue[k]) /\ \A q \in Queue \ {k} : queue'[q] = queue[q]
      <3>1. queue \in [Queue -> Seq(Message)] /\ k \in Queue
        BY <1>1, <1>2
      <3>2. queue' = [queue EXCEPT ![k] = Tail(queue[k])]
        BY <1>1
      <3> QED
        BY <3>1, <3>2
    <2> QED
      BY <2>1, <2>2
  <1>6. ASSUME NEW x, Carried(x) PROVE Carried(x)'
    <2>1. x \in Orders(inbox'[s]) => Carried(x)'
      BY DEF Carried
    <2>2. CASE x \in Orders(inbox[s]) \/ x = e.order
      BY <1>4, <1>5, <2>1, <2>2
    <2>3. CASE x \in Orders(queue[k])
      <3>1. x \in Orders(queue'[k]) \/ x = e.order
        BY <1>3, <1>5, <2>3
      <3> QED
        BY <1>1, <2>2, <3>1 DEF Carried
    <2>4. CASE x \notin Orders(inbox[s]) /\ x \notin Orders(queue[k])
      BY <1>5, <1>6, <2>4 DEF Carried
    <2> QED
      BY <2>2, <2>3, <2>4
  <1> QED
    BY <1>5, <1>6

LEMMA LossPush ==
    ASSUME TokenInv, LossInv, NoFaults, NEW s \in Service, PushToConsumer(s),
           UNCHANGED <<orderVars, workerVars>>
    PROVE  Intact' /\ Routed' /\ NoneLost'
  <1>1. s \in sub /\ UNCHANGED <<bound, up, starting, sub, pub>>
    BY DEF PushToConsumer
  <1>2. /\ \A x : Carried(x) => Carried(x)'
        /\ \A t \in Service : inbox'[t] # <<>> => inbox[t] # <<>> \/ t = s
    BY PushCarries DEF TokenInv
  <1>3. NoneLost'
    BY <1>2, CarriedKeepsNoneLost DEF LossInv, Stage
  <1>4. Intact' /\ Routed'
    BY <1>1, <1>2 DEF LossInv, Intact, Routed, KeysFor
  <1> QED
    BY <1>3, <1>4

LEMMA LossStart ==
    ASSUME TokenInv, LossInv, NoFaults, NEW s \in Service,
           Start(s) \/ BindKey(s) \/ Subscribe(s), UNCHANGED <<orderVars, workerVars>>
    PROVE  Intact' /\ Routed' /\ NoneLost'
  <1>1. bound \subseteq bound' /\ bound' \subseteq Key /\ UNCHANGED <<queue, inbox>>
    BY TypeInvParts DEF Start, BindKey, Subscribe, KeysFor, TokenInv
  <1>2. Routed'
    BY <1>1 DEF LossInv, Routed
  <1>3. /\ (sub \cup starting)' = up' /\ pub' = up' /\ up \subseteq up'
        /\ \A t \in sub' : KeysFor(t) \subseteq bound'
    BY <1>1 DEF LossInv, Intact, Start, BindKey, Subscribe
  <1>4. Intact'
    BY <1>1, <1>3 DEF LossInv, Intact, KeysFor
  <1>5. \A x : Carried(x) <=> Carried(x)'
    BY <1>1 DEF Carried
  <1>6. NoneLost'
    BY <1>5, CarriedKeepsNoneLost DEF LossInv, Stage
  <1> QED
    BY <1>2, <1>4, <1>6

LEMMA LossProcessStep ==
    ASSUME TokenInv, LossInv, NEW s \in Service, ProcessStep(s)
    PROVE  LossInv'
  <1>1. CASE \/ LoseConsumerConnection(s) \/ LoseProducerConnection(s)
             \/ CrashOrderService(s) \/ CrashProcess(s)
    BY <1>1, FaultEnds DEF LoseConsumerConnection, LoseProducerConnection, CrashProcess,
                           CrashOrderService, TokenInv, FaultKind, LossInv
  <1>2. CASE ~NoFaults /\ UNCHANGED faults
    BY <1>2 DEF LossInv, NoFaults
  <1>3. CASE /\ NoFaults /\ (Start(s) \/ BindKey(s) \/ Subscribe(s))
             /\ UNCHANGED <<orderVars, workerVars>>
    BY <1>3, LossStart DEF LossInv
  <1>4. CASE NoFaults /\ PushToConsumer(s) /\ UNCHANGED <<orderVars, workerVars>>
    BY <1>4, LossPush DEF LossInv
  <1>5. CASE NoFaults /\ ExitAfterLoop(s)
    BY <1>5 DEF ExitAfterLoop, LossInv, Intact
  <1> QED
    BY <1>1, <1>2, <1>3, <1>4, <1>5
    DEF ProcessStep, Start, BindKey, Subscribe, PushToConsumer, ExitAfterLoop

LEMMA LossInit == Init => LossInv
  BY DEF Init, BusInit, OrderInit, LossInv, Intact, Routed, NoneLost

LEMMA LossStep ==
    ASSUME TokenInv, LossInv, [Next]_vars
    PROVE  LossInv'
  <1>1. CASE UNCHANGED vars
    BY <1>1 DEF vars, LossInv, NoFaults, Intact, Routed, NoneLost, Carried, Excused, Stage,
                KeysFor
  <1>2. CASE \E s \in OrderSvc, o \in Order : CreatesOrder(s, o)
    BY <1>2, LossCreates
  <1>3. CASE \E s \in Service : OrderStep(s)
    BY <1>3, LossOrderStep
  <1>4. CASE \E s \in Service : PaymentStep(s)
    BY <1>4, LossPaymentStep
  <1>5. CASE \E s \in Service : DeliveryStep(s)
    BY <1>5, LossDeliveryStep
  <1>6. CASE \E s \in Service : ProcessStep(s)
    BY <1>6, LossProcessStep
  <1>7. CASE BrokerStep
    BY <1>7, FaultEnds DEF BrokerStep, RestartBroker, TokenInv, FaultKind, LossInv
  <1> QED
    BY <1>1, <1>2, <1>3, <1>4, <1>5, <1>6, <1>7 DEF Next

\* Without a fault, an order that nobody will work on again was published to a
\* queue that was not bound yet: never once orders wait for the rollout, and
\* never between a payment or a shipment and its row.
THEOREM LossesHaveCause == Spec => []LossHasCause
  <1>1. TokenInv /\ LossInv /\ [Next]_vars => LossInv'
    BY LossStep
  <1> QED
    BY <1>1, LossInvSuffices, LossInit, TokensInvariant, PTL DEF Spec

-----------------------------------------------------------------------------
(* Without a fault, work is served.                                         *)

\* A key is bound by somebody who consumes its queue or will, and a message was routed by a
\* key that is bound.
ServedInv ==
    NoFaults =>
        /\ \A key \in bound : \E s \in sub \cup starting : key \in KeysFor(s)
        /\ \A q \in Queue : queue[q] # <<>> => \E key \in bound : QueueOf(key) = q

LEMMA ServedInvSuffices == LossInv /\ ServedInv => WorkIsServed
  BY DEF LossInv, Intact, ServedInv, WorkIsServed, KeysFor

\* What a step without a fault may do to the bindings, subscriptions and queues.
Routes ==
    /\ sub \cup starting \subseteq (sub \cup starting)' /\ bound \subseteq bound'
    /\ \A key \in bound' \ bound : \E s \in (sub \cup starting)' : key \in KeysFor(s)
    /\ \A q \in Queue : queue'[q] # <<>> =>
           queue[q] # <<>> \/ \E key \in bound : QueueOf(key) = q

LEMMA RoutesKeepServed ==
    ASSUME ServedInv, NoFaults, Routes PROVE ServedInv'
  BY DEF ServedInv, Routes, KeysFor

LEMMA PublishRoutes ==
    ASSUME TypeInv, NEW s, NEW key \in Key, NEW o \in Order, UNCHANGED <<starting, sub, bound>>,
           queue' = queue \/ Publish(s, key, o)
    PROVE  Routes
  <1>1. CASE queue' = queue
    BY <1>1 DEF Routes
  <1>2. CASE queue' # queue
    <2>1. key \in bound
          /\ queue' = [queue EXCEPT ![QueueOf(key)] = Append(@, Event(key, o))]
      BY <1>2 DEF Publish
    <2>2. \A q \in Queue : q # QueueOf(key) => queue'[q] = queue[q]
      BY <2>1, TypeInvParts
    <2> QED
      BY <2>1, <2>2 DEF Routes
  <1> QED
    BY <1>1, <1>2

LEMMA ServedStep ==
    ASSUME TokenInv, LossInv, ServedInv, [Next]_vars
    PROVE  ServedInv'
  <1>0. TypeInv
    BY DEF TokenInv
  <1>1. CASE ~UNCHANGED faults
    <2>1. \E kind \in FaultKind : Fault(kind)
      BY <1>1 DEF Next, vars, CreatesOrder, CreateOrder, CreateOrderCommitUnknown, OrderStep,
           EmitOrderCreated, UpdateStatus, UpdateStatusFails, AddHistory, AddHistoryFails,
           EmitOrderPaid, GetOrderFails, PaymentStep, ChargePayment, PublishPaymentSucceeded,
           DeliveryStep, ShipOrder, PublishOrderDelivered, ProcessStep, Start, BindKey, Subscribe, PushToConsumer,
           ExitAfterLoop, LoseConsumerConnection, LoseProducerConnection,
           CrashOrderService, CrashProcess, BrokerStep, RestartBroker, FaultKind
    <2> QED
      BY <1>0, <2>1, FaultEnds DEF ServedInv
  <1>2. CASE ~NoFaults /\ UNCHANGED faults
    BY <1>2 DEF ServedInv, NoFaults
  <1>3. CASE NoFaults /\ UNCHANGED faults
    <2>1. \A kind \in FaultKind : ~Fault(kind)
      BY <1>0, <1>3, FaultEnds DEF NoFaults
    <2>2. CASE UNCHANGED <<bound, starting, sub, queue>>
      BY <2>2, <1>3, RoutesKeepServed DEF Routes
    <2>3. ASSUME NEW s \in Service, NEW o \in Order, EmitOrderCreated(s, o) PROVE Routes
      BY <1>0, <2>3, PublishRoutes DEF EmitOrderCreated, Key
    <2>4. ASSUME NEW s \in Service, EmitOrderPaid(s) PROVE Routes
      <3>1. Head(inbox[s]).order \in Order
        BY <2>4, HeadCarried DEF EmitOrderPaid, TokenInv, TypeInv, LoopsOK
      <3> QED
        BY <1>0, <2>4, <3>1, PublishRoutes DEF EmitOrderPaid, Key
    <2>5. ASSUME NEW s \in Service, PublishPaymentSucceeded(s) PROVE Routes
      <3>1. Head(inbox[s]).order \in Order
        BY <2>5, HeadCarried DEF PublishPaymentSucceeded, TokenInv, TypeInv, LoopsOK
      <3> QED
        BY <1>0, <2>5, <3>1, PublishRoutes DEF PublishPaymentSucceeded, Key
    <2>6. ASSUME NEW s \in Service, PublishOrderDelivered(s) PROVE Routes
      <3>1. Head(inbox[s]).order \in Order
        BY <2>6, HeadCarried DEF PublishOrderDelivered, TokenInv, TypeInv, LoopsOK
      <3> QED
        BY <1>0, <2>6, <3>1, PublishRoutes DEF PublishOrderDelivered, Key
    <2>7. ASSUME NEW s \in Service, PushToConsumer(s) PROVE Routes
      <3>1. /\ queue[QueueFor(s)] # <<>> /\ UNCHANGED <<starting, sub, bound>>
            /\ queue' = [queue EXCEPT ![QueueFor(s)] = Tail(@)]
        BY <2>7 DEF PushToConsumer
      <3>2. \A q \in Queue : q # QueueFor(s) => queue'[q] = queue[q]
        BY <1>0, <3>1, TypeInvParts
      <3> QED
        BY <3>1, <3>2 DEF Routes
    <2>8. ASSUME NEW s \in Service, Start(s) \/ BindKey(s) \/ Subscribe(s) PROVE Routes
      BY <2>8 DEF Start, BindKey, Subscribe, Routes, KeysFor
    <2>9. \A s \in Service : ~ExitAfterLoop(s)
      BY <1>3 DEF ExitAfterLoop, LossInv, Intact
    <2>10. Routes \/ UNCHANGED <<bound, starting, sub, queue>>
      <3>1. CASE \E s \in Service : OrderStep(s)
        BY <3>1, <2>3, <2>4 DEF OrderStep, UpdateStatus, UpdateStatusFails, AddHistory,
             AddHistoryFails, GetOrderFails
      <3>2. CASE \E s \in Service : PaymentStep(s) \/ DeliveryStep(s)
        BY <3>2, <2>5, <2>6 DEF PaymentStep, ChargePayment, DeliveryStep, ShipOrder
      <3>3. CASE \E s \in Service : ProcessStep(s)
        BY <3>3, <2>1, <2>7, <2>8, <2>9 DEF ProcessStep, LoseConsumerConnection,
             LoseProducerConnection, CrashOrderService, CrashProcess,
             FaultKind
      <3>4. CASE BrokerStep
        BY <3>4, <2>1 DEF BrokerStep, RestartBroker, FaultKind
      <3>5. CASE \E s \in OrderSvc, o \in Order : CreatesOrder(s, o)
        BY <3>5 DEF CreatesOrder, CreateOrder, CreateOrderCommitUnknown
      <3>6. CASE UNCHANGED vars
        BY <3>6 DEF vars
      <3> QED
        BY <3>1, <3>2, <3>3, <3>4, <3>5, <3>6 DEF Next
    <2> QED
      BY <1>3, <2>2, <2>10, RoutesKeepServed
  <1> QED
    BY <1>1, <1>2, <1>3

\* Without a fault, whichever services come up first, no message waits in a queue
\* without a subscriber or an instance about to subscribe, and nobody holds an order it could not publish about: the
\* part of EveryOrderSettles that is not a matter of scheduling.
THEOREM WorkAlwaysServed == Spec => []WorkIsServed
  <1>1. Init => ServedInv
    BY DEF Init, BusInit, ServedInv
  <1>2. TokenInv /\ LossInv /\ [Next]_vars => LossInv'
    BY LossStep
  <1>3. TokenInv /\ LossInv /\ ServedInv /\ [Next]_vars => ServedInv'
    BY ServedStep
  <1> QED
    BY <1>1, <1>2, <1>3, ServedInvSuffices, LossInit, TokensInvariant, PTL DEF Spec

-----------------------------------------------------------------------------
(* What is lost stays lost.                                                 *)

\* Nobody works on an order after a step that adds none but other orders anywhere.
LEMMA StillNotCarried ==
    ASSUME NEW x, ~Carried(x),
           \A s \in OrderSvc : x \in emitting'[s] => x \in emitting[s],
           \A q \in Queue : x \in Orders(queue'[q]) => Carried(x),
           \A s \in Service : x \in Orders(inbox'[s]) => Carried(x)
    PROVE  ~Carried(x)'
  <1>1. \A s \in OrderSvc : x \notin emitting'[s]
    BY DEF Carried
  <1>2. \A q \in Queue : x \notin Orders(queue'[q])
    OBVIOUS
  <1>3. \A s \in Service : x \notin Orders(inbox'[s])
    OBVIOUS
  <1>4. Carried(x)' <=> \/ \E s \in OrderSvc : x \in emitting'[s]
                        \/ \E q \in Queue : x \in Orders(queue'[q])
                        \/ \E s \in Service : x \in Orders(inbox'[s])
    BY DEF Carried, Orders
  <1> QED
    BY <1>1, <1>2, <1>3, <1>4

LEMMA OrdersOfRest ==
    ASSUME NEW q \in Seq(Message)
    PROVE  /\ q # <<>> => Orders(Tail(q)) \subseteq Orders(q) /\ Head(q).order \in Orders(q)
           /\ \A m \in Message : Orders(Append(q, m)) \subseteq Orders(q) \cup {m.order}
           /\ Orders(<<>>) = {}
  <1>1. ASSUME q # <<>> PROVE Orders(Tail(q)) \subseteq Orders(q) /\ Head(q).order \in Orders(q)
    BY <1>1, TailOf, OrdersOfTail DEF Orders
  <1>2. ASSUME NEW m \in Message PROVE Orders(Append(q, m)) \subseteq Orders(q) \cup {m.order}
    BY AppendOf DEF Orders
  <1>3. Orders(<<>>) = {}
    BY DEF Orders
  <1> QED
    BY <1>1, <1>2, <1>3

LEMMA OrdersOfPublish ==
    ASSUME TypeInv, NEW s, NEW key \in Key, NEW o \in Order, Publish(s, key, o)
    PROVE  \A q \in Queue : Orders(queue'[q]) \subseteq Orders(queue[q]) \cup {o}
  <1> PICK m, k : m = Event(key, o) /\ k = QueueOf(key)
    OBVIOUS
  <1>1. m \in Message /\ m.order = o /\ k \in Queue /\ queue \in [Queue -> Seq(Message)]
    BY TypeInvParts, Routing DEF Message, Event
  <1>2. CASE s \in pub /\ key \in bound
    <2>1. queue' = [queue EXCEPT ![k] = Append(@, m)]
      BY <1>2 DEF Publish
    <2>2. queue'[k] = Append(queue[k], m) /\ \A q \in Queue \ {k} : queue'[q] = queue[q]
      BY <1>1, <2>1
    <2>3. Orders(Append(queue[k], m)) \subseteq Orders(queue[k]) \cup {o}
      BY <1>1, OrdersOfRest
    <2> QED
      BY <2>2, <2>3
  <1>3. CASE ~(s \in pub /\ key \in bound)
    BY <1>3 DEF Publish
  <1> QED
    BY <1>2, <1>3

\* The queues gain nothing but messages about an order.
OnlyAbout(o) == \A q \in Queue : Orders(queue'[q]) \subseteq Orders(queue[q]) \cup {o}

LEMMA PublishesOnlyAbout ==
    ASSUME TypeInv, NEW s, NEW key \in Key, NEW o \in Order,
           queue' = queue \/ Publish(s, key, o)
    PROVE  OnlyAbout(o)
  <1>1. CASE queue' = queue
    BY <1>1 DEF OnlyAbout
  <1>2. CASE Publish(s, key, o)
    BY <1>2, OrdersOfPublish DEF OnlyAbout
  <1> QED
    BY <1>1, <1>2

\* What a loop body that ends, a process that goes away or a closing channel leaves.
LEMMA OrdersOfFinish ==
    ASSUME TypeInv, NEW s \in Service, inbox[s] # <<>>, FinishMessage(s)
    PROVE  \A t \in Service : Orders(inbox'[t]) \subseteq Orders(inbox[t])
  <1>1. inbox'[s] = Tail(inbox[s]) /\ \A t \in Service \ {s} : inbox'[t] = inbox[t]
    BY TypeInvParts DEF FinishMessage
  <1>2. Orders(Tail(inbox[s])) \subseteq Orders(inbox[s])
    BY OrdersOfRest, TypeInvParts
  <1> QED
    BY <1>1, <1>2

LEMMA OrdersOfVanish ==
    ASSUME TypeInv, NEW s \in Service, Vanish(s)
    PROVE  \A t \in Service : Orders(inbox'[t]) \subseteq Orders(inbox[t])
  <1>1. inbox'[s] = <<>> /\ \A t \in Service \ {s} : inbox'[t] = inbox[t]
    BY TypeInvParts DEF Vanish
  <1> QED
    BY <1>1 DEF Orders

LEMMA OrdersInHand ==
    ASSUME TypeInv, NEW t \in Service
    PROVE  Orders(InHand(t)) \subseteq Orders(inbox[t])
  <1>1. CASE step[t] = "idle"
    BY <1>1 DEF InHand, Orders
  <1>2. CASE step[t] # "idle"
    <2>1. inbox[t] # <<>> /\ inbox[t] \in Seq(Message)
      BY <1>2, TypeInvParts DEF TypeInv, LoopsOK
    <2>2. 1 \in DOMAIN inbox[t]
      BY <2>1, TailOf
    <2> QED
      BY <1>2, <2>2, InHandType DEF Orders
  <1> QED
    BY <1>1, <1>2

\* Where an order nobody carries stands after a step, and that nobody carries it.
StaysLost(x) == ~Carried(x)' /\ Stage(x)' = Stage(x)

LEMMA LostCreates ==
    ASSUME TokenInv, NEW x \in Order, status[x] # "none", ~Carried(x),
           NEW s \in OrderSvc, NEW o \in Order, CreatesOrder(s, o)
    PROVE  StaysLost(x)
  <1>1. /\ x # o /\ status' = [status EXCEPT ![o] = "CREATED"]
        /\ emitting' = [emitting EXCEPT ![s] = @ \cup {o}] \/ emitting' = emitting
        /\ UNCHANGED <<queue, inbox, payments, shipments>>
    BY DEF CreatesOrder, CreateOrder, CreateOrderCommitUnknown
  <1>2. emitting \in [OrderSvc -> SUBSET Order] /\ status \in [Order -> Status]
    BY TypeInvParts DEF TokenInv
  <1>3. \A t \in OrderSvc : emitting'[t] \subseteq emitting[t] \cup {o}
    BY <1>1, <1>2
  <1>4. Stage(x)' = Stage(x)
    BY <1>1, <1>2 DEF Stage
  <1>5. ~Carried(x)'
    BY <1>1, <1>3 DEF Carried
  <1> QED
    BY <1>4, <1>5 DEF StaysLost

\* A loop body works on an order somebody carries, and publishes about no other.
LEMMA LostWorks ==
    ASSUME TokenInv, NEW x \in Order, ~Carried(x),
           NEW s \in Service, inbox[s] # <<>>, UNCHANGED emitting,
           NEW o, o = Head(inbox[s]).order,
           OnlyAbout(o), inbox' = inbox \/ FinishMessage(s),
           \A y \in Order \ {o} : Stage(y)' = Stage(y)
    PROVE  StaysLost(x)
  <1>1. o \in Order /\ Carried(o) /\ x # o /\ TypeInv
    BY HeadCarried DEF TokenInv
  <1>2. \A q \in Queue : x \in Orders(queue'[q]) => x \in Orders(queue[q])
    BY <1>1 DEF OnlyAbout
  <1>3. \A t \in Service : x \in Orders(inbox'[t]) => x \in Orders(inbox[t])
    BY <1>1, OrdersOfFinish
  <1>4. ~Carried(x)'
    BY <1>2, <1>3, StillNotCarried DEF Carried
  <1> QED
    BY <1>1, <1>4 DEF StaysLost

LEMMA LostPaymentStep ==
    ASSUME TokenInv, NEW x \in Order, ~Carried(x), NEW s \in Service, PaymentStep(s)
    PROVE  StaysLost(x)
  <1> PICK o : o = Head(inbox[s]).order
    OBVIOUS
  <1>1. inbox[s] # <<>> /\ UNCHANGED <<emitting, status, shipments>>
    BY DEF PaymentStep, ChargePayment, PublishPaymentSucceeded, Receiving, TokenInv, TypeInv,
           LoopsOK
  <1>2. OnlyAbout(o)
    <2>1. queue' = queue \/ Publish(s, "payment.succeeded", o)
      BY DEF PaymentStep, ChargePayment, PublishPaymentSucceeded
    <2>2. o \in Order /\ TypeInv /\ "payment.succeeded" \in Key
      BY <1>1, HeadCarried DEF TokenInv, Key
    <2> QED
      BY <2>1, <2>2, PublishesOnlyAbout
  <1>3. inbox' = inbox \/ FinishMessage(s)
    BY DEF PaymentStep, ChargePayment, PublishPaymentSucceeded
  <1>4. \A y \in Order \ {o} : Stage(y)' = Stage(y)
    <2>1. payments' = [payments EXCEPT ![o] = @ + 1] \/ payments' = payments
      BY DEF PaymentStep, ChargePayment, PublishPaymentSucceeded
    <2> QED
      BY <1>1, <2>1, TypeInvParts DEF Stage, TokenInv
  <1> QED
    BY <1>1, <1>2, <1>3, <1>4, LostWorks

LEMMA LostDeliveryStep ==
    ASSUME TokenInv, NEW x \in Order, ~Carried(x), NEW s \in Service, DeliveryStep(s)
    PROVE  StaysLost(x)
  <1> PICK o : o = Head(inbox[s]).order
    OBVIOUS
  <1>1. inbox[s] # <<>> /\ UNCHANGED <<emitting, status, payments>>
    BY DEF DeliveryStep, ShipOrder, PublishOrderDelivered, Receiving, TokenInv, TypeInv, LoopsOK
  <1>2. OnlyAbout(o)
    <2>1. queue' = queue \/ Publish(s, "order.delivered", o)
      BY DEF DeliveryStep, ShipOrder, PublishOrderDelivered
    <2>2. o \in Order /\ TypeInv /\ "order.delivered" \in Key
      BY <1>1, HeadCarried DEF TokenInv, Key
    <2> QED
      BY <2>1, <2>2, PublishesOnlyAbout
  <1>3. inbox' = inbox \/ FinishMessage(s)
    BY DEF DeliveryStep, ShipOrder, PublishOrderDelivered
  <1>4. \A y \in Order \ {o} : Stage(y)' = Stage(y)
    <2>1. shipments' = [shipments EXCEPT ![o] = @ + 1] \/ shipments' = shipments
      BY DEF DeliveryStep, ShipOrder, PublishOrderDelivered
    <2> QED
      BY <1>1, <2>1, TypeInvParts DEF Stage, TokenInv
  <1> QED
    BY <1>1, <1>2, <1>3, <1>4, LostWorks

LEMMA LostOrderStep ==
    ASSUME TokenInv, NEW x \in Order, ~Carried(x), NEW s \in Service, OrderStep(s)
    PROVE  StaysLost(x)
  <1>1. ASSUME NEW o \in Order, EmitOrderCreated(s, o) PROVE StaysLost(x)
    <2>1. /\ s \in OrderSvc /\ o \in emitting[s] /\ Publish(s, "order.created", o)
          /\ emitting' = [emitting EXCEPT ![s] = @ \ {o}]
          /\ UNCHANGED <<status, payments, shipments, inbox>>
      BY <1>1 DEF EmitOrderCreated, OrderStep
    <2>2. x # o /\ TypeInv /\ "order.created" \in Key
      BY <2>1 DEF Carried, TokenInv, Key
    <2>3. \A q \in Queue : x \in Orders(queue'[q]) => x \in Orders(queue[q])
      BY <2>1, <2>2, OrdersOfPublish
    <2>4. \A t \in OrderSvc : emitting'[t] \subseteq emitting[t]
      BY <2>1, TypeInvParts DEF TokenInv
    <2>5. ~Carried(x)'
      BY <2>1, <2>3, <2>4 DEF Carried
    <2> QED
      BY <2>1, <2>5 DEF StaysLost, Stage
  <1>2. CASE ~\E o \in Order : EmitOrderCreated(s, o)
    <2> PICK o : o = Head(inbox[s]).order
      OBVIOUS
    <2>1. /\ inbox[s] # <<>> /\ UNCHANGED <<emitting, payments, shipments>>
          /\ queue' = queue \/ Publish(s, "order.paid", o)
          /\ status' = status \/ \E new : status' = [status EXCEPT ![o] = new]
      BY <1>2 DEF OrderStep, UpdateStatus, UpdateStatusFails, AddHistory, AddHistoryFails,
                  EmitOrderPaid, GetOrderFails, Receiving, TokenInv, TypeInv, LoopsOK
    <2>2. inbox' = inbox \/ FinishMessage(s)
      BY <1>2 DEF OrderStep, UpdateStatus, UpdateStatusFails, AddHistory, AddHistoryFails,
                  EmitOrderPaid, GetOrderFails, AfterHistory
    <2>3. \A y \in Order \ {o} : Stage(y)' = Stage(y)
      BY <2>1, TypeInvParts DEF Stage, TokenInv
    <2>4. OnlyAbout(o)
      <3>1. o \in Order /\ TypeInv /\ "order.paid" \in Key
        BY <2>1, HeadCarried DEF TokenInv, Key
      <3> QED
        BY <2>1, <3>1, PublishesOnlyAbout
    <2> QED
      BY <2>1, <2>2, <2>3, <2>4, LostWorks
  <1> QED
    BY <1>1, <1>2

\* The broker hands a message over, or a process or a connection is lost.
LEMMA LostProcessStep ==
    ASSUME TokenInv, NEW x \in Order, ~Carried(x), NEW s \in Service, ProcessStep(s)
    PROVE  StaysLost(x)
  <1>0. TypeInv /\ queue \in [Queue -> Seq(Message)] /\ inbox \in [Service -> Seq(Message)]
    BY TypeInvParts DEF TokenInv
  <1>1. Stage(x)' = Stage(x)
    BY DEF ProcessStep, CrashOrderService, Stage
  <1>2. \A t \in OrderSvc : x \in emitting'[t] => x \in emitting[t]
    <2>1. emitting' = emitting \/ emitting' = [emitting EXCEPT ![s] = {}]
      BY DEF ProcessStep, CrashOrderService
    <2> QED
      BY <2>1, TypeInvParts DEF TokenInv
  <1>3. CASE PushToConsumer(s)
    <2> PICK k, e : k = QueueFor(s) /\ e = Head(queue[k])
      OBVIOUS
    <2>1. /\ queue[k] # <<>> /\ k \in Queue
          /\ inbox' = [inbox EXCEPT ![s] = Append(@, e)]
          /\ queue' = [queue EXCEPT ![k] = Tail(@)]
      BY <1>3, Routing DEF PushToConsumer
    <2>2. queue[k] \in Seq(Message) /\ inbox[s] \in Seq(Message)
      BY <1>0, <2>1
    <2>3. e \in Message /\ e.order \in Orders(queue[k])
      BY <2>1, <2>2, TailOf, OrdersOfRest
    <2>4. /\ Orders(Tail(queue[k])) \subseteq Orders(queue[k])
          /\ Orders(Append(inbox[s], e)) \subseteq Orders(inbox[s]) \cup {e.order}
      BY <2>1, <2>2, <2>3, OrdersOfRest
    <2>5. \A q \in Queue : Orders(queue'[q]) \subseteq Orders(queue[q])
      <3>1. queue'[k] = Tail(queue[k]) /\ \A q \in Queue \ {k} : queue'[q] = queue[q]
        BY <1>0, <2>1
      <3> QED
        BY <2>4, <3>1
    <2>6. \A t \in Service : Orders(inbox'[t]) \subseteq Orders(inbox[t]) \cup {e.order}
      <3>1. inbox'[s] = Append(inbox[s], e) /\ \A t \in Service \ {s} : inbox'[t] = inbox[t]
        BY <1>0, <2>1
      <3> QED
        BY <2>4, <3>1
    <2>7. Carried(e.order)
      BY <2>1, <2>3 DEF Carried
    <2>8. /\ \A q \in Queue : x \in Orders(queue'[q]) => Carried(x)
          /\ \A t \in Service : x \in Orders(inbox'[t]) => Carried(x)
      BY <2>5, <2>6, <2>7 DEF Carried
    <2> QED
      BY <1>1, <1>2, <2>8, StillNotCarried DEF StaysLost
  <1>4. CASE ~PushToConsumer(s)
    <2>1. queue' = queue
      BY <1>4 DEF ProcessStep, Start, BindKey, Subscribe, ExitAfterLoop, LoseConsumerConnection,
                  LoseProducerConnection, CrashOrderService, CrashProcess
    <2>2. \/ inbox' = inbox \/ Vanish(s)
          \/ inbox' = [inbox EXCEPT ![s] = InHand(s)]
      BY <1>4 DEF ProcessStep, Start, BindKey, Subscribe, ExitAfterLoop, LoseConsumerConnection,
                  LoseProducerConnection, CrashOrderService, CrashProcess
    <2>3. \A t \in Service : Orders(inbox'[t]) \subseteq Orders(inbox[t])
      BY <1>0, <2>2, OrdersOfVanish, OrdersInHand
    <2>4. /\ \A q \in Queue : x \in Orders(queue'[q]) => Carried(x)
          /\ \A t \in Service : x \in Orders(inbox'[t]) => Carried(x)
      BY <2>1, <2>3 DEF Carried
    <2> QED
      BY <1>1, <1>2, <2>4, StillNotCarried DEF StaysLost
  <1> QED
    BY <1>3, <1>4

LEMMA LostBrokerStep ==
    ASSUME TokenInv, NEW x \in Order, ~Carried(x), BrokerStep
    PROVE  StaysLost(x)
  <1>1. /\ queue' = [q \in Queue |-> <<>>] /\ inbox' = [t \in Service |-> InHand(t)]
        /\ UNCHANGED <<emitting, status, payments, shipments>> /\ TypeInv
    BY DEF BrokerStep, RestartBroker, TokenInv
  <1>2. \A q \in Queue : Orders(queue'[q]) = {}
    BY <1>1 DEF Orders
  <1>3. \A t \in Service : Orders(inbox'[t]) \subseteq Orders(inbox[t])
    BY <1>1, OrdersInHand
  <1>4. ~Carried(x)'
    BY <1>1, <1>2, <1>3, StillNotCarried DEF Carried
  <1> QED
    BY <1>1, <1>4 DEF StaysLost, Stage

LEMMA LostStep ==
    ASSUME TokenInv, NEW x \in Order, status[x] # "none", ~Carried(x), [Next]_vars
    PROVE  StaysLost(x)
  <1>1. CASE UNCHANGED vars
    BY <1>1 DEF vars, Carried, StaysLost, Stage
  <1>2. CASE Next
    BY <1>2, LostCreates, LostOrderStep, LostPaymentStep, LostDeliveryStep, LostProcessStep,
       LostBrokerStep DEF Next
  <1> QED
    BY <1>1, <1>2

LEMMA NoTokenLeft ==
    ASSUME NEW o, ~Carried(o)'
    PROVE  Tokens(o)' = {}
  BY DEF Tokens, EmitTokens, QueueTokens, InboxTokens, Orders, Carried

\* Whatever fails and whatever starts again, an order that nobody works on any
\* more is never worked on again, and its row stays as it is.
THEOREM LossesAreFinal == Spec => LostForGood
  <1>1. TokenInv /\ [Next]_vars =>
            [\A o \in Order : Stranded(o) => Stranded(o)' /\ Stage(o)' = Stage(o)]_vars
    <2> SUFFICES ASSUME TokenInv, [Next]_vars, NEW o \in Order, Stranded(o)
                 PROVE  Stranded(o)' /\ Stage(o)' = Stage(o)
      OBVIOUS
    <2>1. status[o] # "none" /\ ~Carried(o)
      BY CarriedHasToken DEF Stranded
    <2>2. ~Carried(o)' /\ Stage(o)' = Stage(o)
      BY <2>1, LostStep DEF StaysLost
    <2>3. Tokens(o)' = {}
      BY <2>2, NoTokenLeft
    <2>4. status'[o] = status[o]
      BY <2>2 DEF Stage
    <2> QED
      BY <2>2, <2>3, <2>4 DEF Stranded
  <1> QED
    BY <1>1, TokensInvariant, PTL DEF Spec, LostForGood

-----------------------------------------------------------------------------
(* What is lost is lost where the fault hits.                               *)

\* What an instance without a subscription has left of its inbox: the message its
\* loop body is working on.
QuietAt(s) ==
    /\ step[s] = "idle" => inbox[s] = <<>>
    /\ step[s] # "idle" => Tail(inbox[s]) = <<>>

Quiet == \A s \in Service \ sub : QuietAt(s)

\* A step of one instance keeps what it says of the others.
LEMMA QuietByOne ==
    ASSUME Quiet, NEW s \in Service, sub \subseteq sub' \cup {s},
           \A t \in Service \ {s} : inbox'[t] = inbox[t] /\ step'[t] = step[t],
           s \in sub' \/ QuietAt(s)'
    PROVE  Quiet'
  <1>1. ASSUME NEW t \in Service \ sub', t # s PROVE QuietAt(t)'
    BY <1>1 DEF Quiet, QuietAt
  <1> QED
    BY <1>1 DEF Quiet

LEMMA QuietInHand ==
    ASSUME TypeInv, NEW s \in Service, inbox'[s] = InHand(s), step'[s] = step[s]
    PROVE  QuietAt(s)'
  <1>1. CASE step[s] = "idle"
    BY <1>1, InHandType DEF QuietAt
  <1>2. CASE step[s] # "idle"
    <2>1. InHand(s) \in Seq(Message) /\ DOMAIN InHand(s) = {1} /\ InHand(s) # <<>>
      BY <1>2, InHandType
    <2>2. Len(InHand(s)) = 1
      BY <2>1, LenProperties
    <2>3. Tail(InHand(s)) \in Seq(Message) /\ Len(Tail(InHand(s))) = 0
      BY <2>1, <2>2, HeadTailProperties
    <2>4. Tail(InHand(s)) = <<>>
      BY <2>3, EmptySeq
    <2> QED
      BY <1>2, <2>4 DEF QuietAt
  <1> QED
    BY <1>1, <1>2

\* A loop body goes on, or ends and takes its message off.
LEMMA QuietLoop ==
    ASSUME TypeInv, Quiet, NEW s \in Service, inbox[s] # <<>>, sub' = sub,
           FinishMessage(s) \/ (inbox' = inbox /\ \E p \in Step \ {"idle"} :
                                                      step' = [step EXCEPT ![s] = p])
    PROVE  Quiet'
  <1>1. inbox \in [Service -> Seq(Message)] /\ step \in [Service -> Step]
    BY TypeInvParts
  <1>2. \A t \in Service \ {s} : inbox'[t] = inbox[t] /\ step'[t] = step[t]
    BY <1>1 DEF FinishMessage
  <1>3. CASE s \in sub
    BY <1>2, <1>3, QuietByOne
  <1>4. CASE s \notin sub
    <2>1. step[s] # "idle" /\ Tail(inbox[s]) = <<>>
      BY <1>4 DEF Quiet, QuietAt
    <2>2. QuietAt(s)'
      BY <1>1, <2>1 DEF QuietAt, FinishMessage
    <2> QED
      BY <1>2, <2>2, QuietByOne
  <1> QED
    BY <1>3, <1>4

LEMMA QuietVanish ==
    ASSUME TypeInv, Quiet, NEW s \in Service, Vanish(s)
    PROVE  Quiet'
  <1>1. /\ inbox'[s] = <<>> /\ step'[s] = "idle" /\ sub' = sub \ {s}
        /\ \A t \in Service \ {s} : inbox'[t] = inbox[t] /\ step'[t] = step[t]
    BY TypeInvParts DEF Vanish
  <1>2. QuietAt(s)'
    BY <1>1 DEF QuietAt
  <1> QED
    BY <1>1, <1>2, QuietByOne

LEMMA QuietProcessStep ==
    ASSUME TypeInv, Quiet, NEW s \in Service, ProcessStep(s)
    PROVE  Quiet'
  <1>1. CASE Start(s) \/ BindKey(s) \/ Subscribe(s) \/ LoseProducerConnection(s)
    BY <1>1 DEF Start, BindKey, Subscribe, LoseProducerConnection, Quiet, QuietAt
  <1>2. CASE PushToConsumer(s)
    <2>1. s \in sub' /\ sub' = sub /\ step' = step
      BY <1>2 DEF PushToConsumer
    <2>2. \A t \in Service \ {s} : inbox'[t] = inbox[t]
      BY <1>2, TypeInvParts DEF PushToConsumer
    <2> QED
      BY <2>1, <2>2, QuietByOne
  <1>3. CASE ExitAfterLoop(s) \/ CrashProcess(s) \/ CrashOrderService(s)
    BY <1>3, QuietVanish DEF ExitAfterLoop, CrashProcess, CrashOrderService
  <1>4. CASE LoseConsumerConnection(s)
    <2>1. /\ sub' = sub \ {s} /\ step' = step
          /\ inbox'[s] = InHand(s) /\ \A t \in Service \ {s} : inbox'[t] = inbox[t]
      BY <1>4, TypeInvParts DEF LoseConsumerConnection
    <2>2. QuietAt(s)'
      BY <2>1, QuietInHand
    <2> QED
      BY <2>1, <2>2, QuietByOne
  <1> QED
    BY <1>1, <1>2, <1>3, <1>4 DEF ProcessStep

LEMMA QuietStep ==
    ASSUME TypeInv, Quiet, [Next]_vars
    PROVE  Quiet'
  <1>1. CASE UNCHANGED vars
    BY <1>1 DEF vars, Quiet, QuietAt
  <1>2. ASSUME NEW s \in OrderSvc, NEW o \in Order, CreatesOrder(s, o) PROVE Quiet'
    BY <1>2 DEF CreatesOrder, CreateOrder, CreateOrderCommitUnknown, Quiet, QuietAt
  <1>3. ASSUME NEW s \in Service, OrderStep(s) PROVE Quiet'
    <2>1. CASE \E o \in Order : EmitOrderCreated(s, o)
      BY <2>1 DEF EmitOrderCreated, Quiet, QuietAt
    <2>2. CASE ~\E o \in Order : EmitOrderCreated(s, o)
      <3>1. /\ inbox[s] # <<>> /\ sub' = sub
            /\ \/ FinishMessage(s)
               \/ inbox' = inbox /\ step' = [step EXCEPT ![s] = "history"]
               \/ inbox' = inbox /\ step' = [step EXCEPT ![s] = "emit"]
        BY <1>3, <2>2 DEF OrderStep, UpdateStatus, UpdateStatusFails, AddHistory,
           AddHistoryFails, EmitOrderPaid, GetOrderFails, AfterHistory, Receiving, TypeInv, LoopsOK
      <3> QED
        BY <3>1, QuietLoop DEF Step
    <2> QED
      BY <2>1, <2>2
  <1>4. ASSUME NEW s \in Service, PaymentStep(s) \/ DeliveryStep(s) PROVE Quiet'
    <2>1. /\ inbox[s] # <<>> /\ sub' = sub
          /\ FinishMessage(s) \/ (inbox' = inbox /\ step' = [step EXCEPT ![s] = "publish"])
      BY <1>4 DEF PaymentStep, DeliveryStep, ChargePayment, PublishPaymentSucceeded, ShipOrder,
         PublishOrderDelivered, Receiving, TypeInv, LoopsOK
    <2> QED
      BY <2>1, QuietLoop DEF Step
  <1>5. ASSUME NEW s \in Service, ProcessStep(s) PROVE Quiet'
    BY <1>5, QuietProcessStep
  <1>6. CASE BrokerStep
    <2>1. \A s \in Service : inbox'[s] = InHand(s) /\ step'[s] = step[s]
      BY <1>6 DEF BrokerStep, RestartBroker
    <2> QED
      BY <2>1, QuietInHand DEF Quiet
  <1> QED
    BY <1>1, <1>2, <1>3, <1>4, <1>5, <1>6 DEF Next

\* The step at which somebody drops x, and why.
Dropped(x) == \E s \in Service :
    /\ HoldsOrder(s, x)
    /\ \/ s \in up \ up'
       \/ s \in sub \ sub'
       \/ s \notin pub \/ bound # Key
       \/ step[s] \in {"idle", "emit"} /\ faults'["db"] > faults["db"]

LEMMA FaultCounts ==
    ASSUME TypeInv, Fault("db")
    PROVE  faults'["db"] > faults["db"]
  <1>1. faults \in [FaultKind -> Nat] /\ "db" \in FaultKind
    BY TypeInvParts DEF FaultKind
  <1>2. faults'["db"] = faults["db"] + 1 /\ faults["db"] \in Nat
    BY <1>1 DEF Fault
  <1> QED
    BY <1>2

LEMMA HeadIsHeld ==
    ASSUME TypeInv, NEW s \in Service, inbox[s] # <<>>
    PROVE  HoldsOrder(s, Head(inbox[s]).order)
  BY TypeInvParts, TailOf DEF HoldsOrder

\* An event that is published by its last holder drops nothing but into a dead
\* channel or an exchange without the binding.
LEMMA PublishDrops ==
    ASSUME TypeInv, NEW s \in Service, NEW key \in Key, NEW x \in Order, Publish(s, key, x),
           HoldsOrder(s, x), ~Carried(x)'
    PROVE  Dropped(x)
  <1>1. CASE s \in pub /\ key \in bound
    <2>1. x \in Orders(queue'[QueueOf(key)]) /\ QueueOf(key) \in Queue
      BY <1>1, PublishCarries, Routing
    <2> QED
      BY <2>1 DEF Carried
  <1>2. CASE ~(s \in pub /\ key \in bound)
    BY <1>2 DEF Dropped
  <1> QED
    BY <1>1, <1>2

\* A loop body that ends drops the order it has worked on, if any.
LEMMA FinishDrops ==
    ASSUME TypeInv, NEW x \in Order, Carried(x), ~Carried(x)',
           NEW s \in Service, inbox[s] # <<>>, UNCHANGED emitting,
           NEW o \in Order, o = Head(inbox[s]).order, NEW key \in Key,
           queue' = queue \/ Publish(s, key, o),
           inbox' = inbox \/ FinishMessage(s)
    PROVE  x = o /\ FinishMessage(s) /\ HoldsOrder(s, x)
  <1>1. \A q \in Queue : Orders(queue[q]) \subseteq Orders(queue'[q])
    BY PublishKeepsQueues
  <1>2. inbox' # inbox
    BY <1>1 DEF Carried
  <1>3. x = o
    BY <1>1, <1>2, FinishCarries
  <1> QED
    BY <1>2, <1>3, HeadIsHeld

LEMMA PaymentDrops ==
    ASSUME TokenInv, NEW x \in Order, Carried(x), ~Carried(x)',
           NEW s \in Service, PaymentStep(s)
    PROVE  Dropped(x)
  <1> PICK o : o = Head(inbox[s]).order
    OBVIOUS
  <1>1. inbox[s] # <<>> /\ UNCHANGED emitting /\ TypeInv
    BY DEF PaymentStep, ChargePayment, PublishPaymentSucceeded, Receiving, TokenInv, TypeInv,
           LoopsOK
  <1>2. \/ queue' = queue /\ inbox' = inbox
        \/ Publish(s, "payment.succeeded", o) /\ FinishMessage(s)
    BY DEF PaymentStep, ChargePayment, PublishPaymentSucceeded
  <1>3. o \in Order /\ "payment.succeeded" \in Key
    BY <1>1, HeadCarried DEF Key
  <1>4. x = o /\ HoldsOrder(s, x)
    BY <1>1, <1>2, <1>3, FinishDrops
  <1>5. Publish(s, "payment.succeeded", x)
    BY <1>1, <1>2, <1>4 DEF Carried
  <1> QED
    BY <1>1, <1>3, <1>4, <1>5, PublishDrops

LEMMA DeliveryDrops ==
    ASSUME TokenInv, NEW x \in Order, Carried(x), ~Carried(x)',
           NEW s \in Service, DeliveryStep(s)
    PROVE  Dropped(x)
  <1> PICK o : o = Head(inbox[s]).order
    OBVIOUS
  <1>1. inbox[s] # <<>> /\ UNCHANGED emitting /\ TypeInv
    BY DEF DeliveryStep, ShipOrder, PublishOrderDelivered, Receiving, TokenInv, TypeInv, LoopsOK
  <1>2. \/ queue' = queue /\ inbox' = inbox
        \/ Publish(s, "order.delivered", o) /\ FinishMessage(s)
    BY DEF DeliveryStep, ShipOrder, PublishOrderDelivered
  <1>3. o \in Order /\ "order.delivered" \in Key
    BY <1>1, HeadCarried DEF Key
  <1>4. x = o /\ HoldsOrder(s, x)
    BY <1>1, <1>2, <1>3, FinishDrops
  <1>5. Publish(s, "order.delivered", x)
    BY <1>1, <1>2, <1>4 DEF Carried
  <1> QED
    BY <1>1, <1>3, <1>4, <1>5, PublishDrops

\* The goroutine of x publishes, or one of another order does.
LEMMA EmitDrops ==
    ASSUME TypeInv, NEW x \in Order, Carried(x), ~Carried(x)',
           NEW s \in Service, NEW o \in Order, EmitOrderCreated(s, o)
    PROVE  Dropped(x)
  <1>1. /\ s \in OrderSvc /\ o \in emitting[s] /\ Publish(s, "order.created", o)
        /\ emitting' = [emitting EXCEPT ![s] = @ \ {o}] /\ inbox' = inbox
    BY DEF EmitOrderCreated
  <1>2. \A q \in Queue : Orders(queue[q]) \subseteq Orders(queue'[q])
    BY <1>1, PublishKeepsQueues
  <1>3. \A t \in OrderSvc : emitting[t] \subseteq emitting'[t] \cup {o}
    BY <1>1, TypeInvParts
  <1>4. x = o
    BY <1>1, <1>2, <1>3 DEF Carried
  <1>5. HoldsOrder(s, x) /\ "order.created" \in Key
    BY <1>1, <1>4 DEF HoldsOrder, Key
  <1> QED
    BY <1>1, <1>4, <1>5, PublishDrops

LEMMA OrderDrops ==
    ASSUME TokenInv, NEW x \in Order, Carried(x), ~Carried(x)', status'[x] # "DELIVERED",
           NEW s \in Service, OrderStep(s)
    PROVE  Dropped(x)
  <1>1. CASE \E o \in Order : EmitOrderCreated(s, o)
    BY <1>1, EmitDrops DEF TokenInv
  <1>2. CASE ~\E o \in Order : EmitOrderCreated(s, o)
    <2> PICK h, o : h = Head(inbox[s]) /\ o = h.order
      OBVIOUS
    <2>1. /\ s \in OrderSvc /\ inbox[s] # <<>> /\ UNCHANGED emitting /\ TypeInv
          /\ queue' = queue \/ Publish(s, "order.paid", o)
      BY <1>2 DEF OrderStep, UpdateStatus, UpdateStatusFails, AddHistory, AddHistoryFails,
                  EmitOrderPaid, GetOrderFails, Receiving, TokenInv, TypeInv, LoopsOK
    <2>2. inbox' = inbox \/ FinishMessage(s)
      BY <1>2 DEF OrderStep, UpdateStatus, UpdateStatusFails, AddHistory, AddHistoryFails,
                  EmitOrderPaid, GetOrderFails, AfterHistory
    <2>3. o \in Order /\ "order.paid" \in Key
      BY <2>1, HeadCarried DEF Key
    <2>4. x = o /\ HoldsOrder(s, x)
      BY <2>1, <2>2, <2>3, FinishDrops
    <2>5. CASE UpdateStatusFails(s) \/ GetOrderFails(s)
      <3>1. step[s] \in {"idle", "emit"} /\ Fault("db")
        BY <2>5 DEF UpdateStatusFails, GetOrderFails, Receiving
      <3> QED
        BY <2>1, <2>4, <3>1, FaultCounts DEF Dropped
    <2>6. CASE EmitOrderPaid(s)
      BY <2>1, <2>3, <2>4, <2>6, PublishDrops DEF EmitOrderPaid
    <2>7. CASE UpdateStatus(s)
      BY <2>7 DEF UpdateStatus, Carried
    <2>8. CASE AddHistory(s) \/ AddHistoryFails(s)
      <3>1. /\ step[s] = "history" /\ AfterHistory(s) /\ queue' = queue /\ status' = status
        BY <2>8 DEF AddHistory, AddHistoryFails
      <3>2. inbox' # inbox
        BY <2>1, <3>1 DEF Carried
      <3>3. h.key = "order.delivered" /\ Stage(h.order) = StageInHand(h)
        BY <2>1, <3>1, <3>2, OrderLoop DEF AfterHistory, Target
      <3>4. Stage(h.order) = <<"DELIVERED", 1, 1>>
        BY <3>3, StageOf
      <3> QED
        BY <2>4, <3>1, <3>4 DEF Stage
    <2> QED
      BY <1>2, <2>5, <2>6, <2>7, <2>8 DEF OrderStep
  <1> QED
    BY <1>1, <1>2

\* A closing channel drops what the loop has not taken, of a subscription only.
LEMMA CloseDrops ==
    ASSUME TypeInv, Quiet, NEW s \in Service \ sub
    PROVE  Orders(inbox[s]) \subseteq Orders(InHand(s))
  <1>1. CASE step[s] = "idle"
    BY <1>1 DEF Quiet, QuietAt, Orders
  <1>2. CASE step[s] # "idle"
    <2>1. inbox[s] # <<>> /\ inbox[s] \in Seq(Message) /\ Tail(inbox[s]) = <<>>
      BY <1>2, TypeInvParts DEF TypeInv, LoopsOK, Quiet, QuietAt
    <2>2. Orders(inbox[s]) \subseteq {Head(inbox[s]).order}
      BY <2>1, OrdersOfTail, OrdersOfRest
    <2>3. Head(inbox[s]) = InHand(s)[1] /\ 1 \in DOMAIN InHand(s)
      BY <1>2, <2>1, InHandType, TailOf
    <2> QED
      BY <2>2, <2>3 DEF Orders
  <1> QED
    BY <1>1, <1>2

LEMMA HeldOrders ==
    ASSUME NEW s, NEW x
    PROVE  x \in Orders(inbox[s]) => HoldsOrder(s, x)
  BY DEF Orders, HoldsOrder

LEMMA ProcessDrops ==
    ASSUME TokenInv, Quiet, NEW x \in Order, Carried(x), ~Carried(x)',
           NEW s \in Service, ProcessStep(s)
    PROVE  Dropped(x)
  <1>0. TypeInv
    BY DEF TokenInv
  <1>1. CASE /\ Start(s) \/ BindKey(s) \/ Subscribe(s) \/ LoseProducerConnection(s)
             /\ UNCHANGED emitting
    <2>1. UNCHANGED <<queue, inbox, emitting>>
      BY <1>1 DEF Start, BindKey, Subscribe, LoseProducerConnection
    <2> QED
      BY <2>1 DEF Carried
  <1>2. CASE PushToConsumer(s) /\ UNCHANGED emitting
    BY <1>0, <1>2, PushCarries
  <1>3. CASE ExitAfterLoop(s) /\ UNCHANGED emitting
    <2>1. /\ queue' = queue /\ inbox[s] = <<>> /\ inbox'[s] = <<>>
          /\ \A t \in Service \ {s} : inbox'[t] = inbox[t]
      BY <1>0, <1>3, TypeInvParts DEF ExitAfterLoop, Vanish
    <2> QED
      BY <1>3, <2>1 DEF Carried
  <1>4. CASE CrashOrderService(s) \/ (CrashProcess(s) /\ UNCHANGED emitting)
    <2>1. /\ s \in up \ up' /\ queue' = queue
          /\ \A t \in Service \ {s} : inbox'[t] = inbox[t]
          /\ emitting' = emitting \/ (s \in OrderSvc /\ emitting' = [emitting EXCEPT ![s] = {}])
      BY <1>0, <1>4, TypeInvParts DEF CrashOrderService, CrashProcess, Vanish
    <2>2. \A t \in OrderSvc \ {s} : emitting'[t] = emitting[t]
      BY <1>0, <2>1, TypeInvParts
    <2>3. x \in Orders(inbox[s]) \/ (s \in OrderSvc /\ x \in emitting[s])
      BY <2>1, <2>2 DEF Carried
    <2>4. HoldsOrder(s, x)
      BY <2>3, HeldOrders DEF HoldsOrder
    <2> QED
      BY <2>1, <2>4 DEF Dropped
  <1>5. CASE LoseConsumerConnection(s) /\ UNCHANGED emitting
    <2>1. /\ sub' = sub \ {s} /\ queue' = queue /\ inbox'[s] = InHand(s)
          /\ \A t \in Service \ {s} : inbox'[t] = inbox[t]
      BY <1>0, <1>5, TypeInvParts DEF LoseConsumerConnection
    <2>2. x \in Orders(inbox[s]) /\ x \notin Orders(InHand(s))
      BY <1>5, <2>1 DEF Carried
    <2>3. s \in sub
      BY <1>0, <2>2, CloseDrops
    <2> QED
      BY <2>1, <2>2, <2>3, HeldOrders DEF Dropped
  <1> QED
    BY <1>1, <1>2, <1>3, <1>4, <1>5 DEF ProcessStep

LEMMA BrokerDrops ==
    ASSUME TokenInv, Quiet, NEW x \in Order, Carried(x), ~Carried(x)', BrokerStep
    PROVE  (QueueTokens(x) # {} /\ sub' = {} /\ pub' = {}) \/ Dropped(x)
  <1>1. /\ sub' = {} /\ pub' = {} /\ UNCHANGED emitting /\ TypeInv
        /\ \A t \in Service : inbox'[t] = InHand(t)
    BY DEF BrokerStep, RestartBroker, TokenInv
  <1>2. CASE \E q \in Queue : x \in Orders(queue[q])
    <2>1. PICK q, i : q \in Queue /\ i \in DOMAIN queue[q] /\ queue[q][i].order = x
      BY <1>2 DEF Orders
    <2>2. <<"queue", q, i>> \in QueueTokens(x)
      BY <2>1 DEF QueueTokens
    <2> QED
      BY <1>1, <2>2
  <1>3. CASE \A q \in Queue : x \notin Orders(queue[q])
    <2>1. PICK t \in Service : x \in Orders(inbox[t])
      BY <1>1, <1>3 DEF Carried
    <2>2. x \notin Orders(InHand(t))
      BY <1>1 DEF Carried
    <2>3. t \in sub
      BY <1>1, <2>1, <2>2, CloseDrops
    <2> QED
      BY <1>1, <2>1, <2>3, HeldOrders DEF Dropped
  <1> QED
    BY <1>2, <1>3

LEMMA NoTokenNow ==
    ASSUME NEW o
    PROVE  /\ ~Carried(o) => Tokens(o) = {}
           /\ Tokens(o)' = {} => ~Carried(o)'
  <1>1. ~Carried(o) => Tokens(o) = {}
    BY DEF Tokens, EmitTokens, QueueTokens, InboxTokens, Orders, Carried
  <1>2. ASSUME Carried(o)' PROVE Tokens(o)' # {}
    <2>1. CASE \E s \in OrderSvc : o \in emitting'[s]
      BY <2>1 DEF Tokens, EmitTokens
    <2>2. CASE \E q \in Queue : o \in Orders(queue'[q])
      <3>1. PICK q, i : q \in Queue /\ i \in DOMAIN queue'[q] /\ queue'[q][i].order = o
        BY <2>2 DEF Orders
      <3>2. <<"queue", q, i>> \in QueueTokens(o)'
        BY <3>1 DEF QueueTokens
      <3> QED
        BY <3>2 DEF Tokens
    <2>3. CASE \E s \in Service : o \in Orders(inbox'[s])
      <3>1. PICK s, i : s \in Service /\ i \in DOMAIN inbox'[s] /\ inbox'[s][i].order = o
        BY <2>3 DEF Orders
      <3>2. <<"inbox", s, i>> \in InboxTokens(o)'
        BY <3>1 DEF InboxTokens
      <3> QED
        BY <3>2 DEF Tokens
    <2> QED
      BY <1>2, <2>1, <2>2, <2>3 DEF Carried
  <1> QED
    BY <1>1, <1>2

\* The step that loses an order is one of those LossIsLocal lists.
LEMMA LossIsCaused ==
    ASSUME TokenInv, Quiet, [Next]_vars, NEW x \in Order, ~Stranded(x), Stranded(x)'
    PROVE  \/ status[x] = "none"
           \/ QueueTokens(x) # {} /\ sub' = {} /\ pub' = {}
           \/ Dropped(x)
  <1>1. ~Carried(x)' /\ status'[x] \in {"CREATED", "PAID"}
    BY NoTokenNow DEF Stranded
  <1>2. CASE ~Carried(x) /\ status[x] # "none"
    <2>1. status'[x] = status[x]
      BY <1>2, LostStep DEF StaysLost, Stage
    <2> QED
      BY <1>1, <1>2, <2>1, NoTokenNow DEF Stranded
  <1>3. CASE Carried(x) /\ UNCHANGED vars
    BY <1>1, <1>3 DEF vars, Carried
  <1>4. ASSUME Carried(x), NEW s \in OrderSvc, NEW o \in Order, CreatesOrder(s, o) PROVE FALSE
    <2>1. /\ UNCHANGED <<queue, inbox>>
          /\ emitting' = emitting \/ emitting' = [emitting EXCEPT ![s] = @ \cup {o}]
      BY <1>4 DEF CreatesOrder, CreateOrder, CreateOrderCommitUnknown
    <2>2. \A t \in OrderSvc : emitting[t] \subseteq emitting'[t]
      BY <2>1, TypeInvParts DEF TokenInv
    <2> QED
      BY <1>1, <1>4, <2>1, <2>2 DEF Carried
  <1>5. CASE Carried(x) /\ Next
    BY <1>1, <1>4, <1>5, OrderDrops, PaymentDrops, DeliveryDrops, ProcessDrops, BrokerDrops
    DEF Next
  <1> QED
    BY <1>2, <1>3, <1>5

\* An order that is lost is lost by the process that held it, or by the broker that
\* held its message, when that dies, loses its subscription or restarts, finds no
\* way to publish, or a database call of its own fails: by no fault elsewhere.
THEOREM LossesAreLocal == Spec => LossIsLocal
  <1>1. Init => Quiet
    BY DEF Init, BusInit, Quiet, QuietAt
  <1>2. TokenInv /\ Quiet /\ [Next]_vars => Quiet'
    BY QuietStep DEF TokenInv
  <1>3. TokenInv /\ Quiet /\ [Next]_vars =>
        [\A o \in Order : ~Stranded(o) /\ Stranded(o)' =>
           \/ status[o] = "none"
           \/ QueueTokens(o) # {} /\ sub' = {} /\ pub' = {}
           \/ \E s \in Service :
                  /\ HoldsOrder(s, o)
                  /\ \/ s \in up \ up'
                     \/ s \in sub \ sub'
                     \/ s \notin pub \/ bound # Key
                     \/ step[s] \in {"idle", "emit"} /\ faults'["db"] > faults["db"]
        ]_vars
    BY SMTT(30), LossIsCaused DEF Dropped
  <1> QED
    BY <1>1, <1>2, <1>3, TokensInvariant, PTL DEF Spec, LossIsLocal
=============================================================================
