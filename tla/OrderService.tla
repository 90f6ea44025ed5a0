---------------------------- MODULE OrderService ----------------------------
(***************************************************************************)
(* The order service: the orders table and its status history, the gRPC    *)
(* CreateOrder handler with the goroutine it leaves behind, and the        *)
(* consumer that moves an order to PAID and to DELIVERED.                  *)
(*                                                                         *)
(* One action per database or broker call: any other process may act       *)
(* between two calls of a handler, and the process may die there.          *)
(***************************************************************************)
EXTENDS EventBus

\* "none" is an order that does not exist yet.
Status == {"none", "CREATED", "PAID", "DELIVERED"}

VARIABLES
    status,    \* orders.status
    history,   \* rows of order_status_histories, in insertion order
    emitting   \* per process: orders whose EmitOrderCreated goroutine is pending

orderVars == <<status, history, emitting>>

-----------------------------------------------------------------------------
(* The gRPC side: CreateOrder.                                              *)

\* main serves gRPC once it is through with the consumer, whether it got one.
Serving == OrderSvc \cap (up \ starting)

\* The transaction commits, a goroutine is left to publish order.created.
CreateOrder(s, o) ==
    /\ s \in Serving
    /\ status[o] = "none"
    /\ status' = [status EXCEPT ![o] = "CREATED"]
    /\ emitting' = [emitting EXCEPT ![s] = @ \cup {o}]
    /\ UNCHANGED <<history, busVars>>

\* The connection fails during COMMIT after the database applied it: the caller
\* gets an error and no goroutine is started.  (A transaction that rolls back
\* changes nothing and needs no action.)
CreateOrderCommitUnknown(s, o) ==
    /\ s \in Serving
    /\ status[o] = "none"
    /\ Fault("db")
    /\ status' = [status EXCEPT ![o] = "CREATED"]
    /\ UNCHANGED <<history, emitting, bound, queue, up, starting, sub, pub, inbox, step>>

\* Mutant: the goroutine retries a publish that had in fact succeeded.
EmitOrderCreated_Retried(s, o) ==
    /\ s \in OrderSvc /\ o \in emitting[s]
    /\ Publish(s, "order.created", o)
    /\ \E done \in BOOLEAN :
           emitting' = [emitting EXCEPT ![s] = IF done THEN @ \ {o} ELSE @]
    /\ UNCHANGED <<status, history, bound, up, starting, sub, pub, inbox, step, faults>>

EmitOrderCreated(s, o) ==
    /\ s \in OrderSvc /\ o \in emitting[s]
    /\ Publish(s, "order.created", o)
    /\ emitting' = [emitting EXCEPT ![s] = @ \ {o}]
    /\ UNCHANGED <<status, history, bound, up, starting, sub, pub, inbox, step, faults>>

-----------------------------------------------------------------------------
(* The consumer side: UpdateOrderStatusUseCase.Execute.                     *)

\* The status a message asks for.
Target(m) == IF m.key = "payment.succeeded" THEN "PAID" ELSE "DELIVERED"

\* UPDATE orders SET status = ... WHERE id = ...: whatever the status was.
UpdateStatus(s) ==
    LET m == Head(inbox[s]) IN
    /\ s \in OrderSvc
    /\ Receiving(s)
    /\ status' = [status EXCEPT ![m.order] = Target(m)]
    /\ step' = [step EXCEPT ![s] = "history"]
    /\ UNCHANGED <<history, emitting, bound, queue, up, starting, sub, pub, inbox, faults>>

\* The UPDATE returns an error, applied or not: Execute returns, the consumer
\* ignores the error and goes on to its next message.
UpdateStatusFails(s) ==
    LET m == Head(inbox[s]) IN
    /\ s \in OrderSvc
    /\ Receiving(s)
    /\ Fault("db")
    /\ \E applied \in BOOLEAN :
           status' = IF applied THEN [status EXCEPT ![m.order] = Target(m)]
                                ELSE status
    /\ FinishMessage(s)
    /\ UNCHANGED <<history, emitting, bound, queue, up, starting, sub, pub>>

\* Mutant: order.paid is published for any status.
AfterHistory_AlwaysEmits(s) ==
    step' = [step EXCEPT ![s] = "emit"] /\ inbox' = inbox

\* What follows the history row: order.paid is published for a PAID order only.
AfterHistory(s) ==
    IF Target(Head(inbox[s])) = "PAID"
    THEN step' = [step EXCEPT ![s] = "emit"] /\ inbox' = inbox
    ELSE FinishMessage(s)

AddHistory(s) ==
    LET m == Head(inbox[s]) IN
    /\ s \in OrderSvc
    /\ step[s] = "history"
    /\ history' = [history EXCEPT ![m.order] = Append(@, Target(m))]
    /\ AfterHistory(s)
    /\ UNCHANGED <<status, emitting, bound, queue, up, starting, sub, pub, faults>>

\* Mutant: a failed INSERT of the history row ends Execute.
AddHistoryFails_Returns(s) ==
    /\ s \in OrderSvc
    /\ step[s] = "history"
    /\ Fault("db")
    /\ FinishMessage(s)
    /\ UNCHANGED <<status, history, emitting, bound, queue, up, starting, sub, pub>>

\* A failed INSERT is ignored and leaves a hole in the history.
AddHistoryFails(s) ==
    /\ s \in OrderSvc
    /\ step[s] = "history"
    /\ Fault("db")
    /\ AfterHistory(s)
    /\ UNCHANGED <<status, history, emitting, bound, queue, up, starting, sub, pub>>

\* GetOrderByID finds the row and order.paid is published.
EmitOrderPaid(s) ==
    /\ s \in OrderSvc
    /\ step[s] = "emit"
    /\ Publish(s, "order.paid", Head(inbox[s]).order)
    /\ FinishMessage(s)
    /\ UNCHANGED <<status, history, emitting, bound, up, starting, sub, pub, faults>>

\* GetOrderByID fails: logged, and nothing is published.
GetOrderFails(s) ==
    /\ s \in OrderSvc
    /\ step[s] = "emit"
    /\ Fault("db")
    /\ FinishMessage(s)
    /\ UNCHANGED <<status, history, emitting, bound, queue, up, starting, sub, pub>>

-----------------------------------------------------------------------------
(* The process.                                                             *)

\* Mutant: an instance that starts again publishes every order that is still CREATED.
CrashOrderService_Recovers(s) ==
    /\ s \in OrderSvc
    /\ CrashProcess(s)
    /\ emitting' = [emitting EXCEPT ![s] = {o \in Order : status[o] = "CREATED"}]
    /\ UNCHANGED <<status, history>>

\* A dead process takes its goroutines with it.
CrashOrderService(s) ==
    /\ s \in OrderSvc
    /\ CrashProcess(s)
    /\ emitting' = [emitting EXCEPT ![s] = {}]
    /\ UNCHANGED <<status, history>>

OrderInit ==
    /\ status = [o \in Order |-> "none"]
    /\ history = [o \in Order |-> <<>>]
    /\ emitting = [s \in OrderSvc |-> {}]

OrderTypeOK ==
    /\ status \in [Order -> Status]
    /\ history \in [Order -> Seq({"PAID", "DELIVERED"})]
    /\ emitting \in [OrderSvc -> SUBSET Order]
=============================================================================
