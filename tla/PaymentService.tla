--------------------------- MODULE PaymentService ---------------------------
(***************************************************************************)
(* The payment service: for each order.created event, one payment and one  *)
(* payment.succeeded event.  It keeps no record of what it has charged.    *)
(***************************************************************************)
EXTENDS EventBus

VARIABLE payments   \* per order: PaymentIDs minted (the outside world's view)

\* The payment is made (PaymentID minted); its event is yet to be published.
ChargePayment(s) ==
    LET o == Head(inbox[s]).order IN
    /\ s \in PaymentSvc
    /\ Receiving(s)
    /\ payments' = [payments EXCEPT ![o] = @ + 1]
    /\ step' = [step EXCEPT ![s] = "publish"]
    /\ UNCHANGED <<bound, queue, up, starting, sub, pub, inbox, faults>>

\* A failed publish is logged and forgotten.
PublishPaymentSucceeded(s) ==
    /\ s \in PaymentSvc
    /\ step[s] = "publish"
    /\ Publish(s, "payment.succeeded", Head(inbox[s]).order)
    /\ FinishMessage(s)
    /\ UNCHANGED <<bound, up, starting, sub, pub, faults, payments>>

PaymentInit == payments = [o \in Order |-> 0]

PaymentTypeOK == payments \in [Order -> Nat]
=============================================================================
