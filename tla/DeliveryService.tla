--------------------------- MODULE DeliveryService --------------------------
(***************************************************************************)
(* The delivery service: for each order.paid event, one shipment and one   *)
(* order.delivered event.  It keeps no record of what it has shipped.      *)
(***************************************************************************)
EXTENDS EventBus

VARIABLE shipments   \* per order: deliveries carried out (the outside view)

\* The delivery is done (the simulated five seconds are over); its event is
\* yet to be published.
ShipOrder(s) ==
    LET o == Head(inbox[s]).order IN
    /\ s \in DeliverySvc
    /\ Receiving(s)
    /\ shipments' = [shipments EXCEPT ![o] = @ + 1]
    /\ step' = [step EXCEPT ![s] = "publish"]
    /\ UNCHANGED <<bound, queue, up, starting, sub, pub, inbox, faults>>

\* A failed publish is logged and forgotten.
PublishOrderDelivered(s) ==
    /\ s \in DeliverySvc
    /\ step[s] = "publish"
    /\ Publish(s, "order.delivered", Head(inbox[s]).order)
    /\ FinishMessage(s)
    /\ UNCHANGED <<bound, up, starting, sub, pub, faults, shipments>>

DeliveryInit == shipments = [o \in Order |-> 0]

DeliveryTypeOK == shipments \in [Order -> Nat]
=============================================================================
