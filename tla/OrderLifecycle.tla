--------------------------- MODULE OrderLifecycle ---------------------------
(***************************************************************************)
(* What the order pipeline promises of each order, with no processes, no   *)
(* queues and no faults: it is charged at most once and only after it      *)
(* exists, marked PAID only once charged, shipped at most once and only    *)
(* once PAID, marked DELIVERED only once shipped.  Nothing is taken back.  *)
(* It does not promise that an order gets anywhere: the pipeline is        *)
(* at-most-once.                                                           *)
(***************************************************************************)
EXTENDS Naturals

CONSTANT Order

VARIABLES status, payments, shipments

vars == <<status, payments, shipments>>

Init ==
    /\ status = [o \in Order |-> "none"]
    /\ payments = [o \in Order |-> 0]
    /\ shipments = [o \in Order |-> 0]

Place(o) ==
    /\ status[o] = "none"
    /\ status' = [status EXCEPT ![o] = "CREATED"]
    /\ UNCHANGED <<payments, shipments>>

Charge(o) ==
    /\ status[o] = "CREATED"
    /\ payments[o] = 0
    /\ payments' = [payments EXCEPT ![o] = 1]
    /\ UNCHANGED <<status, shipments>>

MarkPaid(o) ==
    /\ status[o] = "CREATED"
    /\ payments[o] = 1
    /\ status' = [status EXCEPT ![o] = "PAID"]
    /\ UNCHANGED <<payments, shipments>>

Ship(o) ==
    /\ status[o] = "PAID"
    /\ shipments[o] = 0
    /\ shipments' = [shipments EXCEPT ![o] = 1]
    /\ UNCHANGED <<status, payments>>

MarkDelivered(o) ==
    /\ status[o] = "PAID"
    /\ shipments[o] = 1
    /\ status' = [status EXCEPT ![o] = "DELIVERED"]
    /\ UNCHANGED <<payments, shipments>>

Next == \E o \in Order :
            Place(o) \/ Charge(o) \/ MarkPaid(o) \/ Ship(o) \/ MarkDelivered(o)

Spec == Init /\ [][Next]_vars
=============================================================================
