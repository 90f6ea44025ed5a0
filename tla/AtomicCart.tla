----------------------------- MODULE AtomicCart -----------------------------
(***************************************************************************)
(* What a user expects of a cart: additions add up, a removal takes all of *)
(* a product, and a checkout moves the whole cart into an order.           *)
(***************************************************************************)
EXTENDS Integers

CONSTANTS User, Product, Quantity, NoItem   \* NoItem: a product that is not in the cart

VARIABLES items, ordered

vars == <<items, ordered>>

Empty == [p \in Product |-> NoItem]

Amount(c, p) == IF c[p] = NoItem THEN 0 ELSE c[p]

Init ==
    /\ items = [u \in User |-> Empty]
    /\ ordered = [u \in User |-> [p \in Product |-> 0]]

Add(u, p, n) ==
    /\ items' = [items EXCEPT ![u][p] = Amount(items[u], p) + n]
    /\ UNCHANGED ordered

Remove(u, p) ==
    /\ items' = [items EXCEPT ![u][p] = NoItem]
    /\ UNCHANGED ordered

Clear(u) ==
    /\ items' = [items EXCEPT ![u] = Empty]
    /\ UNCHANGED ordered

Checkout(u) ==
    /\ items[u] # Empty
    /\ ordered' = [ordered EXCEPT ![u] = [p \in Product |-> @[p] + Amount(items[u], p)]]
    /\ items' = [items EXCEPT ![u] = Empty]

Next ==
    \E u \in User :
        \/ \E p \in Product : Remove(u, p) \/ \E n \in Quantity : Add(u, p, n)
        \/ Clear(u)
        \/ Checkout(u)

Spec == Init /\ [][Next]_vars
=============================================================================
