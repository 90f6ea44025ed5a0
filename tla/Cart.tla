-------------------------------- MODULE Cart --------------------------------
(***************************************************************************)
(* The cart service: express handlers over one Redis hash per user, and    *)
(* the checkout that turns a cart into an order of the order service.      *)
(*                                                                         *)
(* A handler gives up the event loop at every await, so that one action    *)
(* here is one Redis command or one message of the CreateOrder call, and   *)
(* the requests of a user interleave between them.  The service takes no   *)
(* lock and opens no transaction.                                          *)
(***************************************************************************)
EXTENDS Integers, FiniteSets

CONSTANTS
    User,
    Product,
    Request,       \* requests a run may serve, each one once
    Ops,           \* the operations users ask for
    Quantity,      \* the quantities users add: nothing checks their sign
    NoItem,        \* a field the hash does not have
    Serial,        \* whether a user waits for an answer before the next request
    MaxExpiries,   \* bound on Redis keys that expire
    MaxErrors,     \* bound on Redis commands and gRPC calls that report an error
    MaxCrashes     \* bound on crashes of the cart service

ASSUME CartConstants ==
    /\ Ops \subseteq {"get", "add", "remove", "clear", "checkout"}
    /\ Quantity \subseteq Int
    /\ NoItem \notin Int
    /\ Serial \in BOOLEAN
    /\ MaxExpiries \in Nat /\ MaxErrors \in Nat /\ MaxCrashes \in Nat

\* The contents of a cart: per product the quantity of the stored item, which may
\* be zero or negative, or NoItem.  Redis drops a hash with its last field.
Contents == [Product -> Int \cup {NoItem}]
Empty == [p \in Product |-> NoItem]

\* How much of a product a cart holds.
Amount(c, p) == IF c[p] = NoItem THEN 0 ELSE c[p]

\* Quantities per product that are summed up, and those that only grow.
Sums == [Product -> Int]
Counts == [Product -> Nat]
Zero == [p \in Product |-> 0]

\* What can be asked.
Ask ==
    [user : User, op : Ops \cap {"add"}, product : Product, quantity : Quantity]
    \cup [user : User, op : Ops \cap {"remove"}, product : Product, quantity : {0}]
    \cup [user : User, op : Ops \cap {"get", "clear", "checkout"},
          product : {"none"}, quantity : {0}]

NoAsk == [user |-> "none", op |-> "none", product |-> "none", quantity |-> 0]

\* Where a request is: the Redis command it awaits, or one of the points of a
\* checkout past the reading of the cart.
Reading == {"hget", "hgetall"}
Writing == {"hset", "hdel", "del", "expire", "refresh", "clear"}
InFlightAt == Reading \cup Writing \cup {"ordering"}
Point == {"unused", "done", "failed"} \cup InFlightAt

VARIABLES
    items,     \* per user: the hash cart:<userId>
    ttl,       \* the users whose key carries an expiry time
    ask,       \* per request: the user, the operation and its arguments
    at,        \* per request: where it is
    seen,      \* per request: the quantities it has read
    calls,     \* CreateOrder calls the order service has yet to decide on
    placed,    \* checkouts whose order the order service has committed
    ordered,   \* per user: quantities in the committed orders
    added,     \* history: positive quantities that HSET commands were to add
    taken,     \* history: negative ones, as what they were to take away
    faults     \* how many faults of each kind have happened

vars == <<items, ttl, ask, at, seen, calls, placed, ordered, added, taken, faults>>

store == <<items, ttl, added, taken>>
asked == <<ask, seen>>
order == <<calls, placed, ordered>>

-----------------------------------------------------------------------------
Budget(kind) == CASE kind = "expiry" -> MaxExpiries
                  [] kind = "error"  -> MaxErrors
                  [] OTHER           -> MaxCrashes

Fault(kind) ==
    /\ faults[kind] < Budget(kind)
    /\ faults' = [faults EXCEPT ![kind] = @ + 1]

InFlight(r) == at[r] \in InFlightAt

Busy(u) == \E r \in Request : InFlight(r) /\ ask[r].user = u

Goto(r, point) == at' = [at EXCEPT ![r] = point]

\* Mutant: the expiry of a key that is gone is still counted.
Store_KeepsExpiry(u, c) ==
    /\ items' = [items EXCEPT ![u] = c]
    /\ UNCHANGED ttl

\* The hash of u becomes c; the key and its expiry go with the last field.
Store(u, c) ==
    /\ items' = [items EXCEPT ![u] = c]
    /\ ttl' = IF c = Empty THEN ttl \ {u} ELSE ttl

\* Mutant: EXPIRE with the XX option, which only renews an expiry.
SetTTL_OnlyRenews(u) == UNCHANGED <<items, ttl>>

\* EXPIRE does nothing to a key that does not exist.
SetTTL(u) ==
    /\ ttl' = IF items[u] = Empty THEN ttl ELSE ttl \cup {u}
    /\ UNCHANGED items

\* Mutant: the increment is taken twice.
NewQuantity_Twice(r) == Amount(seen[r], ask[r].product) + 2 * ask[r].quantity

\* Mutant: the item of the request replaces the stored one.
NewQuantity_Replaces(r) == ask[r].quantity

\* What addItem writes back: the quantity it read, plus its own.
NewQuantity(r) == Amount(seen[r], ask[r].product) + ask[r].quantity

Positive(n) == IF n > 0 THEN n ELSE 0

\* What the command a request awaits does to Redis.
Command(r) ==
    LET u == ask[r].user
        p == ask[r].product
    IN  \/ /\ at[r] = "hset"
           /\ Store(u, [items[u] EXCEPT ![p] = NewQuantity(r)])
           /\ added' = [added EXCEPT ![u][p] = @ + Positive(ask[r].quantity)]
           /\ taken' = [taken EXCEPT ![u][p] = @ + Positive(-ask[r].quantity)]
        \/ /\ at[r] = "hdel"
           /\ Store(u, [items[u] EXCEPT ![p] = NoItem])
           /\ UNCHANGED <<added, taken>>
        \/ /\ at[r] \in {"del", "clear"}
           /\ Store(u, Empty)
           /\ UNCHANGED <<added, taken>>
        \/ /\ at[r] \in {"expire", "refresh"}
           /\ SetTTL(u)
           /\ UNCHANGED <<added, taken>>

-----------------------------------------------------------------------------
(* Handlers: addItem, removeItem, clearCart, getCart, and the getCart that  *)
(* every one of them but clearCart ends with or starts with.                *)

First(op) == CASE op = "add"    -> "hget"
               [] op = "remove" -> "hdel"
               [] op = "clear"  -> "del"
               [] OTHER         -> "hgetall"

Arrive(r) ==
    /\ at[r] = "unused"
    /\ \E a \in Ask :
           /\ Serial => ~Busy(a.user)
           /\ ask' = [ask EXCEPT ![r] = a]
           /\ Goto(r, First(a.op))
    /\ UNCHANGED <<seen, store, order, faults>>

\* HGET: the item addItem will write back.
ReadItem(r) ==
    LET u == ask[r].user
        p == ask[r].product
    IN  /\ at[r] = "hget"
        /\ seen' = [seen EXCEPT ![r] = [Empty EXCEPT ![p] = items[u][p]]]
        /\ Goto(r, "hset")
        /\ UNCHANGED <<ask, store, order, faults>>

\* HSET or HDEL, then EXPIRE, then getCart.
WriteItem(r) ==
    /\ at[r] \in {"hset", "hdel"}
    /\ Command(r)
    /\ Goto(r, "expire")
    /\ UNCHANGED <<asked, order, faults>>

RefreshAfterWrite(r) ==
    /\ at[r] = "expire"
    /\ Command(r)
    /\ Goto(r, "hgetall")
    /\ UNCHANGED <<asked, order, faults>>

\* HGETALL of getCart.
ReadCart(r) ==
    /\ at[r] = "hgetall"
    /\ seen' = [seen EXCEPT ![r] = items[ask[r].user]]
    /\ Goto(r, "refresh")
    /\ UNCHANGED <<ask, store, order, faults>>

\* The EXPIRE of getCart: the end of any request but a checkout.
RefreshAfterRead(r) ==
    /\ at[r] = "refresh"
    /\ ask[r].op # "checkout"
    /\ Command(r)
    /\ Goto(r, "done")
    /\ UNCHANGED <<asked, order, faults>>

\* DEL: the end of clearCart and of a checkout.
DeleteCart(r) ==
    /\ at[r] \in {"del", "clear"}
    /\ Command(r)
    /\ Goto(r, "done")
    /\ UNCHANGED <<asked, order, faults>>

-----------------------------------------------------------------------------
(* checkout                                                                 *)

\* The same EXPIRE, and then the test of the cart that was read: an empty one
\* is an error, any other is sent to the order service.
CallOrderService(r) ==
    /\ at[r] = "refresh"
    /\ ask[r].op = "checkout"
    /\ Command(r)
    /\ IF seen[r] = Empty
       THEN Goto(r, "failed") /\ UNCHANGED calls
       ELSE Goto(r, "ordering") /\ calls' = calls \cup {r}
    /\ UNCHANGED <<asked, placed, ordered, faults>>

\* The order service commits an order with the items of the call, whether or
\* not the caller still waits for the answer: nothing identifies a repeated
\* call.  The calls of one user are not serialised either.
AcceptOrder(r) ==
    /\ r \in calls
    /\ calls' = calls \ {r}
    /\ placed' = placed \cup {r}
    /\ ordered' = [ordered EXCEPT ![ask[r].user] =
                       [p \in Product |-> @[p] + Amount(seen[r], p)]]
    /\ UNCHANGED <<store, asked, at, faults>>

\* It answers with an error and commits nothing.
RefuseOrder(r) ==
    /\ r \in calls
    /\ Fault("error")
    /\ calls' = calls \ {r}
    /\ UNCHANGED <<store, asked, at, placed, ordered>>

\* Mutant: the callback of the call looks at the answer, never at the error.
OrderAnswered_ErrorIgnored(r) ==
    /\ at[r] = "ordering" /\ r \notin calls
    /\ Goto(r, "clear")
    /\ UNCHANGED <<asked, store, order, faults>>

\* Mutant: the callback neither resolves nor rejects on an error.
OrderAnswered_ErrorDropped(r) ==
    /\ at[r] = "ordering" /\ r \in placed
    /\ Goto(r, "clear")
    /\ UNCHANGED <<asked, store, order, faults>>

\* Mutant: checkout returns without clearCart.
OrderAnswered_NeverClears(r) ==
    /\ at[r] = "ordering" /\ r \notin calls
    /\ Goto(r, IF r \in placed THEN "done" ELSE "failed")
    /\ UNCHANGED <<asked, store, order, faults>>

\* The answer arrives: checkout goes on to clearCart, or throws.
OrderAnswered(r) ==
    /\ at[r] = "ordering" /\ r \notin calls
    /\ Goto(r, IF r \in placed THEN "clear" ELSE "failed")
    /\ UNCHANGED <<asked, store, order, faults>>

\* The connection breaks before the answer: checkout throws, and the order
\* service may have committed, or may yet.
OrderUnanswered(r) ==
    /\ at[r] = "ordering"
    /\ Fault("error")
    /\ Goto(r, "failed")
    /\ UNCHANGED <<asked, store, order>>

-----------------------------------------------------------------------------
(* The environment.                                                         *)

\* A Redis command is reported as failed, applied or not: the handler answers
\* 500 and goes no further.
CommandFails(r) ==
    /\ at[r] \in Reading \cup Writing
    /\ Fault("error")
    /\ Command(r) \/ UNCHANGED store
    /\ Goto(r, "failed")
    /\ UNCHANGED <<asked, order>>

\* Requests of one user that have renewed the expiry and are still in flight.
Renewed(u) ==
    \E r \in Request :
        /\ InFlight(r) /\ ask[r].user = u
        /\ \/ at[r] \in {"ordering", "clear"}
           \/ ask[r].op \in {"add", "remove"} /\ at[r] \in {"hgetall", "refresh"}

\* Seven days without an access: no request lasts that long.
KeyExpires(u) ==
    /\ u \in ttl
    /\ ~Renewed(u)
    /\ Fault("expiry")
    /\ Store(u, Empty)
    /\ UNCHANGED <<asked, at, added, taken, order>>

\* The process dies with its requests; the calls it has made go on.
CrashCartService ==
    /\ \E r \in Request : InFlight(r)
    /\ Fault("crash")
    /\ at' = [r \in Request |-> IF InFlight(r) THEN "failed" ELSE at[r]]
    /\ UNCHANGED <<asked, store, order>>

-----------------------------------------------------------------------------
Init ==
    /\ items = [u \in User |-> Empty]
    /\ ttl = {}
    /\ ask = [r \in Request |-> NoAsk]
    /\ at = [r \in Request |-> "unused"]
    /\ seen = [r \in Request |-> Empty]
    /\ calls = {} /\ placed = {}
    /\ ordered = [u \in User |-> Zero]
    /\ added = [u \in User |-> Zero]
    /\ taken = [u \in User |-> Zero]
    /\ faults = [kind \in {"expiry", "error", "crash"} |-> 0]

\* What the service does for one request.
Serve(r) ==
    \/ ReadItem(r) \/ WriteItem(r) \/ RefreshAfterWrite(r)
    \/ ReadCart(r) \/ RefreshAfterRead(r) \/ DeleteCart(r)
    \/ CallOrderService(r) \/ OrderAnswered(r)

Next ==
    \/ \E r \in Request :
           \/ Arrive(r) \/ Serve(r)
           \/ AcceptOrder(r) \/ RefuseOrder(r)
           \/ OrderUnanswered(r) \/ CommandFails(r)
    \/ \E u \in User : KeyExpires(u)
    \/ CrashCartService

Spec == Init /\ [][Next]_vars

\* Redis and the order service answer, and the event loop runs every
\* continuation.  Checkout sets no deadline: the second conjunct is what it
\* relies on.
FairSpec ==
    /\ Spec
    /\ \A r \in Request : WF_vars(Serve(r)) /\ WF_vars(AcceptOrder(r) \/ RefuseOrder(r))

-----------------------------------------------------------------------------
(* Properties.                                                              *)

TypeOK ==
    /\ items \in [User -> Contents]
    /\ ttl \subseteq {u \in User : items[u] # Empty}
    /\ ask \in [Request -> Ask \cup {NoAsk}]
    /\ at \in [Request -> Point]
    /\ \A r \in Request : at[r] = "unused" <=> ask[r] = NoAsk
    /\ seen \in [Request -> Contents]
    /\ calls \subseteq Request /\ placed \subseteq Request \ calls
    /\ ordered \in [User -> Sums]
    /\ added \in [User -> Counts]
    /\ taken \in [User -> Counts]
    /\ faults \in [{"expiry", "error", "crash"} -> Nat]

NoFaults == faults["error"] = 0 /\ faults["crash"] = 0

\* An amount the additions so far account for: no more than the positive ones, and
\* no less than the negative ones, come to.
Covered(u, p, n) == n <= added[u][p] /\ -n <= taken[u][p]

\* However requests interleave, expire or fail, addItem never writes a quantity
\* that the additions to the cart do not account for: concurrent
\* read-modify-writes may lose some of them, positive or negative, and may bring
\* back what was removed meanwhile, but count none twice.
NothingInvented ==
    \A u \in User, p \in Product : Covered(u, p, Amount(items[u], p))

\* README: "Persist cart items in Redis with TTL".  HSET and EXPIRE are two
\* commands: unless one of them fails or the service dies in between, a cart
\* without an expiry time is one whose writer is about to set it.
ImmortalCartHasCause ==
    NoFaults => \A u \in User :
        items[u] # Empty /\ u \notin ttl =>
            \E r \in Request : ask[r].user = u /\ at[r] = "expire"

\* For a user who waits for answers: what a checkout deletes is in an order,
\* whatever fails on the way (at least once).
ClearsOnlyWhatWasOrdered ==
    [][\A r \in Request :
           at[r] = "clear" /\ at'[r] = "done" =>
               /\ r \in placed
               /\ \A p \in Product :
                      items[ask[r].user][p] \in {NoItem, seen[r][p]}]_vars

\* For a user who waits for answers: what was ordered can only still be in the
\* cart, to be ordered again, while the checkout is about to delete it, or
\* because of a failure between the order and the deletion.
RepeatHasCause ==
    NoFaults => \A u \in User, p \in Product :
        \/ Covered(u, p, ordered[u][p] + Amount(items[u], p))
        \/ \E r \in placed : ask[r].user = u /\ InFlight(r)

\* Every request is answered in the end.
EveryRequestEnds == \A r \in Request : InFlight(r) ~> ~InFlight(r)

\* The comment of addItem, "Check if item exists to increment quantity or add
\* new": in a run of additions only, a cart holds the sum of what was added.
AddsAccumulate ==
    \A u \in User, p \in Product :
        ~Busy(u) => Amount(items[u], p) = added[u][p] - taken[u][p]

\* For a user who waits for answers, and up to the first fault or expiry, the
\* service is the atomic cart of AtomicCart; a checkout takes effect when its
\* order is committed.
Pending(u) == \E r \in placed : ask[r].user = u /\ InFlight(r)

Atomic == INSTANCE AtomicCart
          WITH items <- [u \in User |-> IF Pending(u) THEN Empty ELSE items[u]]

AtomicVars == Atomic!vars

Undisturbed == NoFaults /\ faults["expiry"] = 0

ImplementsAtomicCart ==
    Atomic!Init /\ [][Undisturbed' => Atomic!Next]_AtomicVars
=============================================================================
