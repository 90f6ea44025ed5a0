----------------------------- MODULE CartProofs -----------------------------
(***************************************************************************)
(* The cart service under any interleaving of requests and any failures:   *)
(* type correctness, no quantity invented, and no cart left without an     *)
(* expiry time.  For users who wait for answers: nothing is deleted that   *)
(* was not ordered, nothing is ordered again without a failure, and, until *)
(* something fails, the cart is that of AtomicCart.                        *)
(***************************************************************************)
EXTENDS Cart, TLAPS

USE DEF vars, store, asked, order

-----------------------------------------------------------------------------
(* Type correctness, in three parts.                                        *)

StoreOK ==
    /\ items \in [User -> Contents]
    /\ \A u \in ttl : u \in User /\ items[u] # Empty
    /\ added \in [User -> Counts] /\ taken \in [User -> Counts]

\* Beyond TypeOK: every request that has arrived asks for something, and an
\* item is only ever read or written by a request about an item.
RequestOK ==
    /\ ask \in [Request -> Ask \cup {NoAsk}]
    /\ at \in [Request -> Point]
    /\ seen \in [Request -> Contents]
    /\ \A r \in Request :
           /\ at[r] = "unused" <=> ask[r] = NoAsk
           /\ at[r] \in {"hget", "hset"} => ask[r].op = "add"
           /\ at[r] = "hdel" => ask[r].op = "remove"

\* A call is made once per request, at the point where a checkout orders.
Ordering == {"ordering", "clear", "done", "failed"}

OrderOK ==
    /\ calls \subseteq Request /\ placed \subseteq Request \ calls
    /\ ordered \in [User -> Sums]
    /\ \A r \in calls \cup placed : at[r] \in Ordering

FaultsOK == faults \in [{"expiry", "error", "crash"} -> Nat]

CartInv == StoreOK /\ RequestOK /\ OrderOK /\ FaultsOK

LEMMA CartInvTypes == CartInv => TypeOK
  BY DEF CartInv, StoreOK, RequestOK, OrderOK, FaultsOK, TypeOK

LEMMA AskType ==
    ASSUME NEW a \in Ask
    PROVE  /\ a.user \in User /\ a.quantity \in Int /\ a # NoAsk
           /\ a.op \in {"get", "add", "remove", "clear", "checkout"}
           /\ a.op \in {"add", "remove"} => a.product \in Product
  <1>1. Quantity \subseteq Int /\ Ops \subseteq {"get", "add", "remove", "clear", "checkout"}
    BY CartConstants
  <1>2. CASE a \in [user : User, op : Ops \cap {"add"}, product : Product,
                    quantity : Quantity]
    BY <1>1, <1>2 DEF NoAsk
  <1>3. CASE a \in [user : User, op : Ops \cap {"remove"}, product : Product,
                    quantity : {0}]
    BY <1>1, <1>3 DEF NoAsk
  <1>4. CASE a \in [user : User, op : Ops \cap {"get", "clear", "checkout"},
                    product : {"none"}, quantity : {0}]
    BY <1>1, <1>4 DEF NoAsk
  <1> QED
    BY <1>2, <1>3, <1>4 DEF Ask

\* A request that has arrived has a user, and one about an item a product.
LEMMA Arrived ==
    ASSUME RequestOK, NEW r \in Request, at[r] # "unused"
    PROVE  /\ ask[r] \in Ask /\ ask[r].user \in User /\ ask[r].quantity \in Int
           /\ at[r] \in {"hget", "hset", "hdel"} => ask[r].product \in Product
  <1>1. ask[r] \in Ask
    BY DEF RequestOK
  <1> QED
    BY <1>1, AskType DEF RequestOK

LEMMA EmptyType == Empty \in Contents
  BY DEF Empty, Contents

\* Amounts are numbers, and an empty cart has none of anything.
LEMMA AmountType ==
    /\ \A c \in Contents, p \in Product : Amount(c, p) \in Int
    /\ \A p \in Product : Amount(Empty, p) = 0
  BY DEF Amount, Contents, Empty

LEMMA PositiveType ==
    ASSUME NEW n \in Int
    PROVE  Positive(n) \in Nat /\ n <= Positive(n)
  BY DEF Positive

\* A hash with one field set to a quantity or dropped.
LEMMA FieldType ==
    ASSUME NEW c \in Contents, NEW p \in Product, NEW n \in Int \cup {NoItem}
    PROVE  [c EXCEPT ![p] = n] \in Contents
  BY DEF Contents

\* The history of one product grows.
LEMMA CountsType ==
    ASSUME NEW f \in [User -> Counts], NEW u \in User, NEW p \in Product, NEW n \in Nat
    PROVE  [f EXCEPT ![u][p] = @ + n] \in [User -> Counts]
  BY DEF Counts

LEMMA StoreKeepsType ==
    ASSUME StoreOK, NEW u \in User, NEW c \in Contents, Store(u, c)
    PROVE  /\ items' \in [User -> Contents]
           /\ \A v \in ttl' : v \in User /\ items'[v] # Empty
  BY DEF StoreOK, Store

\* What the command of a request leaves in Redis.
LEMMA CommandType ==
    ASSUME StoreOK, RequestOK, NEW r \in Request, Command(r)
    PROVE  StoreOK'
  <1> PICK u, p, n : u = ask[r].user /\ p = ask[r].product /\ n = ask[r].quantity
    OBVIOUS
  <1>1. /\ u \in User /\ n \in Int
        /\ at[r] \in {"hset", "hdel"} => p \in Product
    BY Arrived DEF Command
  <1>2. CASE at[r] = "hset"
    <2>1. /\ Store(u, [items[u] EXCEPT ![p] = NewQuantity(r)])
          /\ added' = [added EXCEPT ![u][p] = @ + Positive(n)]
          /\ taken' = [taken EXCEPT ![u][p] = @ + Positive(-n)]
      BY <1>2 DEF Command
    <2>2. p \in Product /\ items[u] \in Contents
      BY <1>1, <1>2 DEF StoreOK
    <2>3. NewQuantity(r) \in Int
      BY <1>1, <2>2, AmountType DEF NewQuantity, RequestOK
    <2>4. [items[u] EXCEPT ![p] = NewQuantity(r)] \in Contents
      BY <2>2, <2>3, FieldType
    <2>5. added' \in [User -> Counts] /\ taken' \in [User -> Counts]
      <3>1. Positive(n) \in Nat /\ Positive(-n) \in Nat
        BY <1>1 DEF Positive
      <3> QED
        BY <1>1, <2>1, <2>2, <3>1, CountsType DEF StoreOK
    <2> QED
      BY <1>1, <2>1, <2>4, <2>5, StoreKeepsType DEF StoreOK
  <1>3. CASE at[r] = "hdel"
    <2>1. [items[u] EXCEPT ![p] = NoItem] \in Contents
      BY <1>1, <1>3, FieldType DEF StoreOK
    <2>2. Store(u, [items[u] EXCEPT ![p] = NoItem]) /\ UNCHANGED <<added, taken>>
      BY <1>3 DEF Command
    <2> QED
      BY <1>1, <2>1, <2>2, StoreKeepsType DEF StoreOK
  <1>4. CASE at[r] \in {"del", "clear"}
    <2>1. Store(u, Empty) /\ UNCHANGED <<added, taken>>
      BY <1>4 DEF Command
    <2> QED
      BY <1>1, <2>1, EmptyType, StoreKeepsType DEF StoreOK
  <1>5. CASE at[r] \in {"expire", "refresh"}
    <2>1. SetTTL(u) /\ UNCHANGED <<added, taken>>
      BY <1>5 DEF Command
    <2> QED
      BY <1>1, <2>1 DEF SetTTL, StoreOK
  <1> QED
    BY <1>2, <1>3, <1>4, <1>5 DEF Command

\* A request that moves on, with what it asks unchanged.
LEMMA GotoType ==
    ASSUME RequestOK, NEW r \in Request, at[r] # "unused",
           NEW point \in Point \ {"unused", "hget", "hset", "hdel"},
           Goto(r, point), UNCHANGED asked
    PROVE  RequestOK'
  BY DEF RequestOK, Goto

LEMMA PointsOf ==
    /\ {"hset", "hdel", "expire", "hgetall", "refresh", "done", "failed", "ordering",
        "clear", "hget", "del", "unused"} = Point
    /\ Reading \cup Writing \subseteq Point \ {"unused"}
  BY DEF Point, InFlightAt, Reading, Writing

LEMMA CartInvArrive ==
    ASSUME CartInv, NEW r \in Request, Arrive(r)
    PROVE  CartInv'
  <1> USE DEF CartInv
  <1>1. PICK a \in Ask : /\ ask' = [ask EXCEPT ![r] = a]
                         /\ Goto(r, First(a.op))
    BY DEF Arrive
  <1>2. a # NoAsk /\ a.op \in {"get", "add", "remove", "clear", "checkout"}
    BY AskType
  <1>3. /\ a.op = "add" => First(a.op) = "hget"
        /\ a.op = "remove" => First(a.op) = "hdel"
        /\ a.op = "clear" => First(a.op) = "del"
        /\ a.op \in {"get", "checkout"} => First(a.op) = "hgetall"
    <2>1. a.op = "add" => First(a.op) = "hget"
      BY Zenon DEF First
    <2>2. a.op = "remove" => First(a.op) = "hdel"
      BY Zenon DEF First
    <2>3. a.op = "clear" => First(a.op) = "del"
      BY Zenon DEF First
    <2>4. a.op \in {"get", "checkout"} => First(a.op) = "hgetall"
      BY DEF First
    <2> QED
      BY <2>1, <2>2, <2>3, <2>4
  <1>4. RequestOK'
    BY <1>1, <1>2, <1>3, PointsOf DEF RequestOK, Arrive, Goto
  <1>5. StoreOK' /\ FaultsOK' /\ OrderOK'
    <2>1. First(a.op) # "unused"
      BY <1>2, <1>3
    <2> QED
      BY <1>1, <2>1 DEF Arrive, Goto, StoreOK, FaultsOK, OrderOK, RequestOK, Ordering
  <1> QED
    BY <1>4, <1>5

LEMMA CartInvServe ==
    ASSUME CartInv, NEW r \in Request, Serve(r)
    PROVE  CartInv'
  <1> USE DEF CartInv
  <1>1. at[r] # "unused"
    BY DEF Serve, ReadItem, WriteItem, RefreshAfterWrite, ReadCart, RefreshAfterRead,
           DeleteCart, CallOrderService, OrderAnswered
  <1>2. ask[r].user \in User
    BY <1>1, Arrived
  \* A request does not leave the points past the call.
  <1>3. ASSUME NEW point \in Point, Goto(r, point),
               at[r] \in Ordering => point \in Ordering,
               UNCHANGED <<calls, placed, ordered>>
        PROVE  OrderOK'
    BY <1>3 DEF OrderOK, Goto, RequestOK
  <1>4. UNCHANGED faults /\ FaultsOK'
    BY DEF Serve, ReadItem, WriteItem, RefreshAfterWrite, ReadCart, RefreshAfterRead,
           DeleteCart, CallOrderService, OrderAnswered, FaultsOK
  <1>5. CASE ReadItem(r)
    <2>1. ask[r].product \in Product /\ items[ask[r].user] \in Contents
      BY <1>1, <1>2, <1>5, Arrived DEF ReadItem, StoreOK
    <2>2. [Empty EXCEPT ![ask[r].product] = items[ask[r].user][ask[r].product]] \in Contents
      BY <2>1, EmptyType, FieldType DEF Contents
    <2>3. RequestOK'
      BY <1>5, <2>2, PointsOf DEF Ordering, ReadItem, Goto, RequestOK
    <2> QED
      BY <1>3, <1>4, <1>5, <2>3, PointsOf DEF Ordering, ReadItem, StoreOK
  <1>6. CASE WriteItem(r)
    BY <1>1, <1>3, <1>4, <1>6, CommandType, GotoType, PointsOf DEF Ordering, WriteItem
  <1>7. CASE RefreshAfterWrite(r)
    BY <1>1, <1>3, <1>4, <1>7, CommandType, GotoType, PointsOf DEF Ordering, RefreshAfterWrite
  <1>8. CASE ReadCart(r)
    <2>1. items[ask[r].user] \in Contents
      BY <1>2 DEF StoreOK
    <2>2. RequestOK'
      BY <1>8, <2>1, PointsOf DEF Ordering, ReadCart, Goto, RequestOK
    <2> QED
      BY <1>3, <1>4, <1>8, <2>2, PointsOf DEF Ordering, ReadCart, StoreOK
  <1>9. CASE RefreshAfterRead(r)
    BY <1>1, <1>3, <1>4, <1>9, CommandType, GotoType, PointsOf DEF Ordering, RefreshAfterRead
  <1>10. CASE DeleteCart(r)
    BY <1>1, <1>3, <1>4, <1>10, CommandType, GotoType, PointsOf DEF Ordering, DeleteCart
  <1>11. CASE CallOrderService(r)
    <2>1. Command(r) /\ UNCHANGED <<asked, placed, ordered>>
      BY <1>11 DEF CallOrderService
    <2>2. CASE seen[r] = Empty
      BY <1>1, <1>3, <1>4, <1>11, <2>1, <2>2, CommandType, GotoType, PointsOf
      DEF Ordering, CallOrderService
    <2>3. CASE seen[r] # Empty
      <3>1. Goto(r, "ordering") /\ calls' = calls \cup {r}
        BY <1>11, <2>3 DEF CallOrderService
      <3>2. r \notin placed
        BY <1>11 DEF OrderOK, Ordering, CallOrderService
      <3> QED
        BY <1>1, <1>4, <2>1, <3>1, <3>2, CommandType, GotoType, PointsOf
        DEF Ordering, OrderOK, Goto, RequestOK
    <2> QED
      BY <2>2, <2>3
  <1>12. CASE OrderAnswered(r)
    BY <1>1, <1>3, <1>4, <1>12, GotoType, PointsOf DEF Ordering, OrderAnswered, StoreOK
  <1> QED
    BY <1>5, <1>6, <1>7, <1>8, <1>9, <1>10, <1>11, <1>12 DEF Serve

LEMMA FaultType ==
    ASSUME FaultsOK, NEW kind \in {"expiry", "error", "crash"}, Fault(kind)
    PROVE  /\ FaultsOK'
           /\ \A k \in {"expiry", "error", "crash"} : faults'[k] >= faults[k]
           /\ faults'[kind] > 0
  BY DEF FaultsOK, Fault

LEMMA CartInvOrderService ==
    ASSUME CartInv, NEW r \in Request, AcceptOrder(r) \/ RefuseOrder(r)
    PROVE  CartInv'
  <1> USE DEF CartInv
  <1>1. /\ r \in calls /\ calls' = calls \ {r}
        /\ UNCHANGED <<store, asked, at>>
    BY DEF AcceptOrder, RefuseOrder
  <1>2. StoreOK' /\ RequestOK'
    BY <1>1 DEF StoreOK, RequestOK
  <1>3. CASE AcceptOrder(r)
    <2> PICK u : u = ask[r].user
      OBVIOUS
    <2>1. u \in User
      BY <1>1, Arrived DEF OrderOK, Ordering
    <2>2. /\ placed' = placed \cup {r}
          /\ ordered' = [ordered EXCEPT ![u] =
                              [p \in Product |-> @[p] + Amount(seen[r], p)]]
          /\ UNCHANGED faults
      BY <1>3 DEF AcceptOrder
    <2>3. [p \in Product |-> ordered[u][p] + Amount(seen[r], p)] \in Sums
      BY <2>1, AmountType DEF OrderOK, RequestOK, Sums
    <2>4. OrderOK'
      BY <1>1, <2>2, <2>3 DEF OrderOK
    <2> QED
      BY <1>2, <2>2, <2>4 DEF FaultsOK
  <1>4. CASE RefuseOrder(r)
    BY <1>1, <1>2, <1>4, FaultType DEF RefuseOrder, OrderOK
  <1> QED
    BY <1>3, <1>4

LEMMA CartInvFailure ==
    ASSUME CartInv, NEW r \in Request, OrderUnanswered(r) \/ CommandFails(r)
    PROVE  CartInv'
  <1> USE DEF CartInv
  <1>1. /\ at[r] # "unused" /\ Goto(r, "failed") /\ Fault("error")
        /\ UNCHANGED <<asked, order>>
    BY PointsOf DEF OrderUnanswered, CommandFails
  <1>2. RequestOK' /\ FaultsOK'
    BY <1>1, GotoType, FaultType, PointsOf
  <1>3. OrderOK'
    BY <1>1 DEF OrderOK, Goto, RequestOK, Ordering
  <1>4. StoreOK'
    BY CommandType DEF OrderUnanswered, CommandFails, StoreOK
  <1> QED
    BY <1>2, <1>3, <1>4

LEMMA CartInvExpiry ==
    ASSUME CartInv, NEW u \in User, KeyExpires(u)
    PROVE  CartInv'
  <1> USE DEF CartInv
  <1>1. StoreOK'
    BY EmptyType, StoreKeepsType DEF KeyExpires, StoreOK
  <1>2. RequestOK' /\ OrderOK'
    BY DEF KeyExpires, RequestOK, OrderOK
  <1>3. FaultsOK'
    BY FaultType DEF KeyExpires
  <1> QED
    BY <1>1, <1>2, <1>3

LEMMA CartInvCrash ==
    ASSUME CartInv, CrashCartService
    PROVE  CartInv'
  <1> USE DEF CartInv
  <1>1. /\ at' = [r \in Request |-> IF InFlight(r) THEN "failed" ELSE at[r]]
        /\ UNCHANGED <<asked, store, order>>
    BY DEF CrashCartService
  <1>2. \A r \in Request : InFlight(r) => at[r] # "unused"
    BY DEF InFlight, InFlightAt, Reading, Writing
  <1>3. \A r \in Request : (at'[r] = "failed" /\ at[r] # "unused") \/ at'[r] = at[r]
    BY <1>1, <1>2
  <1>4. RequestOK'
    BY <1>1, <1>3, PointsOf DEF RequestOK
  <1>5. OrderOK'
    BY <1>1, <1>3 DEF OrderOK, Ordering
  <1>6. StoreOK'
    BY <1>1 DEF StoreOK
  <1>7. FaultsOK'
    BY FaultType DEF CrashCartService
  <1> QED
    BY <1>4, <1>5, <1>6, <1>7

LEMMA CartInvInit == Init => CartInv
  BY EmptyType, PointsOf
  DEF Init, CartInv, StoreOK, RequestOK, OrderOK, FaultsOK, NoAsk, Zero,
      Sums, Counts

LEMMA CartInvStep ==
    ASSUME CartInv, [Next]_vars
    PROVE  CartInv'
  <1>1. CASE UNCHANGED vars
    BY <1>1 DEF CartInv, StoreOK, RequestOK, OrderOK, FaultsOK
  <1>2. CASE Next
    BY <1>2, CartInvArrive, CartInvServe, CartInvOrderService, CartInvFailure,
       CartInvExpiry, CartInvCrash
    DEF Next
  <1> QED
    BY <1>1, <1>2

\* TypeOK holds for any users, products, requests, quantities and budgets.
THEOREM CartTyping == Spec => []TypeOK
  <1>1. CartInv /\ [Next]_vars => CartInv'
    BY CartInvStep
  <1> QED
    BY <1>1, CartInvInit, CartInvTypes, PTL DEF Spec

-----------------------------------------------------------------------------
(* No quantity is invented.                                                 *)

\* NothingInvented is not inductive: a writer adds to what it has read, which
\* must be accounted for without it.
ReadsBounded ==
    \A r \in Request :
        at[r] = "hset" =>
            Covered(ask[r].user, ask[r].product, Amount(seen[r], ask[r].product))

BoundedInv == CartInv /\ NothingInvented /\ ReadsBounded

\* The history of additions only grows, and so covers what it has covered.
HistoryGrows ==
    \A u \in User : \A p \in Product :
        added[u][p] <= added'[u][p] /\ taken[u][p] <= taken'[u][p]

LEMMA HistoryType ==
    ASSUME StoreOK, NEW u \in User, NEW p \in Product
    PROVE  added[u][p] \in Nat /\ taken[u][p] \in Nat
  BY DEF StoreOK, Counts

LEMMA StaysCovered ==
    ASSUME StoreOK, StoreOK', HistoryGrows,
           NEW u \in User, NEW p \in Product, NEW n \in Int, Covered(u, p, n)
    PROVE  n <= added'[u][p] /\ -n <= taken'[u][p]
  <1>1. added[u][p] \in Nat /\ taken[u][p] \in Nat
    BY HistoryType
  <1>2. added'[u][p] \in Nat /\ taken'[u][p] \in Nat
    BY DEF StoreOK, Counts
  <1>3. added[u][p] <= added'[u][p] /\ taken[u][p] <= taken'[u][p]
    BY DEF HistoryGrows
  <1> QED
    BY <1>1, <1>2, <1>3 DEF Covered

LEMMA ReadsStayBounded ==
    ASSUME CartInv, ReadsBounded, StoreOK', HistoryGrows,
           \A r \in Request : at'[r] = "hset" =>
               /\ at[r] = "hset" /\ ask'[r] = ask[r] /\ seen'[r] = seen[r]
    PROVE  ReadsBounded'
  <1> SUFFICES ASSUME NEW r \in Request, at'[r] = "hset"
               PROVE  Covered(ask[r].user, ask[r].product, Amount(seen[r], ask[r].product))'
    BY DEF ReadsBounded
  <1> PICK u, p, n : u = ask[r].user /\ p = ask[r].product /\ n = Amount(seen[r], p)
    OBVIOUS
  <1>1. at[r] = "hset" /\ ask'[r] = ask[r] /\ seen'[r] = seen[r]
    OBVIOUS
  <1>2. u \in User /\ p \in Product
    BY <1>1, Arrived DEF CartInv
  <1>3. n \in Int
    BY <1>2, AmountType DEF CartInv, RequestOK
  <1>4. Covered(u, p, n)
    BY <1>1, <1>2 DEF ReadsBounded
  <1>5. n <= added'[u][p] /\ -n <= taken'[u][p]
    BY <1>2, <1>3, <1>4, StaysCovered DEF CartInv
  <1>6. Amount(seen[r], ask[r].product)' = n
    BY <1>1 DEF Amount
  <1> QED
    BY <1>1, <1>5, <1>6 DEF Covered

\* Carts that lose fields and gain none stay accounted for.
LEMMA FieldsLost ==
    ASSUME StoreOK, StoreOK', NothingInvented, UNCHANGED <<added, taken>>,
           \A v \in User : \A q \in Product :
               items'[v][q] = items[v][q] \/ items'[v][q] = NoItem
    PROVE  NothingInvented' /\ HistoryGrows
  <1>1. HistoryGrows
    BY HistoryType DEF HistoryGrows
  <1>2. ASSUME NEW v \in User, NEW q \in Product
        PROVE  Covered(v, q, Amount(items[v], q))'
    <2>1. added[v][q] \in Nat /\ taken[v][q] \in Nat
      BY HistoryType
    <2>2. CASE items'[v][q] = items[v][q]
      <3>1. Amount(items[v], q)' = Amount(items[v], q)
        BY <2>2 DEF Amount
      <3> QED
        BY <3>1 DEF NothingInvented, Covered
    <2>3. CASE items'[v][q] = NoItem
      <3>1. Amount(items[v], q)' = 0
        BY <2>3 DEF Amount
      <3> QED
        BY <2>1, <3>1 DEF Covered
    <2> QED
      BY <2>2, <2>3
  <1> QED
    BY <1>1, <1>2 DEF NothingInvented

\* No command takes a cart beyond what the additions to it account for.
LEMMA CommandBounded ==
    ASSUME BoundedInv, StoreOK', NEW r \in Request, Command(r)
    PROVE  NothingInvented' /\ HistoryGrows
  <1> USE DEF BoundedInv, CartInv
  <1> PICK u, p, n : u = ask[r].user /\ p = ask[r].product /\ n = ask[r].quantity
    OBVIOUS
  <1>1. /\ u \in User /\ n \in Int
        /\ at[r] \in {"hset", "hdel"} => p \in Product
    BY Arrived DEF Command
  <1>2. \A v \in User : \A q \in Product : added[v][q] \in Nat /\ taken[v][q] \in Nat
    BY HistoryType
  <1>3. CASE at[r] = "hset"
    <2> PICK k : k = Amount(seen[r], p)
      OBVIOUS
    <2>1. /\ items' = [items EXCEPT ![u] = [items[u] EXCEPT ![p] = k + n]]
          /\ added' = [added EXCEPT ![u][p] = @ + Positive(n)]
          /\ taken' = [taken EXCEPT ![u][p] = @ + Positive(-n)]
      BY <1>3 DEF Command, Store, NewQuantity
    <2>2. /\ p \in Product /\ items \in [User -> Contents]
          /\ added \in [User -> Counts] /\ taken \in [User -> Counts]
      BY <1>1, <1>3 DEF StoreOK
    <2>3. /\ items'[u][p] = k + n
          /\ added'[u][p] = added[u][p] + Positive(n)
          /\ taken'[u][p] = taken[u][p] + Positive(-n)
      BY <1>1, <2>1, <2>2 DEF Contents, Counts
    <2>4. \A v \in User : \A q \in Product : v # u \/ q # p =>
              /\ items'[v][q] = items[v][q]
              /\ added'[v][q] = added[v][q] /\ taken'[v][q] = taken[v][q]
      BY <1>1, <2>1, <2>2 DEF Contents, Counts
    <2>5. k \in Int /\ k <= added[u][p] /\ -k <= taken[u][p]
      BY <1>3, <2>2, AmountType DEF ReadsBounded, RequestOK, Covered
    <2>6. /\ Positive(n) \in Nat /\ n <= Positive(n)
          /\ Positive(-n) \in Nat /\ -n <= Positive(-n)
      BY <1>1 DEF Positive
    <2>7. HistoryGrows
      <3> SUFFICES ASSUME NEW v \in User, NEW q \in Product
                   PROVE  added[v][q] <= added'[v][q] /\ taken[v][q] <= taken'[v][q]
        BY DEF HistoryGrows
      <3>1. CASE v = u /\ q = p
        BY <1>2, <2>3, <2>6, <3>1
      <3>2. CASE v # u \/ q # p
        BY <1>2, <2>4, <3>2
      <3> QED
        BY <3>1, <3>2
    <2>8. ASSUME NEW v \in User, NEW q \in Product
          PROVE  Covered(v, q, Amount(items[v], q))'
      <3>1. CASE v = u /\ q = p
        <4>1. k + n \in Int /\ k + n # NoItem
          BY <1>1, <2>5, CartConstants
        <4>2. Amount(items[v], q)' = k + n
          BY <2>3, <3>1, <4>1 DEF Amount
        <4>3. /\ k + n <= added[u][p] + Positive(n)
              /\ -(k + n) <= taken[u][p] + Positive(-n)
          BY <1>1, <1>2, <2>2, <2>5, <2>6
        <4> QED
          BY <2>3, <3>1, <4>2, <4>3 DEF Covered
      <3>2. CASE v # u \/ q # p
        <4>1. Amount(items[v], q)' = Amount(items[v], q)
          BY <2>4, <3>2 DEF Amount
        <4> QED
          BY <2>4, <3>2, <4>1 DEF NothingInvented, Covered
      <3> QED
        BY <3>1, <3>2
    <2> QED
      BY <2>7, <2>8 DEF NothingInvented
  <1>4. CASE at[r] = "hdel"
    <2>1. /\ items' = [items EXCEPT ![u] = [items[u] EXCEPT ![p] = NoItem]]
          /\ UNCHANGED <<added, taken>>
      BY <1>4 DEF Command, Store
    <2>2. \A v \in User : \A q \in Product :
              items'[v][q] = items[v][q] \/ items'[v][q] = NoItem
      BY <1>1, <1>4, <2>1 DEF StoreOK, Contents
    <2> QED
      BY <2>1, <2>2, FieldsLost
  <1>5. CASE at[r] \in {"del", "clear"}
    <2>1. items' = [items EXCEPT ![u] = Empty] /\ UNCHANGED <<added, taken>>
      BY <1>5 DEF Command, Store
    <2>2. \A v \in User : \A q \in Product :
              items'[v][q] = items[v][q] \/ items'[v][q] = NoItem
      BY <1>1, <2>1 DEF StoreOK, Contents, Empty
    <2> QED
      BY <2>1, <2>2, FieldsLost
  <1>6. CASE at[r] \in {"expire", "refresh"}
    BY <1>6, FieldsLost DEF Command, SetTTL
  <1> QED
    BY <1>3, <1>4, <1>5, <1>6 DEF Command

\* The read of addItem, the only one that is written back.
LEMMA ReadItemBounded ==
    ASSUME BoundedInv, NEW r \in Request, ReadItem(r)
    PROVE  ReadsBounded'
  <1> USE DEF BoundedInv, CartInv
  <1> SUFFICES ASSUME NEW s \in Request, at'[s] = "hset"
               PROVE  Covered(ask[s].user, ask[s].product, Amount(seen[s], ask[s].product))'
    BY DEF ReadsBounded
  <1> PICK u, p : u = ask[r].user /\ p = ask[r].product
    OBVIOUS
  <1>1. /\ seen' = [seen EXCEPT ![r] = [Empty EXCEPT ![p] = items[u][p]]]
        /\ at' = [at EXCEPT ![r] = "hset"]
        /\ UNCHANGED <<ask, added, taken>>
    BY DEF ReadItem, Goto
  <1>2. CASE s = r
    <2>1. u \in User /\ p \in Product
      BY Arrived DEF ReadItem
    <2>2. seen'[r][p] = items[u][p]
      BY <1>1, <2>1 DEF RequestOK, Empty
    <2>3. Covered(u, p, Amount(items[u], p))
      BY <2>1 DEF NothingInvented
    <2>4. Amount(seen[s], ask[s].product)' = Amount(items[u], p)
      BY <1>1, <1>2, <2>2 DEF Amount
    <2> QED
      BY <1>1, <1>2, <2>3, <2>4 DEF Covered
  <1>3. CASE s # r
    <2>1. at[s] = "hset" /\ seen'[s] = seen[s] /\ UNCHANGED <<ask, added, taken>>
      BY <1>1, <1>3 DEF RequestOK
    <2>2. Amount(seen[s], ask[s].product)' = Amount(seen[s], ask[s].product)
      BY <2>1, Zenon DEF Amount
    <2> QED
      BY <2>1, <2>2 DEF ReadsBounded, Covered
  <1> QED
    BY <1>2, <1>3

LEMMA BoundedInvStep ==
    ASSUME BoundedInv, [Next]_vars
    PROVE  BoundedInv'
  <1> USE DEF BoundedInv
  <1>1. CartInv'
    BY CartInvStep
  <1>2. StoreOK /\ StoreOK' /\ RequestOK
    BY <1>1 DEF CartInv
  \* Steps that leave the history alone.
  <1>3. ASSUME UNCHANGED <<items, added, taken>> PROVE NothingInvented'
    BY <1>3 DEF NothingInvented, Covered, Amount
  <1>4. ASSUME UNCHANGED <<added, taken>> PROVE HistoryGrows
    BY <1>2, <1>4, HistoryType DEF HistoryGrows
  <1>5. ASSUME NEW r \in Request, NEW point \in Point \ {"hset"}, Goto(r, point),
               \A s \in Request \ {r} : ask'[s] = ask[s] /\ seen'[s] = seen[s]
        PROVE  \A s \in Request : at'[s] = "hset" =>
                   /\ at[s] = "hset" /\ ask'[s] = ask[s] /\ seen'[s] = seen[s]
    BY <1>2, <1>5 DEF Goto, RequestOK
  <1>6. CASE UNCHANGED vars
    BY <1>1, <1>6 DEF NothingInvented, ReadsBounded, Covered, Amount
  <1>7. ASSUME NEW r \in Request, Arrive(r) PROVE BoundedInv'
    <2>1. PICK a \in Ask : ask' = [ask EXCEPT ![r] = a] /\ Goto(r, First(a.op))
      BY <1>7 DEF Arrive
    <2>2. at'[r] # "hset"
      <3>1. at'[r] = "hset" => ask'[r].op = "add"
        BY <1>1 DEF CartInv, RequestOK
      <3>2. a.op = "add" => First(a.op) = "hget"
        BY Zenon DEF First
      <3> QED
        BY <1>2, <2>1, <3>1, <3>2 DEF Goto, RequestOK
    <2>3. \A s \in Request : at'[s] = "hset" =>
              /\ at[s] = "hset" /\ ask'[s] = ask[s] /\ seen'[s] = seen[s]
      BY <1>2, <1>7, <2>1, <2>2 DEF Goto, RequestOK, Arrive
    <2> QED
      BY <1>1, <1>2, <1>3, <1>4, <1>7, <2>3, ReadsStayBounded DEF Arrive
  <1>8. ASSUME NEW r \in Request, Serve(r) PROVE BoundedInv'
    <2>1. CASE ReadItem(r)
      BY <1>1, <1>3, <2>1, ReadItemBounded DEF ReadItem
    <2>2. CASE ReadCart(r) \/ OrderAnswered(r)
      <3>1. UNCHANGED <<items, added, taken>>
        BY <2>2 DEF ReadCart, OrderAnswered
      <3>2. PICK point \in Point \ {"hset"} : Goto(r, point)
        BY <2>2, PointsOf DEF ReadCart, OrderAnswered
      <3>3. \A s \in Request \ {r} : ask'[s] = ask[s] /\ seen'[s] = seen[s]
        BY <1>2, <2>2 DEF ReadCart, OrderAnswered, RequestOK
      <3> QED
        BY <1>1, <1>2, <1>3, <1>4, <1>5, <3>1, <3>2, <3>3, ReadsStayBounded
    <2>3. CASE \/ WriteItem(r) \/ RefreshAfterWrite(r) \/ RefreshAfterRead(r)
               \/ DeleteCart(r) \/ CallOrderService(r)
      <3>1. Command(r) /\ UNCHANGED asked
        BY <2>3 DEF WriteItem, RefreshAfterWrite, RefreshAfterRead, DeleteCart,
                    CallOrderService
      <3>2. PICK point \in Point \ {"hset"} : Goto(r, point)
        BY <2>3, PointsOf DEF WriteItem, RefreshAfterWrite, RefreshAfterRead,
                              DeleteCart, CallOrderService
      <3> QED
        BY <1>1, <1>2, <1>5, <3>1, <3>2, CommandBounded, ReadsStayBounded
    <2> QED
      BY <1>8, <2>1, <2>2, <2>3 DEF Serve
  <1>9. ASSUME NEW r \in Request, AcceptOrder(r) \/ RefuseOrder(r) PROVE BoundedInv'
    <2>1. UNCHANGED <<items, added, taken, ask, seen, at>>
      BY <1>9 DEF AcceptOrder, RefuseOrder
    <2> QED
      BY <1>1, <2>1 DEF NothingInvented, ReadsBounded, Covered, Amount
  <1>10. ASSUME NEW r \in Request, OrderUnanswered(r) \/ CommandFails(r)
         PROVE  BoundedInv'
    <2>1. Goto(r, "failed") /\ UNCHANGED asked
      BY <1>10 DEF OrderUnanswered, CommandFails
    <2>2. Command(r) \/ UNCHANGED <<items, added, taken>>
      BY <1>10 DEF OrderUnanswered, CommandFails
    <2>3. \A s \in Request : at'[s] = "hset" =>
              /\ at[s] = "hset" /\ ask'[s] = ask[s] /\ seen'[s] = seen[s]
      BY <1>5, <2>1, PointsOf
    <2> QED
      BY <1>1, <1>2, <1>3, <1>4, <2>2, <2>3, CommandBounded, ReadsStayBounded
  <1>11. ASSUME NEW u \in User, KeyExpires(u) PROVE BoundedInv'
    <2>1. /\ items' = [items EXCEPT ![u] = Empty]
          /\ UNCHANGED <<added, taken, ask, seen, at>>
      BY <1>11 DEF KeyExpires, Store
    <2>2. \A v \in User : \A p \in Product :
              items'[v][p] = items[v][p] \/ items'[v][p] = NoItem
      BY <1>2, <2>1 DEF StoreOK, Contents, Empty
    <2>3. NothingInvented'
      BY <1>2, <2>1, <2>2, FieldsLost
    <2> QED
      BY <1>1, <2>1, <2>3 DEF ReadsBounded, Covered, Amount
  <1>12. ASSUME CrashCartService PROVE BoundedInv'
    <2>1. /\ UNCHANGED <<items, added, taken, ask, seen>>
          /\ \A r \in Request : at'[r] = "hset" => at[r] = "hset"
      BY <1>12 DEF CrashCartService
    <2> QED
      BY <1>1, <1>3, <2>1 DEF ReadsBounded, Covered, Amount
  <1> QED
    BY <1>6, <1>7, <1>8, <1>9, <1>10, <1>11, <1>12 DEF Next

\* NothingInvented: whatever overlaps, expires or fails, what a cart holds of a
\* product is no more than the positive additions account for, and no less than
\* the negative ones.
THEOREM NoQuantityInvented == Spec => []NothingInvented
  <1>1. Init => BoundedInv
    BY CartInvInit DEF Init, BoundedInv, NothingInvented, ReadsBounded, Covered, Amount,
                     Empty, Zero
  <1>2. BoundedInv /\ [Next]_vars => BoundedInv'
    BY BoundedInvStep
  <1>3. BoundedInv => NothingInvented
    BY DEF BoundedInv
  <1> QED
    BY <1>1, <1>2, <1>3, PTL DEF Spec

-----------------------------------------------------------------------------
(* No cart without an expiry time, unless its writer is about to set it.    *)

\* A step of one request, which is not the one about to set an expiry.
LEMMA CauseKept ==
    ASSUME ImmortalCartHasCause, NoFaults' => NoFaults,
           NEW r \in Request, at[r] # "expire",
           \A s \in Request \ {r} : at'[s] = at[s] /\ ask'[s] = ask[s],
           \A v \in User : items'[v] # Empty /\ v \notin ttl' =>
               \/ items[v] # Empty /\ v \notin ttl
               \/ ask'[r].user = v /\ at'[r] = "expire"
    PROVE  ImmortalCartHasCause'
  <1> SUFFICES ASSUME NoFaults', NEW v \in User, items'[v] # Empty, v \notin ttl'
               PROVE  \E s \in Request : ask'[s].user = v /\ at'[s] = "expire"
    BY DEF ImmortalCartHasCause
  <1>1. CASE items[v] # Empty /\ v \notin ttl
    <2>1. PICK s \in Request : ask[s].user = v /\ at[s] = "expire"
      BY <1>1 DEF ImmortalCartHasCause
    <2> QED
      BY <2>1
  <1> QED
    BY <1>1

LEMMA ImmortalStep ==
    ASSUME CartInv, ImmortalCartHasCause, [Next]_vars
    PROVE  ImmortalCartHasCause'
  <1>1. StoreOK /\ RequestOK
    BY DEF CartInv
  <1>2. ASSUME NEW r \in Request, NEW point, Goto(r, point), UNCHANGED ask
        PROVE  /\ \A s \in Request \ {r} : at'[s] = at[s] /\ ask'[s] = ask[s]
               /\ at'[r] = point
    BY <1>1, <1>2 DEF Goto, RequestOK
  <1>3. ASSUME UNCHANGED faults PROVE NoFaults' => NoFaults
    BY <1>3 DEF NoFaults
  <1>4. ASSUME Fault("error") \/ Fault("crash") PROVE ~NoFaults'
    BY <1>4 DEF NoFaults, Fault, CartInv, FaultsOK
  <1>5. CASE UNCHANGED vars
    BY <1>5 DEF ImmortalCartHasCause, NoFaults
  <1>6. ASSUME NEW r \in Request, Arrive(r) PROVE ImmortalCartHasCause'
    <2>1. /\ \A s \in Request \ {r} : at'[s] = at[s] /\ ask'[s] = ask[s]
          /\ at[r] # "expire" /\ UNCHANGED <<items, ttl, faults>>
      BY <1>1, <1>6 DEF Arrive, Goto, RequestOK
    <2> QED
      BY <1>3, <2>1, CauseKept
  <1>7. ASSUME NEW r \in Request, WriteItem(r) PROVE ImmortalCartHasCause'
    <2>1. /\ at[r] # "expire" /\ at'[r] = "expire" /\ UNCHANGED <<ask, faults>>
          /\ \A s \in Request \ {r} : at'[s] = at[s] /\ ask'[s] = ask[s]
      BY <1>2, <1>7 DEF WriteItem
    <2>2. PICK c : Store(ask[r].user, c)
      BY <1>7 DEF WriteItem, Command
    <2>3. \A v \in User \ {ask[r].user} :
              items'[v] = items[v] /\ (v \in ttl' <=> v \in ttl)
      BY <1>1, <2>2 DEF Store, StoreOK
    <2> QED
      BY <1>3, <2>1, <2>3, CauseKept
  <1>8. ASSUME NEW r \in Request, RefreshAfterWrite(r) PROVE ImmortalCartHasCause'
    <2>1. /\ \A s \in Request \ {r} : at'[s] = at[s] /\ ask'[s] = ask[s]
          /\ at[r] = "expire" /\ SetTTL(ask[r].user) /\ UNCHANGED faults
      BY <1>2, <1>8 DEF RefreshAfterWrite, Command
    <2>2. SUFFICES ASSUME NoFaults', NEW v \in User, items'[v] # Empty, v \notin ttl'
                   PROVE  \E s \in Request : ask'[s].user = v /\ at'[s] = "expire"
      BY DEF ImmortalCartHasCause
    <2>3. items[v] # Empty /\ v \notin ttl /\ v # ask[r].user
      BY <2>1, <2>2 DEF SetTTL
    <2>4. PICK s \in Request : ask[s].user = v /\ at[s] = "expire"
      BY <1>3, <2>1, <2>2, <2>3 DEF ImmortalCartHasCause
    <2> QED
      BY <2>1, <2>3, <2>4
  <1>9. ASSUME NEW r \in Request,
               \/ ReadItem(r) \/ ReadCart(r) \/ RefreshAfterRead(r) \/ DeleteCart(r)
               \/ CallOrderService(r) \/ OrderAnswered(r)
        PROVE  ImmortalCartHasCause'
    <2>1. /\ at[r] # "expire" /\ UNCHANGED <<ask, faults>>
          /\ \E point : Goto(r, point)
      BY <1>9 DEF ReadItem, ReadCart, RefreshAfterRead, DeleteCart, CallOrderService,
                  OrderAnswered
    <2>2. \A s \in Request \ {r} : at'[s] = at[s] /\ ask'[s] = ask[s]
      BY <1>2, <2>1
    <2>3. \A v \in User : items'[v] # Empty /\ v \notin ttl' =>
              items[v] # Empty /\ v \notin ttl
      <3>1. CASE UNCHANGED <<items, ttl>>
        BY <3>1
      <3>2. CASE at[r] = "refresh" /\ Command(r)
        BY <3>2 DEF Command, SetTTL
      <3>3. CASE at[r] \in {"del", "clear"} /\ Command(r)
        <4>1. Store(ask[r].user, Empty)
          BY <3>3 DEF Command
        <4> QED
          BY <1>1, <4>1 DEF Store, StoreOK
      <3> QED
        BY <1>9, <3>1, <3>2, <3>3 DEF ReadItem, ReadCart, RefreshAfterRead,
           DeleteCart, CallOrderService, OrderAnswered
    <2> QED
      BY <1>3, <2>1, <2>2, <2>3, CauseKept
  <1>10. ASSUME NEW r \in Request,
                RefuseOrder(r) \/ OrderUnanswered(r) \/ CommandFails(r)
         PROVE  ImmortalCartHasCause'
    BY <1>4, <1>10 DEF RefuseOrder, OrderUnanswered, CommandFails, ImmortalCartHasCause
  <1>11. ASSUME NEW r \in Request, AcceptOrder(r) PROVE ImmortalCartHasCause'
    BY <1>11 DEF AcceptOrder, ImmortalCartHasCause, NoFaults
  <1>12. ASSUME NEW u \in User, KeyExpires(u) PROVE ImmortalCartHasCause'
    <2>1. UNCHANGED <<ask, at>> /\ Store(u, Empty)
      BY <1>12 DEF KeyExpires
    <2>2. NoFaults' => NoFaults
      BY <1>12 DEF KeyExpires, Fault, NoFaults, CartInv, FaultsOK
    <2>3. \A v \in User : items'[v] # Empty /\ v \notin ttl' =>
              items[v] # Empty /\ v \notin ttl
      BY <1>1, <2>1 DEF Store, StoreOK
    <2> QED
      BY <2>1, <2>2, <2>3 DEF ImmortalCartHasCause
  <1>13. CASE CrashCartService
    BY <1>4, <1>13 DEF CrashCartService, ImmortalCartHasCause
  <1> QED
    BY <1>5, <1>6, <1>7, <1>8, <1>9, <1>10, <1>11, <1>12, <1>13 DEF Next, Serve

\* ImmortalCartHasCause: without failures, a cart that could live for ever has
\* a request that will give it an expiry time.
THEOREM CartsExpire == Spec => []ImmortalCartHasCause
  <1>1. Init => CartInv /\ ImmortalCartHasCause
    BY CartInvInit DEF Init, ImmortalCartHasCause
  <1>2. CartInv /\ ImmortalCartHasCause /\ [Next]_vars
        => CartInv' /\ ImmortalCartHasCause'
    BY CartInvStep, ImmortalStep
  <1> QED
    BY <1>1, <1>2, PTL DEF Spec

-----------------------------------------------------------------------------
(* A user who waits for answers: one request at a time.                     *)

OneEach ==
    \A q, r \in Request :
        InFlight(q) /\ InFlight(r) /\ ask[q].user = ask[r].user => q = r

\* Past its reading of the cart, a checkout has seen all there is in it; it
\* deletes the cart of an order that was committed.
SeesAll(r) ==
    /\ at[r] \in {"refresh", "ordering", "clear"} =>
           \A p \in Product : items[ask[r].user][p] \in {NoItem, seen[r][p]}
    /\ at[r] = "clear" => r \in placed

SerialInv == OneEach /\ \A r \in Request : SeesAll(r)

\* Nothing changes of the other requests, nor of the users they are about.
OnlyRequest(r) ==
    \A q \in Request \ {r} :
        /\ at'[q] = at[q] /\ ask'[q] = ask[q] /\ seen'[q] = seen[q]
        /\ q \in placed' <=> q \in placed
        /\ q \in calls' <=> q \in calls
        /\ InFlight(q) =>
               /\ items'[ask[q].user] = items[ask[q].user]
               /\ ordered'[ask[q].user] = ordered[ask[q].user]
               /\ added'[ask[q].user] = added[ask[q].user]
               /\ taken'[ask[q].user] = taken[ask[q].user]

LEMMA FirstOf ==
    ASSUME NEW a \in Ask
    PROVE  First(a.op) \in {"hget", "hdel", "del", "hgetall"}
  BY Zenon DEF First

LEMMA CommandOnUser ==
    ASSUME CartInv, NEW r \in Request, Command(r)
    PROVE  \A u \in User \ {ask[r].user} :
               items'[u] = items[u] /\ added'[u] = added[u] /\ taken'[u] = taken[u]
  <1> PICK u : u = ask[r].user
    OBVIOUS
  <1>1. /\ items \in [User -> Contents]
        /\ added \in [User -> Counts] /\ taken \in [User -> Counts]
    BY DEF CartInv, StoreOK
  <1>2. \E c : items' = [items EXCEPT ![u] = c]
    BY <1>1 DEF Command, Store, SetTTL
  <1>3. \E c, d : added' = [added EXCEPT ![u] = c] /\ taken' = [taken EXCEPT ![u] = d]
    <2>1. CASE UNCHANGED <<added, taken>>
      BY <1>1, <2>1
    <2>2. CASE at[r] = "hset"
      BY <2>2 DEF Command
    <2> QED
      BY <2>1, <2>2 DEF Command
  <1> QED
    BY <1>1, <1>2, <1>3

LEMMA ServesOnly ==
    ASSUME CartInv, OneEach, NEW r \in Request,
           Arrive(r) \/ Serve(r) \/ CommandFails(r) \/ OrderUnanswered(r)
    PROVE  OnlyRequest(r)
  <1>1. /\ at \in [Request -> Point] /\ ask \in [Request -> Ask \cup {NoAsk}]
        /\ seen \in [Request -> Contents]
    BY DEF CartInv, RequestOK
  <1>2. \E point : Goto(r, point)
    BY DEF Arrive, Serve, ReadItem, WriteItem, RefreshAfterWrite, ReadCart, RefreshAfterRead,
           DeleteCart, CallOrderService, OrderAnswered, CommandFails, OrderUnanswered
  <1>3. /\ placed' = placed /\ ordered' = ordered
        /\ calls' = calls \/ calls' = calls \cup {r}
    BY DEF Arrive, Serve, ReadItem, WriteItem, RefreshAfterWrite, ReadCart, RefreshAfterRead,
           DeleteCart, CallOrderService, OrderAnswered, CommandFails, OrderUnanswered
  <1>4. \E a : ask' = [ask EXCEPT ![r] = a]
    <2>1. CASE Arrive(r)
      BY <2>1 DEF Arrive
    <2>2. CASE ask' = ask
      BY <1>1, <2>2
    <2> QED
      BY <2>1, <2>2 DEF Serve, ReadItem, WriteItem, RefreshAfterWrite, ReadCart,
           RefreshAfterRead, DeleteCart, CallOrderService, OrderAnswered, CommandFails,
           OrderUnanswered
  <1>5. \E c : seen' = [seen EXCEPT ![r] = c]
    <2>1. CASE ReadItem(r) \/ ReadCart(r)
      BY <2>1 DEF ReadItem, ReadCart
    <2>2. CASE seen' = seen
      BY <1>1, <2>2
    <2> QED
      BY <2>1, <2>2 DEF Arrive, Serve, WriteItem, RefreshAfterWrite,
           RefreshAfterRead, DeleteCart, CallOrderService, OrderAnswered, CommandFails,
           OrderUnanswered
  <1>6. ASSUME NEW q \in Request \ {r}, InFlight(q)
        PROVE  /\ items'[ask[q].user] = items[ask[q].user]
               /\ added'[ask[q].user] = added[ask[q].user]
               /\ taken'[ask[q].user] = taken[ask[q].user]
    <2>1. CASE UNCHANGED <<items, added, taken>>
      BY <2>1
    <2>2. CASE Command(r) /\ InFlight(r)
      <3>1. ask[q].user # ask[r].user
        BY <1>6, <2>2 DEF OneEach
      <3>2. ask[q].user \in User
        BY <1>6, Arrived DEF CartInv, InFlight, InFlightAt, Reading, Writing
      <3> QED
        BY <2>2, <3>1, <3>2, CommandOnUser
    <2> QED
      BY <2>1, <2>2 DEF Arrive, Serve, ReadItem, WriteItem, RefreshAfterWrite, ReadCart,
           RefreshAfterRead, DeleteCart, CallOrderService, OrderAnswered, CommandFails,
           OrderUnanswered, InFlight, InFlightAt, Reading, Writing
  <1>7. ASSUME NEW q \in Request \ {r}
        PROVE  at'[q] = at[q] /\ ask'[q] = ask[q] /\ seen'[q] = seen[q]
    BY <1>1, <1>2, <1>4, <1>5 DEF Goto
  <1> QED
    BY <1>3, <1>6, <1>7 DEF OnlyRequest

\* A user who has a request in flight sends no other.
LEMMA OneEachStep ==
    ASSUME Serial, CartInv, OneEach, NEW r \in Request, OnlyRequest(r),
           Arrive(r) \/ (InFlight(r) /\ ask'[r] = ask[r])
    PROVE  OneEach'
  <1>1. ASSUME NEW q \in Request \ {r}, InFlight(q)', InFlight(r)', ask'[q].user = ask'[r].user
        PROVE  FALSE
    <2>1. InFlight(q) /\ ask'[q] = ask[q]
      BY <1>1 DEF OnlyRequest, InFlight
    <2>2. CASE Arrive(r)
      <3>1. PICK a \in Ask : ~Busy(a.user) /\ ask' = [ask EXCEPT ![r] = a]
        BY <2>2 DEF Arrive
      <3>2. ask'[r] = a
        BY <3>1 DEF CartInv, RequestOK
      <3> QED
        BY <1>1, <2>1, <3>1, <3>2 DEF Busy
    <2>3. CASE InFlight(r) /\ ask'[r] = ask[r]
      BY <1>1, <2>1, <2>3 DEF OneEach
    <2> QED
      BY <2>2, <2>3
  <1>2. ASSUME NEW p \in Request \ {r}, NEW q \in Request \ {r},
               InFlight(p)', InFlight(q)', ask'[p].user = ask'[q].user
        PROVE  p = q
    BY <1>2 DEF OnlyRequest, InFlight, OneEach
  <1> QED
    BY <1>1, <1>2 DEF OneEach

LEMMA OthersSeeAll ==
    ASSUME SerialInv, NEW r \in Request, OnlyRequest(r), SeesAll(r)'
    PROVE  \A q \in Request : SeesAll(q)'
  BY DEF SerialInv, SeesAll, OnlyRequest, InFlight, InFlightAt, Writing

LEMMA SerialStep ==
    ASSUME Serial, CartInv, SerialInv, [Next]_vars
    PROVE  SerialInv'
  <1>0. /\ at \in [Request -> Point] /\ seen \in [Request -> Contents]
        /\ items \in [User -> Contents] /\ items' \in [User -> Contents]
        /\ placed \subseteq Request
    BY CartInvStep DEF CartInv, RequestOK, StoreOK, OrderOK
  <1>1. ASSUME NEW r \in Request,
               Arrive(r) \/ Serve(r) \/ CommandFails(r) \/ OrderUnanswered(r)
        PROVE  SerialInv'
    <2>1. OnlyRequest(r)
      BY <1>1, ServesOnly DEF SerialInv
    <2>2. Arrive(r) \/ (InFlight(r) /\ ask'[r] = ask[r])
      BY <1>1 DEF Serve, ReadItem, WriteItem, RefreshAfterWrite, ReadCart, RefreshAfterRead,
         DeleteCart, CallOrderService, OrderAnswered, CommandFails, OrderUnanswered, InFlight,
         InFlightAt, Reading, Writing
    <2>3. OneEach'
      BY <2>1, <2>2, OneEachStep DEF SerialInv
    <2>4. ASSUME NEW point, Goto(r, point) PROVE at'[r] = point
      BY <1>0, <2>4 DEF Goto
    <2>5. SeesAll(r)'
      <3>1. CASE at'[r] \notin {"refresh", "ordering", "clear"}
        BY <3>1 DEF SeesAll
      <3>2. CASE ReadCart(r)
        <4>1. seen'[r] = items[ask[r].user] /\ UNCHANGED <<items, ask>> /\ at'[r] = "refresh"
          BY <1>0, <2>4, <3>2 DEF ReadCart
        <4> QED
          BY <4>1 DEF SeesAll
      <3>3. CASE CallOrderService(r)
        <4>1. UNCHANGED <<items, ask, seen>> /\ at[r] = "refresh" /\ at'[r] # "clear"
          BY <2>4, <3>3 DEF CallOrderService, Command, SetTTL
        <4> QED
          BY <4>1 DEF SeesAll, SerialInv
      <3>4. CASE OrderAnswered(r)
        <4>1. /\ UNCHANGED <<items, ask, seen, placed>> /\ at[r] = "ordering"
              /\ at'[r] = "clear" => r \in placed
          BY <2>4, <3>4 DEF OrderAnswered
        <4> QED
          BY <4>1 DEF SeesAll, SerialInv
      <3>5. CASE Arrive(r)
        <4>1. at'[r] \in {"hget", "hdel", "del", "hgetall"}
          BY <2>4, <3>5, FirstOf DEF Arrive
        <4> QED
          BY <3>1, <4>1
      <3>6. CASE \/ ReadItem(r) \/ WriteItem(r) \/ RefreshAfterWrite(r) \/ RefreshAfterRead(r)
                 \/ DeleteCart(r) \/ CommandFails(r) \/ OrderUnanswered(r)
        <4>1. at'[r] \in {"hset", "expire", "hgetall", "done", "failed"}
          BY <2>4, <3>6 DEF ReadItem, WriteItem, RefreshAfterWrite, RefreshAfterRead, DeleteCart,
                            CommandFails, OrderUnanswered
        <4> QED
          BY <3>1, <4>1
      <3> QED
        BY <1>1, <3>2, <3>3, <3>4, <3>5, <3>6 DEF Serve
    <2> QED
      BY <2>1, <2>3, <2>5, OthersSeeAll DEF SerialInv
  <1>2. ASSUME NEW r \in Request, AcceptOrder(r) \/ RefuseOrder(r) PROVE SerialInv'
    <2>1. UNCHANGED <<items, ask, at, seen>> /\ placed \subseteq placed'
      BY <1>2 DEF AcceptOrder, RefuseOrder
    <2> QED
      BY <2>1 DEF SerialInv, OneEach, SeesAll, InFlight
  <1>3. ASSUME NEW u \in User, KeyExpires(u) PROVE SerialInv'
    <2>1. UNCHANGED <<ask, at, seen, placed>> /\ items' = [items EXCEPT ![u] = Empty]
      BY <1>3 DEF KeyExpires, Store
    <2>2. OneEach'
      BY <2>1 DEF SerialInv, OneEach, InFlight
    <2>3. ASSUME NEW r \in Request, at[r] \in {"refresh", "ordering", "clear"}, NEW p \in Product
          PROVE  items'[ask[r].user][p] \in {NoItem, seen[r][p]}
      <3>1. ask[r].user \in User
        BY <2>3, Arrived DEF CartInv
      <3>2. items[ask[r].user][p] \in {NoItem, seen[r][p]}
        BY <2>3 DEF SerialInv, SeesAll
      <3>3. items'[ask[r].user][p] \in {items[ask[r].user][p], NoItem}
        BY <1>0, <2>1, <2>3, <3>1 DEF Empty
      <3> QED
        BY <3>2, <3>3
    <2> QED
      BY <2>1, <2>2, <2>3 DEF SerialInv, SeesAll
  <1>4. CASE CrashCartService
    <2>1. \A r \in Request : ~InFlight(r)'
      <3>1. at' = [r \in Request |-> IF InFlight(r) THEN "failed" ELSE at[r]]
        BY <1>4 DEF CrashCartService
      <3> QED
        BY <3>1 DEF InFlight, InFlightAt, Reading, Writing
    <2> QED
      BY <2>1 DEF SerialInv, OneEach, SeesAll, InFlight, InFlightAt, Writing
  <1>5. CASE UNCHANGED vars
    BY <1>5 DEF SerialInv, OneEach, SeesAll, InFlight
  <1> QED
    BY <1>1, <1>2, <1>3, <1>4, <1>5 DEF Next

LEMMA SerialInit == Init => SerialInv
  BY DEF Init, SerialInv, OneEach, SeesAll, InFlight, InFlightAt, Reading, Writing

\* When a user waits for answers, what a checkout deletes is in an order that
\* was committed, whatever failed on the way.
THEOREM OnlyOrderedIsCleared ==
    ASSUME Serial
    PROVE  Spec => ClearsOnlyWhatWasOrdered
  <1>1. CartInv /\ SerialInv /\ [Next]_vars => SerialInv'
    BY SerialStep
  <1>2. CartInv /\ [Next]_vars => CartInv'
    BY CartInvStep
  <1>3. SerialInv =>
            [\A r \in Request :
                 at[r] = "clear" /\ at'[r] = "done" =>
                     /\ r \in placed
                     /\ \A p \in Product :
                            items[ask[r].user][p] \in {NoItem, seen[r][p]}]_vars
    BY DEF SerialInv, SeesAll
  <1> QED
    BY <1>1, <1>2, <1>3, CartInvInit, SerialInit, PTL DEF Spec, ClearsOnlyWhatWasOrdered

-----------------------------------------------------------------------------
(* What was ordered and what is in the cart had been added, until a fault.  *)

\* The additions account for the orders and what a request that is to write
\* back, or to order, has seen.
Unordered(r) ==
    /\ r \in calls => at[r] = "ordering"
    /\ at[r] = "hset" =>
           Covered(ask[r].user, ask[r].product,
                   ordered[ask[r].user][ask[r].product] + Amount(seen[r], ask[r].product))
    /\ at[r] \in {"refresh", "ordering"} /\ r \notin placed =>
           \A p \in Product :
               Covered(ask[r].user, p, ordered[ask[r].user][p] + Amount(seen[r], p))

Balanced(u) ==
    \A p \in Product :
        /\ Covered(u, p, ordered[u][p])
        /\ Pending(u) \/ Covered(u, p, ordered[u][p] + Amount(items[u], p))

LedgerInv ==
    NoFaults => (\A r \in Request : Unordered(r)) /\ (\A u \in User : Balanced(u))

LEMMA LedgerSuffices == LedgerInv => RepeatHasCause
  BY DEF LedgerInv, Balanced, Pending, RepeatHasCause

\* A user with a request in flight has no other.
LEMMA PendingIsPlaced ==
    ASSUME CartInv, OneEach, NEW r \in Request, InFlight(r), NEW u, u = ask[r].user
    PROVE  Pending(u) <=> r \in placed
  BY DEF Pending, OneEach, CartInv, OrderOK

\* Only the user of a request gains or loses by its steps.
LEMMA LedgerOfOne ==
    ASSUME CartInv, CartInv', NEW r \in Request, OnlyRequest(r), NEW u \in User,
           \A q \in Request : Unordered(q), \A v \in User : Balanced(v),
           \A v \in User \ {u} :
               /\ items'[v] = items[v] /\ ordered'[v] = ordered[v]
               /\ added'[v] = added[v] /\ taken'[v] = taken[v],
           InFlight(r) => ask[r].user = u, Unordered(r)', Balanced(u)'
    PROVE  (\A q \in Request : Unordered(q)') /\ (\A v \in User : Balanced(v)')
  <1>1. ASSUME NEW q \in Request \ {r} PROVE Unordered(q)'
    <2>1. Unordered(q)
      OBVIOUS
    <2>2. at[q] \in {"hset", "refresh", "ordering"} => InFlight(q)
      BY DEF InFlight, InFlightAt, Writing
    <2>3. /\ at'[q] = at[q] /\ ask'[q] = ask[q] /\ seen'[q] = seen[q]
          /\ q \in placed' <=> q \in placed
          /\ q \in calls' <=> q \in calls
      BY DEF OnlyRequest
    <2>4. CASE at[q] \notin {"hset", "refresh", "ordering"}
      BY <2>1, <2>3, <2>4 DEF Unordered
    <2>5. CASE at[q] \in {"hset", "refresh", "ordering"}
      <3>1. /\ ordered'[ask[q].user] = ordered[ask[q].user]
            /\ added'[ask[q].user] = added[ask[q].user]
            /\ taken'[ask[q].user] = taken[ask[q].user]
        BY <2>2, <2>5 DEF OnlyRequest
      <3>2. CASE at[q] = "hset"
        <4>1. Covered(ask[q].user, ask[q].product,
                      ordered[ask[q].user][ask[q].product] + Amount(seen[q], ask[q].product))
          BY <2>1, <3>2 DEF Unordered
        <4>2. Covered(ask[q].user, ask[q].product,
                      ordered[ask[q].user][ask[q].product] + Amount(seen[q], ask[q].product))'
          BY <2>3, <3>1, <4>1 DEF Covered, Amount
        <4> QED
          BY <2>1, <2>3, <3>2, <4>2 DEF Unordered
      <3>3. CASE at[q] \in {"refresh", "ordering"}
        <4>1. ASSUME NEW p \in Product, q \notin placed
              PROVE  Covered(ask[q].user, p, ordered[ask[q].user][p] + Amount(seen[q], p))'
          <5>1. Covered(ask[q].user, p, ordered[ask[q].user][p] + Amount(seen[q], p))
            BY <2>1, <3>3, <4>1 DEF Unordered
          <5> QED
            BY <2>3, <3>1, <5>1 DEF Covered, Amount
        <4> QED
          BY <2>1, <2>3, <3>3, <4>1 DEF Unordered
      <3> QED
        BY <2>5, <3>2, <3>3
    <2> QED
      BY <2>4, <2>5
  <1>2. ASSUME NEW v \in User \ {u} PROVE Balanced(v)'
    <2>1. Pending(v) => Pending(v)'
      <3>1. SUFFICES ASSUME NEW q \in placed, ask[q].user = v, InFlight(q)
                     PROVE  Pending(v)'
        BY DEF Pending
      <3>2. q \in Request \ {r}
        BY <3>1 DEF CartInv, OrderOK
      <3> QED
        BY <3>1, <3>2 DEF Pending, OnlyRequest, InFlight
    <2>2. /\ Balanced(v) /\ items'[v] = items[v] /\ ordered'[v] = ordered[v]
          /\ added'[v] = added[v] /\ taken'[v] = taken[v]
      OBVIOUS
    <2> QED
      BY <2>1, <2>2 DEF Balanced, Covered, Amount
  <1> QED
    BY <1>1, <1>2

\* All quantities are numbers.
LEMMA Quantities ==
    ASSUME CartInv
    PROVE  /\ \A u \in User, p \in Product :
                  /\ Amount(items[u], p) \in Int /\ ordered[u][p] \in Int
                  /\ added[u][p] \in Nat /\ taken[u][p] \in Nat
           /\ \A r \in Request, p \in Product : Amount(seen[r], p) \in Int
  BY AmountType DEF CartInv, StoreOK, OrderOK, RequestOK, Sums, Counts

LEMMA LedgerArrive ==
    ASSUME CartInv, SerialInv, \A q \in Request : Unordered(q), \A v \in User : Balanced(v),
           NEW r \in Request, Arrive(r)
    PROVE  Unordered(r)' /\ \A v \in User : Balanced(v)'
  <1>1. PICK a \in Ask : ask' = [ask EXCEPT ![r] = a] /\ Goto(r, First(a.op))
    BY DEF Arrive
  <1>2. /\ at'[r] \in {"hget", "hdel", "del", "hgetall"} /\ at[r] = "unused"
        /\ UNCHANGED <<items, ordered, added, taken, calls, placed>>
    BY <1>1, FirstOf DEF Arrive, Goto, CartInv, RequestOK
  <1>3. Unordered(r)'
    BY <1>2 DEF Unordered
  <1>4. ASSUME NEW v \in User, Pending(v) PROVE Pending(v)'
    <2>1. PICK q \in placed : ask[q].user = v /\ InFlight(q)
      BY <1>4 DEF Pending
    <2>2. q # r /\ q \in Request
      BY <1>2, <2>1 DEF InFlight, InFlightAt, Reading, Writing, CartInv, OrderOK
    <2>3. ask'[q] = ask[q] /\ at'[q] = at[q]
      BY <1>1, <2>2 DEF Goto, CartInv, RequestOK
    <2> QED
      BY <1>2, <2>1, <2>3 DEF Pending, InFlight
  <1> QED
    BY <1>2, <1>3, <1>4 DEF Balanced, Covered, Amount

\* The steps that leave the stored quantities alone.
LEMMA LedgerReads ==
    ASSUME CartInv, SerialInv, \A q \in Request : Unordered(q), \A v \in User : Balanced(v),
           NEW r \in Request, NEW u, u = ask[r].user,
           ReadItem(r) \/ RefreshAfterWrite(r) \/ ReadCart(r) \/ RefreshAfterRead(r)
    PROVE  Unordered(r)' /\ Balanced(u)'
  <1>1. /\ InFlight(r) /\ at[r] \notin Ordering
        /\ UNCHANGED <<items, added, taken, ordered, ask, calls, placed>>
    BY DEF ReadItem, RefreshAfterWrite, ReadCart, RefreshAfterRead, Command, SetTTL, InFlight,
           InFlightAt, Reading, Writing, Ordering
  <1>2. r \notin placed /\ r \notin calls /\ u \in User
    BY <1>1, Arrived DEF CartInv, OrderOK, InFlight, InFlightAt, Reading, Writing
  <1>3. \A p \in Product : /\ Covered(u, p, ordered[u][p])
                           /\ Covered(u, p, ordered[u][p] + Amount(items[u], p))
    BY <1>1, <1>2, PendingIsPlaced DEF SerialInv, Balanced
  <1>4. Balanced(u)'
    BY <1>1, <1>3 DEF Balanced, Covered, Amount
  <1>5. Unordered(r)'
    <2>1. CASE ReadItem(r)
      <3> PICK p : p = ask[r].product
        OBVIOUS
      <3>1. p \in Product
        BY <2>1, Arrived DEF ReadItem, CartInv
      <3>2. seen'[r][p] = items[u][p] /\ at'[r] = "hset"
        BY <2>1, <3>1 DEF ReadItem, Goto, CartInv, RequestOK, Empty
      <3> QED
        BY <1>1, <1>2, <1>3, <3>1, <3>2 DEF Unordered, Covered, Amount
    <2>2. CASE ReadCart(r)
      <3>1. seen'[r] = items[u] /\ at'[r] = "refresh"
        BY <2>2 DEF ReadCart, Goto, CartInv, RequestOK
      <3> QED
        BY <1>1, <1>2, <1>3, <3>1 DEF Unordered, Covered, Amount
    <2>3. CASE RefreshAfterWrite(r) \/ RefreshAfterRead(r)
      <3>1. at'[r] \in {"hgetall", "done"}
        BY <2>3 DEF RefreshAfterWrite, RefreshAfterRead, Goto, CartInv, RequestOK
      <3> QED
        BY <1>1, <1>2, <3>1 DEF Unordered
    <2> QED
      BY <2>1, <2>2, <2>3
  <1> QED
    BY <1>4, <1>5

\* Arithmetic of an addition: o was ordered, k read, n is added; the additions
\* so far come to a and t, this one to i and j.
LEMMA SumsBounded ==
    ASSUME NEW o \in Int, NEW k \in Int, NEW n \in Int, NEW a \in Nat, NEW t \in Nat,
           NEW i \in Nat, NEW j \in Nat,
           o <= a, -o <= t, o + k <= a, -(o + k) <= t, n <= i, -n <= j
    PROVE  /\ o <= a + i /\ -o <= t + j
           /\ o + (k + n) <= a + i /\ -(o + (k + n)) <= t + j
  <1>1. o <= a + i
    OBVIOUS
  <1>2. -o <= t + j
    OBVIOUS
  <1>3. o + (k + n) <= a + i
    OBVIOUS
  <1>4. -(o + (k + n)) <= t + j
    OBVIOUS
  <1> QED
    BY <1>1, <1>2, <1>3, <1>4

\* A cart that only loses fields stays balanced.
LEMMA BalancedAfterLoss ==
    ASSUME CartInv, NEW u \in User, UNCHANGED <<added, taken, ordered>>,
           \A p \in Product :
               /\ Covered(u, p, ordered[u][p])
               /\ Covered(u, p, ordered[u][p] + Amount(items[u], p)) \/ Pending(u)'
               /\ items'[u][p] \in {items[u][p], NoItem}
    PROVE  Balanced(u)'
  <1> SUFFICES ASSUME NEW p \in Product
               PROVE  /\ Covered(u, p, ordered[u][p])'
                      /\ Pending(u)' \/ Covered(u, p, ordered[u][p] + Amount(items[u], p))'
    BY DEF Balanced
  <1>1. Covered(u, p, ordered[u][p])'
    BY DEF Covered
  <1>2. ordered[u][p] \in Int /\ ordered[u][p] + 0 = ordered[u][p]
    BY Quantities
  <1>3. Amount(items[u], p)' \in {Amount(items[u], p), 0}
    BY DEF Amount
  <1> QED
    BY <1>1, <1>2, <1>3 DEF Covered

LEMMA LedgerWriteItem ==
    ASSUME CartInv, SerialInv, \A q \in Request : Unordered(q), \A v \in User : Balanced(v),
           NEW r \in Request, NEW u, u = ask[r].user, WriteItem(r)
    PROVE  Unordered(r)' /\ Balanced(u)'
  <1> PICK p, n : p = ask[r].product /\ n = ask[r].quantity
    OBVIOUS
  <1>1. /\ InFlight(r) /\ at[r] \in {"hset", "hdel"} /\ Command(r)
        /\ UNCHANGED <<ordered, ask, calls, placed, seen>>
    BY DEF WriteItem, InFlight, InFlightAt, Reading, Writing
  <1>2. r \notin placed /\ r \notin calls /\ u \in User /\ p \in Product /\ n \in Int
    BY <1>1, Arrived DEF CartInv, OrderOK, Ordering
  <1>3. Unordered(r)'
    <2>1. at'[r] = "expire"
      BY DEF WriteItem, Goto, CartInv, RequestOK
    <2> QED
      BY <1>1, <1>2, <2>1 DEF Unordered
  <1>4. \A x \in Product : /\ Covered(u, x, ordered[u][x])
                           /\ Covered(u, x, ordered[u][x] + Amount(items[u], x))
    BY <1>1, <1>2, PendingIsPlaced DEF SerialInv, Balanced
  <1>5. /\ items[u] \in Contents /\ items \in [User -> Contents]
        /\ added \in [User -> Counts] /\ taken \in [User -> Counts]
    BY <1>2 DEF CartInv, StoreOK
  <1>6. CASE at[r] = "hset"
    <2> PICK k : k = Amount(seen[r], p)
      OBVIOUS
    <2>1. /\ items' = [items EXCEPT ![u] = [items[u] EXCEPT ![p] = k + n]]
          /\ added' = [added EXCEPT ![u][p] = @ + Positive(n)]
          /\ taken' = [taken EXCEPT ![u][p] = @ + Positive(-n)]
      BY <1>1, <1>6 DEF Command, Store, NewQuantity
    <2>2. /\ items'[u][p] = k + n
          /\ added'[u][p] = added[u][p] + Positive(n)
          /\ taken'[u][p] = taken[u][p] + Positive(-n)
          /\ \A x \in Product \ {p} :
                 /\ items'[u][x] = items[u][x]
                 /\ added'[u][x] = added[u][x] /\ taken'[u][x] = taken[u][x]
      BY <1>2, <1>5, <2>1 DEF Contents, Counts
    <2>3. /\ ordered[u][p] \in Int /\ added[u][p] \in Nat /\ taken[u][p] \in Nat
          /\ k \in Int /\ n \in Int /\ k + n # NoItem
      <3>1. k \in Int
        BY <1>2, Quantities
      <3> QED
        BY <1>2, <3>1, Quantities, CartConstants
    <2>4. Covered(u, p, ordered[u][p]) /\ Covered(u, p, ordered[u][p] + k)
      BY <1>2, <1>4, <1>6 DEF Unordered
    <2>5. /\ Positive(n) \in Nat /\ n <= Positive(n)
          /\ Positive(-n) \in Nat /\ -n <= Positive(-n)
      BY <2>3 DEF Positive
    <2>6. Amount(items[u], p)' = k + n
      BY <2>2, <2>3 DEF Amount
    <2>7. /\ ordered[u][p] <= added'[u][p] /\ -ordered[u][p] <= taken'[u][p]
          /\ ordered[u][p] + (k + n) <= added'[u][p]
          /\ -(ordered[u][p] + (k + n)) <= taken'[u][p]
      <3> PICK o, a, t, i, j : /\ o = ordered[u][p] /\ a = added[u][p] /\ t = taken[u][p]
                               /\ i = Positive(n) /\ j = Positive(-n)
        OBVIOUS
      <3>1. /\ o <= a /\ -o <= t /\ o + k <= a /\ -(o + k) <= t
            /\ i \in Nat /\ n <= i /\ j \in Nat /\ -n <= j
            /\ o \in Int /\ a \in Nat /\ t \in Nat /\ k \in Int /\ n \in Int
        BY <2>3, <2>4, <2>5 DEF Covered
      <3>2. added'[u][p] = a + i /\ taken'[u][p] = t + j
        BY <2>2
      <3>3. /\ o <= a + i /\ -o <= t + j
            /\ o + (k + n) <= a + i /\ -(o + (k + n)) <= t + j
        BY <3>1, SumsBounded
      <3> QED
        BY <3>2, <3>3
    <2>8. ASSUME NEW x \in Product
          PROVE  /\ Covered(u, x, ordered[u][x])'
                 /\ Covered(u, x, ordered[u][x] + Amount(items[u], x))'
      <3>1. CASE x = p
        BY <1>1, <2>6, <2>7, <3>1 DEF Covered
      <3>2. CASE x # p
        <4>1. Amount(items[u], x)' = Amount(items[u], x)
          BY <2>2, <3>2 DEF Amount
        <4> QED
          BY <1>1, <1>4, <2>2, <3>2, <4>1 DEF Covered
      <3> QED
        BY <3>1, <3>2
    <2>9. u' = u
      OBVIOUS
    <2> QED
      BY <1>3, <2>8 DEF Balanced
  <1>7. CASE at[r] = "hdel"
    <2>1. /\ items' = [items EXCEPT ![u] = [items[u] EXCEPT ![p] = NoItem]]
          /\ UNCHANGED <<added, taken>>
      BY <1>1, <1>7 DEF Command, Store
    <2>2. \A x \in Product : items'[u][x] \in {items[u][x], NoItem}
      BY <1>2, <1>5, <2>1 DEF Contents
    <2> QED
      BY <1>1, <1>2, <1>3, <1>4, <2>1, <2>2, BalancedAfterLoss
  <1> QED
    BY <1>1, <1>6, <1>7

LEMMA LedgerDelete ==
    ASSUME CartInv, SerialInv, \A q \in Request : Unordered(q), \A v \in User : Balanced(v),
           NEW r \in Request, NEW u, u = ask[r].user, DeleteCart(r)
    PROVE  Unordered(r)' /\ Balanced(u)'
  <1>1. /\ at[r] \in {"del", "clear"} /\ at'[r] = "done" /\ Command(r)
        /\ UNCHANGED <<ordered, ask, calls, placed, seen>>
    BY DEF DeleteCart, Goto, CartInv, RequestOK
  <1>2. u \in User
    BY <1>1, Arrived DEF CartInv
  <1>3. r \notin calls
    BY <1>1 DEF Unordered
  <1>4. items' = [items EXCEPT ![u] = Empty] /\ UNCHANGED <<added, taken>>
    BY <1>1 DEF Command, Store
  <1>5. \A p \in Product : items'[u][p] = NoItem
    BY <1>2, <1>4 DEF CartInv, StoreOK, Empty
  <1>6. ASSUME NEW p \in Product
        PROVE  /\ Covered(u, p, ordered[u][p])'
               /\ Covered(u, p, ordered[u][p] + Amount(items[u], p))'
    <2>1. Covered(u, p, ordered[u][p]) /\ ordered[u][p] \in Int
      BY <1>2, Quantities DEF Balanced
    <2>2. Amount(items[u], p)' = 0 /\ ordered[u][p] + 0 = ordered[u][p]
      BY <1>5, <2>1 DEF Amount
    <2> QED
      BY <1>1, <1>4, <2>1, <2>2 DEF Covered
  <1>8. Balanced(u)'
    BY <1>6 DEF Balanced
  <1>9. Unordered(r)'
    BY <1>1, <1>3 DEF Unordered
  <1> QED
    BY <1>8, <1>9

LEMMA LedgerCheckout ==
    ASSUME CartInv, SerialInv, \A q \in Request : Unordered(q), \A v \in User : Balanced(v),
           NEW r \in Request, NEW u, u = ask[r].user, CallOrderService(r) \/ OrderAnswered(r)
    PROVE  Unordered(r)' /\ Balanced(u)'
  <1>1. /\ InFlight(r) /\ at[r] \in {"refresh", "ordering"}
        /\ UNCHANGED <<items, added, taken, ordered, ask, seen, placed>>
    BY DEF CallOrderService, OrderAnswered, Command, SetTTL, InFlight, InFlightAt, Writing
  <1>2. u \in User
    BY <1>1, Arrived DEF CartInv
  <1>3. Unordered(r)'
    <2>1. CASE CallOrderService(r)
      <3>1. /\ at[r] = "refresh"
            /\ at'[r] = "ordering" \/ (at'[r] = "failed" /\ calls' = calls)
        BY <2>1 DEF CallOrderService, Goto, CartInv, RequestOK
      <3>2. r \notin calls /\ r \notin placed
        BY <3>1 DEF CartInv, OrderOK, Ordering
      <3> QED
        BY <1>1, <3>1, <3>2 DEF Unordered, Covered, Amount
    <2>2. CASE OrderAnswered(r)
      <3>1. at'[r] \in {"clear", "failed"} /\ r \notin calls /\ calls' = calls
        BY <2>2 DEF OrderAnswered, Goto, CartInv, RequestOK
      <3> QED
        BY <3>1 DEF Unordered
    <2> QED
      BY <2>1, <2>2
  <1>4. Balanced(u)'
    <2>1. Pending(u) => Pending(u)'
      <3>1. SUFFICES ASSUME r \in placed PROVE InFlight(r)'
        BY <1>1, PendingIsPlaced DEF SerialInv, Pending
      <3>2. OrderAnswered(r) /\ at'[r] = "clear"
        BY <3>1 DEF CallOrderService, OrderAnswered, Goto, CartInv, RequestOK, OrderOK, Ordering
      <3> QED
        BY <3>2 DEF InFlight, InFlightAt, Writing
    <2>2. Balanced(u)
      BY <1>2
    <2> QED
      BY <1>1, <2>1, <2>2 DEF Balanced, Covered, Amount
  <1> QED
    BY <1>3, <1>4

\* The order service commits: what the checkout has seen leaves the cart.
LEMMA LedgerAccept ==
    ASSUME CartInv, SerialInv, \A q \in Request : Unordered(q), \A v \in User : Balanced(v),
           NEW r \in Request, NEW u, u = ask[r].user, AcceptOrder(r)
    PROVE  /\ OnlyRequest(r) /\ Unordered(r)' /\ Balanced(u)'
           /\ \A v \in User \ {u} : ordered'[v] = ordered[v]
  <1>1. /\ r \in calls /\ calls' = calls \ {r} /\ placed' = placed \cup {r}
        /\ ordered' = [ordered EXCEPT ![u] =
                          [p \in Product |-> @[p] + Amount(seen[r], p)]]
        /\ UNCHANGED <<items, added, taken, ask, seen, at>>
    BY DEF AcceptOrder
  <1>2. /\ at[r] = "ordering" /\ r \notin placed /\ InFlight(r)
    BY <1>1 DEF Unordered, CartInv, OrderOK, InFlight, InFlightAt
  <1>3. u \in User /\ ordered \in [User -> Sums]
    BY <1>2, Arrived DEF CartInv, OrderOK
  <1>4. /\ \A p \in Product : ordered'[u][p] = ordered[u][p] + Amount(seen[r], p)
        /\ \A v \in User \ {u} : ordered'[v] = ordered[v]
    BY <1>1, <1>3
  <1>5. \A p \in Product : Covered(u, p, ordered[u][p] + Amount(seen[r], p))
    BY <1>2 DEF Unordered
  <1>6. Pending(u)'
    BY <1>1, <1>2 DEF Pending, InFlight
  <1>7. Balanced(u)'
    BY <1>1, <1>4, <1>5, <1>6 DEF Balanced, Covered, Amount
  <1>8. Unordered(r)'
    BY <1>1, <1>2 DEF Unordered
  <1>9. OnlyRequest(r)
    <2>1. ASSUME NEW q \in Request \ {r}, InFlight(q)
          PROVE  ordered'[ask[q].user] = ordered[ask[q].user]
      <3>1. ask[q].user # u
        BY <1>2, <2>1 DEF SerialInv, OneEach
      <3>2. ask[q].user \in User
        BY <2>1, Arrived DEF CartInv, InFlight, InFlightAt, Reading, Writing
      <3> QED
        BY <1>4, <3>1, <3>2
    <2> QED
      BY <1>1, <2>1 DEF OnlyRequest
  <1> QED
    BY <1>4, <1>7, <1>8, <1>9

LEMMA LedgerServe ==
    ASSUME CartInv, CartInv', SerialInv, \A q \in Request : Unordered(q),
           \A v \in User : Balanced(v), NEW r \in Request, Serve(r)
    PROVE  (\A q \in Request : Unordered(q)') /\ (\A v \in User : Balanced(v)')
  <1> PICK u : u = ask[r].user
    OBVIOUS
  <1>1. InFlight(r) /\ UNCHANGED ordered
    BY DEF Serve, ReadItem, WriteItem, RefreshAfterWrite, ReadCart, RefreshAfterRead,
           DeleteCart, CallOrderService, OrderAnswered, InFlight, InFlightAt, Reading, Writing
  <1>2. u \in User
    BY <1>1, Arrived DEF CartInv, InFlight, InFlightAt, Reading, Writing
  <1>3. OnlyRequest(r)
    BY ServesOnly DEF SerialInv
  <1>4. \A v \in User \ {u} : items'[v] = items[v] /\ added'[v] = added[v] /\ taken'[v] = taken[v]
    <2>1. CASE UNCHANGED <<items, added, taken>>
      BY <2>1
    <2>2. CASE Command(r)
      BY <2>2, CommandOnUser
    <2> QED
      BY <2>1, <2>2 DEF Serve, ReadItem, WriteItem, RefreshAfterWrite, ReadCart,
           RefreshAfterRead, DeleteCart, CallOrderService, OrderAnswered
  <1>5. Unordered(r)' /\ Balanced(u)'
    BY LedgerReads, LedgerWriteItem, LedgerDelete, LedgerCheckout DEF Serve
  <1> QED
    BY <1>1, <1>2, <1>3, <1>4, <1>5, LedgerOfOne

LEMMA LedgerStep ==
    ASSUME CartInv, SerialInv, LedgerInv, [Next]_vars
    PROVE  LedgerInv'
  <1>0. CartInv'
    BY CartInvStep
  <1>1. ASSUME Fault("error") \/ Fault("crash") PROVE ~NoFaults'
    BY <1>1 DEF NoFaults, Fault, CartInv, FaultsOK
  <1>2. SUFFICES ASSUME NoFaults'
                 PROVE  (\A q \in Request : Unordered(q)') /\ (\A v \in User : Balanced(v)')
    BY DEF LedgerInv
  <1>3. NoFaults
    <2>1. faults' = faults \/ \E kind \in {"expiry", "error", "crash"} : Fault(kind)
      BY DEF Next, Arrive, Serve, ReadItem, WriteItem, RefreshAfterWrite, ReadCart,
             RefreshAfterRead, DeleteCart, CallOrderService, OrderAnswered, AcceptOrder,
             RefuseOrder, OrderUnanswered, CommandFails, KeyExpires, CrashCartService
    <2> QED
      BY <1>2, <2>1 DEF NoFaults, Fault, CartInv, FaultsOK
  <1>4. (\A q \in Request : Unordered(q)) /\ (\A v \in User : Balanced(v))
    BY <1>3 DEF LedgerInv
  <1>5. ASSUME NEW r \in Request, Arrive(r)
        PROVE  (\A q \in Request : Unordered(q)') /\ (\A v \in User : Balanced(v)')
    <2>1. Unordered(r)' /\ \A v \in User : Balanced(v)'
      BY <1>4, <1>5, LedgerArrive
    <2>2. OnlyRequest(r)
      BY <1>5, ServesOnly DEF SerialInv
    <2>3. ASSUME NEW q \in Request \ {r} PROVE Unordered(q)'
      BY <1>4, <2>2 DEF Unordered, OnlyRequest, InFlight, InFlightAt, Writing, Covered, Amount
    <2> QED
      BY <2>1, <2>3
  <1>6. ASSUME NEW r \in Request, Serve(r)
        PROVE  (\A q \in Request : Unordered(q)') /\ (\A v \in User : Balanced(v)')
    BY <1>0, <1>4, <1>6, LedgerServe
  <1>7. ASSUME NEW r \in Request, AcceptOrder(r)
        PROVE  (\A q \in Request : Unordered(q)') /\ (\A v \in User : Balanced(v)')
    <2> PICK u : u = ask[r].user
      OBVIOUS
    <2>1. /\ OnlyRequest(r) /\ Unordered(r)' /\ Balanced(u)'
          /\ \A v \in User \ {u} : ordered'[v] = ordered[v]
      BY <1>4, <1>7, LedgerAccept
    <2>2. UNCHANGED <<items, added, taken>> /\ u \in User
      BY <1>7, Arrived DEF AcceptOrder, CartInv, OrderOK, Ordering
    <2> QED
      BY <1>0, <1>4, <2>1, <2>2, LedgerOfOne
  <1>8. ASSUME NEW u \in User, KeyExpires(u)
        PROVE  (\A q \in Request : Unordered(q)') /\ (\A v \in User : Balanced(v)')
    <2>1. /\ UNCHANGED <<ask, seen, at, added, taken, ordered, calls, placed>>
          /\ items' = [items EXCEPT ![u] = Empty]
      BY <1>8 DEF KeyExpires, Store
    <2>2. \A q \in Request : Unordered(q)'
      BY <1>4, <2>1 DEF Unordered, Covered, Amount
    <2>3. ASSUME NEW v \in User PROVE Balanced(v)'
      <3>1. \A p \in Product : items'[v][p] \in {items[v][p], NoItem}
        BY <2>1 DEF CartInv, StoreOK, Empty
      <3>2. Pending(v)' <=> Pending(v)
        BY <2>1 DEF Pending, InFlight
      <3> QED
        BY <1>4, <2>1, <3>1, <3>2, BalancedAfterLoss DEF Balanced
    <2> QED
      BY <2>2, <2>3
  <1>9. CASE UNCHANGED vars
    BY <1>4, <1>9 DEF Unordered, Balanced, Pending, InFlight, Covered, Amount
  <1> QED
    BY <1>1, <1>2, <1>5, <1>6, <1>7, <1>8, <1>9
    DEF Next, RefuseOrder, OrderUnanswered, CommandFails, CrashCartService

LEMMA LedgerInit == Init => LedgerInv
  BY DEF Init, LedgerInv, Unordered, Balanced, Covered, Amount, Empty, Zero

\* When a user waits for answers, and until something fails, what was ordered is
\* still in the cart only while its checkout is about to delete it.
THEOREM RepeatsHaveCause ==
    ASSUME Serial
    PROVE  Spec => []RepeatHasCause
  <1>1. CartInv /\ SerialInv /\ [Next]_vars => SerialInv'
    BY SerialStep
  <1>2. CartInv /\ [Next]_vars => CartInv'
    BY CartInvStep
  <1>3. CartInv /\ SerialInv /\ LedgerInv /\ [Next]_vars => LedgerInv'
    BY LedgerStep
  <1> QED
    BY <1>1, <1>2, <1>3, CartInvInit, SerialInit, LedgerInit, LedgerSuffices, PTL DEF Spec

-----------------------------------------------------------------------------
(* The atomic cart, up to the first fault or expiry.                        *)

\* Nobody changes a cart between the reading and the writing of a request.
Exact(r) ==
    /\ at[r] = "hset" => seen[r][ask[r].product] = items[ask[r].user][ask[r].product]
    /\ at[r] \in {"refresh", "ordering", "clear"} => seen[r] = items[ask[r].user]
    /\ at[r] = "ordering" => seen[r] # Empty

ExactInv == Undisturbed => \A r \in Request : Exact(r)

\* What the user sees: a cart that is ordered is empty.
Shown == [u \in User |-> IF Pending(u) THEN Empty ELSE items[u]]

LEMMA StaysUndisturbed ==
    ASSUME CartInv, [Next]_vars, Undisturbed'
    PROVE  /\ Undisturbed
           /\ \/ UNCHANGED vars
              \/ \E r \in Request : Arrive(r) \/ Serve(r) \/ AcceptOrder(r)
  <1>1. ASSUME Fault("error") \/ Fault("crash") \/ Fault("expiry") PROVE ~Undisturbed'
    BY <1>1 DEF Undisturbed, NoFaults, Fault, CartInv, FaultsOK
  <1>2. \/ UNCHANGED vars
        \/ \E r \in Request : Arrive(r) \/ Serve(r) \/ AcceptOrder(r)
    BY <1>1 DEF Next, RefuseOrder, OrderUnanswered, CommandFails, KeyExpires, CrashCartService
  <1>3. UNCHANGED faults
    BY <1>2 DEF Arrive, Serve, ReadItem, WriteItem, RefreshAfterWrite, ReadCart,
                RefreshAfterRead, DeleteCart, CallOrderService, OrderAnswered, AcceptOrder
  <1> QED
    BY <1>2, <1>3 DEF Undisturbed, NoFaults

LEMMA ExactStep ==
    ASSUME CartInv, SerialInv, ExactInv, [Next]_vars
    PROVE  ExactInv'
  <1> SUFFICES ASSUME Undisturbed'
               PROVE  \A q \in Request : Exact(q)'
    BY DEF ExactInv
  <1>1. \A q \in Request : Exact(q)
    BY StaysUndisturbed DEF ExactInv
  <1>2. /\ at \in [Request -> Point] /\ seen \in [Request -> Contents]
    BY DEF CartInv, RequestOK
  <1>3. ASSUME NEW r \in Request, NEW point, Goto(r, point) PROVE at'[r] = point
    BY <1>2, <1>3 DEF Goto
  <1>4. CASE UNCHANGED vars
    BY <1>1, <1>4 DEF Exact
  <1>5. ASSUME NEW r \in Request, AcceptOrder(r) PROVE \A q \in Request : Exact(q)'
    BY <1>1, <1>5 DEF Exact, AcceptOrder
  <1>6. ASSUME NEW r \in Request, Arrive(r) \/ Serve(r) PROVE \A q \in Request : Exact(q)'
    <2>1. OnlyRequest(r)
      BY <1>6, ServesOnly DEF SerialInv
    <2>2. \A q \in Request \ {r} : Exact(q)'
      BY <1>1, <2>1 DEF Exact, OnlyRequest, InFlight, InFlightAt, Writing
    <2>3. Exact(r)'
      <3>1. CASE at'[r] \notin {"hset", "refresh", "ordering", "clear"}
        BY <3>1 DEF Exact
      <3>2. CASE ReadItem(r)
        <4> PICK p, u : p = ask[r].product /\ u = ask[r].user
          OBVIOUS
        <4>1. p \in Product
          BY <3>2, Arrived DEF ReadItem, CartInv
        <4>2. seen'[r][p] = items[u][p] /\ at'[r] = "hset" /\ UNCHANGED <<items, ask>>
          BY <1>2, <1>3, <3>2, <4>1 DEF ReadItem, Empty
        <4> QED
          BY <4>2 DEF Exact
      <3>3. CASE ReadCart(r)
        <4>1. seen'[r] = items[ask[r].user] /\ at'[r] = "refresh" /\ UNCHANGED <<items, ask>>
          BY <1>2, <1>3, <3>3 DEF ReadCart
        <4> QED
          BY <4>1 DEF Exact
      <3>4. CASE CallOrderService(r)
        <4>1. /\ at[r] = "refresh" /\ UNCHANGED <<items, ask, seen>>
              /\ at'[r] = "failed" \/ (at'[r] = "ordering" /\ seen[r] # Empty)
          BY <1>3, <3>4 DEF CallOrderService, Command, SetTTL
        <4> QED
          BY <1>1, <4>1 DEF Exact
      <3>5. CASE OrderAnswered(r)
        <4>1. /\ at[r] = "ordering" /\ UNCHANGED <<items, ask, seen>>
              /\ at'[r] \in {"clear", "failed"}
          BY <1>3, <3>5 DEF OrderAnswered
        <4> QED
          BY <1>1, <4>1 DEF Exact
      <3>6. CASE Arrive(r)
        BY <1>3, <3>1, <3>6, FirstOf DEF Arrive
      <3>7. CASE WriteItem(r) \/ RefreshAfterWrite(r) \/ RefreshAfterRead(r) \/ DeleteCart(r)
        <4>1. at'[r] \in {"expire", "hgetall", "done"}
          BY <1>3, <3>7 DEF WriteItem, RefreshAfterWrite, RefreshAfterRead, DeleteCart
        <4> QED
          BY <3>1, <4>1
      <3> QED
        BY <1>6, <3>2, <3>3, <3>4, <3>5, <3>6, <3>7 DEF Serve
    <2> QED
      BY <2>2, <2>3
  <1> QED
    BY <1>4, <1>5, <1>6, StaysUndisturbed

\* A step of a request of u is seen by u only.
LEMMA ShownOf ==
    ASSUME NEW u \in User, NEW c,
           \A v \in User \ {u} : items'[v] = items[v] /\ (Pending(v)' <=> Pending(v)),
           c = IF Pending(u)' THEN Empty ELSE items'[u]
    PROVE  Shown' = [Shown EXCEPT ![u] = c]
  BY DEF Shown

LEMMA PendingOf ==
    ASSUME CartInv, CartInv', NEW r \in Request, OnlyRequest(r), NEW u,
           InFlight(r) => ask[r].user = u, ask'[r].user = u
    PROVE  \A v \in User \ {u} : Pending(v)' <=> Pending(v)
  <1> SUFFICES ASSUME NEW v \in User \ {u}
               PROVE  Pending(v)' <=> Pending(v)
    OBVIOUS
  <1>1. placed \subseteq Request /\ placed' \subseteq Request
    BY DEF CartInv, OrderOK
  <1>2. ASSUME Pending(v) PROVE Pending(v)'
    <2>1. PICK q \in placed : ask[q].user = v /\ InFlight(q)
      BY <1>2 DEF Pending
    <2> QED
      BY <1>1, <2>1 DEF Pending, OnlyRequest, InFlight
  <1>3. ASSUME Pending(v)' PROVE Pending(v)
    <2>1. PICK q \in placed' : ask'[q].user = v /\ InFlight(q)'
      BY <1>3 DEF Pending
    <2> QED
      BY <1>1, <2>1 DEF Pending, OnlyRequest, InFlight
  <1> QED
    BY <1>2, <1>3

LEMMA Unseen ==
    ASSUME NEW u \in User, Shown' = [Shown EXCEPT ![u] = Shown[u]], ordered' = ordered
    PROVE  UNCHANGED <<Shown, ordered>>
  BY DEF Shown

LEMMA AtomicArrive ==
    ASSUME CartInv, CartInv', SerialInv, NEW r \in Request, Arrive(r)
    PROVE  UNCHANGED <<Shown, ordered>>
  <1>1. OnlyRequest(r) /\ UNCHANGED <<items, placed, ordered>>
    BY ServesOnly DEF SerialInv, Arrive
  <1>2. at[r] = "unused" /\ r \notin placed
    BY DEF Arrive, CartInv, OrderOK, Ordering
  <1>3. \A v \in User : Pending(v)' <=> Pending(v)
    BY <1>1, <1>2 DEF Pending, OnlyRequest, InFlight, CartInv, OrderOK
  <1> QED
    BY <1>1, <1>3 DEF Shown

\* Until the order is committed, and from then on, it does not matter where
\* the checkout is.
LEMMA AtomicQuiet ==
    ASSUME CartInv, CartInv', SerialInv, NEW r \in Request, Serve(r),
           ~WriteItem(r), ~DeleteCart(r)
    PROVE  UNCHANGED <<Shown, ordered>>
  <1>1. OnlyRequest(r)
    BY ServesOnly DEF SerialInv
  <1>2. UNCHANGED <<items, placed, ordered, ask>> /\ InFlight(r)
    BY DEF Serve, ReadItem, RefreshAfterWrite, ReadCart, RefreshAfterRead, CallOrderService,
           OrderAnswered, Command, SetTTL, InFlight, InFlightAt, Reading, Writing
  <1>3. r \in placed => InFlight(r)'
    <2>1. SUFFICES ASSUME r \in placed PROVE InFlight(r)'
      OBVIOUS
    <2>2. at[r] \in Ordering
      BY <2>1 DEF CartInv, OrderOK
    <2>3. OrderAnswered(r)
      BY <2>2 DEF Serve, ReadItem, RefreshAfterWrite, ReadCart, RefreshAfterRead,
                  CallOrderService, Ordering
    <2>4. at'[r] = "clear"
      BY <2>1, <2>3 DEF OrderAnswered, Goto, CartInv, RequestOK
    <2> QED
      BY <2>4 DEF InFlight, InFlightAt, Writing
  <1>4. \A v \in User : Pending(v)' <=> Pending(v)
    BY <1>1, <1>2, <1>3 DEF Pending, OnlyRequest, InFlight, CartInv, OrderOK
  <1> QED
    BY <1>2, <1>4 DEF Shown

LEMMA AtomicWrite ==
    ASSUME CartInv, CartInv', SerialInv, NEW r \in Request, Exact(r), WriteItem(r),
           NEW u, u = ask[r].user
    PROVE  \E p \in Product : Atomic!Remove(u, p) \/ \E n \in Quantity : Atomic!Add(u, p, n)
  <1> PICK p, n : p = ask[r].product /\ n = ask[r].quantity
    OBVIOUS
  <1>1. /\ InFlight(r) /\ at[r] \in {"hset", "hdel"} /\ Command(r) /\ at'[r] = "expire"
        /\ UNCHANGED <<ordered, ask, placed>>
    BY DEF WriteItem, InFlight, InFlightAt, Reading, Writing, Goto, CartInv, RequestOK
  <1>2. r \notin placed /\ u \in User /\ p \in Product
    BY <1>1, Arrived DEF CartInv, OrderOK, Ordering
  <1>3. OnlyRequest(r) /\ OneEach
    BY ServesOnly DEF SerialInv, Serve
  <1>4. ~Pending(u) /\ ~Pending(u)'
    <2>1. ~Pending(u)
      BY <1>1, <1>2, <1>3, PendingIsPlaced
    <2> QED
      BY <1>1, <1>2, <1>3, <2>1 DEF Pending, OnlyRequest, InFlight, CartInv, OrderOK
  <1>5. \A v \in User \ {u} : items'[v] = items[v] /\ (Pending(v)' <=> Pending(v))
    BY <1>1, <1>3, CommandOnUser, PendingOf
  <1>6. Shown[u] = items[u] /\ Shown' = [Shown EXCEPT ![u] = items'[u]]
    BY <1>2, <1>4, <1>5, ShownOf DEF Shown
  <1>7. items[u] \in Contents /\ items \in [User -> Contents]
    BY <1>2 DEF CartInv, StoreOK
  <1>8. CASE at[r] = "hset"
    <2>1. items' = [items EXCEPT ![u] = [items[u] EXCEPT ![p] = NewQuantity(r)]]
      BY <1>1, <1>8 DEF Command, Store
    <2>2. NewQuantity(r) = Amount(items[u], p) + n
      BY <1>8 DEF Exact, NewQuantity, Amount
    <2>3. items'[u] = [items[u] EXCEPT ![p] = Amount(items[u], p) + n]
      BY <1>2, <1>7, <2>1, <2>2
    <2>4. n \in Quantity
      <3>1. ask[r] \in Ask /\ ask[r].op = "add"
        BY <1>1, <1>8, Arrived DEF CartInv, RequestOK
      <3> QED
        BY <3>1 DEF Ask
    <2>5. Shown' = [Shown EXCEPT ![u][p] = Amount(Shown[u], p) + n]
      BY <1>6, <2>3
    <2>6. Atomic!Add(u, p, n)
      BY <1>1, <2>5 DEF Atomic!Add, Atomic!Amount, Amount, Shown
    <2> QED
      BY <1>2, <2>4, <2>6
  <1>9. CASE at[r] = "hdel"
    <2>1. items' = [items EXCEPT ![u] = [items[u] EXCEPT ![p] = NoItem]]
      BY <1>1, <1>9 DEF Command, Store
    <2>2. items'[u] = [items[u] EXCEPT ![p] = NoItem]
      BY <1>2, <1>7, <2>1
    <2>3. Shown' = [Shown EXCEPT ![u][p] = NoItem]
      BY <1>6, <2>2
    <2>4. Atomic!Remove(u, p)
      BY <1>1, <2>3 DEF Atomic!Remove, Shown
    <2> QED
      BY <1>2, <2>4
  <1> QED
    BY <1>1, <1>8, <1>9

LEMMA AtomicDelete ==
    ASSUME CartInv, CartInv', SerialInv, NEW r \in Request, DeleteCart(r),
           NEW u, u = ask[r].user
    PROVE  Atomic!Clear(u) \/ UNCHANGED <<Shown, ordered>>
  <1>1. /\ InFlight(r) /\ at[r] \in {"del", "clear"} /\ Command(r)
        /\ UNCHANGED <<ordered, ask, placed>>
    BY DEF DeleteCart, InFlight, InFlightAt, Writing
  <1>2. u \in User
    BY <1>1, Arrived DEF CartInv
  <1>3. OnlyRequest(r)
    BY ServesOnly DEF SerialInv, Serve
  <1>4. items' = [items EXCEPT ![u] = Empty] /\ items'[u] = Empty
    BY <1>1, <1>2 DEF Command, Store, CartInv, StoreOK
  <1>5. \A v \in User \ {u} : items'[v] = items[v] /\ (Pending(v)' <=> Pending(v))
    BY <1>1, <1>3, CommandOnUser, PendingOf
  <1>6. Shown' = [Shown EXCEPT ![u] = Empty]
    BY <1>2, <1>4, <1>5, ShownOf
  <1> QED
    BY <1>1, <1>6 DEF Atomic!Clear, Atomic!Empty, Shown, Empty

LEMMA AtomicCheckout ==
    ASSUME CartInv, CartInv', SerialInv, NEW r \in Request, Exact(r), Unordered(r),
           \A q \in Request : Unordered(q), \A v \in User : Balanced(v),
           AcceptOrder(r), NEW u, u = ask[r].user
    PROVE  Atomic!Checkout(u)
  <1>1. /\ r \in calls /\ placed' = placed \cup {r}
        /\ ordered' = [ordered EXCEPT ![u] =
                          [p \in Product |-> @[p] + Amount(seen[r], p)]]
        /\ UNCHANGED <<items, ask, at>>
    BY DEF AcceptOrder
  <1>2. at[r] = "ordering" /\ r \notin placed /\ InFlight(r)
    BY <1>1 DEF Unordered, CartInv, OrderOK, InFlight, InFlightAt
  <1>3. u \in User
    BY <1>2, Arrived DEF CartInv
  <1>4. OnlyRequest(r)
    BY LedgerAccept
  <1>5. ~Pending(u) /\ Pending(u)'
    <2>1. ~Pending(u)
      BY <1>2, PendingIsPlaced DEF SerialInv
    <2> QED
      BY <1>1, <1>2, <2>1 DEF Pending, InFlight
  <1>6. \A v \in User \ {u} : items'[v] = items[v] /\ (Pending(v)' <=> Pending(v))
    BY <1>1, <1>4, PendingOf
  <1>7. Shown[u] = items[u] /\ Shown' = [Shown EXCEPT ![u] = Empty]
    BY <1>3, <1>5, <1>6, ShownOf DEF Shown
  <1>8. items[u] = seen[r] /\ seen[r] # Empty
    BY <1>2 DEF Exact
  <1>9. ordered' = [ordered EXCEPT ![u] =
                       [p \in Product |-> @[p] + Amount(Shown[u], p)]]
    BY <1>1, <1>7, <1>8
  <1> QED
    BY <1>7, <1>8, <1>9 DEF Atomic!Checkout, Atomic!Empty, Atomic!Amount, Amount, Shown, Empty

LEMMA AtomicStep ==
    ASSUME CartInv, SerialInv, LedgerInv, ExactInv, [Next]_vars
    PROVE  [Undisturbed' => Atomic!Next]_AtomicVars
  <1> SUFFICES ASSUME Undisturbed'
               PROVE  Atomic!Next \/ UNCHANGED <<Shown, ordered>>
    BY DEF AtomicVars, Atomic!vars, Shown
  <1>1. CartInv'
    BY CartInvStep
  <1>2. /\ \A r \in Request : Exact(r) /\ Unordered(r)
        /\ \A v \in User : Balanced(v)
    BY StaysUndisturbed DEF ExactInv, LedgerInv, Undisturbed
  <1>3. CASE UNCHANGED vars
    BY <1>3 DEF Shown, Pending, InFlight
  <1>4. ASSUME NEW r \in Request, Arrive(r) PROVE UNCHANGED <<Shown, ordered>>
    BY <1>1, <1>4, AtomicArrive
  <1>5. ASSUME NEW r \in Request, WriteItem(r) \/ DeleteCart(r) \/ AcceptOrder(r)
        PROVE  Atomic!Next \/ UNCHANGED <<Shown, ordered>>
    <2> PICK u : u = ask[r].user
      OBVIOUS
    <2>1. u \in User
      BY <1>5, Arrived DEF WriteItem, DeleteCart, AcceptOrder, CartInv, OrderOK, Ordering
    <2>2. CASE WriteItem(r)
      <3>1. \E p \in Product : Atomic!Remove(u, p) \/ \E n \in Quantity : Atomic!Add(u, p, n)
        BY <1>1, <1>2, <2>2, AtomicWrite
      <3> QED
        BY <2>1, <3>1 DEF Atomic!Next
    <2>3. CASE DeleteCart(r)
      <3>1. Atomic!Clear(u) \/ UNCHANGED <<Shown, ordered>>
        BY <1>1, <2>3, AtomicDelete
      <3> QED
        BY <2>1, <3>1 DEF Atomic!Next
    <2>4. CASE AcceptOrder(r)
      <3>1. Atomic!Checkout(u)
        BY <1>1, <1>2, <2>4, AtomicCheckout
      <3> QED
        BY <2>1, <3>1 DEF Atomic!Next
    <2> QED
      BY <1>5, <2>2, <2>3, <2>4
  <1>6. ASSUME NEW r \in Request, Serve(r), ~WriteItem(r), ~DeleteCart(r)
        PROVE  UNCHANGED <<Shown, ordered>>
    BY <1>1, <1>6, AtomicQuiet
  <1> QED
    BY <1>3, <1>4, <1>5, <1>6, StaysUndisturbed

LEMMA ExactInit == Init => ExactInv
  BY DEF Init, ExactInv, Exact

LEMMA AtomicInit == Init => Atomic!Init
  BY DEF Init, Atomic!Init, Atomic!Empty, Empty, Zero

\* When a user waits for answers, and up to the first fault or expiry, the cart
\* service is the cart of AtomicCart: the Redis commands of a request, and the
\* call of a checkout, look like one step.
THEOREM CartIsAtomic ==
    ASSUME Serial
    PROVE  Spec => ImplementsAtomicCart
  <1>1. CartInv /\ SerialInv /\ [Next]_vars => SerialInv'
    BY SerialStep
  <1>2. CartInv /\ [Next]_vars => CartInv'
    BY CartInvStep
  <1>3. CartInv /\ SerialInv /\ LedgerInv /\ [Next]_vars => LedgerInv'
    BY LedgerStep
  <1>4. CartInv /\ SerialInv /\ ExactInv /\ [Next]_vars => ExactInv'
    BY ExactStep
  <1>5. CartInv /\ SerialInv /\ LedgerInv /\ ExactInv /\ [Next]_vars
            => [Undisturbed' => Atomic!Next]_AtomicVars
    BY AtomicStep
  <1> QED
    BY <1>1, <1>2, <1>3, <1>4, <1>5, CartInvInit, SerialInit, LedgerInit, ExactInit, AtomicInit,
       PTL DEF Spec, ImplementsAtomicCart
=============================================================================
