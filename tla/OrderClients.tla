---------------------------- MODULE OrderClients ----------------------------
(***************************************************************************)
(* What the callers of the order service get to know: the gRPC handlers    *)
(* seen by clients that wait for one answer at a time (the scripts of the  *)
(* load tests, the test client, a checkout), that may stop waiting, and    *)
(* whose calls the database may fail.                                      *)
(*                                                                         *)
(* The orders themselves are those of OrderLifecycle, which the pipeline   *)
(* implements; here they are placed by CreateOrder only.                   *)
(***************************************************************************)
EXTENDS Naturals, FiniteSets

CONSTANTS
    Order, Client,
    MaxDbFailures,   \* bound on failing calls of the database
    MaxAbandons      \* bound on calls that are given up

\* The ids in GetOrderStatus that no order has: a uuid made up, and no uuid.
Stray == "stray"
Malformed == "malformed"

ASSUME ClientsConstants ==
    /\ Order \cap {Stray, Malformed} = {}
    /\ MaxDbFailures \in Nat /\ MaxAbandons \in Nat

VARIABLES
    status, payments, shipments,
    request,        \* per client: the call it waits for
    answer,         \* per client: the answer on its way
    known,          \* per client: createdOrderIds
    told,           \* history, per client: the last status it was told of an order
    createErrors,   \* create_order_errors, of all clients
    interrupted,    \* creates that ended with their client
    orphans,        \* creates nobody waits for and the database has not decided on
    dbFailures, abandons

Lifecycle == INSTANCE OrderLifecycle

orderVars == <<status, payments, shipments>>
callVars == <<request, answer, known, told>>
countVars == <<createErrors, interrupted, orphans, dbFailures, abandons>>

clientsVars == <<orderVars, callVars, countVars>>

Status == {"none", "CREATED", "PAID", "DELIVERED"}

Rank(s) == CASE s = "none" -> 0 [] s = "CREATED" -> 1 [] s = "PAID" -> 2 [] s = "DELIVERED" -> 3

\* A call, and how many calls of the database had failed when it was made.
Call(op, order, since) == [op |-> op, order |-> order, since |-> since]

Waiting == Call("none", Stray, 0)   \* between two calls
Stopped == Call("stopped", Stray, 0)

Reply(code, order, s) == [code |-> code, order |-> order, status |-> s]

NoReply == Reply("none", Stray, "none")

-----------------------------------------------------------------------------
(* The callers.                                                             *)

AskCreate(c) ==
    /\ request[c] = Waiting
    /\ request' = [request EXCEPT ![c] = Call("create", Stray, dbFailures)]
    /\ UNCHANGED <<orderVars, answer, known, told, countVars>>

\* An order the client has created, or an id it has made up.
AskStatus(c) ==
    /\ request[c] = Waiting
    /\ \E o \in known[c] \cup {Stray, Malformed} :
           request' = [request EXCEPT ![c] = Call("get", o, dbFailures)]
    /\ UNCHANGED <<orderVars, answer, known, told, countVars>>

\* Mutant: the id is stored without a look at the status of the answer.
Learned_Unchecked(c) ==
    IF request[c].op = "create" THEN {answer[c].order} ELSE {}

\* createdOrderIds.push
Learned(c) ==
    IF request[c].op = "create" /\ answer[c].code = "OK" THEN {answer[c].order} ELSE {}

CountCreateError(c) ==
    createErrors' = IF request[c].op = "create" /\ answer[c].code # "OK"
                    THEN createErrors + 1 ELSE createErrors

TakeReply(c) ==
    /\ answer[c].code # "none"
    /\ known' = [known EXCEPT ![c] = @ \cup Learned(c)]
    /\ told' = [told EXCEPT ![c] = [o \in Order |-> IF answer[c].code = "OK" /\ answer[c].order = o
                                                   THEN answer[c].status ELSE @[o]]]
    /\ CountCreateError(c)
    /\ request' = [request EXCEPT ![c] = Waiting]
    /\ answer' = [answer EXCEPT ![c] = NoReply]
    /\ UNCHANGED <<orderVars, interrupted, orphans, dbFailures, abandons>>

\* A call nobody waits for: its context is cancelled, and the transaction of a
\* create that is not decided yet may still commit.
Abandon(c) ==
    /\ request[c].op \in {"create", "get"}
    /\ abandons < MaxAbandons
    /\ abandons' = abandons + 1
    /\ answer' = [answer EXCEPT ![c] = NoReply]
    /\ orphans' = IF request[c].op = "create" /\ answer[c].code = "none"
                  THEN orphans + 1 ELSE orphans
    /\ UNCHANGED <<orderVars, known, told, dbFailures>>

\* Mutant: a retry policy asks again where an answer does not come.
GiveUp_Retries(c) ==
    /\ Abandon(c)
    /\ UNCHANGED <<request, createErrors, interrupted>>

\* The deadline (60 s in the load tests, 5 s in the test client) or a connection
\* that breaks; a create is counted as an error.
GiveUp(c) ==
    /\ Abandon(c)
    /\ request' = [request EXCEPT ![c] = Waiting]
    /\ createErrors' = IF request[c].op = "create" THEN createErrors + 1 ELSE createErrors
    /\ UNCHANGED interrupted

\* The load test, or the process of the client, ends in the middle of a call.
Interrupt(c) ==
    /\ Abandon(c)
    /\ request' = [request EXCEPT ![c] = Stopped]
    /\ interrupted' = IF request[c].op = "create" THEN interrupted + 1 ELSE interrupted
    /\ UNCHANGED createErrors

-----------------------------------------------------------------------------
(* The handlers.                                                            *)

Asked(c, op) == request[c].op = op /\ answer[c].code = "none"

ReplyTo(c, reply) ==
    /\ answer' = [answer EXCEPT ![c] = reply]
    /\ UNCHANGED <<request, known, told, createErrors, interrupted, orphans, abandons>>

DbFails ==
    /\ dbFailures < MaxDbFailures
    /\ dbFailures' = dbFailures + 1

CreateOrder(c) ==
    /\ Asked(c, "create")
    /\ \E o \in Order : /\ Lifecycle!Place(o)
                        /\ ReplyTo(c, Reply("OK", o, "CREATED"))
    /\ UNCHANGED dbFailures

\* Mutant: the error of the repository is dropped.
CreateOrderFails_Ignored(c) ==
    /\ Asked(c, "create")
    /\ DbFails
    /\ \E o \in Order : /\ status[o] = "none"
                        /\ ReplyTo(c, Reply("OK", o, "CREATED"))
    /\ UNCHANGED orderVars

\* The transaction fails, or its COMMIT is applied and reported as an error.
CreateOrderFails(c) ==
    /\ Asked(c, "create")
    /\ DbFails
    /\ ReplyTo(c, Reply("Internal", Stray, "none"))
    /\ UNCHANGED orderVars \/ \E o \in Order : Lifecycle!Place(o)

\* An abandoned create is rolled back, unless its COMMIT was on its way.
OrphanEnds ==
    /\ orphans > 0
    /\ orphans' = orphans - 1
    /\ UNCHANGED orderVars \/ \E o \in Order : Lifecycle!Place(o)
    /\ UNCHANGED <<callVars, createErrors, interrupted, dbFailures, abandons>>

\* Mutant: the conversion of the status does not know DELIVERED, and has a default.
RowRead_Default(o) ==
    Reply("OK", o, IF status[o] \in {"CREATED", "PAID"} THEN status[o] ELSE "CREATED")

\* The row as it is when it is read.
RowRead(o) == Reply("OK", o, status[o])

GetOrderStatus(c) ==
    LET o == request[c].order IN
    /\ Asked(c, "get")
    /\ \/ o = Malformed /\ ReplyTo(c, Reply("InvalidArgument", Stray, "none"))
       \/ o = Stray /\ ReplyTo(c, Reply("NotFound", Stray, "none"))
       \/ o \in Order /\ status[o] = "none" /\ ReplyTo(c, Reply("NotFound", Stray, "none"))
       \/ o \in Order /\ status[o] # "none" /\ ReplyTo(c, RowRead(o))
    /\ UNCHANGED <<orderVars, dbFailures>>

\* Any error of the query is answered NotFound.
GetOrderStatusFails(c) ==
    /\ Asked(c, "get")
    /\ request[c].order # Malformed
    /\ DbFails
    /\ ReplyTo(c, Reply("NotFound", Stray, "none"))
    /\ UNCHANGED orderVars

\* Meanwhile the pipeline works on the orders.
PipelineStep ==
    /\ \E o \in Order : \/ Lifecycle!Charge(o) \/ Lifecycle!MarkPaid(o)
                        \/ Lifecycle!Ship(o)   \/ Lifecycle!MarkDelivered(o)
    /\ UNCHANGED <<callVars, countVars>>

ClientsInit ==
    /\ Lifecycle!Init
    /\ request = [c \in Client |-> Waiting]
    /\ answer = [c \in Client |-> NoReply]
    /\ known = [c \in Client |-> {}]
    /\ told = [c \in Client |-> [o \in Order |-> "none"]]
    /\ createErrors = 0 /\ interrupted = 0 /\ orphans = 0
    /\ dbFailures = 0 /\ abandons = 0

ClientsNext ==
    \/ \E c \in Client :
           \/ AskCreate(c) \/ AskStatus(c) \/ TakeReply(c) \/ GiveUp(c) \/ Interrupt(c)
           \/ CreateOrder(c) \/ CreateOrderFails(c)
           \/ GetOrderStatus(c) \/ GetOrderStatusFails(c)
    \/ OrphanEnds \/ PipelineStep

ClientsSpec == ClientsInit /\ [][ClientsNext]_clientsVars

-----------------------------------------------------------------------------
(* Properties.                                                              *)

Code == {"none", "OK", "NotFound", "InvalidArgument", "Internal"}

ClientsTypeOK ==
    /\ status \in [Order -> Status]
    /\ request \in [Client -> [op : {"none", "create", "get", "stopped"},
                               order : Order \cup {Stray, Malformed}, since : Nat]]
    /\ answer \in [Client -> [code : Code, order : Order \cup {Stray}, status : Status]]
    /\ known \in [Client -> SUBSET Order]
    /\ told \in [Client -> [Order -> Status]]
    /\ createErrors \in Nat /\ interrupted \in Nat /\ orphans \in Nat
    /\ dbFailures \in 0..MaxDbFailures /\ abandons \in 0..MaxAbandons

\* An order never goes back for the client that watches it: no answer, however
\* long it was on its way, tells less than an earlier one, that of the creation
\* included.
AnswersNeverGoBack ==
    [][\A c \in Client, o \in Order : Rank(told[c][o]) <= Rank(told'[c][o])]_clientsVars

\* What a client was told to exist is NotFound for it only when a call of the
\* database failed while it asked, as the handler answers any error so.
NotFoundHasCause ==
    \A c \in Client :
        request[c].order \in known[c] /\ answer[c].code = "NotFound"
            => dbFailures > request[c].since

\* The orders no client knows of, and the clients with an answer to a create on its way.
Unheard == {o \in Order : status[o] # "none" /\ \A c \in Client : o \notin known[c]}

Unread == {c \in Client : request[c].op = "create" /\ answer[c].code # "none"}

\* Nobody knows of an order only for a reason the clients have seen: there are no
\* more such orders, with the creates that may still make one, than creates counted
\* as errors, cut off with their client, or answered to one that still waits.
NoOrderUnaccounted ==
    Cardinality(Unheard) + orphans <= createErrors + interrupted + Cardinality(Unread)

\* The invariant behind the first two, per client: no answer is ahead of the row,
\* or behind what the client was told; what it knows exists; and there is no
\* answer without a call.
Fits(c) ==
    /\ \A o \in Order : Rank(told[c][o]) <= Rank(status[o])
    /\ \A o \in known[c] : status[o] # "none"
    /\ request[c].since <= dbFailures
    /\ request[c].op \in {"none", "stopped"} => answer[c].code = "none"
    /\ answer[c].code = "OK" =>
           /\ answer[c].order \in Order /\ answer[c].status # "none"
           /\ Rank(answer[c].status) <= Rank(status[answer[c].order])
           /\ Rank(told[c][answer[c].order]) <= Rank(answer[c].status)

ClientsInv == ClientsTypeOK /\ NotFoundHasCause /\ \A c \in Client : Fits(c)

\* The invariant behind the third: the order in an answer to a create is news to
\* every client, and in no other such answer.
Created(c) == request[c].op = "create" /\ answer[c].code = "OK"

NewIds ==
    \A c \in Client : Created(c) =>
        \A d \in Client : /\ answer[c].order \notin known[d]
                          /\ d # c /\ Created(d) => answer[d].order # answer[c].order

Booked == /\ ClientsInv /\ NewIds
          /\ IsFiniteSet(Unheard) /\ IsFiniteSet(Unread) /\ NoOrderUnaccounted
=============================================================================
