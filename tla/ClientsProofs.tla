--------------------------- MODULE ClientsProofs ---------------------------
(***************************************************************************)
(* Proofs about OrderClients, what the callers of the order service are    *)
(* told, for any numbers of orders and clients and any budgets of faults   *)
(* and of requests given up.                                               *)
(***************************************************************************)
EXTENDS OrderClients, FiniteSetTheorems, TLAPS

USE DEF orderVars, callVars, countVars, clientsVars

-----------------------------------------------------------------------------
(* Statuses.                                                                *)

LEMMA Ranks ==
    /\ \A s \in Status : Rank(s) \in Nat /\ (Rank(s) = 0 <=> s = "none")
    /\ Rank("none") = 0 /\ Rank("CREATED") = 1 /\ Rank("PAID") = 2 /\ Rank("DELIVERED") = 3
BY DEF Status, Rank

\* Statuses only rise.
StatusRises ==
    /\ status' \in [Order -> Status]
    /\ \A o \in Order : Rank(status[o]) <= Rank(status'[o])

LEMMA StillRises ==
    ASSUME ClientsInv, UNCHANGED status PROVE StatusRises
BY Ranks DEF ClientsInv, ClientsTypeOK, StatusRises

LEMMA PlaceRises ==
    ASSUME ClientsInv, NEW o \in Order, Lifecycle!Place(o)
    PROVE  StatusRises /\ status'[o] = "CREATED" /\ status[o] = "none"
<1>1. status \in [Order -> Status]
    BY DEF ClientsInv, ClientsTypeOK
<1>2. status[o] = "none" /\ status' = [status EXCEPT ![o] = "CREATED"]
    BY DEF Lifecycle!Place
<1>3. "CREATED" \in Status
    BY DEF Status
<1> QED
    BY <1>1, <1>2, <1>3, Ranks DEF StatusRises

LEMMA PipelineRises ==
    ASSUME ClientsInv, PipelineStep
    PROVE  StatusRises
<1>1. status \in [Order -> Status]
    BY DEF ClientsInv, ClientsTypeOK
<1>2. PICK o \in Order : \/ Lifecycle!Charge(o) \/ Lifecycle!MarkPaid(o)
                         \/ Lifecycle!Ship(o)   \/ Lifecycle!MarkDelivered(o)
    BY DEF PipelineStep
<1>3. CASE Lifecycle!Charge(o) \/ Lifecycle!Ship(o)
    BY <1>3, StillRises DEF Lifecycle!Charge, Lifecycle!Ship
<1>4. CASE Lifecycle!MarkPaid(o)
  <2>1. status[o] = "CREATED" /\ status' = [status EXCEPT ![o] = "PAID"] /\ "PAID" \in Status
      BY <1>4 DEF Lifecycle!MarkPaid, Status
  <2> QED
      BY <1>1, <2>1, Ranks DEF StatusRises
<1>5. CASE Lifecycle!MarkDelivered(o)
  <2>1. status[o] = "PAID" /\ status' = [status EXCEPT ![o] = "DELIVERED"]
        /\ "DELIVERED" \in Status
      BY <1>5 DEF Lifecycle!MarkDelivered, Status
  <2> QED
      BY <1>1, <2>1, Ranks DEF StatusRises
<1> QED
    BY <1>2, <1>3, <1>4, <1>5

\* What a client is told of a NotFound, one client at a time.
Explained(c) ==
    request[c].order \in known[c] /\ answer[c].code = "NotFound"
        => dbFailures > request[c].since

\* A client that takes no step: the rows rise under it.
LEMMA OthersFit ==
    ASSUME ClientsInv, StatusRises, dbFailures' \in Nat, dbFailures <= dbFailures',
           NEW d \in Client,
           request'[d] = request[d], answer'[d] = answer[d],
           known'[d] = known[d], told'[d] = told[d]
    PROVE  Fits(d)' /\ Explained(d)'
<1>1. /\ status \in [Order -> Status] /\ status' \in [Order -> Status]
      /\ known[d] \subseteq Order /\ told[d] \in [Order -> Status]
      /\ answer[d].status \in Status /\ request[d].since \in Nat /\ dbFailures \in Nat
    BY ClientsConstants DEF ClientsInv, ClientsTypeOK, StatusRises
<1>2. Fits(d) /\ Explained(d)
    BY DEF ClientsInv, NotFoundHasCause, Explained
<1>3. \A o \in Order : Rank(status[o]) <= Rank(status'[o])
    BY DEF StatusRises
<1>4. \A o \in Order : Rank(told'[d][o]) <= Rank(status'[o])
    BY <1>1, <1>2, <1>3, Ranks DEF Fits
<1>5. \A o \in known'[d] : status'[o] # "none"
    BY <1>1, <1>2, <1>3, Ranks DEF Fits
<1>6. request'[d].since <= dbFailures'
    BY <1>1, <1>2 DEF Fits
<1>7. answer'[d].code = "OK" =>
           /\ answer'[d].order \in Order /\ answer'[d].status # "none"
           /\ Rank(answer'[d].status) <= Rank(status'[answer'[d].order])
           /\ Rank(told'[d][answer'[d].order]) <= Rank(answer'[d].status)
    BY <1>1, <1>2, <1>3, Ranks DEF Fits
<1>8. Fits(d)'
    BY <1>2, <1>4, <1>5, <1>6, <1>7 DEF Fits
<1>9. Explained(d)'
    BY <1>1, <1>2 DEF Explained
<1> QED
    BY <1>8, <1>9

\* A step of one client leaves the others what they have.
LEMMA StepFits ==
    ASSUME ClientsInv, StatusRises, dbFailures' \in Nat, dbFailures <= dbFailures',
           NEW c \in Client, Fits(c)', Explained(c)', ClientsTypeOK',
           \A d \in Client \ {c} : /\ request'[d] = request[d] /\ answer'[d] = answer[d]
                                   /\ known'[d] = known[d] /\ told'[d] = told[d]
    PROVE  ClientsInv'
<1>1. \A d \in Client : Fits(d)' /\ Explained(d)'
    BY OthersFit
<1> QED
    BY <1>1 DEF ClientsInv, NotFoundHasCause, Explained

\* What typing and the invariant say of one client.
LEMMA OfClient ==
    ASSUME ClientsInv, NEW c \in Client
    PROVE  /\ status \in [Order -> Status]
           /\ request[c] \in [op : {"none", "create", "get", "stopped"},
                              order : Order \cup {Stray, Malformed}, since : Nat]
           /\ answer[c] \in [code : Code, order : Order \cup {Stray}, status : Status]
           /\ known[c] \subseteq Order /\ told[c] \in [Order -> Status]
           /\ dbFailures \in Nat /\ Fits(c) /\ Explained(c)
BY ClientsConstants DEF ClientsInv, ClientsTypeOK, NotFoundHasCause, Explained

LEMMA Constants == NoReply.code = "none" /\ Waiting.op = "none" /\ Stopped.op = "stopped"
                   /\ Waiting.since = 0 /\ Stopped.since = 0
                   /\ Stray \notin Order /\ Malformed \notin Order /\ Stray # Malformed
BY ClientsConstants DEF NoReply, Reply, Waiting, Stopped, Call, Stray, Malformed

LEMMA CallsAreTyped ==
    /\ Waiting \in [op : {"none", "create", "get", "stopped"},
                    order : Order \cup {Stray, Malformed}, since : Nat]
    /\ Stopped \in [op : {"none", "create", "get", "stopped"},
                    order : Order \cup {Stray, Malformed}, since : Nat]
    /\ NoReply \in [code : Code, order : Order \cup {Stray}, status : Status]
BY DEF Waiting, Stopped, NoReply, Call, Reply, Code, Status

LEMMA ClientsInvInit == ClientsInit => ClientsInv
<1> SUFFICES ASSUME ClientsInit PROVE ClientsInv
    OBVIOUS
<1>1. "none" \in Status
    BY DEF Status
<1>2. status = [o \in Order |-> "none"]
    BY DEF ClientsInit, Lifecycle!Init
<1>3. ClientsTypeOK
    BY <1>1, <1>2, CallsAreTyped, ClientsConstants DEF ClientsInit, ClientsTypeOK
<1>4. ASSUME NEW c \in Client PROVE Fits(c) /\ Explained(c)
    BY <1>2, <1>4, Constants, Ranks DEF ClientsInit, Fits, Explained
<1> QED
    BY <1>3, <1>4 DEF ClientsInv, NotFoundHasCause, Explained

\* A call is made.
LEMMA AskKeepsInv ==
    ASSUME ClientsInv, NEW c \in Client, AskCreate(c) \/ AskStatus(c)
    PROVE  ClientsInv'
<1>1. PICK op \in {"create", "get"}, o \in Order \cup {Stray, Malformed} :
          request' = [request EXCEPT ![c] = Call(op, o, dbFailures)]
    BY OfClient DEF AskCreate, AskStatus
<1>2. request[c] = Waiting /\ UNCHANGED <<orderVars, answer, known, told, countVars>>
    BY DEF AskCreate, AskStatus
<1>3. request \in [Client -> [op : {"none", "create", "get", "stopped"},
                              order : Order \cup {Stray, Malformed}, since : Nat]]
    BY DEF ClientsInv, ClientsTypeOK
<1>4. Call(op, o, dbFailures) \in [op : {"none", "create", "get", "stopped"},
                                   order : Order \cup {Stray, Malformed}, since : Nat]
    BY OfClient DEF Call
<1>5. request' \in [Client -> [op : {"none", "create", "get", "stopped"},
                               order : Order \cup {Stray, Malformed}, since : Nat]]
    BY <1>1, <1>3, <1>4
<1>6. ClientsTypeOK'
    BY <1>2, <1>5 DEF ClientsInv, ClientsTypeOK
<1>7. /\ request'[c].op \in {"create", "get"} /\ request'[c].since = dbFailures
    BY <1>1, <1>3 DEF Call
<1>8. answer[c].code = "none"
    BY <1>2, OfClient, Constants DEF Fits
<1>9. Fits(c)'
    BY <1>2, <1>7, <1>8, OfClient DEF Fits
<1>10. Explained(c)'
    BY <1>2, <1>8 DEF Explained
<1>11. StatusRises
    BY <1>2, StillRises
<1> QED
    BY <1>1, <1>2, <1>3, <1>6, <1>9, <1>10, <1>11, OfClient, StepFits

\* An answer is taken: the client knows and is told what it says.
LEMMA TakeKeepsInv ==
    ASSUME ClientsInv, NEW c \in Client, TakeReply(c)
    PROVE  /\ ClientsInv'
           /\ \A d \in Client, o \in Order : Rank(told[d][o]) <= Rank(told'[d][o])
<1> DEFINE heard(o) == answer[c].code = "OK" /\ answer[c].order = o
<1>1. /\ known' = [known EXCEPT ![c] = @ \cup Learned(c)]
      /\ told' = [told EXCEPT ![c] = [o \in Order |-> IF heard(o) THEN answer[c].status ELSE @[o]]]
      /\ createErrors' = (IF request[c].op = "create" /\ answer[c].code # "OK"
                          THEN createErrors + 1 ELSE createErrors)
      /\ request' = [request EXCEPT ![c] = Waiting]
      /\ answer' = [answer EXCEPT ![c] = NoReply]
      /\ UNCHANGED <<orderVars, interrupted, orphans, dbFailures, abandons>>
    BY DEF TakeReply, CountCreateError
<1>2. ClientsTypeOK
    BY DEF ClientsInv
<1>3. Learned(c) \subseteq Order /\ \A o \in Learned(c) : heard(o)
    BY OfClient DEF Learned, Fits
<1>4. known'[c] = known[c] \cup Learned(c)
      /\ \A o \in Order : told'[c][o] = IF heard(o) THEN answer[c].status ELSE told[c][o]
    BY <1>1, <1>2 DEF ClientsTypeOK
<1>5. told' \in [Client -> [Order -> Status]]
  <2>1. [o \in Order |-> IF heard(o) THEN answer[c].status ELSE told[c][o]] \in [Order -> Status]
      BY OfClient
  <2> QED
      BY <1>1, <1>2, <2>1 DEF ClientsTypeOK
<1>6. ClientsTypeOK'
  <2>1. request' \in [Client -> [op : {"none", "create", "get", "stopped"},
                                 order : Order \cup {Stray, Malformed}, since : Nat]]
      BY <1>1, <1>2, CallsAreTyped DEF ClientsTypeOK
  <2>2. answer' \in [Client -> [code : Code, order : Order \cup {Stray}, status : Status]]
      BY <1>1, <1>2, CallsAreTyped DEF ClientsTypeOK
  <2>3. known' \in [Client -> SUBSET Order]
      BY <1>1, <1>2, <1>3 DEF ClientsTypeOK
  <2>4. createErrors' \in Nat
      BY <1>1, <1>2 DEF ClientsTypeOK
  <2> QED
      BY <1>1, <1>2, <1>5, <2>1, <2>2, <2>3, <2>4 DEF ClientsTypeOK
<1>7. request'[c] = Waiting /\ answer'[c] = NoReply
    BY <1>1, <1>2 DEF ClientsTypeOK
<1>8. ASSUME NEW o \in Order, heard(o)
      PROVE  /\ status[o] # "none" /\ Rank(answer[c].status) <= Rank(status[o])
             /\ Rank(told[c][o]) <= Rank(answer[c].status)
  <2>1. /\ answer[c].status # "none" /\ answer[c].status \in Status /\ status[o] \in Status
        /\ Rank(answer[c].status) <= Rank(status[o])
        /\ Rank(told[c][o]) <= Rank(answer[c].status)
      BY <1>8, OfClient DEF Fits
  <2> QED
      BY <2>1, Ranks
<1>9. \A o \in Order : Rank(told'[c][o]) <= Rank(status[o])
  <2> HIDE DEF heard
  <2> QED
      BY <1>4, <1>8, OfClient DEF Fits
<1>10. \A o \in known'[c] : status[o] # "none"
  <2> HIDE DEF heard
  <2> QED
      BY <1>3, <1>4, <1>8, OfClient DEF Fits
<1>11. Fits(c)' /\ Explained(c)'
    BY <1>1, <1>7, <1>9, <1>10, OfClient, Constants DEF Fits, Explained
<1>12. ClientsInv'
  <2>1. \A d \in Client \ {c} : /\ request'[d] = request[d] /\ answer'[d] = answer[d]
                                /\ known'[d] = known[d] /\ told'[d] = told[d]
      BY <1>1, <1>2 DEF ClientsTypeOK
  <2>2. StatusRises
      BY <1>1, StillRises
  <2>3. dbFailures' \in Nat /\ dbFailures <= dbFailures'
      BY <1>1, OfClient
  <2> QED
      BY <1>6, <1>11, <2>1, <2>2, <2>3, StepFits
<1>13. ASSUME NEW d \in Client, NEW o \in Order PROVE Rank(told[d][o]) <= Rank(told'[d][o])
  <2>1. CASE d = c
    <3> HIDE DEF heard
    <3>1. told[c][o] \in Status
        BY OfClient
    <3> QED
        BY <1>4, <1>8, <2>1, <3>1, Ranks
  <2>2. CASE d # c
      BY <1>1, <1>2, <2>2, OfClient, Ranks DEF ClientsTypeOK
  <2> QED
      BY <2>1, <2>2
<1> QED
    BY <1>12, <1>13

\* Nobody waits for the answer any more.
LEMMA AbandonKeepsInv ==
    ASSUME ClientsInv, NEW c \in Client, GiveUp(c) \/ Interrupt(c)
    PROVE  ClientsInv'
<1>1. PICK next \in {Waiting, Stopped} : request' = [request EXCEPT ![c] = next]
    BY DEF GiveUp, Interrupt
<1>2. /\ abandons < MaxAbandons /\ abandons' = abandons + 1
      /\ answer' = [answer EXCEPT ![c] = NoReply]
      /\ orphans' = (IF request[c].op = "create" /\ answer[c].code = "none"
                     THEN orphans + 1 ELSE orphans)
      /\ UNCHANGED <<orderVars, known, told, dbFailures>>
    BY DEF GiveUp, Interrupt, Abandon
<1>3. ClientsTypeOK
    BY DEF ClientsInv
<1>4. createErrors' \in Nat /\ interrupted' \in Nat
    BY <1>3 DEF GiveUp, Interrupt, ClientsTypeOK
<1>5. ClientsTypeOK'
  <2>1. request' \in [Client -> [op : {"none", "create", "get", "stopped"},
                                 order : Order \cup {Stray, Malformed}, since : Nat]]
      BY <1>1, <1>3, CallsAreTyped DEF ClientsTypeOK
  <2>2. answer' \in [Client -> [code : Code, order : Order \cup {Stray}, status : Status]]
      BY <1>2, <1>3, CallsAreTyped DEF ClientsTypeOK
  <2>3. orphans' \in Nat /\ abandons' \in 0..MaxAbandons
      BY <1>2, <1>3, ClientsConstants DEF ClientsTypeOK
  <2> QED
      BY <1>2, <1>3, <1>4, <2>1, <2>2, <2>3 DEF ClientsTypeOK
<1>6. request'[c] = next /\ answer'[c] = NoReply
    BY <1>1, <1>2, <1>3 DEF ClientsTypeOK
<1>7. Fits(c)' /\ Explained(c)'
    BY <1>2, <1>6, OfClient, Constants DEF Fits, Explained
<1>8. \A d \in Client \ {c} : /\ request'[d] = request[d] /\ answer'[d] = answer[d]
                              /\ known'[d] = known[d] /\ told'[d] = told[d]
    BY <1>1, <1>2, <1>3 DEF ClientsTypeOK
<1>9. StatusRises
    BY <1>2, StillRises
<1>10. dbFailures' \in Nat /\ dbFailures <= dbFailures'
    BY <1>2, OfClient
<1> QED
    BY <1>5, <1>7, <1>8, <1>9, <1>10, StepFits

\* An answer that tells the row as it is, or has an excuse.
LEMMA ReplyKeepsInv ==
    ASSUME ClientsInv, NEW c \in Client, request[c].op \in {"create", "get"}, StatusRises,
           NEW reply \in [code : Code, order : Order \cup {Stray}, status : Status],
           ReplyTo(c, reply),
           dbFailures' \in 0..MaxDbFailures, dbFailures <= dbFailures',
           reply.code = "OK" => /\ reply.order \in Order /\ reply.status # "none"
                                /\ Rank(reply.status) <= Rank(status'[reply.order])
                                /\ Rank(told[c][reply.order]) <= Rank(reply.status),
           reply.code = "NotFound" /\ request[c].order \in known[c]
               => dbFailures' > request[c].since
    PROVE  ClientsInv'
<1>1. /\ answer' = [answer EXCEPT ![c] = reply]
      /\ UNCHANGED <<request, known, told, createErrors, interrupted, orphans, abandons>>
    BY DEF ReplyTo
<1>2. ClientsTypeOK
    BY DEF ClientsInv
<1>3. answer' \in [Client -> [code : Code, order : Order \cup {Stray}, status : Status]]
    BY <1>1, <1>2 DEF ClientsTypeOK
<1>4. ClientsTypeOK'
    BY <1>1, <1>2, <1>3 DEF ClientsTypeOK, StatusRises
<1>5. answer'[c] = reply
    BY <1>1, <1>2 DEF ClientsTypeOK
<1>6. Explained(c)'
    BY <1>1, <1>5 DEF Explained
<1>7. dbFailures' \in Nat
    BY ClientsConstants
<1>8. Fits(c)'
  <2>1. \A o \in Order : Rank(told[c][o]) <= Rank(status'[o])
      BY OfClient, Ranks DEF Fits, StatusRises
  <2>2. \A o \in known[c] : status'[o] # "none"
      BY OfClient, Ranks DEF Fits, StatusRises
  <2>3. request[c].since <= dbFailures'
      BY <1>7, OfClient DEF Fits
  <2> QED
      BY <1>1, <1>5, <2>1, <2>2, <2>3 DEF Fits
<1>9. \A d \in Client \ {c} : /\ request'[d] = request[d] /\ answer'[d] = answer[d]
                              /\ known'[d] = known[d] /\ told'[d] = told[d]
    BY <1>1, <1>2 DEF ClientsTypeOK
<1> QED
    BY <1>4, <1>6, <1>7, <1>8, <1>9, StepFits

\* The answers without an order.
LEMMA ErrorReplies ==
    \A code \in {"NotFound", "InvalidArgument", "Internal"} :
        /\ Reply(code, Stray, "none") \in [code : Code, order : Order \cup {Stray}, status : Status]
        /\ Reply(code, Stray, "none").code = code
BY DEF Reply, Code, Status

LEMMA OkReplies ==
    ASSUME NEW o \in Order, NEW s \in Status
    PROVE  /\ Reply("OK", o, s) \in [code : Code, order : Order \cup {Stray}, status : Status]
           /\ Reply("OK", o, s).code = "OK" /\ Reply("OK", o, s).order = o
           /\ Reply("OK", o, s).status = s
BY DEF Reply, Code

LEMMA Budgeted ==
    ASSUME ClientsInv, DbFails
    PROVE  dbFailures' \in 0..MaxDbFailures /\ dbFailures < dbFailures'
BY ClientsConstants DEF ClientsInv, ClientsTypeOK, DbFails

LEMMA CreateKeepsInv ==
    ASSUME ClientsInv, NEW c \in Client, CreateOrder(c)
    PROVE  ClientsInv'
<1>1. PICK o \in Order : Lifecycle!Place(o) /\ ReplyTo(c, Reply("OK", o, "CREATED"))
    BY DEF CreateOrder
<1>2. request[c].op = "create" /\ UNCHANGED dbFailures
    BY DEF CreateOrder, Asked
<1>3. StatusRises /\ status'[o] = "CREATED" /\ status[o] = "none"
    BY <1>1, PlaceRises
<1>4. "CREATED" \in Status
    BY DEF Status
<1>5. Rank(told[c][o]) <= Rank("CREATED") /\ Rank("CREATED") <= Rank(status'[o])
  <2>1. Rank(told[c][o]) <= Rank(status[o]) /\ told[c][o] \in Status
      BY OfClient DEF Fits
  <2> QED
      BY <1>3, <2>1, Ranks
<1>6. dbFailures' \in 0..MaxDbFailures /\ dbFailures <= dbFailures'
    BY <1>2, ClientsConstants DEF ClientsInv, ClientsTypeOK
<1> DEFINE reply == Reply("OK", o, "CREATED")
<1>7. /\ reply \in [code : Code, order : Order \cup {Stray}, status : Status]
      /\ reply.code = "OK" /\ reply.order = o /\ reply.status = "CREATED"
    BY <1>4, OkReplies
<1>8. ReplyTo(c, reply)
    BY <1>1
<1> HIDE DEF reply
<1> QED
    BY <1>2, <1>3, <1>5, <1>6, <1>7, <1>8, ReplyKeepsInv

LEMMA CreateFailsKeepsInv ==
    ASSUME ClientsInv, NEW c \in Client, CreateOrderFails(c)
    PROVE  ClientsInv'
<1>1. request[c].op = "create" /\ DbFails /\ ReplyTo(c, Reply("Internal", Stray, "none"))
    BY DEF CreateOrderFails, Asked
<1>2. StatusRises
    BY StillRises, PlaceRises DEF CreateOrderFails
<1>3. dbFailures' \in 0..MaxDbFailures /\ dbFailures <= dbFailures'
    BY <1>1, Budgeted, OfClient, ClientsConstants
<1> QED
    BY <1>1, <1>2, <1>3, ErrorReplies, ReplyKeepsInv

LEMMA GetKeepsInv ==
    ASSUME ClientsInv, NEW c \in Client, GetOrderStatus(c)
    PROVE  ClientsInv'
<1> DEFINE o == request[c].order
<1>1. request[c].op = "get" /\ UNCHANGED <<orderVars, dbFailures>>
    BY DEF GetOrderStatus, Asked
<1>2. StatusRises
    BY <1>1, StillRises
<1>3. dbFailures' \in 0..MaxDbFailures /\ dbFailures <= dbFailures'
    BY <1>1, ClientsConstants DEF ClientsInv, ClientsTypeOK
<1>4. CASE o = Malformed /\ ReplyTo(c, Reply("InvalidArgument", Stray, "none"))
    BY <1>1, <1>2, <1>3, <1>4, ErrorReplies, ReplyKeepsInv
<1>5. CASE /\ o = Stray \/ (o \in Order /\ status[o] = "none")
           /\ ReplyTo(c, Reply("NotFound", Stray, "none"))
  <2>1. o \notin known[c]
      BY <1>5, OfClient, Constants DEF Fits
  <2> QED
      BY <1>1, <1>2, <1>3, <1>5, <2>1, ErrorReplies, ReplyKeepsInv
<1>6. CASE o \in Order /\ status[o] # "none" /\ ReplyTo(c, RowRead(o))
  <2> DEFINE reply == Reply("OK", o, status[o])
  <2>1. status[o] \in Status
      BY <1>6, OfClient
  <2>2. /\ reply \in [code : Code, order : Order \cup {Stray}, status : Status]
        /\ reply.code = "OK" /\ reply.order = o /\ reply.status = status[o]
      BY <1>6, <2>1, OkReplies
  <2>3. ReplyTo(c, reply)
      BY <1>6 DEF RowRead
  <2>4. Rank(told[c][o]) <= Rank(status[o]) /\ Rank(status[o]) <= Rank(status'[o])
      BY <1>1, <1>6, <2>1, OfClient, Ranks DEF Fits
  <2> HIDE DEF reply, o
  <2>5. o \in Order /\ status[o] # "none"
      BY <1>6
  <2> QED
      BY <1>1, <1>2, <1>3, <2>2, <2>3, <2>4, <2>5, ReplyKeepsInv
<1>7. \/ o = Malformed /\ ReplyTo(c, Reply("InvalidArgument", Stray, "none"))
      \/ o = Stray /\ ReplyTo(c, Reply("NotFound", Stray, "none"))
      \/ o \in Order /\ status[o] = "none" /\ ReplyTo(c, Reply("NotFound", Stray, "none"))
      \/ o \in Order /\ status[o] # "none" /\ ReplyTo(c, RowRead(o))
    BY Zenon DEF GetOrderStatus
<1> QED
    BY <1>4, <1>5, <1>6, <1>7

LEMMA GetFailsKeepsInv ==
    ASSUME ClientsInv, NEW c \in Client, GetOrderStatusFails(c)
    PROVE  ClientsInv'
<1>1. /\ request[c].op = "get" /\ DbFails /\ ReplyTo(c, Reply("NotFound", Stray, "none"))
      /\ UNCHANGED orderVars
    BY DEF GetOrderStatusFails, Asked
<1>2. StatusRises
    BY <1>1, StillRises
<1>3. dbFailures' \in 0..MaxDbFailures /\ dbFailures < dbFailures'
    BY <1>1, Budgeted
<1>4. request[c].since <= dbFailures /\ request[c].since \in Nat /\ dbFailures \in Nat
    BY OfClient DEF Fits
<1>5. dbFailures' \in Nat
    BY <1>3, ClientsConstants
<1>6. dbFailures <= dbFailures' /\ dbFailures' > request[c].since
    BY <1>3, <1>4, <1>5
<1> QED
    BY <1>1, <1>2, <1>3, <1>6, ErrorReplies, ReplyKeepsInv

\* Steps no client takes part in.
LEMMA ElsewhereKeepsInv ==
    ASSUME ClientsInv, StatusRises, UNCHANGED callVars, ClientsTypeOK',
           dbFailures' = dbFailures
    PROVE  ClientsInv'
<1>1. dbFailures' \in Nat /\ dbFailures <= dbFailures'
    BY ClientsConstants DEF ClientsInv, ClientsTypeOK
<1>2. \A d \in Client : Fits(d)' /\ Explained(d)'
    BY <1>1, OthersFit
<1> QED
    BY <1>2 DEF ClientsInv, NotFoundHasCause, Explained

LEMMA OrphanKeepsInv ==
    ASSUME ClientsInv, OrphanEnds
    PROVE  ClientsInv'
<1>1. orphans > 0 /\ orphans' = orphans - 1
      /\ UNCHANGED <<callVars, createErrors, interrupted, dbFailures, abandons>>
    BY DEF OrphanEnds
<1>2. StatusRises
    BY StillRises, PlaceRises DEF OrphanEnds
<1>3. ClientsTypeOK'
    BY <1>1, <1>2 DEF ClientsInv, ClientsTypeOK, StatusRises
<1> QED
    BY <1>1, <1>2, <1>3, ElsewhereKeepsInv

LEMMA PipelineKeepsInv ==
    ASSUME ClientsInv, PipelineStep
    PROVE  ClientsInv'
<1>1. UNCHANGED <<callVars, countVars>>
    BY DEF PipelineStep
<1>2. StatusRises
    BY PipelineRises
<1>3. ClientsTypeOK'
    BY <1>1, <1>2 DEF ClientsInv, ClientsTypeOK, StatusRises
<1> QED
    BY <1>1, <1>2, <1>3, ElsewhereKeepsInv

\* ClientsInv is inductive.
LEMMA ClientsInvNext == ClientsInv /\ [ClientsNext]_clientsVars => ClientsInv'
<1> SUFFICES ASSUME ClientsInv, [ClientsNext]_clientsVars PROVE ClientsInv'
    OBVIOUS
<1>1. ASSUME NEW c \in Client, AskCreate(c) \/ AskStatus(c) PROVE ClientsInv'
    BY <1>1, AskKeepsInv
<1>2. ASSUME NEW c \in Client, TakeReply(c) PROVE ClientsInv'
    BY <1>2, TakeKeepsInv
<1>3. ASSUME NEW c \in Client, GiveUp(c) \/ Interrupt(c) PROVE ClientsInv'
    BY <1>3, AbandonKeepsInv
<1>4. ASSUME NEW c \in Client, CreateOrder(c) PROVE ClientsInv'
    BY <1>4, CreateKeepsInv
<1>5. ASSUME NEW c \in Client, CreateOrderFails(c) PROVE ClientsInv'
    BY <1>5, CreateFailsKeepsInv
<1>6. ASSUME NEW c \in Client, GetOrderStatus(c) PROVE ClientsInv'
    BY <1>6, GetKeepsInv
<1>7. ASSUME NEW c \in Client, GetOrderStatusFails(c) PROVE ClientsInv'
    BY <1>7, GetFailsKeepsInv
<1>8. CASE OrphanEnds
    BY <1>8, OrphanKeepsInv
<1>9. CASE PipelineStep
    BY <1>9, PipelineKeepsInv
<1>10. CASE UNCHANGED clientsVars
    BY <1>10 DEF ClientsInv, ClientsTypeOK, NotFoundHasCause, Fits
<1> QED
    BY <1>1, <1>2, <1>3, <1>4, <1>5, <1>6, <1>7, <1>8, <1>9, <1>10 DEF ClientsNext

LEMMA ClientsInvariant == ClientsSpec => []ClientsInv
BY ClientsInvInit, ClientsInvNext, PTL DEF ClientsSpec

\* Type correctness, for any clients and any failures.
THEOREM ClientsTyping == ClientsSpec => []ClientsTypeOK
<1>1. ClientsInv => ClientsTypeOK
    BY DEF ClientsInv
<1> QED
    BY <1>1, ClientsInvariant, PTL

\* An order a client knows of is NotFound only if the database failed meanwhile.
THEOREM NotFoundsHaveCause == ClientsSpec => []NotFoundHasCause
<1>1. ClientsInv => NotFoundHasCause
    BY DEF ClientsInv
<1> QED
    BY <1>1, ClientsInvariant, PTL

\* No answer takes back what an earlier one said.
THEOREM OrdersOnlyAdvance == ClientsSpec => AnswersNeverGoBack
<1>1. ASSUME ClientsInv, [ClientsNext]_clientsVars,
             NEW c \in Client, NEW o \in Order
      PROVE  Rank(told[c][o]) <= Rank(told'[c][o])
  <2>1. CASE \E d \in Client : TakeReply(d)
      BY <1>1, <2>1, TakeKeepsInv
  <2>2. CASE ~\E d \in Client : TakeReply(d)
    <3>1. told' = told
        BY <1>1, <2>2 DEF ClientsNext, AskCreate, AskStatus, GiveUp, Interrupt, Abandon,
                          CreateOrder, CreateOrderFails, GetOrderStatus, GetOrderStatusFails,
                          ReplyTo, OrphanEnds, PipelineStep
    <3> QED
        BY <1>1, <3>1, OfClient, Ranks
  <2> QED
      BY <2>1, <2>2
<1>2. ClientsInv /\ [ClientsNext]_clientsVars
          => [\A c \in Client, o \in Order : Rank(told[c][o]) <= Rank(told'[c][o])]_clientsVars
    BY <1>1
<1> QED
    BY <1>2, ClientsInvariant, PTL DEF ClientsSpec, AnswersNeverGoBack

-----------------------------------------------------------------------------
(* No order is unaccounted for.                                             *)

\* What the sets of NoOrderUnaccounted can lose or gain in a step.
LEMMA OneMoreAtMost ==
    ASSUME NEW S, NEW T, NEW x, IsFiniteSet(S), T \subseteq S \cup {x}
    PROVE  IsFiniteSet(T) /\ Cardinality(T) <= Cardinality(S) + 1
<1>1. /\ IsFiniteSet(S \cup {x})
      /\ Cardinality(S \cup {x}) \in {Cardinality(S), Cardinality(S) + 1}
    BY FS_AddElement
<1>2. IsFiniteSet(T) /\ Cardinality(T) <= Cardinality(S \cup {x})
    BY <1>1, FS_Subset
<1>3. Cardinality(S) \in Nat /\ Cardinality(T) \in Nat
    BY <1>2, FS_CardinalityType
<1> QED
    BY <1>1, <1>2, <1>3

LEMMA OneMore ==
    ASSUME NEW S, NEW x, IsFiniteSet(S), x \notin S
    PROVE  IsFiniteSet(S \cup {x}) /\ Cardinality(S \cup {x}) = Cardinality(S) + 1
BY FS_AddElement

LEMMA OneLess ==
    ASSUME NEW S, NEW x, IsFiniteSet(S), x \in S
    PROVE  IsFiniteSet(S \ {x}) /\ Cardinality(S \ {x}) = Cardinality(S) - 1
BY FS_RemoveElement

\* The numbers of NoOrderUnaccounted.
LEMMA BooksAreNumbers ==
    ASSUME Booked
    PROVE  /\ Cardinality(Unheard) \in Nat /\ Cardinality(Unread) \in Nat
           /\ orphans \in Nat /\ createErrors \in Nat /\ interrupted \in Nat
BY FS_CardinalityType DEF Booked, ClientsInv, ClientsTypeOK

\* An answer that is taken away makes no new one.
LEMMA NewIdsStay ==
    ASSUME NewIds, UNCHANGED known,
           \A d \in Client : Created(d)' => Created(d) /\ answer'[d].order = answer[d].order
    PROVE  NewIds'
BY DEF NewIds

LEMMA BookedInit == ClientsInit => Booked
<1> SUFFICES ASSUME ClientsInit PROVE Booked
    OBVIOUS
<1>1. Unheard = {} /\ Unread = {}
    BY Constants DEF ClientsInit, Lifecycle!Init, Unheard, Unread
<1>2. NoOrderUnaccounted
    BY <1>1, FS_EmptySet DEF ClientsInit, NoOrderUnaccounted
<1>3. NewIds
    BY Constants DEF ClientsInit, NewIds, Created
<1> QED
    BY <1>1, <1>2, <1>3, FS_EmptySet, ClientsInvInit DEF Booked

\* Steps after which the same orders are unheard of and the same answers unread.
LEMMA NothingToBook ==
    ASSUME Booked, ClientsInv', NewIds', UNCHANGED <<createErrors, interrupted, orphans>>,
           Unheard' = Unheard, Unread' = Unread
    PROVE  Booked'
BY DEF Booked, NoOrderUnaccounted

\* A call is made.
LEMMA AskIsBooked ==
    ASSUME Booked, ClientsInv', NEW c \in Client, AskCreate(c) \/ AskStatus(c)
    PROVE  Booked'
<1>1. /\ request[c] = Waiting /\ UNCHANGED <<orderVars, answer, known, told, countVars>>
      /\ \E call : request' = [request EXCEPT ![c] = call]
    BY DEF AskCreate, AskStatus
<1>2. answer[c].code = "none"
    BY <1>1, OfClient, Constants DEF Booked, Fits
<1>3. request \in [Client -> {request[d] : d \in Client}] /\ \A d \in Client \ {c} : request'[d] = request[d]
    BY <1>1 DEF Booked, ClientsInv, ClientsTypeOK
<1>4. NewIds'
    BY <1>1, <1>2, <1>3, NewIdsStay DEF Booked, Created
<1>5. Unheard' = Unheard
    BY <1>1 DEF Unheard
<1>6. Unread' = Unread
    BY <1>1, <1>2, <1>3 DEF Unread
<1> QED
    BY <1>1, <1>4, <1>5, <1>6, NothingToBook

\* A client that has an answer to a create taken away has one unread answer less.
LEMMA ReadAnswer ==
    ASSUME Booked, NEW c \in Client, NEW call, call.op # "create",
           request' = [request EXCEPT ![c] = call], answer' = [answer EXCEPT ![c] = NoReply]
    PROVE  /\ Unread' = Unread \ {c}
           /\ \A d \in Client : Created(d)' =>
                 d # c /\ Created(d) /\ answer'[d].order = answer[d].order
<1>1. \A d \in Client : /\ request'[d] = IF d = c THEN call ELSE request[d]
                        /\ answer'[d] = IF d = c THEN NoReply ELSE answer[d]
    BY DEF Booked, ClientsInv, ClientsTypeOK
<1>2. \A d \in Client \ {c} : request'[d] = request[d] /\ answer'[d] = answer[d]
    BY <1>1
<1>3. request'[c].op # "create"
    BY <1>1
<1> QED
    BY <1>2, <1>3 DEF Unread, Created

LEMMA TakeIsBooked ==
    ASSUME Booked, ClientsInv', NEW c \in Client, TakeReply(c)
    PROVE  Booked'
<1>1. /\ answer[c].code # "none" /\ CountCreateError(c)
      /\ request' = [request EXCEPT ![c] = Waiting] /\ answer' = [answer EXCEPT ![c] = NoReply]
      /\ known' = [known EXCEPT ![c] = @ \cup Learned(c)]
      /\ UNCHANGED <<orderVars, interrupted, orphans, dbFailures, abandons>>
    BY DEF TakeReply
<1>2. /\ Unread' = Unread \ {c}
      /\ \A d \in Client : Created(d)' =>
            d # c /\ Created(d) /\ answer'[d].order = answer[d].order
    BY <1>1, ReadAnswer, Constants
<1>3. known \in [Client -> SUBSET Order]
    BY DEF Booked, ClientsInv, ClientsTypeOK
<1>4. \A d \in Client : known'[d] = IF d = c THEN known[d] \cup Learned(c) ELSE known[d]
    BY <1>1, <1>3
<1>5. NewIds'
  <2>1. Learned(c) = IF Created(c) THEN {answer[c].order} ELSE {}
      BY DEF Learned, Created
  <2>2. ASSUME NEW d \in Client, Created(d)', NEW e \in Client
        PROVE  answer'[d].order \notin known'[e]
    <3>1. d # c /\ Created(d) /\ answer'[d].order = answer[d].order
        BY <1>2, <2>2
    <3>2. answer[d].order \notin known[e] /\ answer[d].order \notin Learned(c)
        BY <2>1, <3>1 DEF Booked, NewIds
    <3> QED
        BY <1>4, <3>1, <3>2
  <2>3. ASSUME NEW d \in Client, Created(d)', NEW e \in Client, e # d, Created(e)'
        PROVE  answer'[e].order # answer'[d].order
      BY <1>2, <2>3 DEF Booked, NewIds
  <2> QED
      BY <2>2, <2>3 DEF NewIds
<1>6. status' = status
    BY <1>1
<1>7. CASE Created(c)
  <2>1. answer[c].order \in Order /\ status[answer[c].order] # "none"
    <3>1. answer[c].order \in Order /\ answer[c].status # "none" /\ answer[c].status \in Status
          /\ Rank(answer[c].status) <= Rank(status[answer[c].order])
          /\ status[answer[c].order] \in Status
        BY <1>7, OfClient DEF Booked, Created, Fits
    <3> QED
        BY <3>1, Ranks
  <2>2. answer[c].order \in Unheard
      BY <1>7, <2>1 DEF Booked, NewIds, Unheard
  <2>3. Learned(c) = {answer[c].order}
      BY <1>7 DEF Learned, Created
  <2>4. Unheard' = Unheard \ {answer[c].order}
      BY <1>4, <1>6, <2>3 DEF Unheard
  <2>5. /\ IsFiniteSet(Unheard') /\ Cardinality(Unheard') = Cardinality(Unheard) - 1
      BY <2>2, <2>4, OneLess DEF Booked
  <2>6. c \in Unread
      BY <1>1, <1>7 DEF Unread, Created
  <2>7. /\ IsFiniteSet(Unread') /\ Cardinality(Unread') = Cardinality(Unread) - 1
      BY <1>2, <2>6, OneLess DEF Booked
  <2>8. createErrors' = createErrors
      BY <1>1, <1>7 DEF CountCreateError, Created
  <2>9. NoOrderUnaccounted'
      BY <1>1, <2>5, <2>7, <2>8, BooksAreNumbers DEF Booked, NoOrderUnaccounted
  <2> QED
      BY <1>5, <2>5, <2>7, <2>9 DEF Booked
<1>8. CASE ~Created(c)
  <2>1. Learned(c) = {}
      BY <1>8 DEF Learned, Created
  <2>2. \A d \in Client : known'[d] = known[d]
      BY <1>4, <2>1
  <2>3. Unheard' = Unheard
      BY <1>6, <2>2 DEF Unheard
  <2>4. CASE c \in Unread
    <3>1. createErrors' = createErrors + 1
        BY <1>1, <1>8, <2>4 DEF CountCreateError, Created, Unread
    <3>2. /\ IsFiniteSet(Unread') /\ Cardinality(Unread') = Cardinality(Unread) - 1
        BY <1>2, <2>4, OneLess DEF Booked
    <3>3. NoOrderUnaccounted'
        BY <1>1, <2>3, <3>1, <3>2, BooksAreNumbers DEF Booked, NoOrderUnaccounted
    <3> QED
        BY <1>5, <2>3, <3>2, <3>3 DEF Booked
  <2>5. CASE c \notin Unread
    <3>1. createErrors' = createErrors
        BY <1>1, <1>8, <2>5 DEF CountCreateError, Created, Unread
    <3>2. Unread' = Unread
        BY <1>2, <2>5
    <3> QED
        BY <1>1, <1>5, <2>3, <3>1, <3>2, NothingToBook
  <2> QED
      BY <2>4, <2>5
<1> QED
    BY <1>7, <1>8

LEMMA AbandonIsBooked ==
    ASSUME Booked, ClientsInv', NEW c \in Client, GiveUp(c) \/ Interrupt(c)
    PROVE  Booked'
<1>1. /\ answer' = [answer EXCEPT ![c] = NoReply]
      /\ orphans' = (IF request[c].op = "create" /\ answer[c].code = "none"
                     THEN orphans + 1 ELSE orphans)
      /\ UNCHANGED <<orderVars, known, told, dbFailures>>
    BY DEF GiveUp, Interrupt, Abandon
<1>2. PICK next \in {Waiting, Stopped} : request' = [request EXCEPT ![c] = next]
    BY DEF GiveUp, Interrupt
<1>3. /\ Unread' = Unread \ {c}
      /\ \A d \in Client : Created(d)' =>
            d # c /\ Created(d) /\ answer'[d].order = answer[d].order
    BY <1>1, <1>2, ReadAnswer, Constants
<1>4. NewIds'
    BY <1>1, <1>3, NewIdsStay DEF Booked
<1>5. Unheard' = Unheard
    BY <1>1 DEF Unheard
<1>6. CASE request[c].op = "create"
  <2>1. createErrors' + interrupted' = createErrors + interrupted + 1
      BY <1>6, BooksAreNumbers DEF GiveUp, Interrupt
  <2>2. createErrors' \in Nat /\ interrupted' \in Nat
      BY DEF ClientsInv, ClientsTypeOK
  <2>3. CASE answer[c].code = "none"
    <3>1. orphans' = orphans + 1
        BY <1>1, <1>6, <2>3
    <3>2. Unread' = Unread
        BY <1>3, <2>3 DEF Unread
    <3>3. NoOrderUnaccounted'
        BY <1>5, <2>1, <2>2, <3>1, <3>2, BooksAreNumbers DEF Booked, NoOrderUnaccounted
    <3> QED
        BY <1>4, <1>5, <3>2, <3>3 DEF Booked
  <2>4. CASE answer[c].code # "none"
    <3>1. orphans' = orphans
        BY <1>1, <2>4
    <3>2. c \in Unread
        BY <1>6, <2>4 DEF Unread
    <3>3. /\ IsFiniteSet(Unread') /\ Cardinality(Unread') = Cardinality(Unread) - 1
        BY <1>3, <3>2, OneLess DEF Booked
    <3>4. NoOrderUnaccounted'
        BY <1>5, <2>1, <2>2, <3>1, <3>3, BooksAreNumbers DEF Booked, NoOrderUnaccounted
    <3> QED
        BY <1>4, <1>5, <3>3, <3>4 DEF Booked
  <2> QED
      BY <2>3, <2>4
<1>7. CASE request[c].op # "create"
  <2>1. UNCHANGED <<createErrors, interrupted, orphans>>
      BY <1>1, <1>7 DEF GiveUp, Interrupt
  <2>2. Unread' = Unread
      BY <1>3, <1>7 DEF Unread
  <2> QED
      BY <1>4, <1>5, <2>1, <2>2, NothingToBook
<1> QED
    BY <1>6, <1>7

\* An order placed is one that nobody knows of yet.
LEMMA PlacedIsUnheard ==
    ASSUME Booked, UNCHANGED known, NEW o \in Order, Lifecycle!Place(o)
    PROVE  /\ IsFiniteSet(Unheard') /\ Cardinality(Unheard') <= Cardinality(Unheard) + 1
           /\ \A d \in Client : o \notin known[d]
           /\ \A d \in Client : Created(d) => answer[d].order # o
<1>1. status[o] = "none" /\ status' = [status EXCEPT ![o] = "CREATED"]
    BY DEF Lifecycle!Place
<1>2. \A p \in Order \ {o} : status'[p] = status[p]
    BY <1>1 DEF Booked, ClientsInv, ClientsTypeOK
<1>3. Unheard' \subseteq Unheard \cup {o}
    BY <1>2 DEF Unheard
<1>4. \A d \in Client : o \notin known[d]
    BY <1>1, OfClient DEF Booked, Fits
<1>5. ASSUME NEW d \in Client, Created(d), answer[d].order = o PROVE FALSE
  <2>1. /\ answer[d].status \in Status /\ answer[d].status # "none"
        /\ Rank(answer[d].status) <= Rank(status[o])
      BY <1>5, OfClient DEF Booked, Created, Fits
  <2> QED
      BY <1>1, <2>1, Ranks
<1> QED
    BY <1>3, <1>4, <1>5, OneMoreAtMost DEF Booked

\* An answer to a create makes an unread one.
LEMMA AnswerToCreate ==
    ASSUME Booked, NEW c \in Client, Asked(c, "create"), NEW reply, reply.code # "none",
           ReplyTo(c, reply)
    PROVE  /\ IsFiniteSet(Unread') /\ Cardinality(Unread') = Cardinality(Unread) + 1
           /\ \A d \in Client : answer'[d] = IF d = c THEN reply ELSE answer[d]
           /\ UNCHANGED <<request, known, told, createErrors, interrupted, orphans, abandons>>
<1>1. /\ answer' = [answer EXCEPT ![c] = reply]
      /\ UNCHANGED <<request, known, told, createErrors, interrupted, orphans, abandons>>
    BY DEF ReplyTo
<1>2. \A d \in Client : answer'[d] = IF d = c THEN reply ELSE answer[d]
    BY <1>1 DEF Booked, ClientsInv, ClientsTypeOK
<1>3. c \notin Unread /\ request[c].op = "create"
    BY DEF Asked, Unread
<1>4. Unread' = Unread \cup {c}
  <2>1. \A d \in Client \ {c} : answer'[d] = answer[d]
      BY <1>2
  <2>2. answer'[c] = reply
      BY <1>2
  <2> QED
      BY <1>1, <1>3, <2>1, <2>2 DEF Unread
<1> QED
    BY <1>1, <1>2, <1>3, <1>4, OneMore DEF Booked

LEMMA CreateIsBooked ==
    ASSUME Booked, ClientsInv', NEW c \in Client, CreateOrder(c)
    PROVE  Booked'
<1>1. PICK o \in Order : Lifecycle!Place(o) /\ ReplyTo(c, Reply("OK", o, "CREATED"))
    BY DEF CreateOrder
<1> DEFINE reply == Reply("OK", o, "CREATED")
<1>2. reply.code = "OK" /\ reply.order = o
    BY DEF Reply
<1> HIDE DEF reply
<1>3. Asked(c, "create")
    BY DEF CreateOrder
<1>4. /\ IsFiniteSet(Unread') /\ Cardinality(Unread') = Cardinality(Unread) + 1
      /\ \A d \in Client : answer'[d] = IF d = c THEN reply ELSE answer[d]
      /\ UNCHANGED <<request, known, told, createErrors, interrupted, orphans, abandons>>
    BY <1>1, <1>2, <1>3, AnswerToCreate DEF reply
<1>5. /\ IsFiniteSet(Unheard') /\ Cardinality(Unheard') <= Cardinality(Unheard) + 1
      /\ \A d \in Client : o \notin known[d]
      /\ \A d \in Client : Created(d) => answer[d].order # o
    BY <1>1, <1>4, PlacedIsUnheard
<1>6. NewIds'
  <2>1. answer'[c].order = o /\ \A d \in Client \ {c} : answer'[d] = answer[d]
      BY <1>2, <1>4
  <2>2. \A d \in Client \ {c} : Created(d)' => Created(d)
      BY <1>4, <2>1 DEF Created
  <2> QED
      BY <1>4, <1>5, <2>1, <2>2 DEF Booked, NewIds
<1>7. Cardinality(Unheard') \in Nat
    BY <1>5, FS_CardinalityType
<1>8. NoOrderUnaccounted'
    BY <1>4, <1>5, <1>7, BooksAreNumbers DEF Booked, NoOrderUnaccounted
<1> QED
    BY <1>4, <1>5, <1>6, <1>8 DEF Booked

LEMMA CreateFailsIsBooked ==
    ASSUME Booked, ClientsInv', NEW c \in Client, CreateOrderFails(c)
    PROVE  Booked'
<1> DEFINE reply == Reply("Internal", Stray, "none")
<1>1. reply.code = "Internal" /\ ReplyTo(c, reply) /\ Asked(c, "create")
    BY DEF CreateOrderFails, Reply
<1> HIDE DEF reply
<1>2. /\ IsFiniteSet(Unread') /\ Cardinality(Unread') = Cardinality(Unread) + 1
      /\ \A d \in Client : answer'[d] = IF d = c THEN reply ELSE answer[d]
      /\ UNCHANGED <<request, known, told, createErrors, interrupted, orphans, abandons>>
    BY <1>1, AnswerToCreate
<1>3. /\ IsFiniteSet(Unheard') /\ Cardinality(Unheard') <= Cardinality(Unheard) + 1
      /\ Cardinality(Unheard') \in Nat
  <2>1. CASE UNCHANGED orderVars
    <3>1. Unheard' = Unheard
        BY <1>2, <2>1 DEF Unheard
    <3> QED
        BY <3>1, BooksAreNumbers DEF Booked
  <2>2. CASE \E o \in Order : Lifecycle!Place(o)
      BY <1>2, <2>2, PlacedIsUnheard, FS_CardinalityType
  <2> QED
      BY <2>1, <2>2 DEF CreateOrderFails
<1>4. NewIds'
  <2>1. \A d \in Client : Created(d)' => Created(d) /\ answer'[d].order = answer[d].order
    <3>1. ~Created(c)'
        BY <1>1, <1>2 DEF Created
    <3>2. \A d \in Client \ {c} : answer'[d] = answer[d] /\ request'[d] = request[d]
        BY <1>2
    <3> QED
        BY <3>1, <3>2 DEF Created
  <2> QED
      BY <1>2, <2>1, NewIdsStay DEF Booked
<1>5. NoOrderUnaccounted'
    BY <1>2, <1>3, BooksAreNumbers DEF Booked, NoOrderUnaccounted
<1> QED
    BY <1>2, <1>3, <1>4, <1>5 DEF Booked

LEMMA GetIsBooked ==
    ASSUME Booked, ClientsInv', NEW c \in Client, GetOrderStatus(c) \/ GetOrderStatusFails(c)
    PROVE  Booked'
<1>1. /\ request[c].op = "get" /\ UNCHANGED orderVars
      /\ \E reply : ReplyTo(c, reply)
    BY DEF GetOrderStatus, GetOrderStatusFails, Asked
<1>2. /\ \E reply : answer' = [answer EXCEPT ![c] = reply]
      /\ UNCHANGED <<request, known, told, createErrors, interrupted, orphans, abandons>>
    BY <1>1 DEF ReplyTo
<1>3. \A d \in Client \ {c} : answer'[d] = answer[d]
    BY <1>2 DEF Booked, ClientsInv, ClientsTypeOK
<1>4. NewIds'
    BY <1>1, <1>2, <1>3, NewIdsStay DEF Booked, Created
<1>5. Unheard' = Unheard
    BY <1>1, <1>2 DEF Unheard
<1>6. Unread' = Unread
    BY <1>1, <1>2, <1>3 DEF Unread
<1> QED
    BY <1>2, <1>4, <1>5, <1>6, NothingToBook

LEMMA OrphanIsBooked ==
    ASSUME Booked, ClientsInv', OrphanEnds
    PROVE  Booked'
<1>1. /\ orphans > 0 /\ orphans' = orphans - 1
      /\ UNCHANGED <<callVars, createErrors, interrupted, dbFailures, abandons>>
    BY DEF OrphanEnds
<1>2. /\ IsFiniteSet(Unheard') /\ Cardinality(Unheard') \in Nat
      /\ Cardinality(Unheard') <= Cardinality(Unheard) + 1
  <2>1. CASE UNCHANGED orderVars
    <3>1. Unheard' = Unheard
        BY <1>1, <2>1 DEF Unheard
    <3> QED
        BY <3>1, BooksAreNumbers DEF Booked
  <2>2. CASE \E o \in Order : Lifecycle!Place(o)
      BY <1>1, <2>2, PlacedIsUnheard, FS_CardinalityType
  <2> QED
      BY <2>1, <2>2 DEF OrphanEnds
<1>3. Unread' = Unread
    BY <1>1 DEF Unread
<1>4. NewIds'
    BY <1>1, NewIdsStay DEF Booked, Created
<1>5. NoOrderUnaccounted'
    BY <1>1, <1>2, <1>3, BooksAreNumbers DEF Booked, NoOrderUnaccounted
<1> QED
    BY <1>2, <1>3, <1>4, <1>5 DEF Booked

\* The pipeline works on orders that exist.
LEMMA PipelineIsBooked ==
    ASSUME Booked, ClientsInv', PipelineStep
    PROVE  Booked'
<1>1. UNCHANGED <<callVars, countVars>>
    BY DEF PipelineStep
<1>2. \A o \in Order : status'[o] = "none" <=> status[o] = "none"
  <2>1. PICK p \in Order : \/ Lifecycle!Charge(p) \/ Lifecycle!MarkPaid(p)
                           \/ Lifecycle!Ship(p)   \/ Lifecycle!MarkDelivered(p)
      BY DEF PipelineStep
  <2>2. \/ status' = status
        \/ /\ status[p] # "none"
           /\ \E s : s # "none" /\ status' = [status EXCEPT ![p] = s]
      BY <2>1 DEF Lifecycle!Charge, Lifecycle!MarkPaid, Lifecycle!Ship, Lifecycle!MarkDelivered
  <2> QED
      BY <2>2 DEF Booked, ClientsInv, ClientsTypeOK
<1>3. Unheard' = Unheard
    BY <1>1, <1>2 DEF Unheard
<1>4. Unread' = Unread
    BY <1>1 DEF Unread
<1>5. NewIds'
    BY <1>1, NewIdsStay DEF Booked, Created
<1> QED
    BY <1>1, <1>3, <1>4, <1>5, NothingToBook

\* Booked is inductive.
LEMMA BookedNext == Booked /\ [ClientsNext]_clientsVars => Booked'
<1> SUFFICES ASSUME Booked, [ClientsNext]_clientsVars PROVE Booked'
    OBVIOUS
<1>1. ClientsInv'
    BY ClientsInvNext DEF Booked
<1>2. ASSUME NEW c \in Client, AskCreate(c) \/ AskStatus(c) PROVE Booked'
    BY <1>1, <1>2, AskIsBooked
<1>3. ASSUME NEW c \in Client, TakeReply(c) PROVE Booked'
    BY <1>1, <1>3, TakeIsBooked
<1>4. ASSUME NEW c \in Client, GiveUp(c) \/ Interrupt(c) PROVE Booked'
    BY <1>1, <1>4, AbandonIsBooked
<1>5. ASSUME NEW c \in Client, CreateOrder(c) PROVE Booked'
    BY <1>1, <1>5, CreateIsBooked
<1>6. ASSUME NEW c \in Client, CreateOrderFails(c) PROVE Booked'
    BY <1>1, <1>6, CreateFailsIsBooked
<1>7. ASSUME NEW c \in Client, GetOrderStatus(c) \/ GetOrderStatusFails(c) PROVE Booked'
    BY <1>1, <1>7, GetIsBooked
<1>8. CASE OrphanEnds
    BY <1>1, <1>8, OrphanIsBooked
<1>9. CASE PipelineStep
    BY <1>1, <1>9, PipelineIsBooked
<1>10. CASE UNCHANGED clientsVars
    BY <1>1, <1>10 DEF Booked, NewIds, Created, NoOrderUnaccounted, Unheard, Unread
<1> QED
    BY <1>2, <1>3, <1>4, <1>5, <1>6, <1>7, <1>8, <1>9, <1>10 DEF ClientsNext

\* However many creates fail, are given up or are left to the database, there are
\* no more orders nobody knows of than the clients have reasons for.
THEOREM OrdersAreAccounted == ClientsSpec => []NoOrderUnaccounted
<1>1. Booked => NoOrderUnaccounted
    BY DEF Booked
<1> QED
    BY <1>1, BookedInit, BookedNext, PTL DEF ClientsSpec
=============================================================================
