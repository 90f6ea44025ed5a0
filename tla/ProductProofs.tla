--------------------------- MODULE ProductProofs ---------------------------
(***************************************************************************)
(* The product service under any interleaving and any faults: type         *)
(* correctness, complete products, deletions that are final, rows left     *)
(* behind, and events that follow the rows.                                *)
(***************************************************************************)
EXTENDS ProductCatalog, TLAPS

USE DEF vars, tables, history, outside

-----------------------------------------------------------------------------
(* Type correctness, in three parts.                                        *)

TablesOK ==
    /\ products \in [Product -> Row \cup {NoRow}]
    /\ attributes \in [Product -> AttributesRow]
    /\ links \in [Product -> Links]
    /\ stocked \subseteq Product /\ deleted \subseteq Product

\* Beyond TypeOK: a request in flight asks for something, and an update has the
\* row it found.
RequestsOK ==
    /\ ask \in [Request -> Ask \cup {NoAsk}]
    /\ at \in [Request -> Point]
    /\ read \in [Request -> [row : Row \cup {NoRow}, attributes : AttributesRow]]
    /\ \A r \in Request : InFlight(r) =>
           /\ ask[r] \in Ask
           /\ at[r] = "findAttributes" => ask[r].op = "update"
           /\ ask[r].op = "update" => read[r].row \in Row
           /\ at[r] = "publish" => ask[r].op # "stock"

OutsideOK ==
    /\ announced \in [Product -> Event]
    /\ channel \in {"open", "closed"}
    /\ raced \subseteq Product /\ hit \subseteq Product
    /\ faults \in 0..MaxFaults

TypeInv == TablesOK /\ RequestsOK /\ OutsideOK

LEMMA TypeInvTypes == TypeInv => TypeOK
  BY DEF TypeInv, TablesOK, RequestsOK, OutsideOK, TypeOK

LEMMA AskType ==
    ASSUME NEW a \in Ask
    PROVE  /\ a.op \in {"create", "update", "delete", "stock"}
           /\ a.op # "create" => a.product \in Product
           /\ a.seller \in Seller
           /\ a.status \in Asked \cup {"keep"}
           /\ a.attributes \in Attributes \cup {"keep"}
           /\ a.categories \in Links
           /\ a.op = "create" => a.body \in Body
           /\ a.op = "update" => a.body \in Body \cup {"keep"}
  BY CatalogConstants DEF Ask, Links

LEMMA StatusType == Asked \subseteq Status
  BY CatalogConstants DEF Status

\* A request in flight makes a body and writes a row, and is about a product.
LEMMA WrittenType ==
    ASSUME RequestsOK, NEW r \in Request, InFlight(r), ask[r].op \in {"create", "update"}
    PROVE  Composed(r) \in Body /\ Written(r) \in Row
  <1>1. ask[r] \in Ask /\ (ask[r].op = "update" => read[r].row \in Row)
    BY DEF RequestsOK
  <1>2. Composed(r) \in Body
    <2>1. CASE ask[r].op = "create"
      BY <1>1, <2>1, AskType, CatalogConstants DEF Composed, Given
    <2>2. CASE ask[r].op = "update"
      BY <1>1, <2>2, AskType DEF Composed, Given, Row
    <2> QED  BY <2>1, <2>2
  <1>3. Kept[Composed(r)] \in Body
    BY <1>2, CatalogConstants
  <1>4. CASE ask[r].op = "create"
    <2>1. ask[r].seller \in Seller /\ Given(ask[r].status, "draft") \in Status
      BY <1>1, AskType, StatusType DEF Given, Status
    <2>2. Written(r) = [seller |-> ask[r].seller, body |-> Kept[Composed(r)],
                        status |-> Given(ask[r].status, "draft")]
      BY <1>4 DEF Written
    <2> QED  BY <1>2, <1>3, <2>1, <2>2 DEF Row
  <1>5. CASE ask[r].op = "update"
    <2>1. read[r].row.seller \in Seller /\ Given(ask[r].status, read[r].row.status) \in Status
      BY <1>1, <1>5, AskType, StatusType DEF Given, Row
    <2>2. Written(r) = [seller |-> read[r].row.seller, body |-> Kept[Composed(r)],
                        status |-> Given(ask[r].status, read[r].row.status)]
      BY <1>5 DEF Written
    <2> QED  BY <1>2, <1>3, <2>1, <2>2 DEF Row
  <1> QED  BY <1>2, <1>4, <1>5

LEMMA TargetType ==
    ASSUME RequestsOK, NEW r \in Request, InFlight(r)
    PROVE  Target(r) \in Product
  BY AskType DEF RequestsOK, Target, Product

LEMMA EventType ==
    ASSUME RequestsOK, NEW r \in Request, InFlight(r), at[r] = "publish"
    PROVE  EventOf(r) \in Event
  <1>1. ask[r] \in Ask /\ ask[r].op # "stock" /\ read[r].attributes \in AttributesRow
    BY DEF RequestsOK
  <1>2. Silence("PRODUCT_DELETED") \in Event /\ Silence("PRODUCT_STATUS_CHANGED") \in Event
    BY DEF Silence, Event
  <1>3. CASE ask[r].op = "delete"
    BY <1>2, <1>3 DEF EventOf
  <1>4. CASE ask[r].op \in {"create", "update"}
    <2>1. Written(r) \in Row /\ Composed(r) \in Body
      BY <1>4, WrittenType
    <2>2. Given(ask[r].attributes, read[r].attributes) \in AttributesRow
      BY <1>1, AskType DEF Given, AttributesRow
    <2> QED  BY <1>2, <1>4, <2>1, <2>2 DEF EventOf, Event
  <1> QED  BY <1>1, <1>3, <1>4, AskType

LEMMA CommitTypes ==
    ASSUME TablesOK, RequestsOK, NEW r \in Request, InFlight(r), ~Incomplete(r), Commit(r)
    PROVE  TablesOK'
  <1>1. ask[r] \in Ask /\ r \in Product
    BY DEF RequestsOK, Product
  <1>2. CASE ask[r].op = "create" /\ Insert(r)
    <2>1. Written(r) \in Row /\ ask[r].attributes \in AttributesRow /\ ask[r].categories \in Links
      BY <1>1, <1>2, WrittenType, AskType DEF Incomplete, AttributesRow
    <2> QED  BY <1>1, <1>2, <2>1 DEF Insert, TablesOK
  <1>3. CASE ask[r].op = "update" /\ Change(r)
    <2>1. ask[r].product \in Product /\ Written(r) \in Row /\ ask[r].categories \in Links
      BY <1>1, <1>3, WrittenType, AskType
    <2>2. Given(ask[r].attributes, attributes[ask[r].product]) \in AttributesRow
      BY <1>1, <2>1, AskType DEF Given, AttributesRow, TablesOK
    <2> QED  BY <1>3, <2>1, <2>2 DEF Change, TablesOK
  <1>4. CASE ask[r].op = "delete" /\ Remove(ask[r].product)
    BY <1>1, <1>4, AskType DEF Remove, TablesOK
  <1>5. CASE ask[r].op = "stock" /\ stocked' = stocked \cup {ask[r].product}
             /\ UNCHANGED <<products, attributes, links, deleted>>
    BY <1>1, <1>5, AskType DEF TablesOK
  <1> QED  BY <1>2, <1>3, <1>4, <1>5 DEF Commit

LEMMA EndTypes ==
    ASSUME RequestsOK, NEW r \in Request, NEW point \in {"done", "failed"}, End(r, point)
    PROVE  RequestsOK'
  <1>1. NothingRead \in [row : Row \cup {NoRow}, attributes : AttributesRow]
    BY DEF NothingRead, AttributesRow
  <1>2. point \in Point \ InFlightAt
    BY DEF Point, InFlightAt
  <1> QED  BY <1>1, <1>2 DEF RequestsOK, End, InFlight

LEMMA BeginTypes ==
    ASSUME TypeInv, NEW r \in Request, Begin(r)
    PROVE  TypeInv'
  <1>1. PICK a \in Ask : Askable(a) /\ (BeginCreate(r, a) \/ BeginOnProduct(r, a) \/ TurnAway(r, a))
    BY DEF Begin
  <1>2. TablesOK' /\ (OutsideOK /\ raced' \subseteq Product => OutsideOK')
    BY DEF Begin, TypeInv, TablesOK, OutsideOK
  <1>3. {"save", "findAttributes"} \subseteq Point
    BY DEF Point, InFlightAt
  <1>4. CASE BeginCreate(r, a)
    BY <1>2, <1>3, <1>4 DEF BeginCreate, TypeInv, RequestsOK, InFlight, OutsideOK
  <1>5. CASE BeginOnProduct(r, a)
    <2>1. a.product \in Product /\ a.seller \in Seller
      BY <1>5, AskType DEF BeginOnProduct
    <2>2. products[a.product] \in Row
      BY <1>5, <2>1, CatalogConstants DEF BeginOnProduct, TypeInv, TablesOK, NoRow
    <2>3. [row |-> products[a.product], attributes |-> "none"]
              \in [row : Row \cup {NoRow}, attributes : AttributesRow]
      BY <2>2 DEF AttributesRow
    <2>4. PICK point \in {"save", "findAttributes"}, found \in [row : Row \cup {NoRow}, attributes : AttributesRow] :
              /\ at' = [at EXCEPT ![r] = point]
              /\ ask' = [ask EXCEPT ![r] = a]
              /\ read' = [read EXCEPT ![r] = found]
              /\ point = "findAttributes" => a.op = "update"
              /\ a.op = "update" => found.row \in Row
      <3>1. CASE a.op = "update"
        BY <1>5, <2>2, <2>3, <3>1 DEF BeginOnProduct
      <3>2. CASE a.op # "update"
        <4>1. read[r] \in [row : Row \cup {NoRow}, attributes : AttributesRow]
          BY DEF TypeInv, RequestsOK
        <4>2. read' = [read EXCEPT ![r] = read[r]]
          BY <1>5, <3>2 DEF BeginOnProduct, TypeInv, RequestsOK
        <4> QED  BY <1>5, <3>2, <4>1, <4>2 DEF BeginOnProduct
      <3> QED  BY <3>1, <3>2
    <2>5. point \in Point /\ point # "publish"
      BY <1>3
    <2>6. raced' \subseteq Product
      BY <1>5, <2>1 DEF BeginOnProduct, TypeInv, OutsideOK
    <2>7. RequestsOK'
      BY <2>4, <2>5 DEF TypeInv, RequestsOK, InFlight
    <2> QED  BY <1>2, <2>6, <2>7 DEF TypeInv
  <1>6. CASE TurnAway(r, a)
    BY <1>2, <1>6, EndTypes DEF TurnAway, TypeInv, OutsideOK
  <1> QED  BY <1>1, <1>4, <1>5, <1>6

\* What keeps the requests' variables in type between the two ends.
LEMMA GotoTypes ==
    ASSUME RequestsOK, NEW r \in Request, at[r] = "save", ask[r].op # "stock",
           Goto(r, "publish")
    PROVE  RequestsOK'
  <1>1. "publish" \in Point /\ InFlight(r)
    BY DEF Point, InFlightAt, InFlight
  <1> QED  BY <1>1 DEF RequestsOK, Goto, InFlight

LEMMA SaveTypes ==
    ASSUME TypeInv, NEW r \in Request, Save(r)
    PROVE  TypeInv'
  <1>1. InFlight(r)
    BY DEF Save, InFlight, InFlightAt
  <1>2. OutsideOK'
    BY DEF Save, TypeInv, OutsideOK
  <1>3. CASE Incomplete(r) /\ End(r, "failed") /\ UNCHANGED tables
    BY <1>2, <1>3, EndTypes DEF TypeInv, TablesOK
  <1>4. CASE ~Incomplete(r) /\ Commit(r) /\ Announces(r) /\ Goto(r, "publish")
    <2>1. ask[r].op # "stock"
      BY <1>4 DEF Announces
    <2> QED  BY <1>1, <1>2, <1>4, <2>1, CommitTypes, GotoTypes DEF Save, TypeInv
  <1>5. CASE ~Incomplete(r) /\ Commit(r) /\ ~Announces(r) /\ End(r, "done")
    BY <1>1, <1>2, <1>5, CommitTypes, EndTypes DEF TypeInv
  <1> QED  BY <1>3, <1>4, <1>5 DEF Save

LEMMA FindAttributesTypes ==
    ASSUME TypeInv, NEW r \in Request, FindAttributes(r)
    PROVE  TypeInv'
  <1>1. InFlight(r) /\ "save" \in Point
    BY DEF FindAttributes, InFlight, InFlightAt, Point
  <1>2. ask[r] \in Ask /\ ask[r].op = "update" /\ read[r].row \in Row
    BY <1>1 DEF FindAttributes, TypeInv, RequestsOK
  <1>3. attributes[ask[r].product] \in AttributesRow
    BY <1>2, AskType DEF TypeInv, TablesOK
  <1>4. PICK found \in [row : Row \cup {NoRow}, attributes : AttributesRow] :
            found.row \in Row /\ read' = [read EXCEPT ![r] = found]
    <2>1. [row |-> read[r].row, attributes |-> attributes[ask[r].product]]
              \in [row : Row \cup {NoRow}, attributes : AttributesRow]
      BY <1>2, <1>3
    <2> QED  BY <1>2, <2>1 DEF FindAttributes, TypeInv, RequestsOK
  <1>5. RequestsOK'
    BY <1>1, <1>2, <1>4 DEF FindAttributes, TypeInv, RequestsOK, InFlight
  <1> QED  BY <1>5 DEF FindAttributes, TypeInv, TablesOK, OutsideOK

LEMMA PublishTypes ==
    ASSUME TypeInv, NEW r \in Request, Publish(r) \/ PublishFails(r) \/ PublishLost(r)
    PROVE  TypeInv'
  <1>1. InFlight(r) /\ at[r] = "publish"
    BY DEF Publish, PublishFails, PublishLost, InFlight, InFlightAt
  <1>2. RequestsOK'
    BY EndTypes DEF Publish, PublishFails, PublishLost, TypeInv
  <1>3. Target(r) \in Product /\ EventOf(r) \in Event
    BY <1>1, TargetType, EventType DEF TypeInv
  <1>4. TablesOK'
    BY DEF Publish, PublishFails, PublishLost, TypeInv, TablesOK
  <1>5. announced' \in [Product -> Event]
    BY <1>3 DEF Publish, PublishFails, PublishLost, TypeInv, OutsideOK
  <1>6. faults' \in 0..MaxFaults
    BY CatalogConstants DEF Publish, PublishFails, PublishLost, Fault, TypeInv, OutsideOK
  <1>7. channel' \in {"open", "closed"} /\ raced' \subseteq Product /\ hit' \subseteq Product
    BY <1>3 DEF Publish, PublishFails, PublishLost, TypeInv, OutsideOK
  <1> QED  BY <1>2, <1>4, <1>5, <1>6, <1>7 DEF TypeInv, OutsideOK

LEMMA FaultTypes ==
    ASSUME TypeInv, (\E r \in Request : OperationFails(r)) \/ BrokerRestarts \/ ServiceRestarts
    PROVE  TypeInv'
  <1>1. faults' \in 0..MaxFaults
    BY CatalogConstants DEF OperationFails, BrokerRestarts, ServiceRestarts, Fault,
                            TypeInv, OutsideOK
  <1>2. ASSUME NEW r \in Request, OperationFails(r)
        PROVE  TypeInv'
    <2>1. InFlight(r)
      BY <1>2 DEF OperationFails, LooksUp, InFlight, InFlightAt
    <2>2. TablesOK'
      <3>1. CASE UNCHANGED tables
        BY <3>1 DEF TypeInv, TablesOK
      <3>2. CASE at[r] = "save" /\ ~Incomplete(r) /\ Commit(r)
        BY <2>1, <3>2, CommitTypes DEF TypeInv
      <3> QED  BY <1>2, <3>1, <3>2 DEF OperationFails
    <2>3. RequestsOK' /\ Target(r) \in Product
      BY <1>2, <2>1, EndTypes, TargetType DEF OperationFails, TypeInv
    <2> QED  BY <1>1, <1>2, <2>2, <2>3 DEF OperationFails, TypeInv, OutsideOK
  <1>3. CASE BrokerRestarts
    BY <1>1, <1>3 DEF BrokerRestarts, TypeInv, TablesOK, RequestsOK, OutsideOK, InFlight
  <1>4. CASE ServiceRestarts
    <2>1. NothingRead \in [row : Row \cup {NoRow}, attributes : AttributesRow]
      BY DEF NothingRead, AttributesRow
    <2>2. "failed" \in Point \ InFlightAt
      BY DEF Point, InFlightAt
    <2>3. RequestsOK'
      BY <1>4, <2>1, <2>2 DEF ServiceRestarts, TypeInv, RequestsOK, InFlight
    <2>4. hit' \subseteq Product
      BY <1>4, TargetType DEF ServiceRestarts, TypeInv, OutsideOK
    <2> QED  BY <1>1, <1>4, <2>3, <2>4 DEF ServiceRestarts, TypeInv, TablesOK, OutsideOK
  <1> QED  BY <1>2, <1>3, <1>4

LEMMA InitTypes == Init => TypeInv
  <1> SUFFICES ASSUME Init
               PROVE  TypeInv
    OBVIOUS
  <1>1. PICK row \in {NoRow} \cup [seller : Seller, body : {Kept[b] : b \in Sent},
                                  status : {"draft"}], a \in Attributes :
            /\ products = [p \in Product |-> IF p = "inherited" THEN row ELSE NoRow]
            /\ attributes = [p \in Product |->
                   IF p = "inherited" /\ row # NoRow THEN a ELSE "none"]
            /\ stocked = IF row = NoRow THEN {} ELSE {"inherited"}
    BY DEF Init
  <1>0. row \in Row \cup {NoRow}
    <2>1. {Kept[b] : b \in Sent} \subseteq Body
      BY CatalogConstants
    <2> QED  BY <1>1, <2>1 DEF Row, Status
  <1>2. TablesOK
    BY <1>0, <1>1 DEF Init, TablesOK, AttributesRow, Links, Product
  <1>3. NothingRead \in [row : Row \cup {NoRow}, attributes : AttributesRow]
    BY DEF NothingRead, AttributesRow
  <1>4. "unused" \in Point \ InFlightAt
    BY DEF Point, InFlightAt
  <1>5. RequestsOK
    BY <1>3, <1>4 DEF Init, RequestsOK, InFlight
  <1>6. Silence("none") \in Event
    BY DEF Silence, Event
  <1> QED  BY <1>2, <1>5, <1>6, CatalogConstants DEF Init, TypeInv, OutsideOK

LEMMA TypeStep == TypeInv /\ [Next]_vars => TypeInv'
  <1> SUFFICES ASSUME TypeInv, [Next]_vars
               PROVE  TypeInv'
    OBVIOUS
  <1>1. ASSUME NEW r \in Request, Begin(r)
        PROVE  TypeInv'
    BY <1>1, BeginTypes
  <1>2. ASSUME NEW r \in Request, FindAttributes(r)
        PROVE  TypeInv'
    BY <1>2, FindAttributesTypes
  <1>3. ASSUME NEW r \in Request, Save(r)
        PROVE  TypeInv'
    BY <1>3, SaveTypes
  <1>4. ASSUME NEW r \in Request, Publish(r) \/ PublishFails(r) \/ PublishLost(r)
        PROVE  TypeInv'
    BY <1>4, PublishTypes
  <1>5. CASE (\E r \in Request : OperationFails(r)) \/ BrokerRestarts \/ ServiceRestarts
    BY <1>5, FaultTypes
  <1>6. CASE UNCHANGED vars
    BY <1>6 DEF TypeInv, TablesOK, RequestsOK, OutsideOK, InFlight
  <1> QED  BY <1>1, <1>2, <1>3, <1>4, <1>5, <1>6 DEF Next

\* Type correctness of the product service (ProductCatalog) for any requests,
\* sellers, categories and bodies.
THEOREM CatalogTyping == Spec => []TypeOK
  <1>1. TypeInv => TypeOK
    BY TypeInvTypes
  <1> QED  BY <1>1, InitTypes, TypeStep, PTL DEF Spec

-----------------------------------------------------------------------------
(* Which steps write to the tables.                                         *)

Commits(r) == at[r] = "save" /\ InFlight(r) /\ ~Incomplete(r) /\ Commit(r)

LEMMA WhoWrites ==
    ASSUME [Next]_vars
    PROVE  \/ UNCHANGED tables
           \/ \E r \in Request : Commits(r) /\ (Save(r) \/ OperationFails(r))
  <1>1. ASSUME NEW r \in Request, Save(r)
        PROVE  UNCHANGED tables \/ Commits(r)
    BY <1>1 DEF Save, Commits, InFlight, InFlightAt
  <1>2. ASSUME NEW r \in Request, OperationFails(r)
        PROVE  UNCHANGED tables \/ Commits(r)
    BY <1>2 DEF OperationFails, Commits, InFlight, InFlightAt
  <1>3. ASSUME NEW r \in Request,
               Begin(r) \/ FindAttributes(r) \/ Publish(r) \/ PublishFails(r) \/ PublishLost(r)
        PROVE  UNCHANGED tables
    BY <1>3 DEF Begin, FindAttributes, Publish, PublishFails, PublishLost
  <1>4. BrokerRestarts \/ ServiceRestarts \/ UNCHANGED vars => UNCHANGED tables
    BY DEF BrokerRestarts, ServiceRestarts
  <1> QED  BY <1>1, <1>2, <1>3, <1>4 DEF Next

-----------------------------------------------------------------------------
(* Products on sale are complete.                                           *)

LEMMA CommitKeepsComplete ==
    ASSUME TypeInv, LiveProductsComplete, NEW r \in Request, Commits(r)
    PROVE  LiveProductsComplete'
  <1>1. ask[r] \in Ask /\ r \in Product
    BY DEF Commits, TypeInv, RequestsOK, Product
  <1>2. CASE ask[r].op = "create" /\ Insert(r)
    <2>1. ask[r].attributes # "none"
      BY <1>1, <1>2, AskType, CatalogConstants DEF Commits, Incomplete
    <2> QED  BY <1>1, <1>2, <2>1 DEF Insert, TypeInv, TablesOK, LiveProductsComplete, Live
  <1>3. CASE ask[r].op = "update" /\ Change(r)
    <2>1. ask[r].product \in Product /\ ask[r].attributes # "none"
      BY <1>1, <1>3, AskType, CatalogConstants
    <2>2. \A p \in Product : Live(p)' => Live(p)
      BY <1>3, <2>1 DEF Change, TypeInv, TablesOK, Live
    <2>3. \A p \in Product : attributes[p] # "none" => attributes'[p] # "none"
      BY <1>3, <2>1 DEF Change, Given, TypeInv, TablesOK
    <2> QED  BY <1>3, <2>2, <2>3 DEF Change, LiveProductsComplete
  <1>4. CASE ask[r].op = "delete" /\ Remove(ask[r].product)
    BY <1>1, <1>4, AskType DEF Remove, TypeInv, TablesOK, LiveProductsComplete, Live
  <1>5. CASE ask[r].op = "stock" /\ stocked' = stocked \cup {ask[r].product}
             /\ UNCHANGED <<products, attributes, links, deleted>>
    BY <1>5 DEF LiveProductsComplete, Live
  <1> QED  BY <1>2, <1>3, <1>4, <1>5 DEF Commits, Commit

\* A product on sale has its attributes and its stock, whatever failed when it was
\* created or overlapped since (ProductCatalog).
THEOREM ProductsComplete == Spec => []LiveProductsComplete
  <1>1. Init => LiveProductsComplete
    BY CatalogConstants DEF Init, LiveProductsComplete, Live, NoRow
  <1>2. TypeInv /\ LiveProductsComplete /\ [Next]_vars => LiveProductsComplete'
    BY WhoWrites, CommitKeepsComplete DEF LiveProductsComplete, Live
  <1> QED  BY <1>1, <1>2, InitTypes, TypeStep, PTL DEF Spec

-----------------------------------------------------------------------------
(* Deletions are final.                                                     *)

\* A request that is yet to create its product.
Unborn(r) == at[r] = "unused" \/ (at[r] = "save" /\ ask[r].op = "create")

\* A product nobody has created yet is in no table, was never deleted, and no
\* request is about it: the creation cannot bring back what was deleted.
BirthInv ==
    \A r \in Request :
        /\ Unborn(r) => ~Live(r) /\ r \notin deleted
        /\ InFlight(r) /\ ask[r].op # "create" =>
               \A s \in Request : Unborn(s) => ask[r].product # s

\* What a step other than Begin does to requests.
Advance ==
    \A r \in Request :
        /\ Unborn(r)' => Unborn(r)
        /\ InFlight(r)' => InFlight(r) /\ ask'[r] = ask[r]

LEMMA EndAdvances ==
    ASSUME TypeInv, NEW r \in Request, NEW point \in {"done", "failed"}, End(r, point)
    PROVE  Advance /\ ~Unborn(r)'
  BY DEF TypeInv, RequestsOK, End, Advance, Unborn, InFlight, InFlightAt

LEMMA StepsAdvance ==
    ASSUME TypeInv, [Next]_vars
    PROVE  Advance \/ \E r \in Request : Begin(r)
  <1>1. ASSUME NEW r \in Request,
               \/ Save(r) \/ Publish(r) \/ PublishFails(r) \/ PublishLost(r)
               \/ OperationFails(r)
        PROVE  Advance
    <2>1. CASE End(r, "done") \/ End(r, "failed")
      BY <2>1, EndAdvances
    <2>2. CASE Save(r) /\ Goto(r, "publish")
      BY <2>2 DEF Save, Goto, TypeInv, RequestsOK, Advance, Unborn, InFlight, InFlightAt
    <2> QED  BY <1>1, <2>1, <2>2 DEF Save, Publish, PublishFails, PublishLost, OperationFails
  <1>2. ASSUME NEW r \in Request, FindAttributes(r)
        PROVE  Advance
    <2>1. ask[r].op = "update" /\ InFlight(r)
      BY <1>2 DEF FindAttributes, TypeInv, RequestsOK, InFlight, InFlightAt
    <2> QED  BY <1>2, <2>1 DEF FindAttributes, TypeInv, RequestsOK, Advance, Unborn, InFlight
  <1>3. CASE ServiceRestarts
    BY <1>3 DEF ServiceRestarts, Advance, Unborn, InFlight, InFlightAt
  <1>4. CASE BrokerRestarts \/ UNCHANGED vars
    BY <1>4 DEF BrokerRestarts, Advance, Unborn, InFlight
  <1> QED  BY <1>1, <1>2, <1>3, <1>4 DEF Next

LEMMA BeginKeepsBirth ==
    ASSUME TypeInv, BirthInv, NEW q \in Request, Begin(q)
    PROVE  BirthInv'
  <1>1. PICK a \in Ask : BeginCreate(q, a) \/ BeginOnProduct(q, a) \/ TurnAway(q, a)
    BY DEF Begin
  <1>2. UNCHANGED tables /\ at[q] = "unused" /\ Unborn(q)
    BY DEF Begin, Unborn
  <1>3. CASE TurnAway(q, a)
    BY <1>2, <1>3, EndAdvances DEF TurnAway, BirthInv, Advance, Live
  <1>4. CASE BeginCreate(q, a)
    <2>1. \A r \in Request : Unborn(r)' => Unborn(r)
      BY <1>2, <1>4 DEF BeginCreate, TypeInv, RequestsOK, Unborn
    <2>2. \A r \in Request : InFlight(r)' /\ ask'[r].op # "create" =>
                                 InFlight(r) /\ ask'[r] = ask[r]
      BY <1>4 DEF BeginCreate, TypeInv, RequestsOK, InFlight
    <2> QED  BY <1>2, <2>1, <2>2 DEF BirthInv, Live
  <1>5. CASE BeginOnProduct(q, a)
    <2>1. a.product \in Product /\ Live(a.product)
      BY <1>5, AskType, CatalogConstants DEF BeginOnProduct, Live, NoRow
    <2>2. \A r \in Request : Unborn(r)' => Unborn(r)
      BY <1>2, <1>5 DEF BeginOnProduct, TypeInv, RequestsOK, Unborn
    <2>3. \A s \in Request : Unborn(s) => a.product # s
      BY <2>1 DEF BirthInv
    <2>4. \A r \in Request \ {q} : InFlight(r)' => InFlight(r) /\ ask'[r] = ask[r]
      BY <1>5 DEF BeginOnProduct, TypeInv, RequestsOK, InFlight
    <2>5. ask'[q] = a
      BY <1>5 DEF BeginOnProduct, TypeInv, RequestsOK
    <2> QED  BY <1>2, <2>2, <2>3, <2>4, <2>5 DEF BirthInv, Live
  <1> QED  BY <1>1, <1>3, <1>4, <1>5

LEMMA CommitKeepsBirth ==
    ASSUME TypeInv, BirthInv, DeletedForGood, NEW q \in Request, Commits(q), Advance, ~Unborn(q)'
    PROVE  BirthInv' /\ DeletedForGood'
  <1>1. ask[q] \in Ask /\ q \in Product
    BY DEF Commits, TypeInv, RequestsOK, Product
  <1>2. /\ \A p \in Product : Live(p)' => Live(p) \/ (p = q /\ ask[q].op = "create")
        /\ \A p \in deleted' : p \in deleted
              \/ (p = ask[q].product /\ ask[q].op = "delete" /\ ~Live(p)')
    <2>1. CASE ask[q].op = "create" /\ Insert(q)
      BY <1>1, <2>1 DEF Insert, TypeInv, TablesOK, Live
    <2>2. CASE ask[q].op = "update" /\ Change(q)
      BY <1>1, <2>2, AskType DEF Change, TypeInv, TablesOK, Live
    <2>3. CASE ask[q].op = "delete" /\ Remove(ask[q].product)
      BY <1>1, <2>3, AskType DEF Remove, TypeInv, TablesOK, Live
    <2>4. CASE ask[q].op = "stock" /\ UNCHANGED <<products, attributes, links, deleted>>
      BY <2>4 DEF Live
    <2> QED  BY <2>1, <2>2, <2>3, <2>4 DEF Commits, Commit
  <1>3. ask[q].op = "create" => q \notin deleted
    BY DEF Commits, BirthInv, Unborn
  <1>4. ask[q].op = "delete" => \A s \in Request : Unborn(s) => ask[q].product # s
    BY DEF Commits, BirthInv
  <1>5. DeletedForGood'
    BY <1>2, <1>3 DEF DeletedForGood, TypeInv, TablesOK
  <1>6. \A r \in Request : Unborn(r)' => ~Live(r)' /\ r \notin deleted'
    BY <1>2, <1>4 DEF BirthInv, Advance, Product
  <1>7. \A r \in Request : InFlight(r)' /\ ask'[r].op # "create" =>
            \A s \in Request : Unborn(s)' => ask'[r].product # s
    BY DEF BirthInv, Advance
  <1> QED  BY <1>5, <1>6, <1>7 DEF BirthInv

LEMMA BirthStep ==
    ASSUME TypeInv, BirthInv, DeletedForGood, [Next]_vars
    PROVE  BirthInv' /\ DeletedForGood'
  <1>1. ASSUME NEW q \in Request, Commits(q), Save(q) \/ OperationFails(q)
        PROVE  BirthInv' /\ DeletedForGood'
    <2>1. CASE End(q, "done") \/ End(q, "failed")
      BY <1>1, <2>1, EndAdvances, CommitKeepsBirth
    <2>2. CASE Goto(q, "publish")
      <3>1. Advance /\ ~Unborn(q)'
        BY <1>1, <2>2 DEF Commits, Goto, TypeInv, RequestsOK, Advance, Unborn, InFlight, InFlightAt
      <3> QED  BY <1>1, <3>1, CommitKeepsBirth
    <2> QED  BY <1>1, <2>1, <2>2 DEF Save, OperationFails
  <1>2. CASE UNCHANGED tables
    <2>1. DeletedForGood'
      BY <1>2 DEF DeletedForGood, Live
    <2>2. CASE Advance
      BY <1>2, <2>1, <2>2 DEF BirthInv, Advance, Live
    <2>3. CASE \E r \in Request : Begin(r)
      BY <2>1, <2>3, BeginKeepsBirth
    <2> QED  BY <2>2, <2>3, StepsAdvance
  <1> QED  BY <1>1, <1>2, WhoWrites

LEMMA BirthInit == Init => BirthInv /\ DeletedForGood
  BY CatalogConstants DEF Init, BirthInv, DeletedForGood, Unborn, InFlight, InFlightAt, Live,
                          Product

\* A deleted product stays deleted, whatever update of it was under way
\* (ProductCatalog).
THEOREM DeletionsAreFinal == Spec => []DeletedForGood
  BY BirthInit, BirthStep, InitTypes, TypeStep, PTL DEF Spec

-----------------------------------------------------------------------------
(* Rows without a product are those of deleted ones.                        *)

\* Whoever writes to the other tables has seen the product.
RowsInv ==
    /\ LeftoversAreOfDeleted
    /\ \A r \in Request : InFlight(r) /\ ask[r].op # "create" => Known(ask[r].product)

LEMMA RowIsRow == NoRow \notin Row
  <1>1. \A row \in Row : row.seller \in Seller
    BY DEF Row
  <1>2. NoRow.seller = "none"
    BY DEF NoRow
  <1> QED  BY <1>1, <1>2, CatalogConstants

\* What is known stays known, and the rows a transaction writes are of a product
\* that is known.
LEMMA CommitKeepsRows ==
    ASSUME TypeInv, RowsInv, NEW q \in Request, Commits(q)
    PROVE  LeftoversAreOfDeleted' /\ \A p \in Product : Known(p) => Known(p)'
  <1>1. ask[q] \in Ask /\ q \in Product
    BY DEF Commits, TypeInv, RequestsOK, Product
  <1>2. ask[q].op # "create" => Known(ask[q].product)
    BY DEF Commits, RowsInv
  <1>3. ask[q].op \in {"create", "update"} => Written(q) # NoRow
    BY WrittenType, RowIsRow DEF Commits, TypeInv
  <1>4. CASE ask[q].op = "create" /\ Insert(q)
    <2>1. \A p \in Product : Known(p) => Known(p)'
      BY <1>1, <1>3, <1>4 DEF Insert, TypeInv, TablesOK, Live, Known
    <2>2. Known(q)'
      BY <1>1, <1>3, <1>4 DEF Insert, TypeInv, TablesOK, Live, Known
    <2>3. \A p \in Product \ {q} :
              attributes'[p] = attributes[p] /\ links'[p] = links[p] /\ (p \in stocked' => p \in stocked)
      BY <1>4 DEF Insert, TypeInv, TablesOK
    <2> QED  BY <2>1, <2>2, <2>3 DEF RowsInv, LeftoversAreOfDeleted
  <1>5. CASE ask[q].op = "update" /\ Change(q)
    <2>1. PICK d \in Product : d = ask[q].product
      BY <1>1, <1>5, AskType
    <2>2. \A p \in Product : Known(p) => Known(p)'
      BY <1>3, <1>5, <2>1 DEF Change, TypeInv, TablesOK, Live, Known
    <2>3. \A p \in Product \ {d} :
              attributes'[p] = attributes[p] /\ links'[p] = links[p] /\ (p \in stocked' => p \in stocked)
      BY <1>5, <2>1 DEF Change, TypeInv, TablesOK
    <2>4. Known(d)'
      BY <1>2, <1>5, <2>1, <2>2
    <2> QED  BY <2>2, <2>3, <2>4 DEF RowsInv, LeftoversAreOfDeleted
  <1>6. CASE ask[q].op = "delete" /\ Remove(ask[q].product)
    <2>1. ask[q].product \in Product
      BY <1>1, <1>6, AskType
    <2>2. \A p \in Product : Known(p) => Known(p)'
      BY <1>6, <2>1 DEF Remove, TypeInv, TablesOK, Live, Known
    <2> QED  BY <1>6, <2>2 DEF Remove, RowsInv, LeftoversAreOfDeleted
  <1>7. CASE ask[q].op = "stock" /\ stocked' = stocked \cup {ask[q].product}
             /\ UNCHANGED <<products, attributes, links, deleted>>
    <2>1. \A p \in Product : Known(p) <=> Known(p)'
      BY <1>7 DEF Live, Known
    <2> QED  BY <1>2, <1>7, <2>1 DEF RowsInv, LeftoversAreOfDeleted
  <1> QED  BY <1>4, <1>5, <1>6, <1>7 DEF Commits, Commit

\* A request that begins has seen the product it is about.
LEMMA BeginKeepsRows ==
    ASSUME TypeInv, RowsInv, NEW q \in Request, Begin(q)
    PROVE  RowsInv'
  <1>1. PICK a \in Ask : BeginCreate(q, a) \/ BeginOnProduct(q, a) \/ TurnAway(q, a)
    BY DEF Begin
  <1>2. UNCHANGED tables
    BY DEF Begin
  <1>3. LeftoversAreOfDeleted' /\ \A p : Known(p) <=> Known(p)'
    BY <1>2 DEF RowsInv, LeftoversAreOfDeleted, Known, Live
  <1>4. \A r \in Request \ {q} : InFlight(r)' => InFlight(r) /\ ask'[r] = ask[r]
    BY <1>1 DEF BeginCreate, BeginOnProduct, TurnAway, End, TypeInv, RequestsOK, InFlight
  <1>5. InFlight(q)' /\ ask'[q].op # "create" => Known(ask'[q].product)
    <2>1. CASE BeginCreate(q, a)
      BY <2>1 DEF BeginCreate, TypeInv, RequestsOK
    <2>2. CASE BeginOnProduct(q, a)
      <3>1. Live(a.product)
        BY <2>2, AskType, CatalogConstants DEF BeginOnProduct, Live, NoRow
      <3>2. ask'[q] = a
        BY <2>2 DEF BeginOnProduct, TypeInv, RequestsOK
      <3> QED  BY <3>1, <3>2 DEF Known
    <2>3. CASE TurnAway(q, a)
      BY <2>3 DEF TurnAway, End, TypeInv, RequestsOK, InFlight, InFlightAt
    <2> QED  BY <1>1, <2>1, <2>2, <2>3
  <1>6. \A r \in Request : InFlight(r)' /\ ask'[r].op # "create" => Known(ask'[r].product)
    BY <1>4, <1>5 DEF RowsInv
  <1> QED  BY <1>3, <1>6 DEF RowsInv

\* Requests that go on are about the products they were about.
LEMMA AdvanceKeepsRows ==
    ASSUME TypeInv, RowsInv, Advance, LeftoversAreOfDeleted',
           \A p \in Product : Known(p) => Known(p)'
    PROVE  RowsInv'
  <1>1. \A r \in Request : InFlight(r)' /\ ask'[r].op # "create" =>
            ask'[r].product \in Product /\ Known(ask'[r].product)
    BY AskType DEF Advance, RowsInv, TypeInv, RequestsOK
  <1> QED  BY <1>1 DEF RowsInv

LEMMA RowsStep == TypeInv /\ RowsInv /\ [Next]_vars => RowsInv'
  <1> SUFFICES ASSUME TypeInv, RowsInv, [Next]_vars
               PROVE  RowsInv'
    OBVIOUS
  <1>1. CASE \E r \in Request : Begin(r)
    BY <1>1, BeginKeepsRows
  <1>2. CASE Advance
    <2>1. CASE UNCHANGED tables
      <3>1. LeftoversAreOfDeleted' /\ \A p \in Product : Known(p) => Known(p)'
        BY <2>1 DEF RowsInv, LeftoversAreOfDeleted, Known, Live
      <3> QED  BY <1>2, <3>1, AdvanceKeepsRows
    <2>2. CASE \E r \in Request : Commits(r)
      BY <1>2, <2>2, CommitKeepsRows, AdvanceKeepsRows
    <2> QED  BY <2>1, <2>2, WhoWrites
  <1> QED  BY <1>1, <1>2, StepsAdvance

\* The rows that deletions leave behind, and that overlapping requests add to, are
\* of deleted products only (ProductCatalog).
THEOREM LeftoversKnown == Spec => []LeftoversAreOfDeleted
  <1>1. Init => RowsInv
    <2> SUFFICES ASSUME Init
                 PROVE  RowsInv
      OBVIOUS
    <2>1. \A p \in Product : attributes[p] # "none" \/ links[p] # {} \/ p \in stocked => Live(p)
      BY DEF Init, Live
    <2>2. \A r \in Request : ~InFlight(r)
      BY DEF Init, InFlight, InFlightAt
    <2> QED  BY <2>1, <2>2 DEF RowsInv, LeftoversAreOfDeleted, Known
  <1>2. RowsInv => LeftoversAreOfDeleted
    BY DEF RowsInv
  <1> QED  BY <1>1, <1>2, RowsStep, InitTypes, TypeStep, PTL DEF Spec
-----------------------------------------------------------------------------
(* Only its seller changes a product.                                       *)

\* Whose product it is was looked at when a request began, and its row is written
\* later, with the seller that was read (update and delete of the use cases): still
\* no step but one of a request of its seller, and on it, changes a product, and
\* none changes its seller.
OnlyItsSellerChanges ==
    [][\A p \in Product : Live(p) /\ products'[p] # products[p] =>
           /\ Live(p)' => products'[p].seller = products[p].seller
           /\ \E r \in Request : /\ InFlight(r) /\ ask[r].product = p
                                 /\ ask[r].seller = products[p].seller]_vars

\* A request is of the seller of its product, for as long as that is there, and an
\* update has read no other.
OwnerInv ==
    \A r \in Request : InFlight(r) /\ ask[r].op # "create" =>
        /\ Live(ask[r].product) => products[ask[r].product].seller = ask[r].seller
        /\ ask[r].op = "update" => read[r].row.seller = ask[r].seller

\* What the transactions do to the products that are there.
LEMMA CommitKeepsOwner ==
    ASSUME TypeInv, BirthInv, OwnerInv, NEW q \in Request, Commits(q)
    PROVE  \A p \in Product : Live(p) /\ products'[p] # products[p] =>
               /\ Live(p)' => products'[p].seller = products[p].seller
               /\ ask[q].op # "create" /\ ask[q].product = p
  <1>1. ask[q] \in Ask /\ q \in Product /\ InFlight(q)
    BY DEF Commits, TypeInv, RequestsOK, Product
  <1>2. CASE ask[q].op = "create" /\ Insert(q)
    <2>1. ~Live(q)
      BY <1>2 DEF Commits, BirthInv, Unborn
    <2>2. \A p \in Product \ {q} : products'[p] = products[p]
      BY <1>2 DEF Insert, TypeInv, TablesOK
    <2> QED  BY <2>1, <2>2
  <1>3. CASE ask[q].op = "update" /\ Change(q)
    <2>1. PICK d \in Product : d = ask[q].product
      BY <1>1, <1>3, AskType
    <2>2. \A p \in Product \ {d} : products'[p] = products[p]
      BY <1>3, <2>1 DEF Change, TypeInv, TablesOK
    <2>3. Live(d) => products'[d] = Written(q)
      BY <1>3, <2>1 DEF Change, TypeInv, TablesOK
    <2>4. Written(q).seller = read[q].row.seller
      BY <1>3 DEF Written
    <2>5. Live(d) => products[d].seller = read[q].row.seller
      BY <1>1, <1>3, <2>1 DEF OwnerInv
    <2> QED  BY <1>3, <2>1, <2>2, <2>3, <2>4, <2>5
  <1>4. CASE ask[q].op = "delete" /\ Remove(ask[q].product)
    <2>1. PICK d \in Product : d = ask[q].product
      BY <1>1, <1>4, AskType
    <2>2. products'[d] = NoRow /\ \A p \in Product \ {d} : products'[p] = products[p]
      BY <1>4, <2>1 DEF Remove, TypeInv, TablesOK
    <2> QED  BY <1>4, <2>1, <2>2 DEF Live
  <1>5. CASE ask[q].op = "stock" /\ UNCHANGED products
    BY <1>5
  <1> QED  BY <1>2, <1>3, <1>4, <1>5 DEF Commits, Commit

\* No product comes to be that a request in flight is about.
LEMMA CommitMakesNone ==
    ASSUME TypeInv, BirthInv, NEW q \in Request, Commits(q), NEW r \in Request,
           InFlight(r), ask[r].op # "create", NEW d \in Product, ask[r].product = d,
           products'[d] # NoRow
    PROVE  products[d] # NoRow
  <1>1. ask[q] \in Ask /\ ask[r] \in Ask
    BY DEF Commits, TypeInv, RequestsOK
  <1>2. CASE ask[q].op = "create" /\ Insert(q)
    <2>1. d # q
      BY <1>2 DEF Commits, BirthInv, Unborn
    <2> QED  BY <1>2, <2>1 DEF Insert, TypeInv, TablesOK
  <1>3. CASE ask[q].op = "update" /\ Change(q)
    BY <1>3 DEF Change, TypeInv, TablesOK, Live
  <1>4. CASE ask[q].op = "delete" /\ Remove(ask[q].product)
    <2>1. PICK e \in Product : e = ask[q].product
      BY <1>1, <1>4, AskType
    <2> QED  BY <1>4, <2>1 DEF Remove, TypeInv, TablesOK
  <1>5. CASE ask[q].op = "stock" /\ UNCHANGED products
    BY <1>5
  <1> QED  BY <1>2, <1>3, <1>4, <1>5 DEF Commits, Commit

\* What a request has read of the row stays what it was while it is in flight.
LEMMA RowReadStays ==
    ASSUME TypeInv, [Next]_vars, Advance
    PROVE  \A r \in Request : InFlight(r)' /\ ask[r].op = "update" =>
               read'[r].row.seller = read[r].row.seller
  <1> SUFFICES ASSUME NEW r \in Request, InFlight(r)', ask[r].op = "update"
               PROVE  read'[r].row = read[r].row
    OBVIOUS
  <1>0. read \in [Request -> [row : Row \cup {NoRow}, attributes : AttributesRow]]
        /\ at \in [Request -> Point]
    BY DEF TypeInv, RequestsOK
  <1>1. ASSUME NEW q \in Request, FindAttributes(q) PROVE read'[r].row = read[r].row
    BY <1>0, <1>1 DEF FindAttributes
  <1>2. ASSUME NEW q \in Request, NEW point \in {"done", "failed"}, End(q, point)
        PROVE  read'[r].row = read[r].row
    <2>1. r # q
      BY <1>0, <1>2 DEF End, InFlight, InFlightAt
    <2> QED  BY <1>0, <1>2, <2>1 DEF End
  <1>3. ASSUME NEW q \in Request, Begin(q) PROVE read'[r].row = read[r].row
    <2>1. CASE r = q
      BY <1>3, <2>1 DEF Begin, Advance, InFlight, InFlightAt
    <2>2. CASE r # q
      BY <1>0, <1>3, <2>2 DEF Begin, BeginCreate, BeginOnProduct, TurnAway, End
    <2> QED  BY <2>1, <2>2
  <1>4. CASE ServiceRestarts
    BY <1>4 DEF ServiceRestarts, InFlight, InFlightAt
  <1>5. CASE UNCHANGED read
    BY <1>5
  <1>6. \/ UNCHANGED read \/ ServiceRestarts
        \/ \E q \in Request : \/ FindAttributes(q) \/ Begin(q)
                              \/ End(q, "done") \/ End(q, "failed")
    BY DEF Next, Save, Goto, Publish, PublishFails, PublishLost, OperationFails, BrokerRestarts
  <1> QED  BY <1>1, <1>2, <1>3, <1>4, <1>5, <1>6

LEMMA OwnerStep ==
    ASSUME TypeInv, BirthInv, OwnerInv, [Next]_vars
    PROVE  OwnerInv'
  <1>1. CASE Advance
    <2> SUFFICES ASSUME NEW r \in Request, InFlight(r)', ask'[r].op # "create"
                 PROVE  /\ products'[ask'[r].product] # NoRow =>
                               products'[ask'[r].product].seller = ask'[r].seller
                        /\ ask'[r].op = "update" => read'[r].row.seller = ask'[r].seller
      BY DEF OwnerInv, Live
    <2>1. InFlight(r) /\ ask'[r] = ask[r] /\ ask[r].product \in Product
      BY <1>1, AskType DEF Advance, TypeInv, RequestsOK
    <2>2. ask[r].op = "update" => read'[r].row.seller = ask[r].seller
      BY <1>1, <2>1, RowReadStays DEF OwnerInv
    <2>3. PICK d \in Product : d = ask[r].product
      BY <2>1
    <2>4. ASSUME products'[d] # NoRow PROVE products'[d].seller = ask[r].seller
      <3>1. CASE UNCHANGED tables
        BY <2>1, <2>3, <2>4, <3>1 DEF OwnerInv, Live
      <3>2. CASE \E q \in Request : Commits(q)
        <4>1. products[d] # NoRow
          BY <1>1, <2>1, <2>3, <2>4, <3>2, CommitMakesNone DEF Advance
        <4>2. products[d].seller = ask[r].seller
          BY <1>1, <2>1, <2>3, <4>1 DEF OwnerInv, Live, Advance
        <4>3. products'[d].seller = products[d].seller
          BY <2>4, <3>2, <4>1, CommitKeepsOwner DEF Live
        <4> QED  BY <4>2, <4>3
      <3> QED  BY <3>1, <3>2, WhoWrites
    <2> QED  BY <2>1, <2>2, <2>3, <2>4
  <1>2. ASSUME NEW q \in Request, Begin(q) PROVE OwnerInv'
    <2>1. PICK a \in Ask : BeginCreate(q, a) \/ BeginOnProduct(q, a) \/ TurnAway(q, a)
      BY <1>2 DEF Begin
    <2>2. UNCHANGED tables
      BY <1>2 DEF Begin
    <2>3. \A r \in Request \ {q} :
              /\ InFlight(r)' => InFlight(r) /\ ask'[r] = ask[r]
              /\ read'[r] = read[r]
      BY <2>1 DEF BeginCreate, BeginOnProduct, TurnAway, End, TypeInv, RequestsOK, InFlight
    <2>4. CASE BeginCreate(q, a)
      <3>1. ask'[q].op = "create"
        BY <2>4 DEF BeginCreate, TypeInv, RequestsOK
      <3> QED  BY <2>2, <2>3, <3>1 DEF OwnerInv, Live
    <2>5. CASE BeginOnProduct(q, a)
      <3>1. ask'[q] = a /\ products[a.product].seller = a.seller
        BY <2>5 DEF BeginOnProduct, TypeInv, RequestsOK
      <3>2. a.op = "update" => read'[q].row.seller = a.seller
        BY <2>5 DEF BeginOnProduct, TypeInv, RequestsOK
      <3> QED  BY <2>2, <2>3, <3>1, <3>2 DEF OwnerInv, Live
    <2>6. CASE TurnAway(q, a)
      <3>1. ~InFlight(q)'
        BY <2>6 DEF TurnAway, End, TypeInv, RequestsOK, InFlight, InFlightAt
      <3> QED  BY <2>2, <2>3, <3>1 DEF OwnerInv, Live
    <2> QED  BY <2>1, <2>4, <2>5, <2>6
  <1> QED  BY <1>1, <1>2, StepsAdvance

\* Only requests of its seller change a product, however many others overlap and
\* whatever fails between the look at the owner and the write (ProductCatalog).
THEOREM OwnersOnly == Spec => OnlyItsSellerChanges
  <1>1. Init => OwnerInv
    BY DEF Init, OwnerInv, InFlight, InFlightAt
  <1>2. TypeInv /\ BirthInv /\ OwnerInv /\ [Next]_vars => OwnerInv'
    BY OwnerStep
  <1>3. TypeInv /\ BirthInv /\ OwnerInv /\ [Next]_vars =>
            [\A p \in Product : Live(p) /\ products'[p] # products[p] =>
                /\ Live(p)' => products'[p].seller = products[p].seller
                /\ \E r \in Request : /\ InFlight(r) /\ ask[r].product = p
                                      /\ ask[r].seller = products[p].seller]_vars
    <2> SUFFICES ASSUME TypeInv, BirthInv, OwnerInv, [Next]_vars, NEW p \in Product,
                        Live(p), products'[p] # products[p]
                 PROVE  /\ Live(p)' => products'[p].seller = products[p].seller
                        /\ \E r \in Request : /\ InFlight(r) /\ ask[r].product = p
                                              /\ ask[r].seller = products[p].seller
      OBVIOUS
    <2>1. PICK q \in Request : Commits(q)
      BY WhoWrites
    <2>2. /\ Live(p)' => products'[p].seller = products[p].seller
          /\ ask[q].op # "create" /\ ask[q].product = p
      BY <2>1, CommitKeepsOwner
    <2>3. InFlight(q) /\ ask[q].seller = products[p].seller
      BY <2>1, <2>2 DEF Commits, OwnerInv
    <2> QED  BY <2>2, <2>3
  <1> QED
    BY <1>1, <1>2, <1>3, BirthInit, BirthStep, InitTypes, TypeStep, PTL
    DEF Spec, OnlyItsSellerChanges

-----------------------------------------------------------------------------
(* Events follow the rows.                                                  *)

\* A request under way on a product, other than of its stock.
Working(r, p) == InFlight(r) /\ ask[r].op # "stock" /\ Target(r) = p

\* What EventsFollowRows says of one product.
Current(p) ==
    IF products[p].status = "active"
    THEN /\ announced[p].type \in {"PRODUCT_CREATED", "PRODUCT_UPDATED"}
         /\ Kept[announced[p].body] = products[p].body
         /\ announced[p].attributes = attributes[p]
         /\ announced[p].categories = links[p] \cap Category
    ELSE announced[p].type \notin {"PRODUCT_CREATED", "PRODUCT_UPDATED"}

\* The rows of a product are what a request has written.
Stored(r, p) ==
    IF ask[r].op = "delete" THEN products[p] = NoRow
    ELSE /\ products[p] = Written(r)
         /\ attributes[p] = Given(ask[r].attributes, read[r].attributes)
         /\ links[p] = ask[r].categories

\* What a request that is alone on its product knows of it.
Knows(r, p) ==
    IF at[r] = "publish" THEN Stored(r, p)
    ELSE /\ Current(p)
         /\ ask[r].op = "update" => /\ read[r].row = products[p]
                                    /\ at[r] = "save" => read[r].attributes = attributes[p]

Followed(p) ==
    /\ \A r, s \in Request : Working(r, p) /\ Working(s, p) => r = s
    /\ \A r \in Request : Working(r, p) => Knows(r, p)
    /\ (\A r \in Request : ~Working(r, p)) => Current(p)

\* A creation has read nothing.
NothingReadYet ==
    \A r \in Request :
        at[r] = "unused" \/ (InFlight(r) /\ ask[r].op = "create") => read[r] = NothingRead

EventsInv == NothingReadYet /\ \A p \in Product \ (raced \cup hit) : Followed(p)

LEMMA EventsInvSuffices == EventsInv => EventsFollowRows
  BY DEF EventsInv, Followed, Working, Current, EventsFollowRows

\* A step that leaves a product and the requests on it alone.
SameRows(p) ==
    /\ products'[p] = products[p] /\ attributes'[p] = attributes[p]
    /\ links'[p] = links[p] /\ announced'[p] = announced[p]

SameRequest(s) == at'[s] = at[s] /\ ask'[s] = ask[s] /\ read'[s] = read[s]

LEMMA SameWork ==
    ASSUME NEW s \in Request, SameRequest(s), NEW p
    PROVE  Working(s, p)' <=> Working(s, p)
  BY DEF SameRequest, Working, InFlight, Target

LEMMA SameKnowledge ==
    ASSUME NEW s \in Request, SameRequest(s), NEW p, SameRows(p)
    PROVE  (Current(p)' <=> Current(p)) /\ (Knows(s, p) => Knows(s, p)')
  <1>1. Current(p)' <=> Current(p)
    BY DEF SameRows, Current
  <1>2. Written(s)' = Written(s)
    BY DEF SameRequest, Written, Composed
  <1>3. Stored(s, p)' <=> Stored(s, p)
    BY <1>2 DEF SameRows, SameRequest, Stored
  <1> QED  BY <1>1, <1>3 DEF SameRows, SameRequest, Knows

LEMMA StaysFollowed ==
    ASSUME NEW p, Followed(p), SameRows(p),
           \A s \in Request : SameRequest(s) \/ (~Working(s, p) /\ ~Working(s, p)')
    PROVE  Followed(p)'
  <1>1. \A s \in Request : Working(s, p)' <=> Working(s, p)
    BY SameWork
  <1>2. \A s \in Request : Working(s, p)' => Knows(s, p)'
    BY <1>1, SameKnowledge DEF Followed
  <1>3. Current(p)' <=> Current(p)
    BY DEF SameRows, Current
  <1> QED  BY <1>1, <1>2, <1>3 DEF Followed

\* A request alone on its product.
LEMMA AloneFollows ==
    ASSUME NEW p, NEW q \in Request, \A s \in Request \ {q} : ~Working(s, p)',
           IF Working(q, p)' THEN Knows(q, p)' ELSE Current(p)'
    PROVE  Followed(p)'
  BY DEF Followed

\* After a step of a request that is alone, it is enough to look at its product.
LEMMA StepFollowed ==
    ASSUME NEW q \in Request, NEW d, \A p : p # d => ~Working(q, p) /\ ~Working(q, p)',
           \A s \in Request \ {q} : SameRequest(s),
           \A p \in Product : p # d => SameRows(p),
           raced \subseteq raced', hit \subseteq hit', EventsInv, NothingReadYet',
           d \in Product \ (raced' \cup hit') => Followed(d)'
    PROVE  EventsInv'
  <1>1. ASSUME NEW p \in Product, p # d, Followed(p)
        PROVE  Followed(p)'
    BY <1>1, StaysFollowed
  <1> QED  BY <1>1 DEF EventsInv

LEMMA EndLeaves ==
    ASSUME TypeInv, NEW q \in Request, NEW point \in {"done", "failed"}, End(q, point)
    PROVE  /\ \A p : ~Working(q, p)'
           /\ \A s \in Request \ {q} : SameRequest(s)
           /\ NothingReadYet => NothingReadYet'
  <1>1. \A s \in Request \ {q} : SameRequest(s)
    BY DEF End, SameRequest, TypeInv, RequestsOK
  <1>2. at'[q] = point /\ read'[q] = NothingRead
    BY DEF End, TypeInv, RequestsOK
  <1>3. ~InFlight(q)'
    BY <1>2 DEF InFlight, InFlightAt
  <1>4. NothingReadYet => NothingReadYet'
    BY <1>1, <1>2 DEF NothingReadYet, SameRequest, InFlight
  <1> QED  BY <1>1, <1>3, <1>4 DEF Working

-----------------------------------------------------------------------------
(* What a transaction writes.                                               *)

LEMMA CommitElsewhere ==
    ASSUME TypeInv, NEW q \in Request, Commits(q)
    PROVE  \A p \in Product : p # Target(q) \/ ask[q].op = "stock" =>
               /\ products'[p] = products[p]
               /\ attributes'[p] = attributes[p]
               /\ links'[p] = links[p]
  <1>1. CASE ask[q].op = "create" /\ Insert(q)
    BY <1>1 DEF Insert, Target, TypeInv, TablesOK
  <1>2. CASE ask[q].op = "update" /\ Change(q)
    BY <1>2 DEF Change, Target, TypeInv, TablesOK
  <1>3. CASE ask[q].op = "delete" /\ Remove(ask[q].product)
    BY <1>3 DEF Remove, Target, TypeInv, TablesOK
  <1>4. CASE ask[q].op = "stock" /\ UNCHANGED <<products, attributes, links, deleted>>
    BY <1>4
  <1> QED  BY <1>1, <1>2, <1>3, <1>4 DEF Commits, Commit

LEMMA CommitHere ==
    ASSUME TypeInv, NEW q \in Request, Commits(q), ask[q].op # "stock", Knows(q, Target(q))
    PROVE  IF ask[q].op = "delete" THEN products'[Target(q)] = NoRow
           ELSE /\ products'[Target(q)] = Written(q)
                /\ attributes'[Target(q)] = Given(ask[q].attributes, read[q].attributes)
                /\ links'[Target(q)] = ask[q].categories
  <1> PICK d : d = Target(q)
    OBVIOUS
  <1>1. d \in Product /\ at[q] = "save" /\ ask[q] \in Ask
    BY TargetType DEF Commits, TypeInv, RequestsOK
  <1>2. CASE ask[q].op = "create" /\ Insert(q)
    <2>1. d = q /\ ask[q].attributes # "keep"
      BY <1>2 DEF Target, Commits, Incomplete
    <2>2. Given(ask[q].attributes, read[q].attributes) = ask[q].attributes
      BY <2>1 DEF Given
    <2> QED  BY <1>1, <1>2, <2>1, <2>2 DEF Insert, TypeInv, TablesOK
  <1>3. CASE ask[q].op = "update" /\ Change(q)
    <2>1. d = ask[q].product
      BY <1>3 DEF Target
    <2>2. read[q].row = products[d] /\ read[q].attributes = attributes[d]
      BY <1>1, <1>3 DEF Knows
    <2>3. products[d] \in Row
      BY <1>3, <2>2 DEF Commits, TypeInv, RequestsOK
    <2>4. Live(d)
      BY <2>3, RowIsRow DEF Live
    <2>5. products'[d] = Written(q)
      BY <1>1, <1>3, <2>1, <2>4 DEF Change, TypeInv, TablesOK
    <2>6. attributes'[d] = Given(ask[q].attributes, attributes[d]) /\ links'[d] = ask[q].categories
      BY <1>1, <1>3, <2>1 DEF Change, TypeInv, TablesOK
    <2> QED  BY <1>3, <2>2, <2>5, <2>6
  <1>4. CASE ask[q].op = "delete" /\ Remove(ask[q].product)
    BY <1>1, <1>4 DEF Remove, Target, TypeInv, TablesOK
  <1> QED  BY <1>2, <1>3, <1>4 DEF Commits, Commit
-----------------------------------------------------------------------------
(* Every step keeps the events behind the rows.                             *)

LEMMA AloneOn ==
    ASSUME NEW q \in Request, NEW p, Followed(p), Working(q, p)
    PROVE  Knows(q, p) /\ \A s \in Request \ {q} : ~Working(s, p)
  BY DEF Followed

\* An update that announces nothing, and a creation that does not, leave a product
\* off sale that was off sale before.
LEMMA SilentIsCurrent ==
    ASSUME TypeInv, BirthInv, NothingReadYet, NEW q \in Request, Commits(q),
           NEW d, d = Target(q), ask[q].op # "stock", ~Announces(q), Knows(q, d),
           UNCHANGED announced
    PROVE  Current(d)'
  <1>1. ask[q].op \in {"create", "update"} /\ at[q] = "save"
    BY AskType DEF Commits, TypeInv, RequestsOK, Announces
  <1>2. Written(q).status # "active" /\ read[q].row.status # "active"
    BY <1>1 DEF Announces
  <1>3. products[d].status = read[q].row.status
    <2>1. CASE ask[q].op = "update"
      BY <1>1, <2>1 DEF Knows
    <2>2. CASE ask[q].op = "create"
      <3>1. products[d] = NoRow
        BY <1>1, <2>2 DEF BirthInv, Unborn, Live, Target
      <3>2. read[q] = NothingRead
        BY <2>2 DEF Commits, NothingReadYet
      <3> QED  BY <3>1, <3>2 DEF NothingRead
    <2> QED  BY <1>1, <2>1, <2>2
  <1>4. announced[d].type \notin {"PRODUCT_CREATED", "PRODUCT_UPDATED"}
    BY <1>1, <1>2, <1>3 DEF Knows, Current
  <1>5. products'[d] = Written(q)
    <2>1. ask[q].op # "delete" /\ Knows(q, Target(q))
      BY <1>1
    <2> HIDE DEF Target
    <2> QED  BY <2>1, CommitHere, Zenon
  <1> QED  BY <1>2, <1>4, <1>5 DEF Current

LEMMA SaveKeepsEvents ==
    ASSUME TypeInv, BirthInv, EventsInv, NEW q \in Request, Save(q)
    PROVE  EventsInv'
  <1> PICK d : d = Target(q)
    OBVIOUS
  <1>1. InFlight(q) /\ at[q] = "save" /\ d \in Product
    BY TargetType DEF Save, InFlight, InFlightAt, TypeInv
  <1>2. UNCHANGED <<announced, raced, hit>>
    BY DEF Save
  <1>3. \A p : p # d => ~Working(q, p)
    BY DEF Working
  <1>4. CASE Incomplete(q) /\ End(q, "failed") /\ UNCHANGED tables
    <2>1. /\ \A p : ~Working(q, p)' /\ SameRows(p)
          /\ \A s \in Request \ {q} : SameRequest(s)
          /\ NothingReadYet'
      BY <1>2, <1>4, EndLeaves DEF EventsInv, SameRows
    <2>2. ASSUME Followed(d)
          PROVE  Followed(d)'
      <3>1. Working(q, d)
        BY <1>1, <1>4 DEF Working, Incomplete
      <3>2. Current(d) /\ \A s \in Request \ {q} : ~Working(s, d)
        BY <1>1, <2>2, <3>1, AloneOn DEF Knows
      <3>3. Current(d)'
        BY <2>1, <3>2 DEF Current, SameRows
      <3> QED  BY <2>1, <3>2, <3>3, SameWork, AloneFollows
    <2> QED  BY <1>2, <1>3, <2>1, <2>2, StepFollowed DEF EventsInv
  <1>5. CASE ~Incomplete(q) /\ Commit(q)
    <2>1. Commits(q)
      BY <1>1, <1>5 DEF Commits
    <2>2. \A p \in Product : p # d \/ ask[q].op = "stock" => SameRows(p)
      BY <1>2, <2>1, CommitElsewhere DEF SameRows
    <2>3. CASE ~Announces(q) /\ End(q, "done")
      <3>1. /\ \A p : ~Working(q, p)'
            /\ \A s \in Request \ {q} : SameRequest(s)
            /\ NothingReadYet'
        BY <2>3, EndLeaves DEF EventsInv
      <3>2. ASSUME Followed(d)
            PROVE  Followed(d)'
        <4>1. CASE ask[q].op = "stock"
          <5>1. ~Working(q, d)
            BY <4>1 DEF Working
          <5> QED  BY <1>1, <2>2, <3>1, <3>2, <4>1, <5>1, StaysFollowed
        <4>2. CASE ask[q].op # "stock"
          <5>1. Working(q, d)
            BY <1>1, <4>2 DEF Working
          <5>2. Knows(q, d) /\ \A s \in Request \ {q} : ~Working(s, d)
            BY <3>2, <5>1, AloneOn
          <5>3. Current(d)'
            BY <1>2, <2>1, <2>3, <4>2, <5>2, SilentIsCurrent DEF EventsInv
          <5> QED  BY <3>1, <5>2, <5>3, SameWork, AloneFollows
        <4> QED  BY <4>1, <4>2
      <3> QED  BY <1>2, <1>3, <2>2, <3>1, <3>2, StepFollowed DEF EventsInv
    <2>4. CASE Announces(q) /\ Goto(q, "publish")
      <3>1. ask[q].op # "stock"
        BY <2>4 DEF Announces
      <3>2. /\ \A s \in Request \ {q} : SameRequest(s)
            /\ at'[q] = "publish" /\ UNCHANGED <<ask, read>>
        BY <2>4 DEF Goto, SameRequest, TypeInv, RequestsOK
      <3>3. /\ \A p : Working(q, p)' <=> Working(q, p)
            /\ NothingReadYet'
        BY <1>1, <3>2 DEF Working, InFlight, InFlightAt, Target, EventsInv, NothingReadYet,
                          SameRequest
      <3>4. ASSUME Followed(d)
            PROVE  Followed(d)'
        <4>1. Working(q, d)
          BY <1>1, <3>1 DEF Working
        <4>2. Knows(q, d) /\ \A s \in Request \ {q} : ~Working(s, d)
          BY <3>4, <4>1, AloneOn
        <4>3. Written(q)' = Written(q)
          BY <3>2 DEF Written, Composed
        <4>4. Stored(q, d)'
          BY <2>1, <3>1, <3>2, <4>2, <4>3, CommitHere DEF Stored
        <4>5. Knows(q, d)'
          BY <3>2, <4>4 DEF Knows
        <4> QED  BY <3>2, <3>3, <4>1, <4>2, <4>5, SameWork, AloneFollows
      <3> QED  BY <1>2, <1>3, <2>2, <3>2, <3>3, <3>4, StepFollowed DEF EventsInv
    <2> QED  BY <1>5, <2>3, <2>4 DEF Save
  <1> QED  BY <1>4, <1>5 DEF Save

LEMMA FindAttributesKeepsEvents ==
    ASSUME TypeInv, EventsInv, NEW q \in Request, FindAttributes(q)
    PROVE  EventsInv'
  <1> PICK d : d = Target(q)
    OBVIOUS
  <1>1. /\ InFlight(q) /\ at[q] = "findAttributes" /\ ask[q].op = "update"
        /\ d = ask[q].product
    BY DEF FindAttributes, InFlight, InFlightAt, TypeInv, RequestsOK, Target
  <1>2. /\ \A s \in Request \ {q} : SameRequest(s)
        /\ at'[q] = "save" /\ UNCHANGED ask
        /\ read'[q].row = read[q].row /\ read'[q].attributes = attributes[d]
    BY <1>1 DEF FindAttributes, SameRequest, TypeInv, RequestsOK
  <1>3. (\A p : SameRows(p)) /\ UNCHANGED <<raced, hit>>
    BY DEF FindAttributes, SameRows
  <1>4. /\ \A p : Working(q, p)' <=> Working(q, p)
        /\ \A p : p # d => ~Working(q, p)
    BY <1>1, <1>2 DEF Working, InFlight, InFlightAt, Target
  <1>5. NothingReadYet'
    BY <1>1, <1>2 DEF EventsInv, NothingReadYet, SameRequest, InFlight
  <1>6. ASSUME Followed(d)
        PROVE  Followed(d)'
    <2>1. Working(q, d)
      BY <1>1 DEF Working
    <2>2. Knows(q, d) /\ \A s \in Request \ {q} : ~Working(s, d)
      BY <1>6, <2>1, AloneOn
    <2>3. Current(d)' /\ read[q].row = products[d]
      BY <1>1, <1>3, <2>2 DEF Knows, Current, SameRows
    <2>4. Knows(q, d)'
      BY <1>2, <1>3, <2>3 DEF Knows, SameRows
    <2> QED  BY <1>2, <1>4, <2>1, <2>2, <2>4, SameWork, AloneFollows
  <1> QED  BY <1>2, <1>3, <1>4, <1>5, <1>6, StepFollowed DEF EventsInv

\* The event shows what the request has stored.
LEMMA EventIsCurrent ==
    ASSUME TypeInv, NEW q \in Request, InFlight(q), at[q] = "publish", NEW d \in Product,
           Stored(q, d), products'[d] = products[d], attributes'[d] = attributes[d],
           links'[d] = links[d], announced'[d] = EventOf(q)
    PROVE  Current(d)'
  <1>1. CASE ask[q].op = "delete"
    <2>1. products[d].status = "none"
      BY <1>1 DEF Stored, NoRow
    <2>2. EventOf(q).type = "PRODUCT_DELETED"
      BY <1>1 DEF EventOf, Silence
    <2> QED  BY <2>1, <2>2 DEF Current
  <1>2. CASE ask[q].op # "delete" /\ Written(q).status # "active"
    <2>1. EventOf(q).type = "PRODUCT_STATUS_CHANGED"
      BY <1>2 DEF EventOf, Silence
    <2> QED  BY <1>2, <2>1 DEF Current, Stored
  <1>3. CASE ask[q].op # "delete" /\ Written(q).status = "active"
    <2>1. /\ EventOf(q).type \in {"PRODUCT_CREATED", "PRODUCT_UPDATED"}
          /\ Kept[EventOf(q).body] = Written(q).body
          /\ EventOf(q).attributes = Given(ask[q].attributes, read[q].attributes)
          /\ EventOf(q).categories = ask[q].categories \cap Category
      BY <1>3 DEF EventOf, Written
    <2> QED  BY <1>3, <2>1 DEF Current, Stored
  <1> QED  BY <1>1, <1>2, <1>3

LEMMA PublishKeepsEvents ==
    ASSUME TypeInv, EventsInv, NEW q \in Request, Publish(q)
    PROVE  EventsInv'
  <1> PICK d : d = Target(q)
    OBVIOUS
  <1>1. InFlight(q) /\ at[q] = "publish" /\ ask[q].op # "stock" /\ d \in Product
    BY TargetType DEF Publish, InFlight, InFlightAt, TypeInv, RequestsOK
  <1>2. /\ \A p : ~Working(q, p)'
        /\ \A s \in Request \ {q} : SameRequest(s)
        /\ NothingReadYet'
    BY EndLeaves DEF Publish, EventsInv
  <1>3. UNCHANGED <<products, attributes, links, raced, hit>>
    BY DEF Publish
  <1>4. announced'[d] = EventOf(q) /\ \A p \in Product \ {d} : announced'[p] = announced[p]
    BY <1>1 DEF Publish, TypeInv, OutsideOK
  <1>5. \A p \in Product : p # d => SameRows(p)
    BY <1>3, <1>4 DEF SameRows
  <1>6. ASSUME Followed(d)
        PROVE  Followed(d)'
    <2>1. Working(q, d)
      BY <1>1 DEF Working
    <2>2. Stored(q, d) /\ \A s \in Request \ {q} : ~Working(s, d)
      BY <1>1, <1>6, <2>1, AloneOn DEF Knows
    <2>3. Current(d)'
      BY <1>1, <1>3, <1>4, <2>2, EventIsCurrent
    <2> QED  BY <1>2, <2>2, <2>3, SameWork, AloneFollows
  <1>7. \A p : p # d => ~Working(q, p)
    BY DEF Working
  <1> QED  BY <1>2, <1>3, <1>5, <1>6, <1>7, StepFollowed DEF EventsInv

\* A request that ends without a word has hit its product.
LEMMA FailureKeepsEvents ==
    ASSUME TypeInv, EventsInv, NEW q \in Request,
           PublishFails(q) \/ PublishLost(q) \/ OperationFails(q)
    PROVE  EventsInv'
  <1> PICK d : d = Target(q)
    OBVIOUS
  <1>1. /\ \A p : ~Working(q, p)'
        /\ \A s \in Request \ {q} : SameRequest(s)
        /\ NothingReadYet'
    BY EndLeaves DEF PublishFails, PublishLost, OperationFails, EventsInv
  <1>2. UNCHANGED <<raced, announced>> /\ hit' = hit \cup {d}
    BY DEF PublishFails, PublishLost, OperationFails
  <1>3. \A p \in Product : p # d => SameRows(p)
    <2>1. CASE UNCHANGED tables
      BY <1>2, <2>1 DEF SameRows
    <2>2. CASE OperationFails(q) /\ at[q] = "save" /\ ~Incomplete(q) /\ Commit(q)
      <3>1. Commits(q)
        BY <2>2 DEF Commits, InFlight, InFlightAt
      <3> QED  BY <1>2, <3>1, CommitElsewhere DEF SameRows
    <2> QED  BY <2>1, <2>2 DEF PublishFails, PublishLost, OperationFails
  <1>4. \A p : p # d => ~Working(q, p)
    BY DEF Working
  <1> QED  BY <1>1, <1>2, <1>3, <1>4, StepFollowed

LEMMA BeginKeepsEvents ==
    ASSUME TypeInv, BirthInv, EventsInv, NEW q \in Request, Begin(q)
    PROVE  EventsInv'
  <1>1. PICK a \in Ask : BeginCreate(q, a) \/ BeginOnProduct(q, a) \/ TurnAway(q, a)
    BY DEF Begin
  <1>2. at[q] = "unused" /\ UNCHANGED hit /\ (\A p : SameRows(p))
    BY DEF Begin, SameRows
  <1>3. \A p : ~Working(q, p)
    BY <1>2 DEF Working, InFlight, InFlightAt
  <1>4. CASE TurnAway(q, a)
    <2>1. /\ \A p : ~Working(q, p)'
          /\ \A s \in Request \ {q} : SameRequest(s)
          /\ NothingReadYet' /\ UNCHANGED raced
      BY <1>4, EndLeaves DEF TurnAway, EventsInv
    <2>2. ASSUME NEW p \in Product, Followed(p)
          PROVE  Followed(p)'
      BY <1>2, <1>3, <2>1, <2>2, StaysFollowed
    <2> QED  BY <1>2, <2>1, <2>2 DEF EventsInv
  <1>5. CASE BeginCreate(q, a)
    <2>1. /\ \A s \in Request \ {q} : SameRequest(s)
          /\ at'[q] = "save" /\ ask'[q] = a /\ a.op = "create" /\ UNCHANGED <<read, raced>>
      BY <1>5 DEF BeginCreate, SameRequest, TypeInv, RequestsOK
    <2>2. \A p : Working(q, p)' <=> p = q
      BY <2>1 DEF Working, InFlight, InFlightAt, Target
    <2>3. \A s \in Request \ {q} : ~Working(s, q)
      BY <1>2 DEF Working, Target, BirthInv, Unborn
    <2>4. NothingReadYet'
      BY <1>2, <2>1 DEF EventsInv, NothingReadYet, SameRequest, InFlight
    <2>5. ASSUME Followed(q)
          PROVE  Followed(q)'
      <3>1. Current(q)'
        BY <1>2, <1>3, <2>3, <2>5 DEF Followed, Current, SameRows
      <3>2. Knows(q, q)'
        BY <2>1, <3>1 DEF Knows
      <3> QED  BY <2>1, <2>2, <2>3, <3>2, SameWork, AloneFollows
    <2> QED  BY <1>2, <1>3, <2>1, <2>2, <2>4, <2>5, StepFollowed DEF EventsInv
  <1>6. CASE BeginOnProduct(q, a)
    <2> PICK d : d = a.product
      OBVIOUS
    <2>1. /\ \A s \in Request \ {q} : SameRequest(s)
          /\ ask'[q] = a /\ a.op # "create" /\ at'[q] \in {"save", "findAttributes"}
          /\ a.op = "update" => at'[q] = "findAttributes" /\ read'[q].row = products[d]
      BY <1>6 DEF BeginOnProduct, SameRequest, TypeInv, RequestsOK
    <2>2. \A p : Working(q, p)' <=> (p = d /\ a.op # "stock")
      BY <2>1 DEF Working, InFlight, InFlightAt, Target
    <2>3. NothingReadYet'
      BY <1>2, <2>1 DEF EventsInv, NothingReadYet, SameRequest, InFlight
    <2>4. /\ raced \subseteq raced'
          /\ a.op # "stock" /\ d \notin raced' => \A s \in Request : ~Working(s, d)
      BY <1>6 DEF BeginOnProduct, Overlaps, Working
    <2>5. ASSUME Followed(d), d \notin raced'
          PROVE  Followed(d)'
      <3>1. CASE a.op = "stock"
        BY <1>2, <1>3, <2>1, <2>2, <2>5, <3>1, StaysFollowed
      <3>2. CASE a.op # "stock"
        <4>1. Current(d)'
          BY <1>2, <2>4, <2>5, <3>2 DEF Followed, Current, SameRows
        <4>2. Knows(q, d)'
          BY <1>2, <2>1, <4>1 DEF Knows, SameRows
        <4> QED  BY <2>1, <2>2, <2>4, <2>5, <3>2, <4>2, SameWork, AloneFollows
      <3> QED  BY <3>1, <3>2
    <2> QED  BY <1>2, <1>3, <2>1, <2>2, <2>3, <2>4, <2>5, StepFollowed DEF EventsInv
  <1> QED  BY <1>1, <1>4, <1>5, <1>6

LEMMA RestartKeepsEvents ==
    ASSUME TypeInv, EventsInv, ServiceRestarts
    PROVE  EventsInv'
  <1>1. /\ \A s \in Request : ~InFlight(s) => SameRequest(s)
        /\ \A s \in Request : InFlight(s) => at'[s] = "failed" /\ read'[s] = NothingRead
    BY DEF ServiceRestarts, SameRequest, TypeInv, RequestsOK
  <1>2. \A s \in Request : ~InFlight(s)'
    BY <1>1 DEF InFlight, InFlightAt, SameRequest
  <1>3. /\ \A p : SameRows(p)
        /\ UNCHANGED raced /\ hit \subseteq hit'
        /\ \A s \in Request : InFlight(s) => Target(s) \in hit'
    BY DEF ServiceRestarts, SameRows
  <1>4. NothingReadYet'
    BY <1>1, <1>2 DEF EventsInv, NothingReadYet, SameRequest
  <1>5. ASSUME NEW p \in Product \ (raced' \cup hit')
        PROVE  Followed(p)'
    <2>1. Followed(p) /\ \A s \in Request : ~Working(s, p)
      BY <1>3, <1>5 DEF EventsInv, Working
    <2>2. Current(p)'
      BY <1>3, <2>1 DEF Followed, Current, SameRows
    <2> QED  BY <1>2, <2>2 DEF Followed, Working
  <1> QED  BY <1>4, <1>5 DEF EventsInv

LEMMA EventsStep ==
    ASSUME TypeInv, BirthInv, EventsInv, [Next]_vars
    PROVE  EventsInv'
  <1>1. ASSUME NEW q \in Request,
               \/ Begin(q) \/ FindAttributes(q) \/ Save(q) \/ Publish(q)
               \/ PublishFails(q) \/ PublishLost(q) \/ OperationFails(q)
        PROVE  EventsInv'
    BY <1>1, BeginKeepsEvents, FindAttributesKeepsEvents, SaveKeepsEvents,
       PublishKeepsEvents, FailureKeepsEvents
  <1>2. CASE BrokerRestarts \/ UNCHANGED vars
    <2>1. /\ \A s \in Request : SameRequest(s)
          /\ \A p : SameRows(p)
          /\ UNCHANGED <<raced, hit, at, ask, read>>
      BY <1>2 DEF BrokerRestarts, SameRequest, SameRows
    <2>2. NothingReadYet'
      BY <2>1 DEF EventsInv, NothingReadYet, InFlight
    <2>3. \A p \in Product : Followed(p) => Followed(p)'
      BY <2>1, StaysFollowed
    <2> QED  BY <2>1, <2>2, <2>3 DEF EventsInv
  <1>3. CASE ServiceRestarts
    BY <1>3, RestartKeepsEvents
  <1> QED  BY <1>1, <1>2, <1>3 DEF Next

LEMMA EventsInit == Init => EventsInv
  <1> SUFFICES ASSUME Init
               PROVE  EventsInv
    OBVIOUS
  <1>1. \A r \in Request : ~InFlight(r) /\ read[r] = NothingRead
    BY DEF Init, InFlight, InFlightAt
  <1>2. \A p \in Product : announced[p].type = "none" /\ products[p].status # "active"
    BY DEF Init, Silence, NoRow
  <1>3. \A p \in Product : Current(p)
    BY <1>2 DEF Current
  <1> QED  BY <1>1, <1>3 DEF EventsInv, NothingReadYet, Followed, Working

\* A product whose requests neither overlapped nor met a fault: the last event shows
\* the active product as it is stored, and no other (Save and Publish of
\* ProductCatalog).
THEOREM EventsFollow == Spec => []EventsFollowRows
  <1>1. EventsInv => EventsFollowRows
    BY EventsInvSuffices
  <1>2. Init => BirthInv /\ DeletedForGood
    BY BirthInit
  <1> QED  BY <1>1, <1>2, InitTypes, TypeStep, BirthStep, EventsInit, EventsStep, PTL DEF Spec
=============================================================================
