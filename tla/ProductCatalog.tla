--------------------------- MODULE ProductCatalog ---------------------------
(***************************************************************************)
(* The product service: the rows of a product in four tables that no       *)
(* foreign key ties together, and the events it publishes on the exchange  *)
(* product_events.                                                         *)
(*                                                                         *)
(* A handler reads the product, writes in one transaction and publishes    *)
(* once that has been committed; requests interleave between these steps.  *)
(***************************************************************************)
EXTENDS Naturals, FiniteSets

CONSTANTS
    Request,      \* requests a run may serve, each one once
    Category,     \* the categories there are: none is ever deleted
    Seller,
    Body,         \* names, descriptions, prices and images, taken together
    Kept,         \* what the columns keep of a body: price is numeric(10,2)
    Attributes,
    Sent,         \* the bodies that requests carry
    Offered,      \* the lists of categories they carry
    Asked,        \* the statuses they ask for
    MaxFaults     \* bound on crashes, failing operations and broker restarts

ASSUME CatalogConstants ==
    /\ {"keep", "none"} \cap (Body \cup Attributes) = {}
    /\ Kept \in [Body -> Body] /\ Sent \subseteq Body
    /\ "none" \notin Seller
    /\ "inherited" \notin Request
    /\ Asked \subseteq {"draft", "active", "inactive"}
    /\ Offered \subseteq SUBSET (Category \cup {"unknown"})
    /\ MaxFaults \in Nat

\* A product has a fresh uuid, known by the request that creates it, or was there
\* before.
Product == Request \cup {"inherited"}

Status == {"draft", "active", "inactive"}

\* A row of products.
Row == [seller : Seller, body : Body, status : Status]
NoRow == [seller |-> "none", body |-> "none", status |-> "none"]

\* The attributes of a product, or "none" where product_attributes has no row.
AttributesRow == Attributes \cup {"none"}

\* product_categories takes any uuid; "unknown" is the one of no category.
Links == SUBSET (Category \cup {"unknown"})

\* The last event about a product.
Event ==
    [type : {"PRODUCT_CREATED", "PRODUCT_UPDATED"}, body : Body,
     attributes : AttributesRow, categories : SUBSET Category]
    \cup [type : {"PRODUCT_STATUS_CHANGED", "PRODUCT_DELETED", "none"}, body : {"none"},
          attributes : {"none"}, categories : {{}}]

Silence(type) == [type |-> type, body |-> "none", attributes |-> "none", categories |-> {}]

\* What a request carries: "keep" for a field it leaves out.  A body that leaves
\* out category_ids is the same as an empty list: parseJsonField makes it one.
Ask ==
    [op : {"create"}, product : {"none"}, seller : Seller, body : Sent,
     status : Asked \cup {"keep"}, attributes : Attributes \cup {"keep"},
     categories : Offered]
    \cup [op : {"update"}, product : Product, seller : Seller, body : Sent \cup {"keep"},
          status : Asked \cup {"keep"}, attributes : Attributes \cup {"keep"},
          categories : Offered]
    \cup [op : {"delete", "stock"}, product : Product, seller : Seller, body : {"keep"},
          status : {"keep"}, attributes : {"keep"}, categories : {{}}]

InFlightAt == {"findAttributes", "save", "publish"}
Point == {"unused", "done", "failed"} \cup InFlightAt

VARIABLES
    products,     \* per product: its row of products
    attributes,   \* per product: its row of product_attributes
    links,        \* per product: its rows of product_categories
    stocked,      \* products with a row in inventory
    ask,          \* per request: what it asks
    at,           \* per request: where it is
    read,         \* per request: the row and the attributes it has read
    announced,    \* per product: the last event published
    channel,      \* whether the AMQP channel is open
    raced,        \* history: products some of whose requests overlapped
    hit,          \* history: products one of whose requests met a fault
    deleted,      \* history: products that have been deleted
    faults

vars == <<products, attributes, links, stocked, ask, at, read, announced, channel,
          raced, hit, deleted, faults>>

tables == <<products, attributes, links, stocked, deleted>>
history == <<raced, hit, faults>>
outside == <<announced, channel>>

-----------------------------------------------------------------------------
Live(p) == products[p] # NoRow

InFlight(r) == at[r] \in InFlightAt

Target(r) == IF ask[r].op = "create" THEN r ELSE ask[r].product

Goto(r, point) == at' = [at EXCEPT ![r] = point] /\ UNCHANGED <<ask, read>>

NoAsk == [op |-> "none", product |-> "none", seller |-> "none", body |-> "keep",
          status |-> "keep", attributes |-> "keep", categories |-> {}]
NothingRead == [row |-> NoRow, attributes |-> "none"]

\* A request ends, and its variables with it.
End(r, point) ==
    /\ at' = [at EXCEPT ![r] = point]
    /\ ask' = [ask EXCEPT ![r] = NoAsk]
    /\ read' = [read EXCEPT ![r] = NothingRead]

\* Mutant: a field that is left out is written as it came.
Given_Verbatim(field, value) == field

\* A field of a request, or what was read if it is left out.
Given(field, value) == IF field = "keep" THEN value ELSE field

\* The body of the Product object a request makes, of which it writes what the
\* columns keep.
Composed(r) == Given(ask[r].body, read[r].row.body)

\* The row that a request writes.
Written(r) ==
    LET a == ask[r]
    IN  IF a.op = "create"
        THEN [seller |-> a.seller, body |-> Kept[Composed(r)],
              status |-> Given(a.status, "draft")]
        ELSE [seller |-> read[r].row.seller, body |-> Kept[Composed(r)],
              status |-> Given(a.status, read[r].row.status)]

\* A product cannot be created without attributes.
Incomplete(r) == ask[r].op = "create" /\ ask[r].attributes = "keep"

\* Mutant: the rows of a new product are inserted outside a transaction.
Insert_NoTransaction(r) ==
    /\ products' = [products EXCEPT ![r] = Written(r)]
    /\ \/ /\ attributes' = [attributes EXCEPT ![r] = ask[r].attributes]
          /\ links' = [links EXCEPT ![r] = ask[r].categories]
          /\ stocked' = stocked \cup {r}
       \/ UNCHANGED <<attributes, links, stocked>>
    /\ UNCHANGED deleted

\* TypeORMProductRepository.create.
Insert(r) ==
    /\ products' = [products EXCEPT ![r] = Written(r)]
    /\ attributes' = [attributes EXCEPT ![r] = ask[r].attributes]
    /\ links' = [links EXCEPT ![r] = ask[r].categories]
    /\ stocked' = stocked \cup {r}
    /\ UNCHANGED deleted

\* Mutant: save in the place of update, which inserts a row that is missing.
Change_Upserts(r) ==
    LET p == ask[r].product
    IN  /\ products' = [products EXCEPT ![p] = Written(r)]
        /\ attributes' = [attributes EXCEPT ![p] = Given(ask[r].attributes, @)]
        /\ links' = [links EXCEPT ![p] = ask[r].categories]
        /\ UNCHANGED <<stocked, deleted>>

\* TypeORMProductRepository.update: a row that is gone meanwhile is not brought
\* back, but its attributes, which nothing has deleted, are changed and its
\* categories are inserted.
Change(r) ==
    LET p == ask[r].product
    IN  /\ products' = [products EXCEPT ![p] = IF Live(p) THEN Written(r) ELSE @]
        /\ attributes' = [attributes EXCEPT ![p] = Given(ask[r].attributes, @)]
        /\ links' = [links EXCEPT ![p] = ask[r].categories]
        /\ UNCHANGED <<stocked, deleted>>

\* TypeORMProductRepository.delete: the rows of the other tables stay.
Remove(p) ==
    /\ products' = [products EXCEPT ![p] = NoRow]
    /\ deleted' = deleted \cup {p}
    /\ UNCHANGED <<attributes, links, stocked>>

\* The statement or transaction of a request; updateStock inserts its row when
\* it finds none.
Commit(r) ==
    \/ ask[r].op = "create" /\ Insert(r)
    \/ ask[r].op = "update" /\ Change(r)
    \/ ask[r].op = "delete" /\ Remove(ask[r].product)
    \/ /\ ask[r].op = "stock"
       /\ stocked' = stocked \cup {ask[r].product}
       /\ UNCHANGED <<products, attributes, links, deleted>>

-----------------------------------------------------------------------------
(* Handlers.                                                                *)

\* A product is known from the answer to its creation, or from a list.
Askable(a) ==
    a.op # "create" => a.product = "inherited" \/ Live(a.product) \/ a.product \in deleted

\* A request under way on the same product, other than of its stock.
Overlaps(p) ==
    \E s \in Request : InFlight(s) /\ ask[s].op # "stock" /\ Target(s) = p

\* A creation reads nothing.
BeginCreate(r, a) ==
    /\ a.op = "create"
    /\ ask' = [ask EXCEPT ![r] = a]
    /\ at' = [at EXCEPT ![r] = "save"]
    /\ UNCHANGED <<read, raced>>

\* Mutant: updateStock leaves it to the table to know its product.
BeginOnProduct_AnyStock(r, a) ==
    /\ a.op # "create" /\ (a.op = "stock" \/ products[a.product].seller = a.seller)
    /\ ask' = [ask EXCEPT ![r] = a]
    /\ IF a.op = "update"
       THEN /\ read' = [read EXCEPT ![r] = [row |-> products[a.product], attributes |-> "none"]]
            /\ at' = [at EXCEPT ![r] = "findAttributes"]
       ELSE UNCHANGED read /\ at' = [at EXCEPT ![r] = "save"]
    /\ raced' = IF a.op # "stock" /\ Overlaps(a.product)
                THEN raced \cup {a.product} ELSE raced

\* A request on a product reads its row, the first query of findById, and goes on
\* if the row is there and belongs to the seller.  Only an update uses more of
\* what it has read.
BeginOnProduct(r, a) ==
    /\ a.op # "create" /\ products[a.product].seller = a.seller
    /\ ask' = [ask EXCEPT ![r] = a]
    /\ IF a.op = "update"
       THEN /\ read' = [read EXCEPT ![r] = [row |-> products[a.product], attributes |-> "none"]]
            /\ at' = [at EXCEPT ![r] = "findAttributes"]
       ELSE UNCHANGED read /\ at' = [at EXCEPT ![r] = "save"]
    /\ raced' = IF a.op # "stock" /\ Overlaps(a.product)
                THEN raced \cup {a.product} ELSE raced

TurnAway(r, a) ==
    /\ a.op # "create" /\ products[a.product].seller # a.seller
    /\ End(r, "failed")
    /\ UNCHANGED raced

Begin(r) ==
    /\ at[r] = "unused"
    /\ \E a \in Ask :
           /\ Askable(a)
           /\ BeginCreate(r, a) \/ BeginOnProduct(r, a) \/ TurnAway(r, a)
    /\ UNCHANGED <<tables, outside, hit, faults>>

\* The second query of findById.
FindAttributes(r) ==
    /\ at[r] = "findAttributes"
    /\ read' = [read EXCEPT ![r] = [row |-> @.row,
                                    attributes |-> attributes[ask[r].product]]]
    /\ at' = [at EXCEPT ![r] = "save"]
    /\ UNCHANGED <<tables, ask, outside, history>>

\* Mutant: the status that was stored is the one that decides.
Announces_OldStatus(r) ==
    \/ ask[r].op \in {"create", "delete"}
    \/ ask[r].op = "update" /\ read[r].row.status = "active"

\* Whether a request publishes an event: one that leaves a product active, one
\* that was to find it active, and a deletion.
Announces(r) ==
    \/ ask[r].op = "delete"
    \/ ask[r].op \in {"create", "update"}
       /\ "active" \in {Written(r).status, read[r].row.status}

\* The transaction; product_attributes takes no row without attributes.
Save(r) ==
    /\ at[r] = "save"
    /\ \/ Incomplete(r) /\ End(r, "failed") /\ UNCHANGED tables
       \/ /\ ~Incomplete(r)
          /\ Commit(r)
          /\ IF Announces(r) THEN Goto(r, "publish") ELSE End(r, "done")
    /\ UNCHANGED <<outside, history>>

\* The event of a request: the object it made (its price not rounded as the row's
\* is), the attributes it wrote or had read, and, of the categories it carries,
\* those that exist.
EventOf(r) ==
    LET a == ask[r]
    IN  IF a.op = "delete" THEN Silence("PRODUCT_DELETED")
        ELSE IF Written(r).status # "active" THEN Silence("PRODUCT_STATUS_CHANGED")
        ELSE [type |-> IF a.op = "create" THEN "PRODUCT_CREATED" ELSE "PRODUCT_UPDATED",
              body |-> Composed(r),
              attributes |-> Given(a.attributes, read[r].attributes),
              categories |-> a.categories \cap Category]

Publish(r) ==
    /\ at[r] = "publish"
    /\ channel = "open"
    /\ announced' = [announced EXCEPT ![Target(r)] = EventOf(r)]
    /\ End(r, "done")
    /\ UNCHANGED <<tables, channel, history>>

\* A channel that was closed stays in the service: publish throws, and the answer
\* is an error although the transaction is committed.
PublishFails(r) ==
    /\ at[r] = "publish"
    /\ channel = "closed"
    /\ hit' = hit \cup {Target(r)}
    /\ End(r, "failed")
    /\ UNCHANGED <<tables, outside, raced, faults>>

-----------------------------------------------------------------------------
(* Faults.                                                                  *)

Fault == faults < MaxFaults /\ faults' = faults + 1

\* Between the transaction and the event of an active product its categories are
\* looked up.
LooksUp(r) == /\ at[r] = "publish"
              /\ EventOf(r).type \in {"PRODUCT_CREATED", "PRODUCT_UPDATED"}
              /\ ask[r].categories # {}

\* A query or a transaction is reported as failed: it took effect or not.
OperationFails(r) ==
    /\ at[r] \in {"findAttributes", "save"} \/ LooksUp(r)
    /\ Fault
    /\ UNCHANGED tables \/ (at[r] = "save" /\ ~Incomplete(r) /\ Commit(r))
    /\ hit' = hit \cup {Target(r)}
    /\ End(r, "failed")
    /\ UNCHANGED <<outside, raced>>

\* The connection breaks with the event in its buffers: publish asks for no
\* confirmation, and the answer is that all went well.
PublishLost(r) ==
    /\ at[r] = "publish"
    /\ channel = "open" /\ channel' = "closed"
    /\ Fault
    /\ hit' = hit \cup {Target(r)}
    /\ End(r, "done")
    /\ UNCHANGED <<tables, announced, raced>>

\* The broker closes the connection in good order and comes back: the service
\* does not notice.  A socket that breaks raises an error nobody handles, which
\* ends the process: that is ServiceRestarts.
BrokerRestarts ==
    /\ Fault
    /\ channel' = "closed"
    /\ UNCHANGED <<tables, ask, at, read, announced, raced, hit>>

\* The service dies with its requests, and starts with a new channel.
ServiceRestarts ==
    LET lost == {r \in Request : InFlight(r)}
    IN  /\ Fault
        /\ channel' = "open"
        /\ hit' = hit \cup {Target(r) : r \in lost}
        /\ at' = [r \in Request |-> IF r \in lost THEN "failed" ELSE at[r]]
        /\ ask' = [r \in Request |-> IF r \in lost THEN NoAsk ELSE ask[r]]
        /\ read' = [r \in Request |-> IF r \in lost THEN NothingRead ELSE read[r]]
        /\ UNCHANGED <<tables, announced, raced>>

-----------------------------------------------------------------------------
\* The tables are empty, or hold a product that nobody was told of yet.
Init ==
    /\ \E row \in {NoRow} \cup [seller : Seller, body : {Kept[b] : b \in Sent},
                                status : {"draft"}], a \in Attributes :
           /\ products = [p \in Product |-> IF p = "inherited" THEN row ELSE NoRow]
           /\ attributes = [p \in Product |->
                  IF p = "inherited" /\ row # NoRow THEN a ELSE "none"]
           /\ stocked = IF row = NoRow THEN {} ELSE {"inherited"}
    /\ links = [p \in Product |-> {}]
    /\ ask = [r \in Request |-> NoAsk]
    /\ at = [r \in Request |-> "unused"]
    /\ read = [r \in Request |-> NothingRead]
    /\ announced = [p \in Product |-> Silence("none")]
    /\ channel = "open"
    /\ raced = {} /\ hit = {} /\ deleted = {}
    /\ faults = 0

Next ==
    \/ \E r \in Request :
           \/ Begin(r) \/ FindAttributes(r) \/ Save(r) \/ Publish(r)
           \/ PublishFails(r) \/ PublishLost(r)
           \/ OperationFails(r)
    \/ BrokerRestarts
    \/ ServiceRestarts

Spec == Init /\ [][Next]_vars

-----------------------------------------------------------------------------
(* Properties.                                                              *)

TypeOK ==
    /\ products \in [Product -> Row \cup {NoRow}]
    /\ attributes \in [Product -> AttributesRow]
    /\ links \in [Product -> Links]
    /\ stocked \subseteq Product /\ deleted \subseteq Product
    /\ ask \in [Request -> Ask \cup {NoAsk}]
    /\ at \in [Request -> Point]
    /\ read \in [Request -> [row : Row \cup {NoRow}, attributes : AttributesRow]]
    /\ announced \in [Product -> Event]
    /\ channel \in {"open", "closed"}
    /\ raced \subseteq Product /\ hit \subseteq Product
    /\ faults \in 0..MaxFaults

\* A product whose requests neither overlapped nor met a fault, once they have
\* ended: a consumer that keeps the last event, and rounds the price as the column
\* does, knows the active product as it is stored, and knows of no other.
EventsFollowRows ==
    \A p \in Product \ (raced \cup hit) :
        (\A r \in Request : InFlight(r) => Target(r) # p) =>
            IF products[p].status = "active"
            THEN /\ announced[p].type \in {"PRODUCT_CREATED", "PRODUCT_UPDATED"}
                 /\ Kept[announced[p].body] = products[p].body
                 /\ announced[p].attributes = attributes[p]
                 /\ announced[p].categories = links[p] \cap Category
            ELSE announced[p].type \notin {"PRODUCT_CREATED", "PRODUCT_UPDATED"}

\* A deleted product stays deleted, whatever update of it was under way.
DeletedForGood == \A p \in deleted : ~Live(p)

\* A product on sale has its attributes and its stock, whatever failed when it
\* was created.
LiveProductsComplete ==
    \A p \in Product : Live(p) => attributes[p] # "none" /\ p \in stocked

\* Known: a product that is there, or was.
Known(p) == Live(p) \/ p \in deleted

\* A deletion leaves rows behind in three tables, and overlapping requests add to
\* them; with no foreign key to refuse others, the rows without a product are still
\* those of deleted products only.
LeftoversAreOfDeleted ==
    \A p \in Product :
        attributes[p] # "none" \/ links[p] # {} \/ p \in stocked => Known(p)
=============================================================================
