# A verification project for the distributed e-commerce system

TLA+ modules that model the services of this repository, TLC runs that check
them on small instances, and proofs, checked by TLAPS, of what holds for every
instance. `PROJECT.json` lists the components, the runs, the hazards, the
findings and the theorems, and maps each definition to the lines it models.

## 1. Inventory

| Component | Code | State it keeps | Operations |
|---|---|---|---|
| Event bus | RabbitMQ, as used by `order_service/internal/infrastructure/messaging/*`, `payment_service/cmd/main.go`, `delivery_service/cmd/main.go` | durable exchange `order_events`, three durable queues and their bindings; transient messages; deliveries buffered in each consumer | declare, bind, publish, consume with auto-ack |
| Order service (Go) | `order_service/` | PostgreSQL: `orders`, `order_items`, `order_addresses`, `order_status_histories`; in memory: one goroutine per created order, one consumer goroutine | gRPC `CreateOrder`, `GetOrderStatus`; consumer of `payment.succeeded`, `order.delivered` |
| Payment service (Go) | `payment_service/cmd/main.go` | none | consumes `order.created`, publishes `payment.succeeded` |
| Delivery service (Go) | `delivery_service/cmd/main.go` | none | consumes `order.paid`, publishes `order.delivered` |
| Cart service (TypeScript) | `cart_service/src/` | Redis hash `cart:<user>` with a 7-day expiry | `getCart`, `addItem`, `removeItem`, `clearCart`, `checkout` |
| User service (TypeScript) | `user_service/src/` | one MongoDB document per user: roles, verification token, refresh tokens | register, login, verify, refresh, logout, apply for seller, promote |
| Product management (TypeScript) | `product_management/src/` | PostgreSQL: products, attributes, inventory, links to categories, categories | create, update, delete, list, stock updates, category tree; publishes product events |
| Middlewares (TypeScript) | `authMiddleware` of the user, product and cart services | none; the secret of the process | verify a token, compare its roles |
| Docs service (TypeScript) | `docs_service/src/index.ts`; the OpenAPI comments and options of the other services | none | fetch three documents and merge them |
| Gateways | `nginx/nginx.conf`, `terraform/alb.tf` | none | route by prefix |
| Callers of the order service | `order_service/k6/`, `order_service/cmd/test_client` | created order ids, error counters | `CreateOrder`, `GetOrderStatus` |
| Other infrastructure, generated gRPC code | `terraform/`, `docker-compose.yml`, `order_service/pkg/pb` | none | - |

How they interact: a client reaches the TypeScript services over HTTP, through
nginx or the load balancer; each of them checks tokens on its own, with the
secret it was started with. The docs service asks them for their documents. A
checkout is one gRPC call from the cart service to the order service. From
there an order travels through events only: `order.created` to payment,
`payment.succeeded` back to the order service, `order.paid` to delivery,
`order.delivered` back. No service reads another one's store.

What is hard in it:

- **The pipeline is at-most-once by accident.** Every subscription is auto-ack,
  every publish error is dropped, messages are transient, and there is no
  outbox. Nothing detects a duplicate either: charging once rests on nothing
  ever being delivered twice.
- **Several processes act on one order**, and every handler of the order service
  makes several database and broker calls with nothing tying them together.
- **Connections break separately from processes.** The order service publishes
  and consumes on two connections and survives the loss of either; the other two
  services exit with theirs.
- **Handlers of the TypeScript services read, await and write.** Between the
  two, other requests of the same user act: the cart's `HGET`/`HSET`, the user
  service's whole-document updates, the product service's update and publish.
- **A checkout spans two services** with no idempotency key and no deadline.
- **Guards ask no database.** A token outlives what it was made from: the session,
  the roles, the secret. How long depends on requests that read the account before
  the change and hand their token out after it.
- **Callers learn little of a failure.** An error of `CreateOrder` does not say
  whether there is an order, and any error of `GetOrderStatus` is `NotFound`.

What makes each component correct:

- pipeline: an order is charged and shipped at most once, in the right order,
  its status never moves back, its history is no more than incomplete, and it
  gets lost only for a reason one can name; with supervision, no order waits
  for ever;
- cart: with one request at a time it is an atomic map; overlapping requests
  never invent a quantity; every cart expires; a checkout orders what it
  deletes, and orders it again only after a failure;
- user service: with one request at a time operations on accounts are atomic;
  an update is undone only by one that had read before; there is always an
  administrator;
- product management: a product on sale is complete; a deleted one stays deleted,
  and the rows it leaves behind are the only ones without a product; without
  overlaps and faults the last event tells the row; the category tree shows every
  category in its place;
- guards: what they decide is out of date for less than the life of a token, and
  a token that is alive is refused only around a change of the secret;
- gateways and routers: a call does not end at another operation that writes, and
  is guarded where the documentation says so;
- docs service: the page is the union of the documents that could be had;
- order service, for its callers: answers never go back, and an order nobody
  knows of, or that cannot be found, has a cause they can count.

## 2. Modules

### Order pipeline

| Module | Models |
|---|---|
| `EventBus` | the exchange, the queues, connections, processes, the AMQP loop the three Go services share, and the faults |
| `OrderService` | orders, history, `CreateOrderUseCase`, `UpdateOrderStatusUseCase`, the gRPC server with or without a consumer |
| `PaymentService`, `DeliveryService` | one loop body each |
| `OrderPipeline` | the composition (any number of instances of each service), its properties and its fairness |
| `OrderLifecycle` | the abstract specification: what the pipeline promises of one order |
| `MCOrderPipeline` | the same with symmetry, for TLC |
| `OrderPipelineProofs`, `OrderRefinementProofs` | the proofs: types, tokens and stages; refinement, history, losses |

State and code. `queue[q]` is what the broker holds for a queue. Because the
subscription is auto-ack without prefetch, the broker pushes a message and forgets it:
`PushToConsumer` moves it to `inbox[s]`, the buffer of the client library plus the
message in the loop body, which is always the head. `step[s]` says where the loop body
is: the code between two calls to the database or to the broker is one action. `up`,
`sub` and `pub` are the live processes, consumer connections and publishing channels;
the order service has two connections, the others one. A start-up is several broker
calls, and others act between them: `Start` dials and declares the queue, `BindKey` is
one `QueueBind`, `Subscribe` is `Consume`; `starting` are the instances in between. When
one of these calls fails, the payment and delivery services end (`ExitAfterLoop`), and
the order service serves gRPC without a consumer, with whatever was bound by then
(`LoseConsumerConnection` of an instance that starts). `bound` holds the routing keys
that have a queue: a publish to any other key is dropped by the exchange, as `mandatory`
is false. `status` and `history` are database columns; `emitting[s]` holds the
goroutines that `CreateOrder` leaves behind. `payments` and `shipments` count what the
outside world sees (no service stores it).

Faults are actions of the environment, each drawn from a budget (`MaxCrashes`,
`MaxOutages`, `MaxDbErrors`): a process dies with its inbox and its
goroutines; one connection breaks; the broker restarts with its transient
messages gone; a database call returns an error, applied or not.

Abstracted: order ids stand for uuids (fresh by construction of `uuid.New`);
items, addresses, amounts and timestamps, which nothing in the pipeline
branches on; JSON (every publisher and consumer agree on `order_id`); the two
sleeps; the rolled-back transaction, which changes nothing. `PENDING`,
`CANCELED` and `SHIPPED` are declared in `domain/order.go` and never assigned.

### Cart

| Module | Models |
|---|---|
| `Cart` | the handlers, one action per Redis command or message of the `CreateOrder` call |
| `AtomicCart` | the abstract specification: additions add up, a checkout moves the cart into an order |
| `MCCart` | with symmetry, for TLC |
| `CartProofs` | the proofs |

`items` and `ttl` are the Redis hash of a user and whether it has an expiry;
`at[r]` is the command a request awaits and `seen[r]` what it has read, the
local variables that live across an await. `calls` are `CreateOrder` calls the
order service has not decided on: they outlive a cart service that gives up or
dies. `Serial` restricts the environment to users who wait for an answer before
their next request; runs and properties say which of the two they are about.
Neither the controller nor the repository looks at a quantity (`CartController.ts:30`,
`RedisCartRepository.ts:63`), so that it is any integer here: a stored item may hold
zero or less, and an item is there or not (`NoItem`) whatever its quantity. `added`
and `taken` are history variables, read by no action: what the positive and the
negative quantities sent to Redis come to. The Redis client sends again,
in order, the commands whose answer a broken connection swallowed; with the one
process that is deployed each of them is idempotent there, so that this is no
action of its own.

Abstracted: prices, names and images (an addition to a stored item keeps the price
of the first one, in any order of requests); quantities that are no integers, which
the API does not document (`CartRoutes.ts:20`) and the code would store all the same
(a missing one, a fraction, a string, which `+=` concatenates); the validation of an
order's quantities, as the order service has none; the JWT check, which precedes every
handler and is in `ApiAccess`; the formats `getCart` tolerates.

### Users

| Module | Models |
|---|---|
| `UserAccounts` | the use cases, one action per database operation, bcrypt call or e-mail |
| `AtomicAccounts` | the abstract specification: each operation acts on an account at once |
| `MCUserAccounts` | with symmetry, for TLC |
| `AccountProofs` | the proofs |

`docs` are the MongoDB documents; `held[r]` is the document a request has read,
which it writes back whole with its change (`NewRoles`, `NewSessions`,
`NewLink`). A read and the write that follows it are separate actions, and
between them everybody else acts; `login` adds the call of bcrypt. `mailed` and
`handed` are what clients got: links, and refresh tokens with the roles of the
access token. A refresh token is `jwt.sign` of a user and a second, so that it is
known by its second: two tokens of one second are one string. A link is a uuid,
known by the request that made it. `due` and `raced` are history, read by no
action: what the updates carried out stand for, and whether one of them wrote
over a document it had not read. `verifyEmail` hands `undefined` to a repository
whose ODM leaves such a key out: the link stays stored (`NewLink`).

Abstracted: a password is right or wrong; the 15 minutes of an access token, which are
in `ApiAccess`; links, tokens and addresses nobody was given, which only fail; names. A
command of a request that is cut short takes effect at once or never.

### Products

| Module | Models |
|---|---|
| `ProductCatalog` | products, attributes, links and stock; events on `product_events` |
| `CategoryTree` | creation of categories, and `getCategoryTree` |
| `MCProductCatalog` | the two side by side (they share no variable), with symmetry, for TLC |
| `ProductProofs`, `CategoryProofs` | the proofs about each |

One action is a query, a transaction or a publication. Of `findById` the queries
whose result is used later are kept: the row, which decides, and the attributes.
The tables have no foreign keys (the migration declares one, of categories), so
that `Remove` leaves the other rows and `Change` writes attributes and links of a
product that has gone. `category_ids` that are left out are an empty list to the
code (`parseJsonField`), and so they are here. `channel` is the one AMQP channel,
opened at start and never again. `announced` is the last event of a product: what
a consumer that keeps the latest would believe.

Name, description, price and image are one value, the body. The column of the price
is `numeric(10,2)`: `Kept` is what a row keeps of a body, while the event carries the
body as the request had it (`Composed`). Between the commit and the event of an active
product its categories are looked up, and that query may fail too (`LooksUp`).

Abstracted: the amount of stock; the status change's old and new values; names of
categories and their unique index; reads, which change nothing. A request without a
field a query needs fails before anything is written, except for attributes, which the
transaction refuses (`Incomplete`).

### Storefront

| Module | Models |
|---|---|
| `ApiEndpoints` | documented operations, routes with their guards, and what nginx and the load balancer make of a call |
| `ApiAccess` | one account and its tokens against the guards of the three services, while the secret is rotated |
| `ApiDocs` | `GET /swagger-json`, while the services it asks start, fail and stop |
| `OrderClients` | `CreateOrder` and `GetOrderStatus` as callers see them, over `OrderLifecycle` |
| `MCStorefront` | the three side by side (they share no variable), for TLC |
| `ApiProofs` | the proofs about `ApiAccess`, `ApiDocs` and `ApiEndpoints` |
| `ClientsProofs` | the proofs about `OrderClients` |

`ApiEndpoints` has no state: `Documented` are the operations of the OpenAPI
comments, `Routes` those of the routers, `RoutesOf` where a call ends. nginx
answers `/api/v1/products` with a 301 to the same path with a slash, as every
`location` ends in one, and clients that follow a 301 send GET in the place of
POST; the patterns of the load balancer do not match that path at all.

`ApiAccess` follows one account and one access token, the one its client uses:
accounts share nothing here and a guard sees one token. `roles` and `session` are
the document; a request reads it (`ReadAccount`), may hand out a token signed with
the roles it read and writes everything back (`EndRequest`). `secret[s]` holds the
values of `JWT_SECRET` that the running processes of a service were started with,
two of them while a deployment rolls; `KeyOf` is what a process makes of its value,
each service having its own default. Times are ages, counted up to `AccessLife`,
after which they do not matter: `token.age`, `ended`, `changed` and `settled` (the
last three are history, read by no action) need no clock that grows.
`Answers(c)` are the answers a checkpoint, a service and a guard, may give.

`ApiDocs` keeps whether each service is connecting, listening or stuck, and its
part of the one request in hand. `OrderClients` keeps a call and an answer per
caller. `known` is `createdOrderIds` of the mixed load test; `createErrors` its
counter; `orphans` are creates whose caller has gone and whose transaction is not
decided. The orders are moved on by the actions of `OrderLifecycle`, which the
pipeline is proved to implement.

The two requests of the e-mail verification (operation `verify`) change nothing the
guards look at, and write roles and sessions back as they have read them.

The k6 scripts read `order_id` from an answer whose fields k6's client gives in
camel case (`orderId`): as they are, their later reads ask for made-up ids only.
`OrderClients` has the callers the scripts mean to be, who know the ids they were
answered; the test client, written in Go, does. The docs service asks the URLs of
`docker-compose.yml`; without them its default for the user service
(`docs_service/src/index.ts:11`, port 3000) is not where `services.tf` puts that
service (8002), which `ApiDocs` would show as a service that never listens.

Abstracted: payloads; the refusal of a create whose user id is no uuid, as every
caller sends one; more than one token or account at a time; the e-mail, password
and expiry checks of `UserAccounts`, here a request that is `CutShort`.

## 3. Runs

| Run | Instance | Shows |
|---|---|---|
| `pipeline_faults` | 2 orders, 2 order, 2 payment and 1 delivery instance, 1 crash, 1 outage, 1 database error (513,247 states) | the safety properties, what is lost stays lost and is lost where the fault hits, and the refinement of `OrderLifecycle`, with instances that compete for a queue and services that start in any order |
| `pipeline_progress` | 2 orders, fair, 1 crash, 1 outage, 1 database error (95,073 states) | every created order is delivered, lost for good, or waits for the consumer that an order service has lost |
| `pipeline_resubscribe` | 1 order, fair, 1 outage | finding: a running order service can stop consuming for ever |
| `cart_serial` | 1 user, 2 products, 3 requests, quantities 1 and -1, 1 expiry, 1 error, 1 crash, fair (743,223 states) | the handlers implement `AtomicCart` up to the first fault or expiry; at-least-once checkout, repeated orders have a cause, requests end |
| `cart_overlap` | 3 overlapping requests, quantities 1 and -1, 1 expiry, 1 error (166,083 states) | no addition is counted twice, every cart gets its expiry |
| `cart_lost_update` | 2 overlapping additions | finding: one of them is lost |
| `accounts_serial` | 2 users, 4 requests, all operations, 3 seconds, 1 request cut short | the use cases implement `AtomicAccounts` |
| `accounts_overlap` | 2 users, 3 overlapping requests, 2 seconds, 1 cut short | an administrator exists, and only a stale update undoes one |
| `products` | 3 overlapping requests, 3 bodies, two of which one row keeps as the same, 1 fault, a product inherited or none; or 4 categories | rows complete, deletions final, leftovers of deleted products only, events tell the rows; the tree shows every category |
| `category_parent` | 2 categories | finding: the documented field is not the one that is read |
| `storefront` | access: 2 requests at once, tokens that live 2 ticks, 1 rotation; documentation: 2 faults; callers: 2 orders, 2 clients, 1 database failure, 1 call given up (560,295 states) | how far guards lag behind, where calls end, what the page shows, what callers know |
| `documented_calls` | the documentation alone (`DocsSpec`), no fault | finding: a documented POST does not reach its handler through nginx |

Bounds. Two orders are enough for a message of one to wait behind a message of the
other, which is the only way orders interact; two instances are enough for the two
events of one order to be handled by different processes, and to overlap as they do in a
rolling deployment. One crash, one outage and one database error hit any one of the
processes, connections and calls, in any order and in any step of both orders' lives
(two crashes, 942,666 states, show the same and take twice as long). `pipeline_faults`
does not wait for bindings, so that it covers services that start in any order. Users of
the cart share nothing, so one is enough; a positive and a negative quantity cover what
a sign can do, zero included as their sum; two products tell the loss of a field from
the loss of a hash; three requests let a third one act between the read and the write of
two others, and, for a user who waits, are two additions and a checkout, or a checkout,
a failure and a repetition. `ImplementsAtomicCart` is about steps up to the first fault
or expiry (`Undisturbed`): a key that expires between the `HGET` and the `HSET` of one
request, seven idle days after the last one, does break atomicity (listed as a hazard).
Two users make a promotion and a second registration possible; three requests let one
act between the read and the write of two others, four give a serial history of
registration, verification, login and a fourth operation. The life of a link is 0 and
that of a session 1, so that both expire within the clock. Three requests on products
are a creation, an update and a deletion, or two updates of one product and anything
else; one seller is enough, as a foreign one is refused where a product nobody has is.
Four categories make a tree deeper than the code's own test, and the proof needs no
bound. The storefront has four parts, chosen by `part` in the first state. Two requests
on an account, one of them late, are what can hand out a token that is out of date; two
ticks of life tell "just issued", "in use" and "expired" apart. Access is split into
`accounts`, where requests overlap and the secret stays, and `rotation`, where it
changes and one request is in flight: the two in one would only multiply, as no request
reads the secret after it began; the proofs are for both at once. One client can then
have an order another one does not know, and one failure hits any of the calls. The
requests of both services are interchangeable (`SYMMETRY`): no property is about one of
them, and none is a liveness property. `CHECK_DEADLOCK FALSE` is set where a run really
ends: all orders delivered or lost with the fault budgets spent, or all requests served.

Fairness. Weak fairness of each loop body, each goroutine and each push: the Go
scheduler and the broker do not starve anyone. Weak fairness of `Start`, `BindKey` and
`Subscribe`: the calls of a start-up follow one another, and the ECS service of
`terraform/services.tf` (`desired_count = 1`) restarts a task that is not running;
`docker-compose.yml` sets no restart policy and would not justify it. No fairness of
faults, nor of creating orders. In the cart: of the handlers (the event loop), and of
the order service deciding on a call it has received, which is what a checkout without a
deadline relies on.

Findings.

- `pipeline_resubscribe`: `order_service/README.md:17` promises a subscription
  to payment and delivery events; `rabbitmq_consumer.go:109` ranges over a
  channel that closes with its connection, and nothing opens another.
- `cart_lost_update`: `RedisCartRepository.ts:59` says "increment quantity"; the
  increment is a read and a write with an await between them.
- `documented_calls`: the merged document is that of the nginx gateway, says
  `docs_service/src/index.ts:28`, and has `POST /api/v1/products`; through
  `nginx.conf:26` that call is answered 301, and followed as a GET it lists products.
  `StrayCallsOnlyRead` holds all the same: nothing else is written instead.
- `category_parent`: `product_routes.ts:198` documents `parent_id`;
  `category_usecases.ts:9` reads `parentId` of the same body, so that a category
  created as documented becomes a root.

Not a finding, because the condition of `NothingUndone` says it: a logout that
overlaps another request of its user answers 204 and may leave its session alive,
as `update` writes back the tokens the other request had read.

## 4. Proofs

Those of the pipeline are for any set of orders, any disjoint sets of instances
and any budgets of faults; the assumptions are `InstancesDisjoint`, `BudgetsNat`
and `RolloutBoolean`. Those of the cart are for any users, products, requests,
quantities and budgets, overlapping requests included; the assumption is
`CartConstants`. So are those of the users, for any lifetimes of links and
sessions, and of the products, for any bodies, sellers and categories; the
assumptions, `AccountConstants` and `CatalogConstants`, say that the values that
stand for "no link", "no value" or "inherited" are none of the others. Those of the
storefront are for any number of requests in flight, rotations, clients and orders
and any life of a token (`AccessConstants`, `ClientsConstants`).

- `Typing` (`OrderPipelineProofs`): `Spec => []TypeOK`, from `TypeInv`, which
  adds `LoopsOK`: a loop body that is not idle has a message at the head of its
  inbox, and is at a step of its own service.
- `AtMostOneToken` and `TokensTellTheTruth` (`OrderPipelineProofs`). The token of
  an order is the goroutine or message that carries it. Neither property is
  inductive alone: that a finished message leaves no duplicate needs that its
  order had no other token, and that a handler's effect fits the stage of its
  order needs that the message still tells the truth when it is taken. `TokenInv`
  puts the two together with the legal stages. Its proof goes by kinds of moves
  (lemmas `DropKeepsTokens`, `TakeInHandKeepsTokens`, `FinishKeepsTokens`,
  `PushKeepsTokens`); each action is then one or two of them.
- `ChargedAndShippedOnce`: the legal stages alone, `[]StagesOK`. It is what a
  customer would ask for, charged at most once and shipped only if charged, and it
  rests on the whole of `TokenInv`: a second token would charge again.
- `Refinement` (`OrderRefinementProofs`): `Spec => Lifecycle!Spec`. `TokenInv`
  says of the message a handler acts on where its order stands, which is the
  guard of the abstract action.
- `HistoryIsFaithful` (`OrderRefinementProofs`): the row is inserted after the
  status, and `HistoryFaithful` says nothing of a row that is still due.
  `HistoryInv` adds it: of a body that is to insert its row, the status is the one
  the row will show and the rows are those before it (`RowDue`). No other body has
  a message of the order meanwhile, by `TokenInv`.
- `LossesHaveCause` (`OrderRefinementProofs`): `LossInv` says, as long as nothing
  fails, that who is up is connected and has bound its keys (`Intact`), that the
  keys that lead back to the order service are bound once an order exists
  (`Routed`), and that an unfinished order is carried by somebody or stands where
  `LossHasCause` excuses it (`NoneLost`). The last step of a loop body is the only
  one that lets go of an order (`LastStep`); `TokenInv` says at which stage.
- `LossesAreFinal` (`OrderRefinementProofs`) is an action property: every step keeps
  an order that nobody carries where it stands (`StaysLost`). A step works on the
  order at the head of an inbox or in a goroutine, which has a carrier by
  definition; what has to be shown is that no action puts an order of the table
  into either from nothing, restarts and faults included.
- `WorkAlwaysServed` (`OrderRefinementProofs`): `WorkIsServed` speaks of queues, and
  what fills them is a binding. `ServedInv` adds to `LossInv` that each binding
  has an instance that has subscribed or is about to, and each queue with a message a
  binding. One lemma says what any step without a fault does to the three (`Routes`).
- `LossesAreLocal` (`OrderRefinementProofs`) is an action property. By `LastStep`'s
  reasoning an order is dropped by whoever holds it, and the proof names, action by
  action, why (`Dropped`). That the end of a subscription drops nothing of an instance
  that had none needs an invariant, `Quiet`: without a subscription an inbox holds at
  most the message in hand.
- `CartTyping` (`CartProofs`): `Spec => []TypeOK`, from `CartInv`, which adds that
  a request at `hget` or `hset` is an addition, one at `hdel` a removal, and that
  only a request past the call has a call or an order.
- `NoQuantityInvented`: what a cart holds is `Covered`, no more than the positive
  quantities sent to it come to and no less than the negative ones. An upper bound by
  the sum of all of them would be false: a stale write-back may lose a negative
  quantity. `NothingInvented` is not inductive, because `addItem`
  writes back what it read earlier. `BoundedInv` adds that what a pending writer
  has read is covered by what had been sent (`ReadsBounded`), and the history
  only grows, so that an overlapping command cannot break it.
- `CartsExpire`: `ImmortalCartHasCause` is inductive beside `CartInv`. Only
  `HSET` and `HDEL` can leave a key without an expiry, and the request that sends
  them is then at its `EXPIRE`; no step of another request takes that witness
  away (`CauseKept`), and a failing command or a crash ends `NoFaults`.
- `OnlyOrderedIsCleared`, `RepeatsHaveCause`, `CartIsAtomic` assume `Serial`, a user
  who waits for answers. `SerialInv` says that such a user has one request in flight
  and that a checkout past its reading has seen all there is in the cart (an expiry
  may have emptied it since). `LedgerInv` adds, until a failure, that what a request
  is about to write back or to order is, with what has been ordered, covered by the
  quantities sent (`Unordered`). `ExactInv` adds, until an expiry too, that a request has seen
  exactly what is stored, so that its write is the step of `AtomicCart`, and its
  order the whole cart; what the user is shown (`Shown`) changes when the order is
  committed and not when the cart is deleted.

- `AccountsTyping` (`AccountProofs`): `Spec => []TypeOK`, from `TypeInv`, which
  adds that a request that has arrived asks for something and that a verification
  presents a link somebody made.
- `AdministratorExists`: `AnAdminExists` is not inductive, because a request may
  hold a document it read before its user became administrator and write it back.
  `AdminInv` asks for an administrator who is `Anchored`: every pending write-back
  of that document carries the role. An update keeps it anchored; the creation of
  the first account makes one, as nobody holds the document of an account that
  does not exist; a later creation leaves it alone.
- `UpdatesNotUndone` (`AccountProofs`): an update whose user is not in `raced`
  wrote over the document it had read, so that what was kept before is kept of what
  it holds. `UndoneInv` adds to `NothingUndone` what the new sessions rest on: a
  refresh that is to write has found its session in what it has read (`Founded`),
  or its new token would be in no session; and nothing is due for a user without a
  document, whom a registration then creates.
- `SerialRefinement` (`AccountProofs`): `Serial` implies that `Spec =>
  ImplementsAtomicAccounts`. `SerialInv` says that one request at most is in
  flight, that what it knows of its user is `UpToDate`, and that a session carries
  the mark of a login that has ended (`IdsSpent`), so that a new one is new. With
  `AdminInv`, counting nobody is then the same as having no administrator.
- `CatalogTyping` (`ProductProofs`): `Spec => []TypeOK`, from `TypeInv`, which adds
  that a request in flight asks for something and that an update has the row it
  found.
- `ProductsComplete`: `LiveProductsComplete` is inductive beside `TypeInv`; what
  has to be shown is which steps write to the tables (`WhoWrites`), and that a
  transaction leaves no live product without its attributes or its stock.
- `DeletionsAreFinal`: a deleted product could come back through the creation of
  its own request. `BirthInv` says that a product nobody has created yet was never
  deleted and that no request is about it; an update writes rows that exist only.
- `EventsFollow`: `EventsInv` says that a request alone on its product knows the
  product as it is before its transaction, and as it has written it after, up to what
  the columns keep of it (`Knows`), and that a product nobody is at work on has the events of its rows
  (`Followed`). A request that overlaps another on the product, or a fault, takes
  the product out of the property.
- `LeftoversKnown`: `RowsInv` adds to `LeftoversAreOfDeleted` that a request in
  flight on a product has seen it, so that what it writes, whoever deleted the
  product meanwhile, is of a product that was.
- `OwnersOnly`: the owner is checked when a request begins and the row written
  later. `OwnerInv` says that the product of a request, for as long as it is there,
  is still its seller's, and that what an update has read says so too; the
  creation of a product cannot come in between, by `BirthInv`. The property has no
  run of its own: it needs two sellers, which doubles the states of `products`;
  TLC went through that instance once (1.7 million states) without a violation.
- `TreesAreComplete`, `CategoriesEndAtRoots` (`CategoryProofs`). The inductive
  invariant, `TreeInv`, is that categories can be ranked below their parents with no
  more ranks than categories: a new one goes on top. The tree is a recursive
  function, and what it computes is shown along the ranks: of those at which the
  claim fails there would be a least (`Least`), and it does not fail there. `TreesExist` and
  `LevelsExist` say so of the two recursions, `NodesAreCategories` and
  `CategoriesHaveNodes` of the nodes the tree has.
- `AccessTyping`, `SessionsEnd`, `RolesInTime`, `RefusalsHaveCause`
  (`ApiProofs`), from `AccessInv`. None of the three properties is inductive:
  a guard goes by the token, and that a session ended within the life of a token
  follows only from when the token was made. `Fresh` says it: whatever makes a live
  token out of date is no older than the token. A request hands out a token that is
  no older than its reading of the account, and what changed since is recorded at
  age 0, so that the write that hands the token out keeps `Fresh`; time adds one to
  both sides. `ServedByRunning` keeps the key of such a token that of a process
  that runs.
- `MissingServicesHaveCause`, `PagesAreFaithful`, `CallsGoAstrayOnlyToReads`
  (`ApiProofs`). `DocsInv` adds to `MissingHasCause` that a service that does not
  listen, or whose answer is lost, is among those that were missed: the page is made
  of what was fetched earlier. `PageIsFaithful` is inductive by itself, but
  only because the documents of the three services fit together: the proof goes
  through the merge (`NamesOfThree`, `ValuesOfThree`) and their tables (`Documents`).
  The third follows from it and two facts about the routers and gateways, for each
  operation and each guard (`StrayCallReads`, `GuardIsDocumented`).
- `ClientsTyping`, `NotFoundsHaveCause`, `OrdersOnlyAdvance` (`ClientsProofs`), from
  `ClientsInv`: an answer on its way is neither ahead of the row nor behind what its
  client was told (`Fits`), for which a client must have one call at a time.
- `OrdersAreAccounted` (`ClientsProofs`) counts. `Booked` adds to the inequality that
  an id in an answer to a create is new to every client and in no other answer
  (`NewIds`): one step moves one order from one side of the inequality to the other,
  and an answer that is read takes exactly one order off the list.

Only model-checked: the liveness properties `EveryOrderSettles` and
`EveryRequestEnds`, out of TLAPS's reach. Every other property of a passing run is
the statement of a theorem. Induction over data cannot be had from the library's
induction theorems, which take an operator as a parameter; where it is needed, for
the category tree, the least counterexample takes its place (`NatLessThanWellFounded`
is a fact without a parameter).

## 5. Not modelled, and what could follow

Modelled: every service, each operation that changes state as an action, and the
HTTP interface around them. Left out, with the reason:

- generated gRPC code, images, CI and the Terraform of networks and data stores:
  no state of theirs is in a property;
- the Swagger UI and the health checks: static answers;
- listing and reading products, and `getMe`: reads that change nothing and whose
  answer is a single query;
- prices, amounts of stock and totals: the properties tell no two of them apart;
- the statuses `PENDING`, `CANCELED` and `SHIPPED`: declared, never assigned.

Next would be, as a model, `Cart` composed with `OrderClients`: what is charged was
in a cart; and, as theorems, what overlapping requests of one user still promise
without `Serial`, for the cart and for accounts.
