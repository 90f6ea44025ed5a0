------------------------------- MODULE ApiDocs -------------------------------
(***************************************************************************)
(* The documentation service: it asks the three HTTP services for their    *)
(* OpenAPI documents at once and merges what it gets, while the services   *)
(* start, fail to start and stop.                                          *)
(***************************************************************************)
EXTENDS ApiEndpoints, Naturals

CONSTANT MaxDocFaults   \* bound on failed starts, stops and broken connections

ASSUME DocsConstants == MaxDocFaults \in Nat

VARIABLES
    proc,       \* per service: where its process is
    fetch,      \* per service: its part of the request in hand
    missed,     \* history: services that were not there at some point of it
    page,       \* the last answer
    docFaults

docsVars == <<proc, fetch, missed, page, docFaults>>

-----------------------------------------------------------------------------
(* The three documents.                                                     *)

UserSchemas == {"User", "RegisterRequest", "LoginRequest", "LoginResponse", "RefreshRequest",
                "VerificationRequest", "LogoutRequest", "ErrorResponse", "SuccessResponse"}

ProductSchemas == {"Product", "Category", "Inventory"}

CartSchemas == {"Cart", "CartItem"}

SchemasOf(s) == CASE s = "user-service"       -> UserSchemas
                  [] s = "product-management" -> ProductSchemas
                  [] s = "cart-service"       -> CartSchemas

SchemeOf(s) == IF s = "cart-service" THEN "BearerAuth" ELSE "bearerAuth"

DocsOf(s) == {doc \in Documented : ServiceOf(doc.call.base) = s}

PathOf(doc) == <<doc.call.base, doc.call.path>>

\* What swaggerJsdoc makes of the comments and of the options: operations by
\* path, and the service that defines a schema or a scheme.
SpecOf(s) ==
    [paths   |-> [path \in {PathOf(doc) : doc \in DocsOf(s)} |->
                      {doc \in DocsOf(s) : PathOf(doc) = path}],
     schemas |-> [name \in SchemasOf(s) |-> s],
     schemes |-> [name \in {SchemeOf(s)} |-> s]]

Nothing == [name \in {} |-> {}]

NoSpec == [paths |-> Nothing, schemas |-> Nothing, schemes |-> Nothing]

NoPage == [spec |-> NoSpec, found |-> {}, missed |-> Svc]

-----------------------------------------------------------------------------
(* The life of a service.                                                   *)

DocFault ==
    /\ docFaults < MaxDocFaults
    /\ docFaults' = docFaults + 1

\* A process s goes from one point to another; missed remembers who is not there.
Move(s, from, to) ==
    /\ proc[s] \in from
    /\ proc' = [proc EXCEPT ![s] = to]
    /\ missed' = missed \cup {t \in Svc : proc'[t] # "listening"}
    /\ UNCHANGED <<fetch, page>>

\* The cart listens at once, the others connect first.
StartService(s) ==
    /\ Move(s, {"down"}, IF s = "cart-service" THEN "listening" ELSE "connecting")
    /\ UNCHANGED docFaults

ListenOnce(s) ==
    /\ Move(s, {"connecting"}, "listening")
    /\ UNCHANGED docFaults

\* A failure to connect is logged and nothing more: the process ends for want of
\* anything to do, unless it is the product service with its database open.
StartFails(s) ==
    /\ DocFault
    /\ \/ Move(s, {"connecting"}, "down")
       \/ s = "product-management" /\ Move(s, {"connecting"}, "stuck")

StopService(s) ==
    /\ DocFault
    /\ Move(s, {"connecting", "listening", "stuck"}, "down")

-----------------------------------------------------------------------------
(* GET /swagger-json                                                        *)

AskDocs ==
    /\ \A s \in Svc : fetch[s] = "idle"
    /\ fetch' = [s \in Svc |-> "asked"]
    /\ missed' = {s \in Svc : proc[s] # "listening"}
    /\ UNCHANGED <<proc, page, docFaults>>

\* Mutant: one catch around all three requests.
Fetched_OneCatch(s) ==
    /\ fetch[s] = "asked"
    /\ fetch' = IF proc[s] = "listening" THEN [fetch EXCEPT ![s] = "spec"]
                                         ELSE [t \in Svc |-> "null"]
    /\ UNCHANGED <<proc, missed, page, docFaults>>

\* A request to a service that does not listen is refused, and caught.
Fetched(s) ==
    /\ fetch[s] = "asked"
    /\ fetch' = [fetch EXCEPT ![s] = IF proc[s] = "listening" THEN "spec" ELSE "null"]
    /\ UNCHANGED <<proc, missed, page, docFaults>>

FetchBreaks(s) ==
    /\ fetch[s] = "asked"
    /\ DocFault
    /\ fetch' = [fetch EXCEPT ![s] = "null"]
    /\ missed' = missed \cup {s}
    /\ UNCHANGED <<proc, page>>

\* Mutant: the parts of one document replace those of the one before.
Assign_Replaces(target, source) == IF DOMAIN source = {} THEN target ELSE source

\* Object.assign: a name both have is the source's.
Assign(target, source) ==
    [name \in DOMAIN target \cup DOMAIN source |->
        IF name \in DOMAIN source THEN source[name] ELSE target[name]]

Found(s) == IF fetch[s] = "spec" THEN SpecOf(s) ELSE NoSpec

Merged ==
    [part \in {"paths", "schemas", "schemes"} |->
        Assign(Assign(Assign(Nothing, Found("user-service")[part]),
                      Found("product-management")[part]),
               Found("cart-service")[part])]

MergeSpecs ==
    /\ \A s \in Svc : fetch[s] \in {"spec", "null"}
    /\ page' = [spec |-> Merged, found |-> {s \in Svc : fetch[s] = "spec"},
                missed |-> missed]
    /\ fetch' = [s \in Svc |-> "idle"]
    /\ UNCHANGED <<proc, missed, docFaults>>

DocsInit ==
    /\ proc = [s \in Svc |-> "down"]
    /\ fetch = [s \in Svc |-> "idle"]
    /\ missed = Svc
    /\ page = NoPage
    /\ docFaults = 0

DocsNext ==
    \/ \E s \in Svc : \/ StartService(s) \/ ListenOnce(s) \/ StartFails(s) \/ StopService(s)
                      \/ Fetched(s) \/ FetchBreaks(s)
    \/ AskDocs \/ MergeSpecs

DocsSpec == DocsInit /\ [][DocsNext]_docsVars

-----------------------------------------------------------------------------
(* Properties.                                                              *)

\* The operations a reader of the page sees, and may call.
Shown == UNION {page.spec.paths[p] : p \in DOMAIN page.spec.paths}

\* Whichever of the documents were there, the page shows every operation of
\* theirs and no other, and what an operation refers to is what its own service
\* means by it: no path and no schema of one service shadows another's.
PageIsFaithful ==
    LET spec == page.spec
    IN  /\ Shown = UNION {DocsOf(s) : s \in page.found}
        /\ \A doc \in Shown :
               /\ doc.scheme \in {"none"} \cup DOMAIN spec.schemes
               /\ \A name \in doc.refs :
                      /\ name \in DOMAIN spec.schemas
                      /\ spec.schemas[name] = ServiceOf(doc.call.base)

\* A service that is missing on the page was not listening at some point while
\* the page was made, or its connection broke; the failure of one hides no other.
MissingHasCause == Svc \ page.found \subseteq page.missed

\* The way of a call the page shows.  Whatever a gateway makes of it, it may be
\* lost, but it does not end at another operation, unless at one that changes
\* nothing; and a token is asked for where the page says so, and nowhere else.
StrayCallsOnlyRead ==
    \A arrival \in Arrivals(Shown) :
        LET doc == arrival.doc
            route == arrival.route
        IN  IF Serves(route, doc.call)
            THEN route.guard.login <=> doc.scheme # "none"
            ELSE route.call.method = "GET"

\* docs_service/src/index.ts:28, "Combined documentation for all public services
\* (Nginx Gateway)": a call the page shows reaches its operation through nginx.
DocumentedCallsReachTheirHandler ==
    \A doc \in Shown : RoutesOf("nginx", doc.call) = RoutesNamed(doc.call)
=============================================================================
