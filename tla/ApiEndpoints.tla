---------------------------- MODULE ApiEndpoints ----------------------------
(***************************************************************************)
(* The HTTP interface of the user, product and cart services: what the     *)
(* OpenAPI comments of their route files document, what their routers      *)
(* serve and behind which guard, and what the two gateways make of a call. *)
(***************************************************************************)
EXTENDS FiniteSets

Gateway == {"nginx", "alb"}

Svc == {"user-service", "product-management", "cart-service"}

\* The first segment of a path after /api/v1, and the service it belongs to.
ServiceOf(base) ==
    CASE base \in {"auth", "users"}          -> "user-service"
      [] base \in {"products", "categories"} -> "product-management"
      [] base = "cart"                       -> "cart-service"

\* The rest of the path: "" for none, "/" for a slash alone; {} is a parameter.
Request(method, base, path) == [method |-> method, base |-> base, path |-> path]

-----------------------------------------------------------------------------
(* The documentation: an operation, the security scheme it names, and the   *)
(* schemas it refers to.                                                    *)

Doc(method, base, path, scheme, refs) ==
    [call |-> Request(method, base, path), scheme |-> scheme, refs |-> refs]

AuthDocs == {
    Doc("POST", "auth", "/register", "none",
        {"RegisterRequest", "SuccessResponse", "ErrorResponse"}),
    Doc("POST", "auth", "/login", "none", {"LoginRequest", "LoginResponse", "ErrorResponse"}),
    Doc("POST", "auth", "/verify-email/request", "none",
        {"VerificationRequest", "SuccessResponse", "ErrorResponse"}),
    Doc("GET", "auth", "/verify-email", "none", {"SuccessResponse", "ErrorResponse"}),
    Doc("POST", "auth", "/refresh", "none",
        {"RefreshRequest", "LoginResponse", "ErrorResponse"}),
    Doc("POST", "auth", "/logout", "none", {"LogoutRequest", "ErrorResponse"})}

UserDocs == {
    Doc("GET", "users", "/me", "bearerAuth", {"User"}),
    Doc("PUT", "users", "/apply-seller", "bearerAuth", {"SuccessResponse"}),
    Doc("PUT", "users", "/{}/promote-admin", "bearerAuth", {"SuccessResponse"})}

ProductDocs == {
    Doc("POST", "products", "", "bearerAuth", {"Product"}),
    Doc("PUT", "products", "/{}", "bearerAuth", {}),
    Doc("DELETE", "products", "/{}", "bearerAuth", {}),
    Doc("GET", "products", "/{}", "none", {"Product", "Category", "Inventory"}),
    Doc("GET", "products", "", "none", {"Product"})}

CategoryDocs == {
    Doc("POST", "categories", "", "bearerAuth", {}),
    Doc("GET", "categories", "", "none", {})}

InventoryDocs == {
    Doc("PUT", "products", "/{}/inventory", "bearerAuth", {}),
    Doc("GET", "products", "/{}/inventory", "none", {"Inventory"})}

CartDocs == {
    Doc("GET", "cart", "/", "BearerAuth", {"Cart", "CartItem"}),
    Doc("POST", "cart", "/", "BearerAuth", {"CartItem"}),
    Doc("DELETE", "cart", "/items/{}", "BearerAuth", {}),
    Doc("DELETE", "cart", "/", "BearerAuth", {}),
    Doc("POST", "cart", "/checkout", "BearerAuth", {})}

Documented == AuthDocs \cup UserDocs \cup ProductDocs \cup CategoryDocs
                       \cup InventoryDocs \cup CartDocs

-----------------------------------------------------------------------------
(* The routers.  A guard says whether a token is needed, and one of which   *)
(* roles; none means any.                                                   *)

\* Mutant: every router puts its guard before everything, as that of the cart.
Open_Guarded == [login |-> TRUE, roles |-> {}]

Open == [login |-> FALSE, roles |-> {}]
Guarded(any) == [login |-> TRUE, roles |-> any]

Route(method, base, path, guard) ==
    [call |-> Request(method, base, path), guard |-> guard]

AuthRoutes ==
    {Route("POST", "auth", p, Open) :
         p \in {"/register", "/login", "/verify-email/request", "/refresh", "/logout"}}
    \cup {Route("GET", "auth", "/verify-email", Open)}

UserRoutes == {
    Route("GET", "users", "/me", Guarded({})),
    Route("PUT", "users", "/apply-seller", Guarded({})),
    Route("PUT", "users", "/{}/promote-admin", Guarded({"admin"}))}

ProductRoutes == {
    Route("POST", "products", "", Guarded({"seller"})),
    Route("PUT", "products", "/{}", Guarded({"seller"})),
    Route("DELETE", "products", "/{}", Guarded({"seller"})),
    Route("GET", "products", "/{}", Open),
    Route("GET", "products", "", Open),
    Route("POST", "categories", "", Guarded({"admin"})),
    Route("GET", "categories", "", Open),
    Route("PUT", "products", "/{}/inventory", Guarded({"seller"})),
    Route("GET", "products", "/{}/inventory", Open)}

\* The router of the cart puts the guard before everything.
CartRoutes ==
    {Route(m, "cart", "/", Guarded({})) : m \in {"GET", "POST", "DELETE"}}
    \cup {Route("DELETE", "cart", "/items/{}", Guarded({})),
          Route("POST", "cart", "/checkout", Guarded({}))}

Routes == AuthRoutes \cup UserRoutes \cup ProductRoutes \cup CartRoutes

-----------------------------------------------------------------------------
(* The way of a call.                                                       *)

\* nginx: every location ends in a slash, so that a path equal to one but for
\* the slash is answered 301; a client that follows it turns POST into GET.
ThroughNginx(call) ==
    {IF call.path # "" THEN call
     ELSE [call EXCEPT !.path = "/", !.method = IF @ = "POST" THEN "GET" ELSE @]}

\* The load balancer: every pattern has a slash before its asterisk, and what
\* matches none is answered 404.
ThroughAlb(call) == {c \in {call} : c.path # ""}

Forwarded(gateway, call) ==
    IF gateway = "nginx" THEN ThroughNginx(call) ELSE ThroughAlb(call)

\* Express does not tell /products from /products/.
Bare(path) == IF path = "/" THEN "" ELSE path

Serves(route, call) ==
    /\ route.call.method = call.method
    /\ route.call.base = call.base
    /\ Bare(route.call.path) = Bare(call.path)

\* The routes a call ends at: one, or none.
RoutesOf(gateway, call) ==
    {route \in Routes : \E c \in Forwarded(gateway, call) : Serves(route, c)}

\* Where calls that are documented end: what was meant, and what is reached.
Arrivals(docs) ==
    UNION {{[doc |-> doc, route |-> route] : route \in RoutesOf(gateway, doc.call)} :
               gateway \in Gateway, doc \in docs}

\* The routes a call is meant for.
RoutesNamed(call) == {route \in Routes : Serves(route, call)}

\* Where tokens are looked at: by which service, and for what.
Checkpoint == {[service |-> ServiceOf(route.call.base), guard |-> route.guard] :
                   route \in Routes}
=============================================================================
