------------------------------ MODULE ApiAccess ------------------------------
(***************************************************************************)
(* Who gets past the guards.  A guard believes an access token until it    *)
(* expires and asks no database, while the account behind the token is     *)
(* read and written back whole by requests that overlap, and the services  *)
(* are redeployed one by one when the signing secret changes.              *)
(*                                                                         *)
(* One account and one of its access tokens: accounts share nothing here,  *)
(* and a guard sees one token.  Times are ages, counted up to AccessLife.  *)
(***************************************************************************)
EXTENDS ApiEndpoints, Naturals

CONSTANTS
    Worker,        \* requests on the account that can be in flight at once
    Role,          \* the roles an account can be given later
    AccessLife,    \* 15 minutes, the life of an access token
    MaxRotations   \* bound on changes of the signing secret

ASSUME AccessConstants ==
    /\ Role \subseteq {"seller", "admin"}
    /\ AccessLife \in Nat \ {0}
    /\ MaxRotations \in Nat

Age == 0..AccessLife

\* Values of JWT_SECRET; "unset" leaves each service with its own default.
Secret == {"unset", "old", "new"}

KeyOf(s, value) ==
    IF value # "unset" THEN value
    ELSE IF s = "cart-service" THEN "my_secret" ELSE "default_secret"

SigningKey == {"old", "new", "my_secret", "default_secret"}

NoToken == [roles |-> {}, age |-> AccessLife, key |-> "default_secret"]

Token == [roles : SUBSET Role, age : Age, key : SigningKey]

AccountOp == {"login", "refresh", "logout", "apply", "promote", "verify"}

\* A request on the account: what it read, how long ago, and the secret of the
\* process that serves it.
Idle == [op |-> "none", roles |-> {}, session |-> FALSE, age |-> 0, by |-> "unset"]

Work == [op : AccountOp \cup {"none"}, roles : SUBSET Role, session : BOOLEAN,
         age : Age, by : Secret]

VARIABLES
    roles,      \* the document: the roles given later (buyer is always there)
    session,    \* the document: whether tokens holds a refresh token
    work,       \* per worker: the request it serves
    token,      \* the access token the client uses
    config,     \* the secret a deployment hands out
    secret,     \* per service: the secrets its processes were started with
    rotations,
    ended,      \* history: age of the last loss of the session
    changed,    \* history, per role: age of its last change in the document
    settled     \* history: age of the last start or end of a process

account == <<roles, session, ended, changed>>
deployment == <<config, secret, rotations, settled>>

accessVars == <<account, work, token, deployment>>

-----------------------------------------------------------------------------
(* The guards.                                                              *)

\* All processes of all services sign and verify with one key.
Agree ==
    \A s, t \in Svc : \A v \in secret[s], w \in secret[t] : KeyOf(s, v) = KeyOf(t, w)

Unexpired == token.age < AccessLife

\* Mutant: the expiry is not looked at (jwt.decode for jwt.verify).
Valid_Forever(key) == token.key = key

\* jwt.verify
Valid(key) == Unexpired /\ token.key = key

\* The three middlewares: no or no valid token, no role of those asked for, or
\* on to the handler.
Answer(guard, key) ==
    CASE guard.login /\ ~Valid(key) -> "401"
      [] guard.login /\ Valid(key) /\ guard.roles # {} /\ guard.roles \cap token.roles = {}
             -> "403"
      [] OTHER -> "handled"

\* What a checkpoint may answer: any process of its service may serve the call.
Answers(c) == {Answer(c.guard, KeyOf(c.service, v)) : v \in secret[c.service]}

-----------------------------------------------------------------------------
(* The account: login, refresh, logout, applyForSeller, promoteToAdmin, and *)
(* "verify" for requestEmailVerification and verifyEmail, which write the   *)
(* roles and sessions back as they have read them.                          *)

\* What must hold when the document is read: a refresh token is found in it, the
\* application has passed its guard, the role is a new one.
Admits(op, v) ==
    CASE op \in {"refresh", "logout"} -> session
      [] op = "apply"   -> /\ "seller" \in Role \ roles
                           /\ Answer(Guarded({}), KeyOf("user-service", v)) = "handled"
      [] op = "promote" -> "admin" \in Role \ roles
      [] OTHER          -> TRUE

ReadAccount(w, op) ==
    /\ work[w] = Idle
    /\ \E v \in secret["user-service"] :
           /\ Admits(op, v)
           /\ work' = [work EXCEPT ![w] = [op |-> op, roles |-> roles,
                                           session |-> session, age |-> 0, by |-> v]]
    /\ UNCHANGED <<account, token, deployment>>

\* Mutant: an application is granted the other role.
GrantedBy_Admin(op) == IF op \in {"apply", "promote"} THEN {"admin"} ELSE {}

GrantedBy(op) == CASE op = "apply"   -> {"seller"}
                   [] op = "promote" -> {"admin"}
                   [] OTHER          -> {}

\* Mutant: a login writes its token only, and leaves the roles as they are.
RolesAfter_Login(w) ==
    IF GrantedBy(work[w].op) = {} THEN roles ELSE work[w].roles \cup GrantedBy(work[w].op)

\* The document a request writes back, all of it.
RolesAfter(w) == work[w].roles \cup GrantedBy(work[w].op)

\* A logout takes the last session away, or leaves another device's.
SessionAfter(w) == CASE work[w].op \in {"login", "refresh"} -> {TRUE}
                     [] work[w].op = "logout"               -> BOOLEAN
                     [] OTHER                               -> {work[w].session}

WriteAccount(w) ==
    /\ roles' = RolesAfter(w)
    /\ session' \in SessionAfter(w)
    /\ ended' = IF session /\ ~session' THEN 0 ELSE ended
    /\ changed' = [r \in Role |-> IF r \in roles <=> r \in roles' THEN changed[r] ELSE 0]

\* Mutant: the token is signed for the process that is to start next.
HandToken_Config(w) ==
    \/ UNCHANGED token
    \/ /\ work[w].op \in {"login", "refresh"}
       /\ \E age \in 0..work[w].age :
              token' = [roles |-> work[w].roles, age |-> age,
                        key |-> KeyOf("user-service", config)]

\* The token was signed between the read and the write, with the roles that were
\* read; the client may go on with the one it has.
HandToken(w) ==
    \/ UNCHANGED token
    \/ /\ work[w].op \in {"login", "refresh"}
       /\ \E age \in 0..work[w].age :
              token' = [roles |-> work[w].roles, age |-> age,
                        key |-> KeyOf("user-service", work[w].by)]

EndRequest(w) ==
    /\ work[w].op # "none"
    /\ WriteAccount(w)
    /\ HandToken(w)
    /\ work' = [work EXCEPT ![w] = Idle]
    /\ UNCHANGED deployment

\* A request that ends before it writes: refused by a later check, or an error.
CutShort(w) ==
    /\ work[w].op # "none"
    /\ work' = [work EXCEPT ![w] = Idle]
    /\ UNCHANGED <<account, token, deployment>>

-----------------------------------------------------------------------------
(* Deployment and time.                                                     *)

Rotate ==
    /\ rotations < MaxRotations
    /\ rotations' = rotations + 1
    /\ config' \in Secret \ {"unset", config}
    /\ UNCHANGED <<account, work, token, secret, settled>>

\* A rolling deployment: a new process starts, and later an old one ends with
\* the requests it serves.
Launch(s) ==
    /\ config \notin secret[s]
    /\ secret' = [secret EXCEPT ![s] = @ \cup {config}]
    /\ settled' = 0
    /\ UNCHANGED <<account, work, token, config, rotations>>

Retire(s) ==
    /\ \E v \in secret[s] :
           /\ v # config /\ config \in secret[s]
           /\ secret' = [secret EXCEPT ![s] = @ \ {v}]
           /\ work' = [w \in Worker |-> IF s = "user-service" /\ work[w].by = v
                                        THEN Idle ELSE work[w]]
    /\ settled' = 0
    /\ UNCHANGED <<account, token, config, rotations>>

Older(age) == IF age < AccessLife THEN age + 1 ELSE age

AccessTick ==
    /\ work' = [w \in Worker |-> IF work[w].op = "none" THEN Idle
                                 ELSE [work[w] EXCEPT !.age = Older(@)]]
    /\ token' = [token EXCEPT !.age = Older(@)]
    /\ ended' = Older(ended)
    /\ changed' = [r \in Role |-> Older(changed[r])]
    /\ settled' = Older(settled)
    /\ UNCHANGED <<roles, session, config, secret, rotations>>

\* Nobody has logged in yet.
AccessInit ==
    /\ roles = {} /\ session = FALSE
    /\ work = [w \in Worker |-> Idle]
    /\ token = NoToken
    /\ config \in {"unset", "old"}
    /\ secret = [s \in Svc |-> {config}]
    /\ rotations = 0
    /\ ended = AccessLife /\ settled = AccessLife
    /\ changed = [r \in Role |-> AccessLife]

AccessNext ==
    \/ \E w \in Worker : \/ EndRequest(w) \/ CutShort(w)
                        \/ \E op \in AccountOp : ReadAccount(w, op)
    \/ Rotate
    \/ \E s \in Svc : Launch(s) \/ Retire(s)
    \/ AccessTick

AccessSpec == AccessInit /\ [][AccessNext]_accessVars

-----------------------------------------------------------------------------
(* Properties.                                                              *)

AccessTypeOK ==
    /\ roles \subseteq Role /\ session \in BOOLEAN
    /\ work \in [Worker -> Work]
    /\ token \in Token
    /\ config \in Secret /\ secret \in [Svc -> SUBSET Secret]
    /\ rotations \in 0..MaxRotations
    /\ ended \in Age /\ changed \in [Role -> Age] /\ settled \in Age

\* The guards know nothing of logouts: an account without a session still gets
\* past them, but never later than AccessLife after it lost the last one,
\* whatever overlapping request took it away.
SessionEndsAccess ==
    \A c \in Checkpoint :
        c.guard.login /\ "handled" \in Answers(c) => session \/ ended < AccessLife

\* Nor do they know of roles: what a guard decides on a role differs from what
\* the database says for less than AccessLife after the last change of that
\* role, be it granted, or undone by a request that wrote an old document back.
RolesCatchUp ==
    \A c \in Checkpoint : \A r \in c.guard.roles \cap Role :
        \/ Answers(c) = {"401"}
        \/ r \in roles <=> r \in token.roles
        \/ changed[r] < AccessLife

\* A token that has not expired is refused only while processes disagree on the
\* secret (the defaults of the services do disagree), or for less than
\* AccessLife after the deployment that made them agree.
RefusalHasCause ==
    \A c \in Checkpoint :
        Unexpired /\ "401" \in Answers(c) => ~Agree \/ settled < AccessLife

\* The invariant that carries the proofs: what could make the token stale is no
\* older than the token; a request is served by a process that runs, every service
\* has one, and what is granted is a role.
Fresh ==
    /\ Unexpired /\ ~session => ended <= token.age
    /\ \A r \in Role :
           Unexpired /\ ~(r \in roles <=> r \in token.roles) => changed[r] <= token.age
    /\ \A v \in secret["user-service"] :
           Unexpired /\ Agree /\ token.key # KeyOf("user-service", v) => settled <= token.age

ServedByRunning ==
    \A w \in Worker : work[w].op # "none" => work[w].by \in secret["user-service"]

Staffed == \A s \in Svc : secret[s] # {}

GrantsAreRoles == \A w \in Worker : GrantedBy(work[w].op) \subseteq Role

AccessInv == AccessTypeOK /\ Fresh /\ ServedByRunning /\ Staffed /\ GrantsAreRoles
=============================================================================
