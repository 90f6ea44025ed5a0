---------------------------- MODULE UserAccounts ----------------------------
(***************************************************************************)
(* The user service: registration, sessions, e-mail verification and roles *)
(* over one MongoDB document per user.                                     *)
(*                                                                         *)
(* Every use case reads a whole document, changes some of its fields in    *)
(* memory and writes the whole document back, with no version and no lock. *)
(* One action here is one database operation, one call of bcrypt or one    *)
(* e-mail; the requests interleave between them.                           *)
(***************************************************************************)
EXTENDS Naturals, FiniteSets

CONSTANTS
    User,          \* accounts, each known by its e-mail address
    Founder,       \* the user an inherited database holds, if there is one
    Request,       \* requests a run may serve, each one once
    Ops,           \* the operations asked for
    Serial,        \* whether a request waits until the others have ended
    LinkLife,      \* 24 hours, the life of a verification link
    SessionLife,   \* 7 days, the life of a refresh token
    MaxClock,      \* bound on the clock
    MaxFailures    \* bound on requests that are cut short

ASSUME AccountConstants ==
    /\ Founder \in User
    /\ {"none", "inherited"} \cap Request = {}
    /\ Ops \subseteq {"register", "login", "relink", "verify", "refresh", "logout",
                      "seller", "promote"}
    /\ Serial \in BOOLEAN
    /\ LinkLife \in Nat /\ SessionLife \in Nat
    /\ MaxClock \in Nat /\ MaxFailures \in Nat

Role == {"admin", "seller", "buyer"}

\* Seconds.  jwt.sign makes of a user and a second always the same string: a
\* refresh token is known by its user and by the second it was signed in.
Time == 0..MaxClock

\* A verification link is a fresh uuid, known by the request that made it.
Link == Request \cup {"none"}

\* An entry of the tokens array: its uuid, known by the login that made it, and
\* the hash of its refresh token.
Session == [id : Request \cup {"inherited"}, hash : Time]

Document == [roles : SUBSET Role, verified : BOOLEAN, link : Link,
             sessions : SUBSET Session]

NoDocument == [roles |-> {}, verified |-> FALSE, link |-> "none", sessions |-> {}]

\* What a client holds after a login or a refresh: a refresh token, and the
\* roles its access token carries.
Credential == [hash : Time, roles : SUBSET Role]

\* An operation on an account; the link or the token it presents, and for a
\* promotion the administrator who asks for it.
Ask == [op : Ops, user : User, link : Link, token : Time, by : User]

Reading == {"findAdmin", "find", "count"}
Writing == {"create", "update"}
InFlightAt == Reading \cup Writing \cup {"hash", "compare", "mail"}
Point == {"unused", "done", "failed"} \cup InFlightAt

VARIABLES
    docs,      \* per user: the document, NoDocument before registration
    ask,       \* per request: what it asks
    at,        \* per request: where it is
    held,      \* per request: the document it has read, or is about to create
    minted,    \* per request: the second in which it made its link or token
    clock,
    mailed,    \* links that have been sent
    handed,    \* per user: the credentials clients have been given
    due,       \* history, per user: what the updates carried out stand for
    raced,     \* history: users one of whose updates overwrote another one
    failures

vars == <<docs, ask, at, held, minted, clock, mailed, handed, due, raced, failures>>

database == <<docs, due, raced>>
clients == <<mailed, handed>>
world == <<clock, failures>>

-----------------------------------------------------------------------------
Exists(u) == docs[u] # NoDocument

InFlight(r) == at[r] \in InFlightAt

Goto(r, point) == at' = [at EXCEPT ![r] = point]

Hold(r, document) == held' = [held EXCEPT ![r] = document]

\* Mutant: the time of expiry is taken for the time of creation.
Mint_Expiry(r) == minted' = [minted EXCEPT ![r] = clock + SessionLife]

Mint(r) == minted' = [minted EXCEPT ![r] = clock]

Holders(document, token) == {s \in document.sessions : s.hash = token}

\* Mutant: the count is taken to include the user who registers.
RolesOfNew_CountsOne ==
    IF Cardinality({u \in User : Exists(u)}) = 1 THEN Role ELSE {"buyer"}

\* The first user to register becomes administrator.
RolesOfNew == IF \E u \in User : Exists(u) THEN {"buyer"} ELSE Role

\* Mutant: a new session replaces the others.
NewSessions_Single(r) ==
    LET old == Holders(held[r], ask[r].token)
    IN  CASE ask[r].op = "login"   -> {[id |-> r, hash |-> minted[r]]}
          [] ask[r].op = "refresh" ->
                 (held[r].sessions \ old) \cup {[id |-> s.id, hash |-> minted[r]] : s \in old}
          [] ask[r].op = "logout"  -> held[r].sessions \ old
          [] OTHER                 -> held[r].sessions

\* The tokens array a request writes back: entries are told apart by the hash.
NewSessions(r) ==
    LET old == Holders(held[r], ask[r].token)
    IN  CASE ask[r].op = "login"   -> held[r].sessions \cup {[id |-> r, hash |-> minted[r]]}
          [] ask[r].op = "refresh" ->
                 (held[r].sessions \ old) \cup {[id |-> s.id, hash |-> minted[r]] : s \in old}
          [] ask[r].op = "logout"  -> held[r].sessions \ old
          [] OTHER                 -> held[r].sessions

\* The role an operation adds.
Granted(op) == CASE op = "seller"  -> {"seller"}
                 [] op = "promote" -> {"admin"}
                 [] OTHER          -> {}

\* Mutant: the role of an application replaces the others.
NewRoles_Replaced(r) ==
    IF Granted(ask[r].op) = {} THEN held[r].roles ELSE Granted(ask[r].op)

NewRoles(r) == held[r].roles \cup Granted(ask[r].op)

\* The link verifyEmail means to clear is undefined, a key that Mongoose leaves
\* out of the update: the link stays as it is stored.
NewLink(r) == CASE ask[r].op = "relink" -> r
                [] ask[r].op = "verify" -> docs[ask[r].user].link
                [] OTHER                -> held[r].link

\* MongoUserRepository.update: the whole document is written back.
Update(r) ==
    LET u == ask[r].user
    IN  /\ docs' = [docs EXCEPT ![u] =
                        [roles |-> NewRoles(r),
                         verified |-> held[r].verified \/ ask[r].op = "verify",
                         link |-> NewLink(r),
                         sessions |-> NewSessions(r)]]
        /\ due' = [due EXCEPT ![u] =
                       [roles |-> @.roles \cup Granted(ask[r].op),
                        verified |-> @.verified \/ ask[r].op = "verify",
                        out |-> (@.out \cup IF ask[r].op \in {"refresh", "logout"}
                                            THEN {ask[r].token} ELSE {})
                                \ IF ask[r].op \in {"login", "refresh"}
                                  THEN {minted[r]} ELSE {}]]
        /\ raced' = IF held[r] = docs[u] THEN raced ELSE raced \cup {u}

\* MongoUserRepository.create: the index on the address is unique.
Create(r) ==
    /\ docs' = [docs EXCEPT ![ask[r].user] = held[r]]
    /\ UNCHANGED <<due, raced>>

-----------------------------------------------------------------------------
(* Requests.                                                                *)

\* What the clients of the moment can ask: links that were mailed, tokens that
\* were handed out, and the operations that need an access token.
Askable(a) ==
    /\ a.op = "verify" => a.link \in mailed /\ a.user = ask[a.link].user
    /\ a.op # "verify" => a.link = "none"
    /\ a.op \in {"refresh", "logout"} => \E c \in handed[a.user] : c.hash = a.token
    /\ a.op \notin {"refresh", "logout"} => a.token = 0
    /\ a.op = "seller" => handed[a.user] # {}
    /\ a.op = "promote" => \E c \in handed[a.by] : "admin" \in c.roles
    /\ a.op # "promote" => a.by = a.user

Arrive(r) ==
    /\ at[r] = "unused"
    /\ Serial => \A s \in Request : ~InFlight(s)
    /\ \E a \in Ask :
           /\ Askable(a)
           /\ ask' = [ask EXCEPT ![r] = a]
           /\ Goto(r, IF a.op = "promote" THEN "findAdmin" ELSE "find")
    /\ UNCHANGED <<held, minted, database, clients, world>>

\* promoteToAdmin reads the administrator before the user.
FindAdmin(r) ==
    /\ at[r] = "findAdmin"
    /\ Goto(r, IF "admin" \in docs[ask[r].by].roles THEN "find" ELSE "failed")
    /\ UNCHANGED <<ask, held, minted, database, clients, world>>

\* Whether the query of a request matches the document of its user.
Matches(r) ==
    LET d == docs[ask[r].user]
    IN  CASE ask[r].op = "verify"                -> d.link = ask[r].link
          [] ask[r].op \in {"refresh", "logout"} -> Holders(d, ask[r].token) # {}
          [] OTHER                               -> Exists(ask[r].user)

\* Without a match, relink and logout keep silent, and register goes on.
NotFound(r) ==
    /\ at[r] = "find" /\ ~Matches(r)
    /\ Goto(r, CASE ask[r].op = "register"           -> "hash"
                 [] ask[r].op \in {"relink", "logout"} -> "done"
                 [] OTHER                            -> "failed")
    /\ UNCHANGED <<ask, held, minted, database, clients, world>>

\* The address is taken, or the link or the token has expired.
Refused(r) ==
    \/ ask[r].op = "register"
    \/ ask[r].op = "verify" /\ clock > minted[ask[r].link] + LinkLife
    \/ ask[r].op = "refresh" /\ clock > ask[r].token + SessionLife

\* A role the user has already: nothing is written.
Redundant(r) == Granted(ask[r].op) \cap docs[ask[r].user].roles # {}

\* The document is read; all that follows up to the next operation on the
\* database is done without letting another request run.
Find(r) ==
    LET u == ask[r].user
    IN  /\ at[r] = "find" /\ Matches(r)
        /\ \/ Refused(r) /\ Goto(r, "failed") /\ UNCHANGED <<held, minted>>
           \/ ~Refused(r) /\ Redundant(r) /\ Goto(r, "done") /\ UNCHANGED <<held, minted>>
           \/ /\ ~Refused(r) /\ ~Redundant(r)
              /\ Hold(r, docs[u])
              /\ Mint(r)
              /\ Goto(r, IF ask[r].op = "login" THEN "compare" ELSE "update")
        /\ UNCHANGED <<ask, database, clients, world>>

\* bcrypt compares the password outside the event loop; only a verified user
\* logs in.  The token is made here.
Compare(r) ==
    /\ at[r] = "compare"
    /\ \/ held[r].verified /\ Goto(r, "update") /\ Mint(r)
       \/ Goto(r, "failed") /\ UNCHANGED minted
    /\ UNCHANGED <<ask, held, database, clients, world>>

\* The token of a refresh or a login is handed out once the update is through.
SaveUser(r) ==
    LET u == ask[r].user
    IN  /\ at[r] = "update"
        /\ Update(r)
        /\ handed' = IF ask[r].op \in {"login", "refresh"}
                     THEN [handed EXCEPT ![u] =
                               @ \cup {[hash |-> minted[r], roles |-> held[r].roles]}]
                     ELSE handed
        /\ Goto(r, IF ask[r].op = "relink" THEN "mail" ELSE "done")
        /\ UNCHANGED <<ask, held, minted, mailed, world>>

-----------------------------------------------------------------------------
(* register, past the test of the address.                                  *)

\* bcrypt hashes the password outside the event loop; the link is made here.
HashPassword(r) ==
    /\ at[r] = "hash"
    /\ Mint(r)
    /\ Goto(r, "count")
    /\ UNCHANGED <<ask, held, database, clients, world>>

CountUsers(r) ==
    /\ at[r] = "count"
    /\ Hold(r, [roles |-> RolesOfNew, verified |-> FALSE, link |-> r, sessions |-> {}])
    /\ Goto(r, "create")
    /\ UNCHANGED <<ask, minted, database, clients, world>>

CreateUser(r) ==
    /\ at[r] = "create"
    /\ IF Exists(ask[r].user)
       THEN Goto(r, "failed") /\ UNCHANGED database
       ELSE Create(r) /\ Goto(r, "mail")
    /\ UNCHANGED <<ask, held, minted, clients, world>>

SendLink(r) ==
    /\ at[r] = "mail"
    /\ mailed' = mailed \cup {r}
    /\ Goto(r, "done")
    /\ UNCHANGED <<ask, held, minted, database, handed, world>>

-----------------------------------------------------------------------------
(* The environment.                                                         *)

Tick ==
    /\ clock < MaxClock
    /\ clock' = clock + 1
    /\ UNCHANGED <<ask, at, held, minted, database, clients, failures>>

\* A request is cut short, by a crash or an operation that fails: what it was
\* waiting for has been done or not, and nobody learns.
CutShort(r) ==
    /\ InFlight(r)
    /\ failures < MaxFailures
    /\ failures' = failures + 1
    /\ \/ UNCHANGED database
       \/ at[r] = "update" /\ Update(r)
       \/ at[r] = "create" /\ ~Exists(ask[r].user) /\ Create(r)
    /\ Goto(r, "failed")
    /\ UNCHANGED <<ask, held, minted, clients, clock>>

NoAsk == [op |-> "none", user |-> Founder, link |-> "none", token |-> 0, by |-> Founder]

\* The database is empty, or holds a founder who is verified and logged in.
Init ==
    /\ \E inherited \in BOOLEAN :
           LET session == [id |-> "inherited", hash |-> 0]
           IN  /\ docs = [u \in User |->
                      IF inherited /\ u = Founder
                      THEN [roles |-> Role, verified |-> TRUE, link |-> "none",
                            sessions |-> {session}]
                      ELSE NoDocument]
               /\ handed = [u \in User |->
                      IF inherited /\ u = Founder
                      THEN {[hash |-> 0, roles |-> Role]} ELSE {}]
    /\ ask = [r \in Request |-> NoAsk]
    /\ at = [r \in Request |-> "unused"]
    /\ held = [r \in Request |-> NoDocument]
    /\ minted = [r \in Request |-> 0]
    /\ clock = 0 /\ failures = 0
    /\ mailed = {}
    /\ due = [u \in User |-> [roles |-> {}, verified |-> FALSE, out |-> {}]]
    /\ raced = {}

Serve(r) ==
    \/ FindAdmin(r) \/ NotFound(r) \/ Find(r) \/ Compare(r) \/ SaveUser(r)
    \/ HashPassword(r) \/ CountUsers(r) \/ CreateUser(r) \/ SendLink(r)

Next ==
    \/ \E r \in Request : Arrive(r) \/ Serve(r) \/ CutShort(r)
    \/ Tick

Spec == Init /\ [][Next]_vars

-----------------------------------------------------------------------------
(* Properties.                                                              *)

TypeOK ==
    /\ docs \in [User -> Document]
    /\ ask \in [Request -> Ask \cup {NoAsk}]
    /\ at \in [Request -> Point]
    /\ held \in [Request -> Document]
    /\ minted \in [Request -> Time]
    /\ clock \in Time /\ failures \in 0..MaxFailures
    /\ mailed \subseteq Request
    /\ handed \in [User -> SUBSET Credential]
    /\ due \in [User -> [roles : SUBSET Role, verified : BOOLEAN, out : SUBSET Time]]
    /\ raced \subseteq User

\* Once somebody is registered there is an administrator, and somebody can
\* promote others: the count and the insertion of concurrent registrations may
\* make several, but never none, and no stale update takes the role away again.
AnAdminExists ==
    (\E u \in User : Exists(u)) => \E u \in User : "admin" \in docs[u].roles

\* An update that was carried out is only undone by another one of the same
\* account that had read the document before: otherwise a user stays verified,
\* keeps the roles, the token of a finished session stays dead, and every other
\* token handed out stays alive, whatever fails on the way.
NothingUndone ==
    \A u \in User \ raced :
        /\ due[u].verified => docs[u].verified
        /\ due[u].roles \subseteq docs[u].roles
        /\ \A s \in docs[u].sessions : s.hash \notin due[u].out
        /\ \A c \in handed[u] : c.hash \in due[u].out \/ Holders(docs[u], c.hash) # {}

\* When requests wait for each other, the service is the one of AtomicAccounts,
\* whatever fails on the way.
Atomic == INSTANCE AtomicAccounts WITH accounts <- docs
ImplementsAtomicAccounts == Atomic!Spec
=============================================================================
