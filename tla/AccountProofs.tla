--------------------------- MODULE AccountProofs ---------------------------
(***************************************************************************)
(* The user service under any interleaving and with requests cut short     *)
(* anywhere: type correctness, an administrator from the first             *)
(* registration on, and updates that only an overtaken one undoes.         *)
(* Requests that wait for each other implement AtomicAccounts, whichever   *)
(* of them are cut short.                                                  *)
(***************************************************************************)
EXTENDS UserAccounts, TLAPS

USE DEF vars, database, clients, world

-----------------------------------------------------------------------------
(* What the operators a request writes with return.                         *)

AllOps == {"register", "login", "relink", "verify", "refresh", "logout", "seller", "promote"}

LEMMA AskType ==
    ASSUME NEW a \in Ask
    PROVE  /\ a.op \in AllOps /\ a.user \in User /\ a.by \in User
           /\ a.link \in Link /\ a.token \in Time
  BY AccountConstants DEF Ask, AllOps

LEMMA GrantedType == \A op : Granted(op) \subseteq Role /\ Granted(op) \in SUBSET Role
  <1> SUFFICES ASSUME NEW op PROVE Granted(op) \subseteq Role
    OBVIOUS
  <1>1. CASE op = "seller"
    BY <1>1 DEF Granted, Role
  <1>2. CASE op = "promote"
    BY <1>2 DEF Granted, Role
  <1>3. CASE op # "seller" /\ op # "promote"
    BY <1>3 DEF Granted, Role
  <1> QED  BY <1>1, <1>2, <1>3

LEMMA RefreshedType ==
    ASSUME NEW S \in SUBSET Session, NEW t \in Time
    PROVE  {[id |-> s.id, hash |-> t] : s \in S} \subseteq Session
  BY DEF Session

LEMMA NewSessionsType ==
    ASSUME NEW r \in Request, held[r] \in Document, minted[r] \in Time
    PROVE  NewSessions(r) \subseteq Session
  <1> DEFINE old == Holders(held[r], ask[r].token)
             new == {[id |-> s.id, hash |-> minted[r]] : s \in old}
  <1>1. held[r].sessions \subseteq Session /\ old \subseteq Session
    BY DEF Document, Holders
  <1>2. new \subseteq Session
    BY <1>1, RefreshedType
  <1>3. [id |-> r, hash |-> minted[r]] \in Session
    BY DEF Session
  <1>4. \/ NewSessions(r) = held[r].sessions \cup {[id |-> r, hash |-> minted[r]]}
        \/ NewSessions(r) = (held[r].sessions \ old) \cup new
        \/ NewSessions(r) = held[r].sessions \ old
        \/ NewSessions(r) = held[r].sessions
    <2>1. CASE ask[r].op = "login"
      BY <2>1 DEF NewSessions
    <2>2. CASE ask[r].op = "refresh"
      BY <2>2 DEF NewSessions
    <2>3. CASE ask[r].op = "logout"
      BY <2>3 DEF NewSessions
    <2>4. CASE ask[r].op \notin {"login", "refresh", "logout"}
      BY <2>4 DEF NewSessions
    <2> QED  BY <2>1, <2>2, <2>3, <2>4
  <1> HIDE DEF old, new
  <1> QED  BY <1>1, <1>2, <1>3, <1>4

LEMMA NewLinkType ==
    ASSUME NEW r \in Request, held[r] \in Document, docs[ask[r].user] \in Document
    PROVE  NewLink(r) \in Link
  <1>1. CASE ask[r].op = "relink"
    BY <1>1 DEF NewLink, Link
  <1>2. CASE ask[r].op = "verify"
    BY <1>2 DEF NewLink, Document
  <1>3. CASE ask[r].op \notin {"relink", "verify"}
    BY <1>3 DEF NewLink, Document
  <1> QED  BY <1>1, <1>2, <1>3

-----------------------------------------------------------------------------
(* Type correctness, in three parts.                                        *)

AccountsOK ==
    /\ docs \in [User -> Document]
    /\ handed \in [User -> SUBSET Credential]
    /\ due \in [User -> [roles : SUBSET Role, verified : BOOLEAN, out : SUBSET Time]]
    /\ raced \subseteq User
    /\ mailed \subseteq Request

\* Beyond TypeOK: a request that has arrived asks for something, and a
\* verification presents a link that somebody made.
RequestsOK ==
    /\ ask \in [Request -> Ask \cup {NoAsk}]
    /\ at \in [Request -> Point]
    /\ held \in [Request -> Document]
    /\ minted \in [Request -> Time]
    /\ \A r \in Request : at[r] # "unused" =>
           /\ ask[r] \in Ask
           /\ ask[r].op = "verify" => ask[r].link \in Request

WorldOK == clock \in Time /\ failures \in 0..MaxFailures

TypeInv == AccountsOK /\ RequestsOK /\ WorldOK

LEMMA TypeInvTypes == TypeInv => TypeOK
  BY DEF TypeInv, AccountsOK, RequestsOK, WorldOK, TypeOK

LEMMA Points == InFlightAt \cup {"done", "failed"} \subseteq Point \ {"unused"}
  BY DEF Point, InFlightAt, Reading, Writing

\* A request that has arrived, and moves on without asking anything else.
LEMMA MoveOn ==
    ASSUME RequestsOK, NEW r \in Request, at[r] # "unused",
           NEW point \in Point \ {"unused"}, Goto(r, point), UNCHANGED ask,
           held' \in [Request -> Document], minted' \in [Request -> Time]
    PROVE  RequestsOK'
  BY DEF RequestsOK, Goto

LEMMA UpdateTypes ==
    ASSUME AccountsOK, RequestsOK, NEW r \in Request, at[r] # "unused", Update(r)
    PROVE  /\ docs' \in [User -> Document]
           /\ due' \in [User -> [roles : SUBSET Role, verified : BOOLEAN, out : SUBSET Time]]
           /\ raced' \subseteq User
  <1> DEFINE u == ask[r].user
  <1>1. /\ u \in User /\ ask[r].token \in Time
        /\ held[r] \in Document /\ minted[r] \in Time /\ docs[u] \in Document
    BY AskType DEF RequestsOK, AccountsOK
  <1>2. NewSessions(r) \subseteq Session /\ NewLink(r) \in Link
    BY <1>1, NewSessionsType, NewLinkType
  <1>3. NewRoles(r) \in SUBSET Role
    BY <1>1, GrantedType DEF NewRoles, Document
  <1>4. [roles |-> NewRoles(r), verified |-> held[r].verified \/ ask[r].op = "verify",
         link |-> NewLink(r), sessions |-> NewSessions(r)] \in Document
    BY <1>1, <1>2, <1>3 DEF Document
  <1>5. docs' \in [User -> Document]
    BY <1>1, <1>4 DEF Update, AccountsOK
  <1>6. raced' \subseteq User
    BY <1>1 DEF Update, AccountsOK
  <1> DEFINE out == (due[u].out \cup IF ask[r].op \in {"refresh", "logout"}
                                     THEN {ask[r].token} ELSE {})
                    \ IF ask[r].op \in {"login", "refresh"} THEN {minted[r]} ELSE {}
             new == [roles |-> due[u].roles \cup Granted(ask[r].op),
                     verified |-> due[u].verified \/ ask[r].op = "verify", out |-> out]
  <1>7. due[u] \in [roles : SUBSET Role, verified : BOOLEAN, out : SUBSET Time]
    BY <1>1 DEF AccountsOK
  <1>8. out \in SUBSET Time /\ due[u].roles \cup Granted(ask[r].op) \in SUBSET Role
    BY <1>1, <1>7, GrantedType
  <1>9. new \in [roles : SUBSET Role, verified : BOOLEAN, out : SUBSET Time]
    BY <1>8
  <1>10. due' = [due EXCEPT ![u] = new]
    BY <1>1 DEF Update, AccountsOK
  <1>11. due' \in [User -> [roles : SUBSET Role, verified : BOOLEAN, out : SUBSET Time]]
    BY <1>1, <1>9, <1>10 DEF AccountsOK
  <1> QED  BY <1>5, <1>6, <1>11

LEMMA CreateTypes ==
    ASSUME AccountsOK, RequestsOK, NEW r \in Request, at[r] # "unused", Create(r)
    PROVE  /\ docs' \in [User -> Document]
           /\ UNCHANGED <<due, raced>>
  BY AskType DEF RequestsOK, AccountsOK, Create

LEMMA InitTypes == Init => TypeInv
  <1> SUFFICES ASSUME Init
               PROVE  TypeInv
    OBVIOUS
  <1>1. NoDocument \in Document
    BY DEF NoDocument, Document, Link
  <1>2. 0 \in Time
    BY AccountConstants DEF Time
  <1>3. [id |-> "inherited", hash |-> 0] \in Session
    BY <1>2 DEF Session
  <1>4. [roles |-> Role, verified |-> TRUE, link |-> "none",
         sessions |-> {[id |-> "inherited", hash |-> 0]}] \in Document
    BY <1>3 DEF Document, Link
  <1>5. docs \in [User -> Document]
    BY <1>1, <1>4 DEF Init
  <1>6. handed \in [User -> SUBSET Credential]
    BY <1>2 DEF Init, Credential
  <1>7. "unused" \in Point
    BY DEF Point
  <1>8. AccountsOK
    BY <1>5, <1>6 DEF Init, AccountsOK
  <1>9. RequestsOK
    BY <1>1, <1>2, <1>7 DEF Init, RequestsOK
  <1>10. WorldOK
    BY <1>2, AccountConstants DEF Init, WorldOK
  <1> QED  BY <1>8, <1>9, <1>10 DEF TypeInv

LEMMA ArriveTypes ==
    ASSUME TypeInv, NEW r \in Request, Arrive(r)
    PROVE  TypeInv'
  <1>1. PICK a \in Ask : /\ Askable(a) /\ ask' = [ask EXCEPT ![r] = a]
                         /\ Goto(r, IF a.op = "promote" THEN "findAdmin" ELSE "find")
    BY DEF Arrive
  <1>2. a.op = "verify" => a.link \in Request
    BY <1>1 DEF Askable, TypeInv, AccountsOK
  <1>3. {"find", "findAdmin"} \subseteq Point \ {"unused"}
    BY Points DEF InFlightAt, Reading
  <1>4. RequestsOK'
    BY <1>1, <1>2, <1>3 DEF Arrive, Goto, TypeInv, RequestsOK
  <1> QED  BY <1>4 DEF Arrive, TypeInv, AccountsOK, WorldOK

\* The steps of a request that leave the database and the clients alone.
LEMMA ReadingTypes ==
    ASSUME TypeInv, NEW r \in Request,
           \/ FindAdmin(r) \/ NotFound(r) \/ Find(r) \/ Compare(r)
           \/ HashPassword(r) \/ CountUsers(r)
    PROVE  TypeInv'
  <1>1. at[r] # "unused"
    BY DEF FindAdmin, NotFound, Find, Compare, HashPassword, CountUsers
  <1>2. ask[r] \in Ask /\ ask[r].user \in User
    BY <1>1, AskType DEF TypeInv, RequestsOK
  <1>3. AccountsOK' /\ WorldOK' /\ UNCHANGED ask
    BY DEF FindAdmin, NotFound, Find, Compare, HashPassword, CountUsers,
           TypeInv, AccountsOK, WorldOK
  <1>4. \E point \in Point \ {"unused"} : Goto(r, point)
    <2>1. CASE NotFound(r)
      <3>1. PICK point : Goto(r, point)
                /\ point = CASE ask[r].op = "register" -> "hash"
                             [] ask[r].op \in {"relink", "logout"} -> "done"
                             [] OTHER -> "failed"
        BY <2>1 DEF NotFound
      <3>2. point \in {"hash", "done", "failed"}
        <4>1. CASE ask[r].op = "register"
          BY <3>1, <4>1
        <4>2. CASE ask[r].op \in {"relink", "logout"}
          BY <3>1, <4>2
        <4>3. CASE ask[r].op \notin {"register", "relink", "logout"}
          BY <3>1, <4>3
        <4> QED  BY <4>1, <4>2, <4>3
      <3> QED  BY <3>1, <3>2, Points DEF InFlightAt
    <2>2. CASE ~NotFound(r)
      BY <2>2, Points DEF FindAdmin, Find, Compare, HashPassword, CountUsers,
                          InFlightAt, Reading, Writing
    <2> QED  BY <2>1, <2>2
  <1>5. held' \in [Request -> Document]
    <2>1. docs[ask[r].user] \in Document
      BY <1>2 DEF TypeInv, AccountsOK
    <2>2. [roles |-> RolesOfNew, verified |-> FALSE, link |-> r, sessions |-> {}] \in Document
      BY DEF RolesOfNew, Document, Role, Link
    <2> QED  BY <2>1, <2>2 DEF FindAdmin, NotFound, Find, Compare, HashPassword, CountUsers,
                               Hold, TypeInv, RequestsOK
  <1>6. minted' \in [Request -> Time]
    BY DEF FindAdmin, NotFound, Find, Compare, HashPassword, CountUsers, Mint,
           TypeInv, RequestsOK, WorldOK
  <1> QED  BY <1>1, <1>3, <1>4, <1>5, <1>6, MoveOn DEF TypeInv

LEMMA WritingTypes ==
    ASSUME TypeInv, NEW r \in Request, SaveUser(r) \/ CreateUser(r) \/ SendLink(r) \/ CutShort(r)
    PROVE  TypeInv'
  <1>1. at[r] # "unused" /\ UNCHANGED <<ask, held, minted>>
    BY Points DEF SaveUser, CreateUser, SendLink, CutShort, InFlight
  <1>2. ask[r].user \in User /\ minted[r] \in Time /\ held[r] \in Document
    BY <1>1, AskType DEF TypeInv, RequestsOK
  <1>3. \E point \in Point \ {"unused"} : Goto(r, point)
    BY Points DEF SaveUser, CreateUser, SendLink, CutShort, InFlightAt
  <1>4. RequestsOK'
    BY <1>1, <1>3, MoveOn DEF TypeInv, RequestsOK
  <1>5. /\ docs' \in [User -> Document]
        /\ due' \in [User -> [roles : SUBSET Role, verified : BOOLEAN, out : SUBSET Time]]
        /\ raced' \subseteq User
    <2>1. Update(r) \/ Create(r) \/ UNCHANGED database
      BY DEF SaveUser, CreateUser, SendLink, CutShort
    <2> QED  BY <1>1, <2>1, UpdateTypes, CreateTypes DEF TypeInv, AccountsOK
  <1>6. handed' \in [User -> SUBSET Credential]
    <2>1. [hash |-> minted[r], roles |-> held[r].roles] \in Credential
      BY <1>2 DEF Credential, Document
    <2> QED  BY <1>2, <2>1 DEF SaveUser, CreateUser, SendLink, CutShort, TypeInv, AccountsOK
  <1>7. mailed' \subseteq Request
    BY DEF SaveUser, CreateUser, SendLink, CutShort, TypeInv, AccountsOK
  <1>8. WorldOK'
    BY AccountConstants DEF SaveUser, CreateUser, SendLink, CutShort, TypeInv, WorldOK
  <1> QED  BY <1>4, <1>5, <1>6, <1>7, <1>8 DEF TypeInv, AccountsOK

LEMMA TypeStep == TypeInv /\ [Next]_vars => TypeInv'
  <1> SUFFICES ASSUME TypeInv, [Next]_vars
               PROVE  TypeInv'
    OBVIOUS
  <1>1. ASSUME NEW r \in Request, Arrive(r)
        PROVE  TypeInv'
    BY <1>1, ArriveTypes
  <1>2. ASSUME NEW r \in Request, Serve(r)
        PROVE  TypeInv'
    BY <1>2, ReadingTypes, WritingTypes DEF Serve
  <1>3. ASSUME NEW r \in Request, CutShort(r)
        PROVE  TypeInv'
    BY <1>3, WritingTypes
  <1>4. CASE Tick
    <2>1. clock' \in Time
      BY <1>4, AccountConstants DEF Tick, Time, TypeInv, WorldOK
    <2> QED  BY <1>4, <2>1 DEF Tick, TypeInv, AccountsOK, RequestsOK, WorldOK
  <1>5. CASE UNCHANGED vars
    BY <1>5 DEF TypeInv, AccountsOK, RequestsOK, WorldOK
  <1> QED  BY <1>1, <1>2, <1>3, <1>4, <1>5 DEF Next

\* Type correctness of the user service (UserAccounts) for any users and requests.
THEOREM AccountsTyping == Spec => []TypeOK
  <1>1. TypeInv => TypeOK
    BY TypeInvTypes
  <1> QED  BY <1>1, InitTypes, TypeStep, PTL DEF Spec

-----------------------------------------------------------------------------
(* An administrator exists.                                                 *)

\* A request that is about to write back a document it has read.
Holding(r) == at[r] \in {"compare", "update"}

\* An administrator that no pending update can make an ordinary user of.
Anchored(u) ==
    /\ "admin" \in docs[u].roles
    /\ \A r \in Request : Holding(r) /\ ask[r].user = u => "admin" \in held[r].roles

\* A pending update is of an account that exists, and leaves it one; whoever is
\* about to be registered is an administrator or not the first one.  That some
\* administrator exists is not enough for a stale update: one must be anchored.
AdminInv ==
    /\ \A r \in Request : Holding(r) => Exists(ask[r].user) /\ held[r].roles # {}
    /\ \A u \in User : Exists(u) => docs[u].roles # {}
    /\ \A r \in Request : at[r] = "create" =>
           held[r].roles # {} /\ ("admin" \in held[r].roles \/ \E u \in User : Exists(u))
    /\ (\E u \in User : Exists(u)) => \E u \in User : Anchored(u)

LEMMA AdminInvSuffices == AdminInv => AnAdminExists
  BY DEF AdminInv, AnAdminExists, Anchored

LEMMA RolesExist == \A d \in Document : d.roles # {} => d # NoDocument
  BY DEF NoDocument

\* A query only matches a document that exists.
LEMMA MatchesExist ==
    ASSUME TypeInv, NEW r \in Request, at[r] # "unused", Matches(r)
    PROVE  Exists(ask[r].user)
  <1>1. CASE ask[r].op = "verify"
    <2>1. ask[r].link # "none"
      BY <1>1, AccountConstants DEF TypeInv, RequestsOK
    <2>2. docs[ask[r].user].link = ask[r].link
      BY <1>1 DEF Matches
    <2> QED  BY <2>1, <2>2 DEF Exists, NoDocument
  <1>2. CASE ask[r].op \in {"refresh", "logout"}
    <2>1. Holders(docs[ask[r].user], ask[r].token) # {}
      BY <1>2 DEF Matches
    <2> QED  BY <2>1 DEF Exists, NoDocument, Holders
  <1>3. CASE ask[r].op \notin {"verify", "refresh", "logout"}
    BY <1>3 DEF Matches
  <1> QED  BY <1>1, <1>2, <1>3

\* A step that writes no document, after which nobody holds a document or is about
\* to create one who was not before.
LEMMA QuietKeepsAdmin ==
    ASSUME AdminInv, UNCHANGED docs,
           \A r \in Request : Holding(r)' =>
               Holding(r) /\ ask'[r] = ask[r] /\ held'[r] = held[r],
           \A r \in Request : at'[r] = "create" => at[r] = "create" /\ held'[r] = held[r]
    PROVE  AdminInv'
  <1>1. \A u \in User : Exists(u)' <=> Exists(u)
    BY DEF Exists
  <1>2. \A u \in User : Anchored(u) => Anchored(u)'
    BY DEF Anchored
  <1>3. \A r \in Request : Holding(r)' => Exists(ask[r].user)' /\ held'[r].roles # {}
    BY DEF AdminInv, Exists
  <1> QED  BY <1>1, <1>2, <1>3 DEF AdminInv

LEMMA FindKeepsAdmin ==
    ASSUME TypeInv, AdminInv, NEW r \in Request, Find(r)
    PROVE  AdminInv'
  <1>1. UNCHANGED <<ask, docs>> /\ at[r] = "find" /\ Matches(r)
    BY DEF Find
  <1>2. ask[r].user \in User /\ Exists(ask[r].user)
    BY <1>1, AskType, MatchesExist DEF TypeInv, RequestsOK
  <1>3. CASE (Goto(r, "failed") \/ Goto(r, "done")) /\ UNCHANGED held
    BY <1>1, <1>3, QuietKeepsAdmin DEF Goto, Holding, TypeInv, RequestsOK
  <1>4. CASE /\ Hold(r, docs[ask[r].user])
             /\ Goto(r, IF ask[r].op = "login" THEN "compare" ELSE "update")
    <2>1. \A s \in Request \ {r} : at'[s] = at[s] /\ held'[s] = held[s]
      BY <1>4 DEF Hold, Goto, TypeInv, RequestsOK
    <2>2. held'[r] = docs[ask[r].user] /\ at'[r] # "create"
      BY <1>4 DEF Hold, Goto, TypeInv, RequestsOK
    <2>3. \A u \in User : Anchored(u) => Anchored(u)'
      BY <1>1, <2>1, <2>2 DEF Anchored, Holding
    <2>4. \A s \in Request : Holding(s)' => Exists(ask[s].user)' /\ held'[s].roles # {}
      BY <1>1, <1>2, <2>1, <2>2 DEF AdminInv, Holding, Exists
    <2>5. \A s \in Request : at'[s] = "create" => at[s] = "create" /\ held'[s] = held[s]
      BY <2>1, <2>2
    <2> QED  BY <1>1, <2>3, <2>4, <2>5 DEF AdminInv, Exists
  <1> QED  BY <1>3, <1>4 DEF Find

LEMMA CountKeepsAdmin ==
    ASSUME TypeInv, AdminInv, NEW r \in Request, CountUsers(r)
    PROVE  AdminInv'
  <1>1. UNCHANGED <<ask, docs>> /\ at'[r] = "create" /\ held'[r].roles = RolesOfNew
    BY DEF CountUsers, Goto, Hold, TypeInv, RequestsOK
  <1>2. \A s \in Request \ {r} : at'[s] = at[s] /\ held'[s] = held[s]
    BY DEF CountUsers, Hold, Goto, TypeInv, RequestsOK
  <1>3. RolesOfNew # {} /\ ("admin" \in RolesOfNew \/ \E u \in User : Exists(u))
    BY DEF RolesOfNew, Role
  <1>4. \A u \in User : Anchored(u) => Anchored(u)'
    BY <1>1, <1>2 DEF Anchored, Holding
  <1>5. \A s \in Request : Holding(s)' => Exists(ask[s].user)' /\ held'[s].roles # {}
    BY <1>1, <1>2 DEF AdminInv, Holding, Exists
  <1> QED  BY <1>1, <1>2, <1>3, <1>4, <1>5 DEF AdminInv, Exists

LEMMA UpdateKeepsAdmin ==
    ASSUME TypeInv, TypeInv', AdminInv, NEW r \in Request, at[r] = "update", Update(r),
           UNCHANGED <<ask, held>>,
           NEW point \in {"mail", "done", "failed"}, Goto(r, point)
    PROVE  AdminInv'
  <1> DEFINE u == ask[r].user
  <1>1. u \in User /\ docs'[u].roles = NewRoles(r) /\ held[r].roles \subseteq NewRoles(r)
    BY AskType DEF Update, NewRoles, TypeInv, RequestsOK, AccountsOK
  <1>2. \A v \in User \ {u} : docs'[v] = docs[v]
    BY DEF Update, TypeInv, AccountsOK
  <1>3. held[r].roles # {} /\ Exists(u)
    BY DEF AdminInv, Holding
  <1>4. docs'[u].roles # {} /\ docs'[u] # NoDocument
    BY <1>1, <1>3, RolesExist DEF TypeInv, AccountsOK
  <1>5. \A v \in User : Exists(v)' <=> Exists(v)
    BY <1>2, <1>3, <1>4 DEF Exists
  <1>6. \A s \in Request : /\ Holding(s)' => Holding(s)
                           /\ at'[s] = "create" => at[s] = "create"
    BY DEF Goto, Holding, TypeInv, RequestsOK
  <1>7. \A v \in User : Anchored(v) => Anchored(v)'
    <2>1. Anchored(u) => "admin" \in held[r].roles
      BY DEF Anchored, Holding
    <2> QED  BY <1>1, <1>2, <1>6, <2>1 DEF Anchored
  <1>8. \A s \in Request : Holding(s)' => Exists(ask[s].user)' /\ held'[s].roles # {}
    <2>1. \A s \in Request : Holding(s) => ask[s].user \in User
      BY AskType DEF Holding, TypeInv, RequestsOK
    <2> QED  BY <1>5, <1>6, <2>1 DEF AdminInv
  <1>9. \A v \in User : Exists(v)' => docs'[v].roles # {}
    BY <1>2, <1>4, <1>5 DEF AdminInv
  <1> QED  BY <1>5, <1>6, <1>7, <1>8, <1>9 DEF AdminInv

LEMMA CreateKeepsAdmin ==
    ASSUME TypeInv, TypeInv', AdminInv, NEW r \in Request, at[r] = "create",
           ~Exists(ask[r].user), Create(r), UNCHANGED <<ask, held>>,
           NEW point \in {"mail", "done", "failed"}, Goto(r, point)
    PROVE  AdminInv'
  <1> DEFINE u == ask[r].user
  <1>1. u \in User /\ docs'[u] = held[r] /\ held[r] \in Document
    BY AskType DEF Create, TypeInv, RequestsOK, AccountsOK
  <1>2. \A v \in User \ {u} : docs'[v] = docs[v]
    BY DEF Create, TypeInv, AccountsOK
  <1>3. /\ held[r].roles # {} /\ docs'[u] # NoDocument
        /\ "admin" \in held[r].roles \/ \E v \in User : Exists(v)
    BY <1>1, RolesExist DEF AdminInv
  <1>4. Exists(u)' /\ \A v \in User : Exists(v) => Exists(v)'
    BY <1>2, <1>3 DEF Exists
  <1>5. \A s \in Request : /\ Holding(s)' => Holding(s)
                           /\ at'[s] = "create" => at[s] = "create"
    BY DEF Goto, Holding, TypeInv, RequestsOK
  <1>6. \A s \in Request : Holding(s) => ask[s].user \in User /\ ask[s].user # u
    BY AskType DEF AdminInv, Holding, TypeInv, RequestsOK
  <1>7. \E v \in User : Anchored(v)'
    <2>1. CASE \E v \in User : Exists(v)
      <3>1. PICK v \in User : Anchored(v)
        BY <2>1 DEF AdminInv
      <3>2. v # u
        BY <3>1 DEF Anchored, Exists, NoDocument
      <3> QED  BY <1>2, <1>5, <3>1, <3>2 DEF Anchored
    <2>2. CASE ~\E v \in User : Exists(v)
      BY <1>1, <1>3, <1>5, <1>6, <2>2 DEF Anchored
    <2> QED  BY <2>1, <2>2
  <1>8. \A s \in Request : Holding(s)' => Exists(ask[s].user)' /\ held'[s].roles # {}
    BY <1>4, <1>5, <1>6 DEF AdminInv
  <1>9. \A v \in User : Exists(v)' => docs'[v].roles # {}
    BY <1>1, <1>2, <1>3 DEF AdminInv, Exists
  <1> QED  BY <1>4, <1>5, <1>7, <1>8, <1>9 DEF AdminInv

LEMMA AdminStep ==
    ASSUME TypeInv, AdminInv, [Next]_vars
    PROVE  AdminInv'
  <1>0. TypeInv'
    BY TypeStep
  <1>1. ASSUME NEW r \in Request, Arrive(r)
        PROVE  AdminInv'
    BY <1>1, QuietKeepsAdmin DEF Arrive, Goto, Holding, TypeInv, RequestsOK
  <1>2. ASSUME NEW r \in Request,
               FindAdmin(r) \/ Compare(r) \/ HashPassword(r) \/ SendLink(r)
        PROVE  AdminInv'
    BY <1>2, QuietKeepsAdmin
       DEF FindAdmin, Compare, HashPassword, SendLink, Goto, Holding, TypeInv, RequestsOK
  <1>3. ASSUME NEW r \in Request, NotFound(r)
        PROVE  AdminInv'
    <2>1. \E point \in {"hash", "done", "failed"} : Goto(r, point)
      <3>1. CASE ask[r].op = "register"
        BY <1>3, <3>1 DEF NotFound
      <3>2. CASE ask[r].op \in {"relink", "logout"}
        BY <1>3, <3>2 DEF NotFound
      <3>3. CASE ask[r].op \notin {"register", "relink", "logout"}
        BY <1>3, <3>3 DEF NotFound
      <3> QED  BY <3>1, <3>2, <3>3
    <2> QED  BY <1>3, <2>1, QuietKeepsAdmin DEF NotFound, Goto, Holding, TypeInv, RequestsOK
  <1>4. ASSUME NEW r \in Request, Find(r) \/ CountUsers(r)
        PROVE  AdminInv'
    BY <1>4, FindKeepsAdmin, CountKeepsAdmin
  <1>5. ASSUME NEW r \in Request, SaveUser(r)
        PROVE  AdminInv'
    BY <1>0, <1>5, UpdateKeepsAdmin DEF SaveUser
  <1>6. ASSUME NEW r \in Request, CreateUser(r)
        PROVE  AdminInv'
    <2>1. CASE Exists(ask[r].user)
      BY <1>6, <2>1, QuietKeepsAdmin DEF CreateUser, Goto, Holding, TypeInv, RequestsOK
    <2>2. CASE ~Exists(ask[r].user)
      BY <1>0, <1>6, <2>2, CreateKeepsAdmin DEF CreateUser
    <2> QED  BY <2>1, <2>2
  <1>7. ASSUME NEW r \in Request, CutShort(r)
        PROVE  AdminInv'
    <2>1. CASE UNCHANGED database
      BY <1>7, <2>1, QuietKeepsAdmin DEF CutShort, Goto, Holding, TypeInv, RequestsOK
    <2>2. CASE at[r] = "update" /\ Update(r)
      BY <1>0, <1>7, <2>2, UpdateKeepsAdmin DEF CutShort
    <2>3. CASE at[r] = "create" /\ ~Exists(ask[r].user) /\ Create(r)
      BY <1>0, <1>7, <2>3, CreateKeepsAdmin DEF CutShort
    <2> QED  BY <1>7, <2>1, <2>2, <2>3 DEF CutShort
  <1>8. CASE Tick \/ UNCHANGED vars
    BY <1>8, QuietKeepsAdmin DEF Tick, Holding
  <1> QED  BY <1>1, <1>2, <1>3, <1>4, <1>5, <1>6, <1>7, <1>8 DEF Next, Serve

LEMMA AdminInit == Init => AdminInv
  <1> SUFFICES ASSUME Init
               PROVE  AdminInv
    OBVIOUS
  <1>1. \A r \in Request : ~Holding(r) /\ at[r] # "create"
    BY DEF Init, Holding
  <1>2. \A u \in User : Exists(u) => Exists(Founder) /\ docs[u].roles = Role
    BY AccountConstants DEF Init, Exists
  <1>3. Exists(Founder) => Anchored(Founder)
    BY <1>1, <1>2, AccountConstants DEF Anchored, Role
  <1> QED  BY <1>1, <1>2, <1>3, AccountConstants DEF AdminInv, Role

\* Once somebody is registered there is an administrator, however registrations
\* overlap and whatever stale documents are written back (UserAccounts).
THEOREM AdministratorExists == Spec => []AnAdminExists
  <1>1. AdminInv => AnAdminExists
    BY AdminInvSuffices
  <1> QED  BY <1>1, AdminInit, AdminStep, InitTypes, TypeStep, PTL DEF Spec
-----------------------------------------------------------------------------
(* Nothing is undone but by an update that was overtaken.                   *)

\* What NothingUndone says of one user.
Kept(u) ==
    /\ due[u].verified => docs[u].verified
    /\ due[u].roles \subseteq docs[u].roles
    /\ \A s \in docs[u].sessions : s.hash \notin due[u].out
    /\ \A c \in handed[u] : c.hash \in due[u].out \/ Holders(docs[u], c.hash) # {}

\* A refresh that is to write has found its session in what it has read; only a
\* login is compared.
Founded(r) ==
    /\ at[r] = "compare" => ask[r].op = "login"
    /\ at[r] = "update" /\ ask[r].op = "refresh" => Holders(held[r], ask[r].token) # {}

\* Nothing was ever done for a user without a document.
Untouched(u) == ~due[u].verified /\ due[u].roles = {} /\ due[u].out = {} /\ handed[u] = {}

UndoneInv ==
    /\ \A u \in User \ raced : Kept(u)
    /\ \A u \in User : ~Exists(u) => Untouched(u)
    /\ \A r \in Request : Founded(r)

LEMMA UndoneInvSuffices == UndoneInv => NothingUndone
  BY DEF UndoneInv, Kept, NothingUndone

LEMMA QuietKeepsUndone ==
    ASSUME UndoneInv, UNCHANGED <<docs, due, raced, handed>>,
           \A r \in Request : Founded(r)'
    PROVE  UndoneInv'
  <1>1. \A u \in User : Kept(u) => Kept(u)'
    BY DEF Kept, Holders
  <1>2. \A u \in User : ~Exists(u)' => Untouched(u)'
    BY DEF UndoneInv, Exists, Untouched
  <1> QED  BY <1>1, <1>2 DEF UndoneInv

\* Steps after which nobody is about to compare or to write who was not before.
LEMMA StillFounded ==
    ASSUME UndoneInv,
           \A r \in Request : at'[r] \in {"compare", "update"} =>
               at'[r] = at[r] /\ ask'[r] = ask[r] /\ held'[r] = held[r]
    PROVE  \A r \in Request : Founded(r)'
  BY DEF UndoneInv, Founded, Holders

LEMMA FindKeepsFounded ==
    ASSUME TypeInv, UndoneInv, NEW r \in Request, Find(r)
    PROVE  \A s \in Request : Founded(s)'
  <1>1. UNCHANGED <<ask, docs>> /\ at[r] = "find" /\ Matches(r)
    BY DEF Find
  <1>2. CASE (Goto(r, "failed") \/ Goto(r, "done")) /\ UNCHANGED held
    BY <1>1, <1>2, StillFounded DEF Goto, TypeInv, RequestsOK
  <1>3. CASE /\ Hold(r, docs[ask[r].user])
             /\ Goto(r, IF ask[r].op = "login" THEN "compare" ELSE "update")
    <2>1. \A s \in Request \ {r} : at'[s] = at[s] /\ held'[s] = held[s]
      BY <1>3 DEF Hold, Goto, TypeInv, RequestsOK
    <2>2. /\ held'[r] = docs[ask[r].user]
          /\ at'[r] = "compare" => ask[r].op = "login"
      BY <1>3 DEF Hold, Goto, TypeInv, RequestsOK
    <2>3. ask[r].op = "refresh" => Holders(docs[ask[r].user], ask[r].token) # {}
      BY <1>1 DEF Matches
    <2>4. Founded(r)'
      BY <1>1, <2>2, <2>3 DEF Founded, Holders
    <2>5. \A s \in Request \ {r} : Founded(s)'
      BY <1>1, <2>1 DEF UndoneInv, Founded, Holders
    <2> QED  BY <2>4, <2>5
  <1> QED  BY <1>2, <1>3 DEF Find

LEMMA CompareKeepsFounded ==
    ASSUME TypeInv, UndoneInv, NEW r \in Request, Compare(r)
    PROVE  \A s \in Request : Founded(s)'
  <1>1. UNCHANGED <<ask, held>> /\ at[r] = "compare" /\ at'[r] \in {"update", "failed"}
    BY DEF Compare, Goto, TypeInv, RequestsOK
  <1>2. \A s \in Request \ {r} : at'[s] = at[s]
    BY DEF Compare, Goto, TypeInv, RequestsOK
  <1>3. ask[r].op = "login"
    BY <1>1 DEF UndoneInv, Founded
  <1> QED  BY <1>1, <1>2, <1>3 DEF UndoneInv, Founded, Holders

\* The token a request hands out is one of those it writes.
LEMMA TokenWritten ==
    ASSUME NEW r \in Request, ask[r].op \in {"login", "refresh"},
           ask[r].op = "refresh" => Holders(held[r], ask[r].token) # {}
    PROVE  \E s \in NewSessions(r) : s.hash = minted[r]
  <1>1. CASE ask[r].op = "login"
    <2>1. [id |-> r, hash |-> minted[r]] \in NewSessions(r)
      BY <1>1 DEF NewSessions
    <2> QED  BY <2>1
  <1>2. CASE ask[r].op = "refresh"
    <2>1. PICK s \in Holders(held[r], ask[r].token) : TRUE
      BY <1>2
    <2>2. [id |-> s.id, hash |-> minted[r]] \in NewSessions(r)
      BY <1>2, <2>1 DEF NewSessions
    <2> QED  BY <2>2
  <1> QED  BY <1>1, <1>2

\* The finished tokens of a user, out being those before r writes.
Finished(r, out) ==
    (out \cup IF ask[r].op \in {"refresh", "logout"} THEN {ask[r].token} ELSE {})
    \ IF ask[r].op \in {"login", "refresh"} THEN {minted[r]} ELSE {}

\* What a request writes back of the sessions: no token that is now finished, and
\* every other token that was alive, with the one it has made.
WritesLive(r, out) ==
    /\ \A s \in NewSessions(r) : s.hash \notin Finished(r, out)
    /\ \A t : t \in out \/ Holders(held[r], t) # {} =>
           t \in Finished(r, out) \/ \E s \in NewSessions(r) : s.hash = t

LEMMA SessionsWritten ==
    ASSUME NEW r \in Request, NEW out,
           \A s \in held[r].sessions : s.hash \notin out,
           ask[r].op = "refresh" => Holders(held[r], ask[r].token) # {}
    PROVE  WritesLive(r, out)
  <1> DEFINE old == Holders(held[r], ask[r].token)
             kept == held[r].sessions \ old
  <1> PICK ended : ended = Finished(r, out)
    OBVIOUS
  <1>1. /\ \A s \in old : s \in held[r].sessions /\ s.hash = ask[r].token
        /\ \A s \in kept : s \in held[r].sessions /\ s.hash # ask[r].token
        /\ \A s \in held[r].sessions : s \in kept \/ s.hash = ask[r].token
        /\ \A t : Holders(held[r], t) # {} => \E s \in held[r].sessions : s.hash = t
    BY DEF Holders
  <1> SUFFICES /\ \A s \in NewSessions(r) : s.hash \notin ended
               /\ \A t : t \in out \/ Holders(held[r], t) # {} =>
                      t \in ended \/ \E s \in NewSessions(r) : s.hash = t
    BY DEF WritesLive
  <1>2. CASE ask[r].op = "login"
    <2> PICK x : x = [id |-> r, hash |-> minted[r]]
      OBVIOUS
    <2>1. NewSessions(r) = held[r].sessions \cup {x} /\ x.hash = minted[r]
      BY <1>2 DEF NewSessions
    <2>2. ended = out \ {minted[r]}
      BY <1>2 DEF Finished
    <2> HIDE DEF old, kept
    <2> QED  BY <1>1, <1>2, <2>1, <2>2
  <1>3. CASE ask[r].op = "refresh"
    <2> DEFINE new == {[id |-> s.id, hash |-> minted[r]] : s \in old}
    <2>1. NewSessions(r) = kept \cup new
      BY <1>3 DEF NewSessions
    <2>2. \A s \in new : s.hash = minted[r]
      OBVIOUS
    <2>3. \E s \in NewSessions(r) : s.hash = minted[r]
      BY <1>3, TokenWritten
    <2>4. ended = (out \cup {ask[r].token}) \ {minted[r]}
      BY <1>3 DEF Finished
    <2> HIDE DEF new, old, kept
    <2> QED  BY <1>1, <1>3, <2>1, <2>2, <2>3, <2>4
  <1>4. CASE ask[r].op = "logout"
    <2>1. NewSessions(r) = kept
      BY <1>4 DEF NewSessions
    <2>2. ended = out \cup {ask[r].token}
      BY <1>4 DEF Finished
    <2> HIDE DEF old, kept
    <2> QED  BY <1>1, <1>4, <2>1, <2>2
  <1>5. CASE ask[r].op \notin {"login", "refresh", "logout"}
    <2>1. NewSessions(r) = held[r].sessions
      BY <1>5 DEF NewSessions
    <2>2. ended = out
      BY <1>5 DEF Finished
    <2> QED  BY <1>1, <1>5, <2>1, <2>2
  <1> QED  BY <1>2, <1>3, <1>4, <1>5

\* An update that was not overtaken keeps its promise to its user.
LEMMA UpdateKeepsPromise ==
    ASSUME TypeInv, TypeInv', UndoneInv, NEW r \in Request, at[r] = "update", Update(r),
           NEW u, u = ask[r].user, u \notin raced',
           \A c \in handed'[u] :
               \/ c \in handed[u]
               \/ ask[r].op \in {"login", "refresh"} /\ c.hash = minted[r]
    PROVE  Kept(u)'
  <1>1. u \in User /\ held[r] = docs[u] /\ u \notin raced /\ Kept(u)
    BY AskType DEF Update, UndoneInv, TypeInv, RequestsOK
  <1>2. /\ docs'[u].roles = NewRoles(r)
        /\ docs'[u].verified = (held[r].verified \/ ask[r].op = "verify")
        /\ docs'[u].sessions = NewSessions(r)
    BY <1>1 DEF Update, TypeInv, AccountsOK
  <1>3. /\ due'[u].roles = due[u].roles \cup Granted(ask[r].op)
        /\ due'[u].verified = (due[u].verified \/ ask[r].op = "verify")
        /\ due'[u].out = Finished(r, due[u].out)
    BY <1>1 DEF Update, Finished, TypeInv, AccountsOK
  <1> PICK out, ended : out = due[u].out /\ ended = Finished(r, out)
    OBVIOUS
  <1>4. /\ \A s \in NewSessions(r) : s.hash \notin ended
        /\ \A t : t \in out \/ Holders(held[r], t) # {} =>
               t \in ended \/ \E s \in NewSessions(r) : s.hash = t
        /\ ask[r].op \in {"login", "refresh"} => \E s \in NewSessions(r) : s.hash = minted[r]
    <2>1. \A s \in held[r].sessions : s.hash \notin out
      BY <1>1 DEF Kept
    <2>2. ask[r].op = "refresh" => Holders(held[r], ask[r].token) # {}
      BY DEF UndoneInv, Founded
    <2>3. WritesLive(r, out)
      BY <2>1, <2>2, SessionsWritten
    <2>4. ask[r].op \in {"login", "refresh"} => \E s \in NewSessions(r) : s.hash = minted[r]
      BY <2>2, TokenWritten
    <2> QED  BY <2>3, <2>4 DEF WritesLive
  <1>5. \A c \in handed[u] : c.hash \in out \/ Holders(held[r], c.hash) # {}
    BY <1>1 DEF Kept
  <1>6. (due[u].verified => docs[u].verified)' /\ (due[u].roles \subseteq docs[u].roles)'
    BY <1>1, <1>2, <1>3 DEF Kept, NewRoles
  <1>7. \A s \in docs'[u].sessions : s.hash \notin due'[u].out
    BY <1>2, <1>3, <1>4
  <1>8. \A c \in handed'[u] : c.hash \in due'[u].out \/ \E s \in docs'[u].sessions : s.hash = c.hash
    <2>1. ASSUME NEW c \in handed'[u]
          PROVE  c.hash \in ended \/ \E s \in NewSessions(r) : s.hash = c.hash
      <3>1. CASE c \in handed[u]
        BY <1>4, <1>5, <3>1
      <3>2. CASE ask[r].op \in {"login", "refresh"} /\ c.hash = minted[r]
        BY <1>4, <3>2
      <3> QED  BY <2>1, <3>1, <3>2
    <2> QED  BY <1>2, <1>3, <2>1
  <1> QED  BY <1>6, <1>7, <1>8 DEF Kept, Holders

LEMMA UpdateKeepsUndone ==
    ASSUME TypeInv, TypeInv', AdminInv, UndoneInv, NEW r \in Request, at[r] = "update",
           Update(r), UNCHANGED <<ask, held>>,
           NEW point \in {"mail", "done", "failed"}, Goto(r, point),
           \A c \in handed'[ask[r].user] :
               \/ c \in handed[ask[r].user]
               \/ ask[r].op \in {"login", "refresh"} /\ c.hash = minted[r],
           \A v \in User : v # ask[r].user => handed'[v] = handed[v]
    PROVE  UndoneInv'
  <1> PICK u : u = ask[r].user
    OBVIOUS
  <1>1. u \in User /\ held[r].roles # {} /\ Exists(u)
    BY AskType DEF AdminInv, Holding, TypeInv, RequestsOK
  <1>2. \A v \in User \ {u} : docs'[v] = docs[v] /\ due'[v] = due[v] /\ handed'[v] = handed[v]
    BY DEF Update, TypeInv, AccountsOK
  <1>3. docs'[u] # NoDocument
    BY <1>1, RolesExist DEF Update, NewRoles, TypeInv, AccountsOK
  <1>4. \A v \in User \ raced' : Kept(v)'
    <2>1. u \notin raced' => Kept(u)'
      BY UpdateKeepsPromise
    <2>2. raced \subseteq raced'
      BY DEF Update
    <2>3. \A v \in User \ {u} : Kept(v) => Kept(v)'
      BY <1>2 DEF Kept, Holders
    <2> QED  BY <2>1, <2>2, <2>3 DEF UndoneInv
  <1>5. \A v \in User : ~Exists(v)' => Untouched(v)'
    BY <1>2, <1>3 DEF UndoneInv, Exists, Untouched
  <1>6. \A s \in Request : Founded(s)'
    BY StillFounded DEF Goto, TypeInv, RequestsOK
  <1> QED  BY <1>4, <1>5, <1>6 DEF UndoneInv

LEMMA CreateKeepsUndone ==
    ASSUME TypeInv, AdminInv, UndoneInv, NEW r \in Request, at[r] = "create",
           ~Exists(ask[r].user), Create(r), UNCHANGED <<ask, held, handed>>,
           NEW point \in {"mail", "done", "failed"}, Goto(r, point)
    PROVE  UndoneInv'
  <1> PICK u : u = ask[r].user
    OBVIOUS
  <1>1. u \in User /\ held[r] \in Document /\ docs'[u] = held[r] /\ Untouched(u)
    BY AskType DEF Create, UndoneInv, TypeInv, RequestsOK, AccountsOK
  <1>2. docs'[u] # NoDocument
    BY <1>1, RolesExist DEF AdminInv
  <1>3. UNCHANGED <<due, raced>> /\ \A v \in User \ {u} : docs'[v] = docs[v]
    BY DEF Create, TypeInv, AccountsOK
  <1>4. Kept(u)'
    BY <1>1, <1>3 DEF Untouched, Kept
  <1>5. \A v \in User \ {u} : Kept(v) => Kept(v)'
    BY <1>3 DEF Kept, Holders
  <1>6. \A v \in User : ~Exists(v)' => Untouched(v)'
    BY <1>2, <1>3 DEF UndoneInv, Exists, Untouched
  <1>7. \A s \in Request : Founded(s)'
    BY StillFounded DEF Goto, TypeInv, RequestsOK
  <1> QED  BY <1>3, <1>4, <1>5, <1>6, <1>7 DEF UndoneInv

\* A request whose query matches nothing is about to hash a password, or has ended.
LEMMA NotFoundLeads ==
    ASSUME NEW r \in Request, NotFound(r), at \in [Request -> Point]
    PROVE  at'[r] \in {"hash", "done", "failed"}
  <1>1. CASE ask[r].op = "register"
    BY <1>1 DEF NotFound, Goto
  <1>2. CASE ask[r].op \in {"relink", "logout"}
    BY <1>2 DEF NotFound, Goto
  <1>3. CASE ask[r].op \notin {"register", "relink", "logout"}
    BY <1>3 DEF NotFound, Goto
  <1> QED  BY <1>1, <1>2, <1>3

LEMMA UndoneStep ==
    ASSUME TypeInv, AdminInv, UndoneInv, [Next]_vars
    PROVE  UndoneInv'
  <1>0. TypeInv'
    BY TypeStep
  <1>1. ASSUME NEW r \in Request, Arrive(r)
        PROVE  UndoneInv'
    <2>1. \A s \in Request : at'[s] \in {"compare", "update"} =>
              at'[s] = at[s] /\ ask'[s] = ask[s] /\ held'[s] = held[s]
      BY <1>1 DEF Arrive, Goto, TypeInv, RequestsOK
    <2> QED  BY <1>1, <2>1, StillFounded, QuietKeepsUndone DEF Arrive
  <1>2. ASSUME NEW r \in Request, FindAdmin(r) \/ NotFound(r) \/ HashPassword(r)
                                  \/ CountUsers(r) \/ SendLink(r)
        PROVE  UndoneInv'
    <2>1. UNCHANGED <<docs, due, raced, handed, ask>>
      BY <1>2 DEF FindAdmin, NotFound, HashPassword, CountUsers, SendLink
    <2>2. at'[r] \notin {"compare", "update"}
      <3>1. CASE NotFound(r)
        BY <3>1, <1>0, NotFoundLeads DEF TypeInv, RequestsOK
      <3>2. CASE ~NotFound(r)
        BY <1>2, <3>2 DEF FindAdmin, HashPassword, CountUsers, SendLink, Goto, TypeInv, RequestsOK
      <3> QED  BY <3>1, <3>2
    <2>3. \A s \in Request \ {r} : at'[s] = at[s] /\ held'[s] = held[s]
      BY <1>2 DEF FindAdmin, NotFound, HashPassword, CountUsers, SendLink, Goto, Hold,
                  TypeInv, RequestsOK
    <2>4. \A s \in Request : Founded(s)'
      BY <2>1, <2>2, <2>3, StillFounded
    <2> QED  BY <2>1, <2>4, QuietKeepsUndone
  <1>3. ASSUME NEW r \in Request, Find(r) \/ Compare(r)
        PROVE  UndoneInv'
    <2>1. UNCHANGED <<docs, due, raced, handed>>
      BY <1>3 DEF Find, Compare
    <2>2. \A s \in Request : Founded(s)'
      BY <1>3, FindKeepsFounded, CompareKeepsFounded
    <2> QED  BY <2>1, <2>2, QuietKeepsUndone
  <1>4. ASSUME NEW r \in Request, SaveUser(r)
        PROVE  UndoneInv'
    <2>1. \E point \in {"mail", "done", "failed"} : Goto(r, point)
      BY <1>4 DEF SaveUser
    <2>2. \A c \in handed'[ask[r].user] :
              \/ c \in handed[ask[r].user]
              \/ ask[r].op \in {"login", "refresh"} /\ c.hash = minted[r]
      BY <1>4 DEF SaveUser, TypeInv, AccountsOK
    <2>3. \A v \in User : v # ask[r].user => handed'[v] = handed[v]
      BY <1>4 DEF SaveUser, TypeInv, AccountsOK
    <2> QED  BY <1>0, <1>4, <2>1, <2>2, <2>3, UpdateKeepsUndone DEF SaveUser
  <1>5. ASSUME NEW r \in Request, CreateUser(r)
        PROVE  UndoneInv'
    <2>1. CASE Exists(ask[r].user)
      <3>1. \A s \in Request : Founded(s)'
        BY <1>5, <2>1, StillFounded DEF CreateUser, Goto, TypeInv, RequestsOK
      <3> QED  BY <1>5, <2>1, <3>1, QuietKeepsUndone DEF CreateUser
    <2>2. CASE ~Exists(ask[r].user)
      BY <1>5, <2>2, CreateKeepsUndone DEF CreateUser
    <2> QED  BY <2>1, <2>2
  <1>6. ASSUME NEW r \in Request, CutShort(r)
        PROVE  UndoneInv'
    <2>1. CASE UNCHANGED database
      <3>1. \A s \in Request : Founded(s)'
        BY <1>6, StillFounded DEF CutShort, Goto, TypeInv, RequestsOK
      <3> QED  BY <1>6, <2>1, <3>1, QuietKeepsUndone DEF CutShort
    <2>2. CASE at[r] = "update" /\ Update(r)
      BY <1>0, <1>6, <2>2, UpdateKeepsUndone DEF CutShort
    <2>3. CASE at[r] = "create" /\ ~Exists(ask[r].user) /\ Create(r)
      BY <1>6, <2>3, CreateKeepsUndone DEF CutShort
    <2> QED  BY <1>6, <2>1, <2>2, <2>3 DEF CutShort
  <1>7. CASE Tick \/ UNCHANGED vars
    <2>1. UNCHANGED <<docs, due, raced, handed, ask, at, held>>
      BY <1>7 DEF Tick
    <2>2. \A s \in Request : Founded(s)'
      BY <2>1, StillFounded
    <2> QED  BY <2>1, <2>2, QuietKeepsUndone
  <1> QED  BY <1>1, <1>2, <1>3, <1>4, <1>5, <1>6, <1>7 DEF Next, Serve

LEMMA UndoneInit == Init => UndoneInv
  <1> SUFFICES ASSUME Init
               PROVE  UndoneInv
    OBVIOUS
  <1>1. \A r \in Request : Founded(r)
    BY DEF Init, Founded
  <1>2. \A u \in User : due[u].out = {} /\ due[u].roles = {} /\ ~due[u].verified
    BY DEF Init
  <1>3. \A u \in User :
            \/ docs[u] = NoDocument /\ handed[u] = {}
            \/ /\ docs[u] = [roles |-> Role, verified |-> TRUE, link |-> "none",
                             sessions |-> {[id |-> "inherited", hash |-> 0]}]
               /\ handed[u] = {[hash |-> 0, roles |-> Role]}
    BY DEF Init
  <1>4. ASSUME NEW u \in User
        PROVE  Kept(u) /\ (~Exists(u) => Untouched(u))
    <2>1. CASE docs[u] = NoDocument /\ handed[u] = {}
      BY <1>2, <2>1 DEF Kept, Untouched
    <2>2. CASE /\ docs[u] = [roles |-> Role, verified |-> TRUE, link |-> "none",
                             sessions |-> {[id |-> "inherited", hash |-> 0]}]
               /\ handed[u] = {[hash |-> 0, roles |-> Role]}
      <3>1. [id |-> "inherited", hash |-> 0] \in Holders(docs[u], 0)
        BY <2>2 DEF Holders
      <3>2. \A c \in handed[u] : c.hash = 0
        BY <2>2
      <3>3. docs[u].roles # {}
        BY <2>2 DEF Role
      <3>4. Exists(u)
        BY <3>3 DEF Exists, NoDocument
      <3> QED  BY <1>2, <3>1, <3>2, <3>4 DEF Kept
    <2> QED  BY <1>3, <2>1, <2>2
  <1> QED  BY <1>1, <1>4 DEF UndoneInv

\* An update that was carried out is only undone by one of the same account that
\* had read the document before, however requests overlap and wherever they are cut
\* short (Update and SaveUser of UserAccounts).
THEOREM UpdatesNotUndone == Spec => []NothingUndone
  <1>1. UndoneInv => NothingUndone
    BY UndoneInvSuffices
  <1> QED  BY <1>1, InitTypes, TypeStep, AdminInit, AdminStep, UndoneInit, UndoneStep, PTL DEF Spec

-----------------------------------------------------------------------------
(* The refinement of AtomicAccounts.                                        *)

LEMMA DocumentChange ==
    ASSUME NEW d \in Document, NEW x
    PROVE  /\ [d EXCEPT !.link = x] = [roles |-> d.roles, verified |-> d.verified,
                                       link |-> x, sessions |-> d.sessions]
           /\ [d EXCEPT !.roles = x] = [roles |-> x, verified |-> d.verified,
                                        link |-> d.link, sessions |-> d.sessions]
           /\ [d EXCEPT !.verified = x] = [roles |-> d.roles, verified |-> x,
                                           link |-> d.link, sessions |-> d.sessions]
           /\ [d EXCEPT !.sessions = x] = [roles |-> d.roles, verified |-> d.verified,
                                           link |-> d.link, sessions |-> x]
  BY DEF Document

LEMMA SessionChange ==
    ASSUME NEW s \in Session
    PROVE  \A x : [s EXCEPT !.hash = x] = [id |-> s.id, hash |-> x]
  BY DEF Session

-----------------------------------------------------------------------------
(* What serial requests keep true.                                          *)

\* What a request knows of its user, for as long as nobody else acts.
UpToDate(r) ==
    LET u == ask[r].user
    IN  /\ Holding(r) => /\ held[r] = docs[u]
                         /\ ask[r].op # "register"
                         /\ ask[r].op = "verify" => held[r].link # "none"
        /\ at[r] = "update" /\ ask[r].op = "login" => held[r].verified
        /\ at[r] \in {"hash", "count", "create"} => ~Exists(u)
        /\ at[r] = "create" =>
               held[r] = [roles |-> RolesOfNew, verified |-> FALSE, link |-> r, sessions |-> {}]

\* A session carries the mark of a login that has ended.
IdsSpent ==
    \A u \in User : \A s \in docs[u].sessions : \A r \in Request :
        s.id = r => at[r] \in {"done", "failed"}

SerialInv ==
    /\ \A r, s \in Request : InFlight(r) /\ InFlight(s) => r = s
    /\ \A r \in Request : UpToDate(r)
    /\ IdsSpent

LEMMA Resting ==
    ASSUME NEW r \in Request, ~InFlight(r)
    PROVE  UpToDate(r)
  BY DEF UpToDate, Holding, InFlight, InFlightAt, Reading, Writing

\* A step of the one request in flight, after which it still knows its user.
LEMMA StepKeepsSerial ==
    ASSUME TypeInv, SerialInv, NEW r \in Request, InFlight(r), UNCHANGED ask,
           NEW point \in Point, Goto(r, point), UpToDate(r)',
           UNCHANGED docs \/ IdsSpent'
    PROVE  SerialInv'
  <1>1. \A s \in Request \ {r} : ~InFlight(s) /\ at'[s] = at[s]
    BY DEF SerialInv, Goto, TypeInv, RequestsOK
  <1>2. \A s \in Request \ {r} : ~InFlight(s)'
    BY <1>1 DEF InFlight
  <1>3. \A s \in Request : UpToDate(s)'
    <2>1. ASSUME NEW s \in Request, ~InFlight(s)'
          PROVE  UpToDate(s)'
      BY <2>1 DEF UpToDate, Holding, InFlight, InFlightAt, Reading, Writing
    <2> QED  BY <1>2, <2>1
  <1>4. IdsSpent'
    <2>1. at[r] \notin {"done", "failed"}
      BY DEF InFlight, InFlightAt, Reading, Writing
    <2> QED  BY <1>1, <2>1 DEF SerialInv, IdsSpent
  <1>5. \A t, s \in Request : InFlight(t)' /\ InFlight(s)' => t = s
    BY <1>2
  <1> QED  BY <1>3, <1>4, <1>5 DEF SerialInv

LEMMA RestsAfter ==
    ASSUME TypeInv, NEW r \in Request, NEW point \in {"done", "failed", "mail", "find"},
           Goto(r, point)
    PROVE  UpToDate(r)' /\ point \in Point
  BY DEF Goto, UpToDate, Holding, TypeInv, RequestsOK, Point, InFlightAt, Reading

LEMMA UpdateSpendsIds ==
    ASSUME TypeInv, SerialInv, NEW r \in Request, InFlight(r), Update(r),
           NEW point \in {"done", "failed", "mail"}, Goto(r, point),
           at[r] = "update", ask[r].op = "login" => point # "mail"
    PROVE  IdsSpent'
  <1> DEFINE u == ask[r].user
             old == Holders(held[r], ask[r].token)
             renewed == {[id |-> s.id, hash |-> minted[r]] : s \in old}
  <1>1. u \in User /\ held[r] = docs[u] /\ docs'[u].sessions = NewSessions(r)
    <2>1. u \in User
      BY AskType DEF TypeInv, RequestsOK
    <2>2. held[r] = docs[u]
      BY DEF SerialInv, UpToDate, Holding
    <2> QED  BY <2>1, <2>2 DEF Update, TypeInv, AccountsOK
  <1>2. \A v \in User \ {u} : docs'[v] = docs[v]
    BY DEF Update, TypeInv, AccountsOK
  <1>3. \A s \in Request : at[s] \in {"done", "failed"} => at'[s] \in {"done", "failed"}
    BY DEF Goto, TypeInv, RequestsOK
  <1>4. \A s \in renewed : \E t \in docs[u].sessions : t.id = s.id
    BY <1>1 DEF Holders
  <1>5. \A s \in NewSessions(r) : \/ \E t \in docs[u].sessions : t.id = s.id
                                  \/ ask[r].op = "login" /\ s.id = r
    <2>1. CASE ask[r].op = "login"
      <3>1. NewSessions(r) = held[r].sessions \cup {[id |-> r, hash |-> minted[r]]}
        BY <2>1 DEF NewSessions
      <3> QED  BY <1>1, <2>1, <3>1
    <2>2. CASE ask[r].op = "refresh"
      <3>1. NewSessions(r) = (held[r].sessions \ old) \cup renewed
        BY <2>2 DEF NewSessions
      <3> HIDE DEF old, renewed
      <3> QED  BY <1>1, <1>4, <3>1
    <2>3. CASE ask[r].op \notin {"login", "refresh"}
      <3>1. NewSessions(r) \subseteq held[r].sessions
        <4>1. CASE ask[r].op = "logout"
          <5>1. NewSessions(r) = held[r].sessions \ old
            BY <4>1 DEF NewSessions
          <5> QED  BY <5>1
        <4>2. CASE ask[r].op # "logout"
          <5>1. NewSessions(r) = held[r].sessions
            BY <2>3, <4>2 DEF NewSessions
          <5> QED  BY <5>1
        <4> QED  BY <4>1, <4>2
      <3> QED  BY <1>1, <3>1
    <2> QED  BY <2>1, <2>2, <2>3
  <1>6. at'[r] = point
    BY DEF Goto, TypeInv, RequestsOK
  <1>7. \A s \in docs'[u].sessions, q \in Request : s.id = q => at'[q] \in {"done", "failed"}
    <2>1. \A t \in docs[u].sessions, q \in Request : t.id = q => at[q] \in {"done", "failed"}
      BY <1>1 DEF SerialInv, IdsSpent
    <2> HIDE DEF u, old, renewed
    <2> QED  BY <1>1, <1>3, <1>5, <1>6, <2>1
  <1>8. \A v \in User \ {u} : \A s \in docs'[v].sessions, q \in Request :
            s.id = q => at'[q] \in {"done", "failed"}
    BY <1>2, <1>3 DEF SerialInv, IdsSpent
  <1> QED  BY <1>7, <1>8 DEF IdsSpent

LEMMA CreateSpendsIds ==
    ASSUME TypeInv, SerialInv, NEW r \in Request, at[r] = "create", Create(r),
           NEW point \in Point, Goto(r, point)
    PROVE  IdsSpent'
  <1>1. ask[r].user \in User /\ docs'[ask[r].user] = held[r] /\ held[r].sessions = {}
    BY AskType DEF Create, TypeInv, RequestsOK, AccountsOK, SerialInv, UpToDate
  <1>2. \A v \in User \ {ask[r].user} : docs'[v] = docs[v]
    BY DEF Create, TypeInv, AccountsOK
  <1>3. \A s \in Request : at[s] \in {"done", "failed"} => at'[s] \in {"done", "failed"}
    BY DEF Goto, TypeInv, RequestsOK
  <1> QED  BY <1>1, <1>2, <1>3 DEF SerialInv, IdsSpent

\* The steps of the request in flight that leave the documents alone.
LEMMA ReadingKeepsSerial ==
    ASSUME TypeInv, SerialInv, NEW r \in Request,
           FindAdmin(r) \/ Compare(r) \/ HashPassword(r) \/ CountUsers(r) \/ SendLink(r)
    PROVE  SerialInv'
  <1>1. InFlight(r) /\ UNCHANGED <<ask, docs>>
    BY DEF FindAdmin, Compare, HashPassword, CountUsers, SendLink,
           InFlight, InFlightAt, Reading, Writing
  <1>2. UpToDate(r)
    BY DEF SerialInv
  <1>3. \A point : Goto(r, point) => at'[r] = point
    BY DEF Goto, TypeInv, RequestsOK
  <1>4. CASE FindAdmin(r) \/ SendLink(r)
    <2>1. \E point \in {"done", "failed", "find"} : Goto(r, point)
      BY <1>4 DEF FindAdmin, SendLink
    <2> QED  BY <1>1, <2>1, RestsAfter, StepKeepsSerial
  <1>5. CASE Compare(r)
    <2>1. \E point \in {"update", "failed"} : Goto(r, point)
      BY <1>5 DEF Compare
    <2>2. UpToDate(r)'
      BY <1>1, <1>2, <1>3, <1>5 DEF Compare, UpToDate, Holding
    <2>3. {"update", "failed"} \subseteq Point
      BY DEF Point, InFlightAt, Writing
    <2> QED  BY <1>1, <2>1, <2>2, <2>3, StepKeepsSerial
  <1>6. CASE HashPassword(r)
    <2>1. UpToDate(r)'
      BY <1>1, <1>2, <1>3, <1>6 DEF HashPassword, UpToDate, Holding, Exists
    <2>2. "count" \in Point
      BY DEF Point, InFlightAt, Reading
    <2> QED  BY <1>1, <1>6, <2>1, <2>2, StepKeepsSerial DEF HashPassword
  <1>7. CASE CountUsers(r)
    <2>1. /\ at'[r] = "create"
          /\ held'[r] = [roles |-> RolesOfNew, verified |-> FALSE, link |-> r, sessions |-> {}]
      BY <1>3, <1>7 DEF CountUsers, Hold, TypeInv, RequestsOK
    <2>2. RolesOfNew' = RolesOfNew /\ (Exists(ask[r].user)' <=> Exists(ask[r].user))
      BY <1>1 DEF RolesOfNew, Exists
    <2>3. ~Exists(ask[r].user)
      BY <1>2, <1>7 DEF CountUsers, UpToDate
    <2>4. UpToDate(r)'
      BY <1>1, <2>1, <2>2, <2>3 DEF UpToDate, Holding
    <2>5. "create" \in Point
      BY DEF Point, InFlightAt, Writing
    <2> QED  BY <1>1, <1>7, <2>4, <2>5, StepKeepsSerial DEF CountUsers
  <1> QED  BY <1>4, <1>5, <1>6, <1>7

LEMMA FindKeepsSerial ==
    ASSUME TypeInv, SerialInv, NEW r \in Request, NotFound(r) \/ Find(r)
    PROVE  SerialInv'
  <1>1. InFlight(r) /\ UNCHANGED <<ask, docs>> /\ at[r] = "find" /\ ask[r] \in Ask
    BY DEF NotFound, Find, InFlight, InFlightAt, Reading, TypeInv, RequestsOK
  <1>2. \A point : Goto(r, point) => at'[r] = point
    BY DEF Goto, TypeInv, RequestsOK
  <1>3. CASE NotFound(r)
    <2>1. CASE ask[r].op = "register"
      <3>1. ~Exists(ask[r].user)
        BY <1>3, <2>1 DEF NotFound, Matches
      <3>2. Goto(r, "hash")
        BY <1>3, <2>1 DEF NotFound
      <3>3. UpToDate(r)' /\ "hash" \in Point
        BY <1>1, <1>2, <3>1, <3>2 DEF UpToDate, Holding, Exists, Point, InFlightAt
      <3> QED  BY <1>1, <3>2, <3>3, StepKeepsSerial
    <2>2. CASE ask[r].op # "register"
      <3>1. Goto(r, "done") \/ Goto(r, "failed")
        <4>1. CASE ask[r].op \in {"relink", "logout"}
          BY <1>3, <4>1 DEF NotFound
        <4>2. CASE ask[r].op \notin {"relink", "logout"}
          BY <1>3, <2>2, <4>2 DEF NotFound
        <4> QED  BY <4>1, <4>2
      <3> QED  BY <1>1, <3>1, RestsAfter, StepKeepsSerial
    <2> QED  BY <2>1, <2>2
  <1>4. CASE Find(r)
    <2>1. CASE Goto(r, "failed") \/ Goto(r, "done")
      BY <1>1, <2>1, RestsAfter, StepKeepsSerial
    <2>2. CASE /\ ~Refused(r)
               /\ Hold(r, docs[ask[r].user])
               /\ Goto(r, IF ask[r].op = "login" THEN "compare" ELSE "update")
      <3>1. held'[r] = docs[ask[r].user]
        BY <2>2 DEF Hold, TypeInv, RequestsOK
      <3>2. ask[r].op # "register"
        BY <2>2 DEF Refused
      <3>3. ask[r].op = "verify" => docs[ask[r].user].link # "none"
        <4>1. ask[r].op = "verify" => docs[ask[r].user].link = ask[r].link
          BY <1>4 DEF Find, Matches
        <4> QED  BY <1>1, <4>1, AccountConstants DEF TypeInv, RequestsOK
      <3>4. PICK point \in {"compare", "update"} :
                /\ Goto(r, point)
                /\ ask[r].op = "login" => point = "compare"
        BY <2>2
      <3>5. UpToDate(r)' /\ point \in Point
        BY <1>1, <1>2, <3>1, <3>2, <3>3, <3>4
           DEF UpToDate, Holding, Point, InFlightAt, Writing
      <3> QED  BY <1>1, <3>4, <3>5, StepKeepsSerial
    <2> QED  BY <1>4, <2>1, <2>2 DEF Find
  <1> QED  BY <1>3, <1>4

LEMMA WritingKeepsSerial ==
    ASSUME TypeInv, SerialInv, NEW r \in Request, SaveUser(r) \/ CreateUser(r) \/ CutShort(r)
    PROVE  SerialInv'
  <1>1. InFlight(r) /\ UNCHANGED ask
    BY DEF SaveUser, CreateUser, CutShort, InFlight, InFlightAt, Writing
  <1>2. PICK point \in {"done", "failed", "mail"} :
            /\ Goto(r, point)
            /\ \/ UNCHANGED docs
               \/ at[r] = "update" /\ Update(r) /\ (ask[r].op = "login" => point # "mail")
               \/ at[r] = "create" /\ Create(r)
    BY DEF SaveUser, CreateUser, CutShort
  <1>3. UpToDate(r)' /\ point \in Point
    BY <1>2, RestsAfter
  <1>4. UNCHANGED docs \/ IdsSpent'
    BY <1>1, <1>2, <1>3, UpdateSpendsIds, CreateSpendsIds
  <1> QED  BY <1>1, <1>2, <1>3, <1>4, StepKeepsSerial

LEMMA SerialStep ==
    ASSUME Serial, TypeInv, SerialInv, [Next]_vars
    PROVE  SerialInv'
  <1>1. ASSUME NEW r \in Request, Arrive(r)
        PROVE  SerialInv'
    <2>1. /\ at[r] = "unused" /\ at'[r] \in {"findAdmin", "find"} /\ UNCHANGED docs
          /\ \A s \in Request : ~InFlight(s)
      BY <1>1 DEF Arrive, Goto, TypeInv, RequestsOK
    <2>2. \A s \in Request \ {r} : at'[s] = at[s] /\ ~InFlight(s)'
      BY <1>1, <2>1 DEF Arrive, Goto, TypeInv, RequestsOK, InFlight
    <2>3. \A s \in Request : UpToDate(s)'
      BY <2>1, <2>2
         DEF UpToDate, Holding, InFlight, InFlightAt, Reading, Writing
    <2>4. IdsSpent'
      BY <2>1, <2>2 DEF SerialInv, IdsSpent
    <2> QED  BY <2>2, <2>3, <2>4 DEF SerialInv
  <1>2. ASSUME NEW r \in Request, Serve(r) \/ CutShort(r)
        PROVE  SerialInv'
    BY <1>2, ReadingKeepsSerial, FindKeepsSerial, WritingKeepsSerial DEF Serve
  <1>3. CASE Tick \/ UNCHANGED vars
    <2>1. UNCHANGED <<docs, ask, at, held>>
      BY <1>3 DEF Tick
    <2> QED  BY <2>1 DEF SerialInv, UpToDate, Holding, Exists, RolesOfNew, IdsSpent, InFlight
  <1> QED  BY <1>1, <1>2, <1>3 DEF Next

LEMMA SerialInit == Init => SerialInv
  <1> SUFFICES ASSUME Init
               PROVE  SerialInv
    OBVIOUS
  <1>1. \A r \in Request : at[r] = "unused"
    BY DEF Init
  <1>2. \A r \in Request : ~InFlight(r)
    BY <1>1 DEF InFlight, InFlightAt, Reading, Writing
  <1>3. \A u \in User : \A s \in docs[u].sessions : s.id = "inherited"
    BY DEF Init, NoDocument
  <1>4. IdsSpent
    BY <1>3, AccountConstants DEF IdsSpent
  <1> QED  BY <1>2, <1>4, Resting DEF SerialInv

-----------------------------------------------------------------------------
(* What is written is what AtomicAccounts does.                             *)

LEMMA UpdateRefines ==
    ASSUME TypeInv, AdminInv, SerialInv, NEW r \in Request, at[r] = "update", Update(r)
    PROVE  Atomic!Next
  <1> DEFINE u == ask[r].user
             d == docs[u]
             op == ask[r].op
             old == Holders(d, ask[r].token)
  <1>1. ask[r] \in Ask /\ u \in User /\ op \in AllOps /\ ask[r].token \in Time
    BY AskType DEF TypeInv, RequestsOK
  <1>2. d \in Document /\ minted[r] \in Time
    BY <1>1 DEF TypeInv, AccountsOK, RequestsOK
  <1>3. /\ held[r] = d /\ op # "register"
        /\ op = "verify" => d.link # "none"
        /\ op = "login" => d.verified
    BY DEF SerialInv, UpToDate, Holding
  <1>4. Atomic!Known(u) /\ Atomic!Administered
    BY <1>1 DEF AdminInv, Holding, Anchored, Exists, NoDocument,
                Atomic!Known, Atomic!Nobody, Atomic!Administered
  <1>5. PICK roles, verified, link, sessions :
            /\ roles = NewRoles(r) /\ link = NewLink(r) /\ sessions = NewSessions(r)
            /\ verified = (d.verified \/ op = "verify")
            /\ docs' = [docs EXCEPT ![u] = [roles |-> roles, verified |-> verified,
                                            link |-> link, sessions |-> sessions]]
    BY <1>3 DEF Update
  <1> DEFINE written == [roles |-> roles, verified |-> verified,
                         link |-> link, sessions |-> sessions]
  <1>0. \A change : written = change => docs' = [docs EXCEPT ![u] = change]
    BY <1>5
  <1> HIDE DEF written
  <1>6. /\ d.roles \subseteq Role /\ d.verified \in BOOLEAN
        /\ d.sessions \subseteq Session /\ old \subseteq Session
    BY <1>2 DEF Document, Holders
  <1>7. op \notin {"seller", "promote"} => NewRoles(r) = d.roles
    BY <1>3 DEF NewRoles, Granted
  <1>8. op \notin {"login", "refresh", "logout"} => NewSessions(r) = d.sessions
    BY <1>3 DEF NewSessions
  <1>9. op # "relink" => NewLink(r) = d.link
    <2>1. CASE op = "verify"
      BY <2>1 DEF NewLink
    <2>2. CASE op # "verify" /\ op # "relink"
      BY <1>3, <2>2 DEF NewLink
    <2> QED  BY <2>1, <2>2
  <1>10. op # "verify" => verified = d.verified
    BY <1>5, <1>6
  <1>11. CASE op = "relink"
    <2>1. NewLink(r) = r
      BY <1>11 DEF NewLink
    <2>2. docs' = [docs EXCEPT ![u] = [d EXCEPT !.link = r]]
      <3>1. /\ roles = d.roles /\ verified = d.verified /\ link = r
            /\ sessions = d.sessions
        BY <1>5, <1>7, <1>8, <1>10, <1>11, <2>1
      <3> HIDE DEF d, u, op
      <3>2. written = [roles |-> d.roles, verified |-> d.verified,
                       link |-> r, sessions |-> d.sessions]
        BY <3>1 DEF written
      <3>3. written = [d EXCEPT !.link = r]
        BY <1>2, <3>2, DocumentChange, Zenon
      <3> QED  BY <1>0, <3>3, Zenon
    <2>3. Atomic!NewLink(u)
      BY <1>4, <2>2 DEF Atomic!NewLink, Atomic!Becomes
    <2> QED  BY <1>1, <2>3 DEF Atomic!Next
  <1>12. CASE op = "verify"
    <2>1. docs' = [docs EXCEPT ![u] = [d EXCEPT !.verified = TRUE]]
      <3>1. verified = TRUE
        BY <1>5, <1>12
      <3>2. roles = d.roles /\ link = d.link /\ sessions = d.sessions
        BY <1>5, <1>7, <1>8, <1>9, <1>12
      <3> HIDE DEF d, u, op
      <3>3. written = [roles |-> d.roles, verified |-> TRUE,
                       link |-> d.link, sessions |-> d.sessions]
        BY <3>1, <3>2 DEF written
      <3>4. written = [d EXCEPT !.verified = TRUE]
        BY <1>2, <3>3, DocumentChange, Zenon
      <3> QED  BY <1>0, <3>4, Zenon
    <2>2. Atomic!Verify(u)
      BY <1>3, <1>4, <1>12, <2>1 DEF Atomic!Verify, Atomic!Becomes
    <2> QED  BY <1>1, <2>2 DEF Atomic!Next
  <1>13. CASE op = "login"
    <2>1. NewSessions(r) = d.sessions \cup {[id |-> r, hash |-> minted[r]]}
      BY <1>3, <1>13 DEF NewSessions
    <2>2. docs' = [docs EXCEPT ![u] =
                       [d EXCEPT !.sessions = @ \cup {[id |-> r, hash |-> minted[r]]}]]
      <3> DEFINE more == d.sessions \cup {[id |-> r, hash |-> minted[r]]}
      <3>1. /\ roles = d.roles /\ verified = d.verified /\ link = d.link
            /\ sessions = more
        BY <1>5, <1>7, <1>9, <1>10, <1>13, <2>1
      <3>2. docs' = [docs EXCEPT ![u] = [d EXCEPT !.sessions = more]]
        <4> HIDE DEF d, u, op, more
        <4>1. written = [roles |-> d.roles, verified |-> d.verified,
                         link |-> d.link, sessions |-> more]
          BY <3>1 DEF written
        <4>2. written = [d EXCEPT !.sessions = more]
          BY <1>2, <4>1, DocumentChange, Zenon
        <4> QED  BY <1>0, <4>2, Zenon
      <3> QED  BY <3>2
    <2>3. \A s \in d.sessions : s.id # r
      BY <1>1 DEF SerialInv, IdsSpent
    <2>4. Atomic!Login(u)
      BY <1>2, <1>3, <1>13, <2>2, <2>3 DEF Atomic!Login, Atomic!Becomes, Atomic!Time, Time
    <2> QED  BY <1>1, <2>4 DEF Atomic!Next
  <1>14. CASE op = "refresh"
    <2> DEFINE new == {[id |-> s.id, hash |-> minted[r]] : s \in old}
               all == {IF s.hash = ask[r].token THEN [s EXCEPT !.hash = minted[r]] ELSE s :
                       s \in d.sessions}
    <2>1. NewSessions(r) = (d.sessions \ old) \cup new
      BY <1>3, <1>14 DEF NewSessions
    <2>2. (d.sessions \ old) \cup new = all
      <3>1. ASSUME NEW s \in d.sessions, s.hash = ask[r].token
            PROVE  [s EXCEPT !.hash = minted[r]] = [id |-> s.id, hash |-> minted[r]]
        BY <1>6, SessionChange
      <3>2. \A s \in d.sessions : s \in old <=> s.hash = ask[r].token
        BY DEF Holders
      <3>3. old \subseteq d.sessions
        BY DEF Holders
      <3> HIDE DEF old, d
      <3>4. ASSUME NEW x \in all PROVE x \in (d.sessions \ old) \cup new
        <4>1. PICK s \in d.sessions :
                  x = IF s.hash = ask[r].token THEN [s EXCEPT !.hash = minted[r]] ELSE s
          BY <3>4
        <4>2. CASE s.hash = ask[r].token
          BY <4>1, <4>2, <3>1, <3>2
        <4>3. CASE s.hash # ask[r].token
          BY <4>1, <4>3, <3>2
        <4> QED  BY <4>2, <4>3
      <3>5. ASSUME NEW x \in d.sessions \ old PROVE x \in all
        BY <3>5, <3>2
      <3>6. ASSUME NEW x \in new PROVE x \in all
        BY <3>6, <3>1, <3>2, <3>3
      <3> QED  BY <3>4, <3>5, <3>6
    <2>3. docs' = [docs EXCEPT ![u] = [d EXCEPT !.sessions = all]]
      <3> HIDE DEF all, new, old
      <3>1. /\ roles = d.roles /\ verified = d.verified /\ link = d.link
            /\ sessions = all
        BY <1>5, <1>7, <1>9, <1>10, <1>14, <2>1, <2>2
      <3> HIDE DEF d, u, op
      <3>2. written = [roles |-> d.roles, verified |-> d.verified,
                       link |-> d.link, sessions |-> all]
        BY <3>1 DEF written
      <3>3. written = [d EXCEPT !.sessions = all]
        BY <1>2, <3>2, DocumentChange, Zenon
      <3> QED  BY <1>0, <3>3, Zenon
    <2>4. Atomic!Refresh(u)
      BY <1>1, <1>2, <2>3 DEF Atomic!Refresh, Atomic!Becomes, Atomic!Time, Time
    <2> QED  BY <1>1, <2>4 DEF Atomic!Next
  <1>15. CASE op = "logout"
    <2>1. NewSessions(r) = {s \in d.sessions : s.hash # ask[r].token}
      BY <1>3, <1>15 DEF NewSessions, Holders
    <2>2. docs' = [docs EXCEPT ![u] =
                       [d EXCEPT !.sessions = {s \in @ : s.hash # ask[r].token}]]
      <3> DEFINE left == {s \in d.sessions : s.hash # ask[r].token}
      <3>1. /\ roles = d.roles /\ verified = d.verified /\ link = d.link
            /\ sessions = left
        BY <1>5, <1>7, <1>9, <1>10, <1>15, <2>1
      <3>2. docs' = [docs EXCEPT ![u] = [d EXCEPT !.sessions = left]]
        <4> HIDE DEF d, u, op, left
        <4>1. written = [roles |-> d.roles, verified |-> d.verified,
                         link |-> d.link, sessions |-> left]
          BY <3>1 DEF written
        <4>2. written = [d EXCEPT !.sessions = left]
          BY <1>2, <4>1, DocumentChange, Zenon
        <4> QED  BY <1>0, <4>2, Zenon
      <3> QED  BY <3>2
    <2>3. Atomic!Logout(u)
      BY <1>1, <2>2 DEF Atomic!Logout, Atomic!Becomes, Atomic!Time, Time
    <2> QED  BY <1>1, <2>3 DEF Atomic!Next
  <1>16. CASE op \in {"seller", "promote"}
    <2>1. PICK role \in {"seller", "admin"} : NewRoles(r) = d.roles \cup {role}
      BY <1>3, <1>16 DEF NewRoles, Granted
    <2>2. docs' = [docs EXCEPT ![u] = [d EXCEPT !.roles = @ \cup {role}]]
      <3> DEFINE more == d.roles \cup {role}
      <3>1. /\ roles = more /\ verified = d.verified /\ link = d.link
            /\ sessions = d.sessions
        BY <1>5, <1>8, <1>9, <1>10, <1>16, <2>1
      <3>2. docs' = [docs EXCEPT ![u] = [d EXCEPT !.roles = more]]
        <4> HIDE DEF d, u, op, more
        <4>1. written = [roles |-> more, verified |-> d.verified,
                         link |-> d.link, sessions |-> d.sessions]
          BY <3>1 DEF written
        <4>2. written = [d EXCEPT !.roles = more]
          BY <1>2, <4>1, DocumentChange, Zenon
        <4> QED  BY <1>0, <4>2, Zenon
      <3> QED  BY <3>2
    <2>3. Atomic!Promote(u)
      BY <1>4, <2>2 DEF Atomic!Promote, Atomic!Becomes
    <2> QED  BY <1>1, <2>3 DEF Atomic!Next
  <1> QED  BY <1>1, <1>3, <1>11, <1>12, <1>13, <1>14, <1>15, <1>16 DEF AllOps

LEMMA CreateRefines ==
    ASSUME TypeInv, AdminInv, SerialInv, NEW r \in Request, at[r] = "create", Create(r)
    PROVE  Atomic!Next
  <1> DEFINE u == ask[r].user
             roles == IF Atomic!Administered THEN {"buyer"} ELSE Role
  <1>1. u \in User
    BY AskType DEF TypeInv, RequestsOK
  <1>2. /\ ~Exists(u)
        /\ held[r] = [roles |-> RolesOfNew, verified |-> FALSE, link |-> r, sessions |-> {}]
    BY DEF SerialInv, UpToDate
  <1>3. (\E v \in User : Exists(v)) <=> Atomic!Administered
    BY DEF AdminInv, Anchored, Atomic!Administered, Exists, NoDocument
  <1>4. RolesOfNew = roles
    BY <1>3 DEF RolesOfNew
  <1>5. held[r] = [roles |-> roles, verified |-> FALSE, link |-> r, sessions |-> {}]
    BY <1>2, <1>4
  <1>6. Atomic!Register(u)
    BY <1>2, <1>5
       DEF Create, Exists, NoDocument, Role, Atomic!Register, Atomic!Becomes, Atomic!Known,
           Atomic!Nobody, Atomic!Role
  <1> QED  BY <1>1, <1>6 DEF Atomic!Next

LEMMA RefinementStep ==
    ASSUME TypeInv, AdminInv, SerialInv, [Next]_vars
    PROVE  [Atomic!Next]_docs
  <1>1. ASSUME NEW r \in Request, SaveUser(r) \/ CreateUser(r) \/ CutShort(r)
        PROVE  [Atomic!Next]_docs
    <2>1. \/ UNCHANGED docs
          \/ at[r] = "update" /\ Update(r)
          \/ at[r] = "create" /\ Create(r)
      BY <1>1 DEF SaveUser, CreateUser, CutShort
    <2> QED  BY <2>1, UpdateRefines, CreateRefines
  <1>2. ASSUME NEW r \in Request,
               \/ Arrive(r) \/ FindAdmin(r) \/ NotFound(r) \/ Find(r) \/ Compare(r)
               \/ HashPassword(r) \/ CountUsers(r) \/ SendLink(r)
        PROVE  UNCHANGED docs
    BY <1>2 DEF Arrive, FindAdmin, NotFound, Find, Compare, HashPassword, CountUsers, SendLink
  <1>3. CASE Tick \/ UNCHANGED vars
    BY <1>3 DEF Tick
  <1> QED  BY <1>1, <1>2, <1>3 DEF Next, Serve

LEMMA RefinementInit == Init => Atomic!Init
  BY DEF Init, NoDocument, Role, Atomic!Init, Atomic!Nobody, Atomic!Role

\* When requests wait for each other, the user service (UserAccounts) is the one
\* of AtomicAccounts, whichever requests are cut short, before their write or after.
THEOREM SerialRefinement ==
    ASSUME Serial
    PROVE  Spec => ImplementsAtomicAccounts
  <1>1. TypeInv /\ SerialInv /\ [Next]_vars => SerialInv'
    BY SerialStep
  <1>2. TypeInv /\ AdminInv /\ [Next]_vars => AdminInv'
    BY AdminStep
  <1>3. TypeInv /\ AdminInv /\ SerialInv /\ [Next]_vars => [Atomic!Next]_docs
    BY RefinementStep
  <1> QED  BY <1>1, <1>2, <1>3, InitTypes, TypeStep, AdminInit, SerialInit, RefinementInit, PTL
           DEF Spec, ImplementsAtomicAccounts, Atomic!Spec
=============================================================================
