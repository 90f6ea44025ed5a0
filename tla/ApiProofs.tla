----------------------------- MODULE ApiProofs -----------------------------
(***************************************************************************)
(* Proofs about ApiAccess (how long a guard may be behind the database),   *)
(* for any number of requests, life of a token and number of rotations,    *)
(* and about ApiDocs (what the page of the documentation shows, and where  *)
(* a call of it ends), for any number of faults.                           *)
(***************************************************************************)
EXTENDS ApiAccess, ApiDocs, TLAPS

USE DEF account, deployment, accessVars, docsVars

-----------------------------------------------------------------------------
(* Access.                                                                  *)

\* A key is computed from a secret, and is one of four.
LEMMA KeysAreKeys ==
    ASSUME NEW s \in Svc, NEW v \in Secret
    PROVE  KeyOf(s, v) \in SigningKey
BY DEF KeyOf, Secret, SigningKey

LEMMA UserServiceIsOne == "user-service" \in Svc
BY DEF Svc

\* A step in age stays an age, and keeps the order of two ages.
LEMMA Ageing ==
    ASSUME NEW a \in Age
    PROVE  /\ Older(a) \in Age
           /\ \A b \in Age : a <= b => Older(a) <= Older(b)
           /\ Older(a) < AccessLife => a < AccessLife
BY AccessConstants DEF Older, Age

\* Nobody has logged in, and every service runs on one secret.
LEMMA AccessInvInit == AccessInit => AccessInv
<1> SUFFICES ASSUME AccessInit PROVE AccessInv
    OBVIOUS
<1>1. AccessLife \in Nat \ {0} /\ MaxRotations \in Nat
    BY AccessConstants
<1>2. token.age = AccessLife /\ token \in Token
    BY <1>1 DEF AccessInit, NoToken, Token, Age, SigningKey
<1>3. Idle \in Work
    BY <1>1 DEF Idle, Work, Age, Secret
<1>4. work \in [Worker -> Work]
    BY <1>3 DEF AccessInit
<1>5. config \in Secret
    BY DEF AccessInit, Secret
<1>6. secret \in [Svc -> SUBSET Secret] /\ \A s \in Svc : secret[s] = {config}
    BY <1>5 DEF AccessInit
<1>7. AccessTypeOK
  <2>1. roles \subseteq Role /\ session \in BOOLEAN
      BY DEF AccessInit
  <2>2. ended \in Age /\ settled \in Age /\ changed \in [Role -> Age]
      BY <1>1 DEF AccessInit, Age
  <2>3. rotations \in 0..MaxRotations
      BY <1>1 DEF AccessInit
  <2> QED
      BY <1>2, <1>4, <1>5, <1>6, <2>1, <2>2, <2>3 DEF AccessTypeOK
<1>8. Fresh
    BY <1>1, <1>2 DEF Fresh, Unexpired
<1>9. ServedByRunning
    BY DEF AccessInit, ServedByRunning, Idle
<1>10. Staffed
    BY <1>6 DEF Staffed
<1>11. GrantsAreRoles
    BY DEF AccessInit, GrantsAreRoles, GrantedBy, Idle
<1> QED
    BY <1>7, <1>8, <1>9, <1>10, <1>11 DEF AccessInv

\* Reading the document changes the request alone.
LEMMA ReadKeepsInv ==
    ASSUME AccessInv, NEW w \in Worker, NEW op \in AccountOp, ReadAccount(w, op)
    PROVE  AccessInv'
<1>1. PICK v \in secret["user-service"] :
          work' = [work EXCEPT ![w] = [op |-> op, roles |-> roles, session |-> session,
                                       age |-> 0, by |-> v]]
    BY DEF ReadAccount
<1>2. v \in Secret
    BY <1>1, UserServiceIsOne DEF AccessInv, AccessTypeOK
<1>3. 0 \in Age
    BY AccessConstants DEF Age
<1>4. [op |-> op, roles |-> roles, session |-> session, age |-> 0, by |-> v] \in Work
    BY <1>2, <1>3 DEF Work, AccessInv, AccessTypeOK
<1>5. work' \in [Worker -> Work]
    BY <1>1, <1>4 DEF AccessInv, AccessTypeOK
<1>6. UNCHANGED <<account, token, deployment>>
    BY DEF ReadAccount
<1>7. AccessTypeOK'
    BY <1>5, <1>6 DEF AccessInv, AccessTypeOK
<1>8. Fresh' /\ Staffed'
    BY <1>6 DEF AccessInv, Fresh, Staffed, Unexpired, Agree
<1>9. ServedByRunning'
    BY <1>1, <1>6 DEF AccessInv, AccessTypeOK, ServedByRunning
<1>10. GrantsAreRoles'
  <2>1. op = "apply" => "seller" \in Role
      BY DEF ReadAccount, Admits
  <2>2. op = "promote" => "admin" \in Role
      BY DEF ReadAccount, Admits
  <2>3. GrantedBy(op) \subseteq Role
      BY <2>1, <2>2 DEF GrantedBy
  <2>4. ASSUME NEW x \in Worker PROVE work'[x].op = IF x = w THEN op ELSE work[x].op
      BY <1>1, <2>4 DEF AccessInv, AccessTypeOK
  <2> QED
      BY <2>3, <2>4 DEF AccessInv, GrantsAreRoles, GrantedBy
<1> QED
    BY <1>7, <1>8, <1>9, <1>10 DEF AccessInv

\* What a new token says was true of the document, and is what is written back.
LEMMA EndKeepsInv ==
    ASSUME AccessInv, NEW w \in Worker, EndRequest(w)
    PROVE  AccessInv'
<1>1. WriteAccount(w) /\ HandToken(w) /\ work[w].op # "none"
    BY DEF EndRequest
<1>2. UNCHANGED deployment
    BY DEF EndRequest
<1>3. work[w] \in Work /\ work \in [Worker -> Work]
    BY DEF AccessInv, AccessTypeOK
<1>4. work[w].op \in AccountOp /\ work[w].roles \subseteq Role /\ work[w].session \in BOOLEAN
      /\ work[w].age \in Age /\ work[w].by \in Secret
    BY <1>1, <1>3 DEF Work
<1>5. work' = [work EXCEPT ![w] = Idle] /\ Idle \in Work /\ Idle.op = "none"
    BY AccessConstants DEF EndRequest, Idle, Work, Age, Secret
<1>6. GrantedBy(work[w].op) \subseteq Role
    BY DEF AccessInv, GrantsAreRoles
<1>7. roles' \subseteq Role
    BY <1>1, <1>4, <1>6 DEF WriteAccount, RolesAfter
<1>8. session' \in BOOLEAN
    BY <1>1, <1>4 DEF WriteAccount, SessionAfter
<1>9. \/ UNCHANGED token
      \/ /\ work[w].op \in {"login", "refresh"}
         /\ \E age \in 0..work[w].age :
               token' = [roles |-> work[w].roles, age |-> age,
                         key |-> KeyOf("user-service", work[w].by)]
    BY <1>1 DEF HandToken
<1>10. token' \in Token
  <2>1. KeyOf("user-service", work[w].by) \in SigningKey
      BY <1>4, KeysAreKeys, UserServiceIsOne
  <2>2. \A age \in 0..work[w].age : age \in Age
      BY <1>4, AccessConstants DEF Age
  <2> QED
      BY <1>4, <1>9, <2>1, <2>2 DEF Token, AccessInv, AccessTypeOK
<1>11. ended' = (IF session /\ ~session' THEN 0 ELSE ended)
       /\ changed' = [r \in Role |-> IF r \in roles <=> r \in roles' THEN changed[r] ELSE 0]
    BY <1>1 DEF WriteAccount
<1>12. AccessTypeOK'
  <2>1. 0 \in Age
      BY AccessConstants DEF Age
  <2>2. ended' \in Age
      BY <1>11, <2>1 DEF AccessInv, AccessTypeOK
  <2>3. changed' \in [Role -> Age]
      BY <1>11, <2>1 DEF AccessInv, AccessTypeOK
  <2>4. work' \in [Worker -> Work]
      BY <1>3, <1>5
  <2> QED
      BY <1>2, <1>7, <1>8, <1>10, <2>2, <2>3, <2>4 DEF AccessInv, AccessTypeOK
<1>13. token' # token => /\ work[w].op \in {"login", "refresh"}
                         /\ token'.roles = work[w].roles
                         /\ token'.key = KeyOf("user-service", work[w].by)
    BY <1>9
<1>14. Fresh'
  <2>1. token.age \in Nat /\ token'.age \in Nat
      BY <1>10 DEF AccessInv, AccessTypeOK, Token, Age
  <2>2. ASSUME Unexpired', ~session' PROVE ended' <= token'.age
    <3>1. CASE session
        BY <1>11, <2>1, <2>2, <3>1
    <3>2. CASE ~session /\ token' = token
        BY <1>11, <2>2, <3>2 DEF AccessInv, Fresh, Unexpired
    <3>3. CASE token' # token
      <4>1. session' = TRUE
          BY <1>1, <1>13, <3>3 DEF WriteAccount, SessionAfter
      <4> QED
          BY <2>2, <4>1
    <3> QED
        BY <3>1, <3>2, <3>3
  <2>3. ASSUME NEW r \in Role, Unexpired', ~(r \in roles' <=> r \in token'.roles)
        PROVE  changed'[r] <= token'.age
    <3>1. CASE ~(r \in roles <=> r \in roles')
        BY <1>11, <2>1, <3>1
    <3>2. CASE (r \in roles <=> r \in roles') /\ token' = token
        BY <1>11, <2>3, <3>2 DEF AccessInv, Fresh, Unexpired
    <3>3. CASE token' # token
      <4>1. GrantedBy(work[w].op) = {}
          BY <1>13, <3>3 DEF GrantedBy
      <4>2. roles' = work[w].roles
          BY <1>1, <4>1 DEF WriteAccount, RolesAfter
      <4> QED
          BY <1>13, <2>3, <3>3, <4>2
    <3> QED
        BY <3>1, <3>2, <3>3
  <2>4. ASSUME NEW v \in secret["user-service"]', Unexpired', Agree',
               token'.key # KeyOf("user-service", v)
        PROVE  settled' <= token'.age
    <3>1. v \in secret["user-service"] /\ Agree /\ settled' = settled
        BY <1>2, <2>4 DEF Agree
    <3>2. CASE token' = token
        BY <2>4, <3>1, <3>2 DEF AccessInv, Fresh, Unexpired
    <3>3. CASE token' # token
      <4>1. work[w].by \in secret["user-service"]
          BY <1>1 DEF AccessInv, ServedByRunning
      <4>2. KeyOf("user-service", work[w].by) = KeyOf("user-service", v)
          BY <3>1, <4>1, UserServiceIsOne DEF Agree
      <4> QED
          BY <1>13, <2>4, <3>3, <4>2
    <3> QED
        BY <3>2, <3>3
  <2> QED
      BY <2>2, <2>3, <2>4 DEF Fresh
<1>15. ServedByRunning' /\ Staffed'
    BY <1>2, <1>3, <1>5 DEF AccessInv, ServedByRunning, Staffed
<1>16. GrantsAreRoles'
    BY <1>3, <1>5 DEF AccessInv, GrantsAreRoles, GrantedBy
<1> QED
    BY <1>12, <1>14, <1>15, <1>16 DEF AccessInv

\* A request that ends without a write leaves the rest alone.
LEMMA CutShortKeepsInv ==
    ASSUME AccessInv, NEW w \in Worker, CutShort(w)
    PROVE  AccessInv'
<1>1. UNCHANGED <<account, token, deployment>> /\ work' = [work EXCEPT ![w] = Idle]
    BY DEF CutShort
<1>2. Idle \in Work /\ Idle.op = "none"
    BY AccessConstants DEF Idle, Work, Age, Secret
<1>3. work \in [Worker -> Work]
    BY DEF AccessInv, AccessTypeOK
<1>4. work' \in [Worker -> Work]
    BY <1>1, <1>2, <1>3
<1>5. AccessTypeOK'
    BY <1>1, <1>4 DEF AccessInv, AccessTypeOK
<1>6. Fresh' /\ Staffed'
    BY <1>1 DEF AccessInv, Fresh, Staffed, Unexpired, Agree
<1>7. ServedByRunning'
    BY <1>1, <1>2, <1>3 DEF AccessInv, ServedByRunning
<1>8. GrantsAreRoles'
    BY <1>1, <1>2, <1>3 DEF AccessInv, GrantsAreRoles, GrantedBy
<1> QED
    BY <1>5, <1>6, <1>7, <1>8 DEF AccessInv

\* A new secret is handed out by deployments to come.
LEMMA RotateKeepsInv ==
    ASSUME AccessInv, Rotate
    PROVE  AccessInv'
<1>1. UNCHANGED <<account, work, token, secret, settled>>
    BY DEF Rotate
<1>2. AccessTypeOK'
    BY <1>1, AccessConstants DEF Rotate, AccessInv, AccessTypeOK
<1>3. Fresh' /\ Staffed' /\ ServedByRunning' /\ GrantsAreRoles'
    BY <1>1 DEF AccessInv, Fresh, Staffed, ServedByRunning, GrantsAreRoles, Unexpired, Agree
<1> QED
    BY <1>2, <1>3 DEF AccessInv

\* A deployment that changes the processes starts the clock of their disagreement.
LEMMA SettlingKeepsFresh ==
    ASSUME AccessInv, settled' = 0, UNCHANGED <<account, token>>
    PROVE  Fresh'
<1>1. token.age \in Nat
    BY DEF AccessInv, AccessTypeOK, Token, Age
<1>2. settled' <= token'.age
    BY <1>1
<1> QED
    BY <1>2 DEF AccessInv, Fresh, Unexpired

LEMMA LaunchKeepsInv ==
    ASSUME AccessInv, NEW s \in Svc, Launch(s)
    PROVE  AccessInv'
<1>1. UNCHANGED <<account, work, token, config, rotations>> /\ settled' = 0
    BY DEF Launch
<1>2. secret' = [secret EXCEPT ![s] = @ \cup {config}]
    BY DEF Launch
<1>3. secret \in [Svc -> SUBSET Secret] /\ config \in Secret
    BY DEF AccessInv, AccessTypeOK
<1>4. secret' \in [Svc -> SUBSET Secret]
    BY <1>2, <1>3
<1>5. \A t \in Svc : secret[t] \subseteq secret'[t]
    BY <1>2, <1>3
<1>6. 0 \in Age
    BY AccessConstants DEF Age
<1>7. AccessTypeOK'
    BY <1>1, <1>4, <1>6 DEF AccessInv, AccessTypeOK
<1>8. Fresh'
    BY <1>1, SettlingKeepsFresh
<1>9. ServedByRunning' /\ Staffed' /\ GrantsAreRoles'
    BY <1>1, <1>5, UserServiceIsOne DEF AccessInv, ServedByRunning, Staffed, GrantsAreRoles
<1> QED
    BY <1>7, <1>8, <1>9 DEF AccessInv

\* A process that ends takes its requests with it, and is not the last one.
LEMMA RetireKeepsInv ==
    ASSUME AccessInv, NEW s \in Svc, Retire(s)
    PROVE  AccessInv'
<1>1. UNCHANGED <<account, token, config, rotations>> /\ settled' = 0
    BY DEF Retire
<1>2. PICK v \in secret[s] :
          /\ v # config /\ config \in secret[s]
          /\ secret' = [secret EXCEPT ![s] = @ \ {v}]
          /\ work' = [w \in Worker |-> IF s = "user-service" /\ work[w].by = v
                                        THEN Idle ELSE work[w]]
    BY DEF Retire
<1>3. secret \in [Svc -> SUBSET Secret] /\ work \in [Worker -> Work]
    BY DEF AccessInv, AccessTypeOK
<1>4. Idle \in Work /\ Idle.op = "none"
    BY AccessConstants DEF Idle, Work, Age, Secret
<1>5. secret' \in [Svc -> SUBSET Secret] /\ work' \in [Worker -> Work]
    BY <1>2, <1>3, <1>4
<1>6. 0 \in Age
    BY AccessConstants DEF Age
<1>7. AccessTypeOK'
    BY <1>1, <1>5, <1>6 DEF AccessInv, AccessTypeOK
<1>8. Fresh'
    BY <1>1, SettlingKeepsFresh
<1>9. ServedByRunning'
  <2>1. SUFFICES ASSUME NEW w \in Worker, work'[w].op # "none"
                 PROVE  work'[w].by \in secret'["user-service"]
      BY DEF ServedByRunning
  <2>2. work'[w] = work[w] /\ ~(s = "user-service" /\ work[w].by = v)
      BY <1>2, <1>4, <2>1
  <2>3. work[w].by \in secret["user-service"]
      BY <2>1, <2>2 DEF AccessInv, ServedByRunning
  <2> QED
      BY <1>2, <1>3, <2>2, <2>3, UserServiceIsOne
<1>10. Staffed'
    BY <1>1, <1>2, <1>3 DEF AccessInv, Staffed
<1>11. GrantsAreRoles'
  <2>1. SUFFICES ASSUME NEW w \in Worker PROVE GrantedBy(work'[w].op) \subseteq Role
      BY DEF GrantsAreRoles, GrantedBy
  <2>2. work'[w].op = "none" \/ work'[w].op = work[w].op
      BY <1>2, <1>4
  <2>3. GrantedBy("none") = {}
      BY DEF GrantedBy
  <2> QED
      BY <2>2, <2>3 DEF AccessInv, GrantsAreRoles
<1> QED
    BY <1>7, <1>8, <1>9, <1>10, <1>11 DEF AccessInv

\* Everything ages alike.
LEMMA TickKeepsInv ==
    ASSUME AccessInv, AccessTick
    PROVE  AccessInv'
<1> DEFINE aged(w) == [work[w] EXCEPT !.age = Older(@)]
<1>1. /\ work' = [w \in Worker |-> IF work[w].op = "none" THEN Idle ELSE aged(w)]
      /\ token' = [token EXCEPT !.age = Older(@)]
      /\ ended' = Older(ended) /\ settled' = Older(settled)
      /\ changed' = [r \in Role |-> Older(changed[r])]
      /\ UNCHANGED <<roles, session, config, secret, rotations>>
    BY DEF AccessTick
<1>2. /\ token \in Token /\ ended \in Age /\ settled \in Age /\ changed \in [Role -> Age]
      /\ work \in [Worker -> Work]
    BY DEF AccessInv, AccessTypeOK
<1>3. token.age \in Age
    BY <1>2 DEF Token
<1>4. /\ token'.age = Older(token.age) /\ token'.roles = token.roles /\ token'.key = token.key
      /\ token' \in Token
    BY <1>1, <1>2, <1>3, Ageing DEF Token
<1>5. Idle \in Work /\ Idle.op = "none"
    BY AccessConstants DEF Idle, Work, Age, Secret
<1>6. ASSUME NEW w \in Worker
      PROVE  aged(w) \in Work /\ aged(w).op = work[w].op /\ aged(w).by = work[w].by
  <2>1. work[w] \in Work /\ Older(work[w].age) \in Age
      BY <1>2, Ageing DEF Work
  <2> QED
      BY <2>1 DEF Work
<1>7. work' \in [Worker -> Work] /\ \A w \in Worker :
          work'[w].op = work[w].op /\ (work[w].op # "none" => work'[w].by = work[w].by)
  <2> HIDE DEF aged
  <2> QED
      BY <1>1, <1>5, <1>6
<1>8. AccessTypeOK'
  <2>1. ended' \in Age /\ settled' \in Age /\ changed' \in [Role -> Age]
      BY <1>1, <1>2, Ageing
  <2> QED
      BY <1>1, <1>4, <1>7, <2>1 DEF AccessInv, AccessTypeOK
<1>9. Unexpired' => Unexpired
    BY <1>3, <1>4, Ageing DEF Unexpired
<1>10. Fresh'
  <2>1. ASSUME Unexpired', ~session' PROVE ended' <= token'.age
    <3>1. ended <= token.age
        BY <1>1, <1>9, <2>1 DEF AccessInv, Fresh
    <3> QED
        BY <1>1, <1>2, <1>3, <1>4, <3>1, Ageing
  <2>2. ASSUME NEW r \in Role, Unexpired', ~(r \in roles' <=> r \in token'.roles)
        PROVE  changed'[r] <= token'.age
    <3>1. changed[r] <= token.age
        BY <1>1, <1>4, <1>9, <2>2 DEF AccessInv, Fresh
    <3> QED
        BY <1>1, <1>2, <1>3, <1>4, <3>1, Ageing
  <2>3. ASSUME NEW v \in secret["user-service"]', Unexpired', Agree',
               token'.key # KeyOf("user-service", v)
        PROVE  settled' <= token'.age
    <3>1. Agree
        BY <1>1, <2>3 DEF Agree
    <3>2. settled <= token.age
        BY <1>1, <1>4, <1>9, <2>3, <3>1 DEF AccessInv, Fresh
    <3> QED
        BY <1>1, <1>2, <1>3, <1>4, <3>2, Ageing
  <2> QED
      BY <2>1, <2>2, <2>3 DEF Fresh
<1>11. ServedByRunning' /\ Staffed'
    BY <1>1, <1>7 DEF AccessInv, ServedByRunning, Staffed
<1>12. GrantsAreRoles'
    BY <1>7 DEF AccessInv, GrantsAreRoles, GrantedBy
<1> QED
    BY <1>8, <1>10, <1>11, <1>12 DEF AccessInv

\* AccessInv is inductive.
LEMMA AccessInvNext == AccessInv /\ [AccessNext]_accessVars => AccessInv'
<1> SUFFICES ASSUME AccessInv, [AccessNext]_accessVars PROVE AccessInv'
    OBVIOUS
<1>1. ASSUME NEW w \in Worker, EndRequest(w) PROVE AccessInv'
    BY <1>1, EndKeepsInv
<1>2. ASSUME NEW w \in Worker, CutShort(w) PROVE AccessInv'
    BY <1>2, CutShortKeepsInv
<1>3. ASSUME NEW w \in Worker, NEW op \in AccountOp, ReadAccount(w, op) PROVE AccessInv'
    BY <1>3, ReadKeepsInv
<1>4. CASE Rotate
    BY <1>4, RotateKeepsInv
<1>5. ASSUME NEW s \in Svc, Launch(s) PROVE AccessInv'
    BY <1>5, LaunchKeepsInv
<1>6. ASSUME NEW s \in Svc, Retire(s) PROVE AccessInv'
    BY <1>6, RetireKeepsInv
<1>7. CASE AccessTick
    BY <1>7, TickKeepsInv
<1>8. CASE UNCHANGED accessVars
    BY <1>8 DEF AccessInv, AccessTypeOK, Fresh, ServedByRunning, Staffed, GrantsAreRoles,
                Unexpired, Agree
<1> QED
    BY <1>1, <1>2, <1>3, <1>4, <1>5, <1>6, <1>7, <1>8 DEF AccessNext

LEMMA AccessInvariant == AccessSpec => []AccessInv
BY AccessInvInit, AccessInvNext, PTL DEF AccessSpec

\* Type correctness, for any account requests and any rotations.
THEOREM AccessTyping == AccessSpec => []AccessTypeOK
<1>1. AccessInv => AccessTypeOK
    BY DEF AccessInv
<1> QED
    BY <1>1, AccessInvariant, PTL

\* What a guard that asks for a login lets through has a token that has not expired.
LEMMA HandledIsValid ==
    ASSUME NEW c \in Checkpoint, c.guard.login, NEW v \in secret[c.service],
           Answer(c.guard, KeyOf(c.service, v)) # "401"
    PROVE  Valid(KeyOf(c.service, v))
BY DEF Answer

\* A guard lets an account without a session in for less than the life of a token.
THEOREM SessionsEnd == AccessSpec => []SessionEndsAccess
<1>1. ASSUME AccessInv, NEW c \in Checkpoint, c.guard.login, "handled" \in Answers(c)
      PROVE  session \/ ended < AccessLife
  <2>1. PICK v \in secret[c.service] : Answer(c.guard, KeyOf(c.service, v)) = "handled"
      BY <1>1 DEF Answers
  <2>2. Unexpired
      BY <1>1, <2>1, HandledIsValid DEF Valid
  <2>3. ended \in Nat /\ token.age \in Nat /\ AccessLife \in Nat
      BY <1>1, AccessConstants DEF AccessInv, AccessTypeOK, Token, Age
  <2> QED
      BY <1>1, <2>2, <2>3 DEF AccessInv, Fresh, Unexpired
<1>2. AccessInv => SessionEndsAccess
    BY <1>1 DEF SessionEndsAccess
<1> QED
    BY <1>2, AccessInvariant, PTL

\* Every checkpoint is at a service, and asks for a role only of a login.
LEMMA CheckpointsAreGuards ==
    ASSUME NEW c \in Checkpoint
    PROVE  c.service \in Svc /\ (c.guard.roles # {} => c.guard.login)
<1> DEFINE Base == {"auth", "users", "products", "categories", "cart"}
           Sound(route) == /\ route.call.base \in Base
                           /\ route.guard.roles # {} => route.guard.login
<1>1. PICK route \in Routes :
          c.service = ServiceOf(route.call.base) /\ c.guard = route.guard
    BY DEF Checkpoint
<1>2. Sound(route)
  <2>1. ASSUME NEW m, NEW b \in Base, NEW p PROVE Sound(Route(m, b, p, Open))
      BY DEF Route, Request, Open
  <2>2. ASSUME NEW m, NEW b \in Base, NEW p, NEW any PROVE Sound(Route(m, b, p, Guarded(any)))
      BY DEF Route, Request, Guarded
  <2>3. /\ "auth" \in Base /\ "users" \in Base /\ "products" \in Base
        /\ "categories" \in Base /\ "cart" \in Base
      OBVIOUS
  <2> HIDE DEF Base, Sound
  <2>4. CASE route \in AuthRoutes
      BY <2>1, <2>3, <2>4 DEF AuthRoutes
  <2>5. CASE route \in UserRoutes
      BY <2>2, <2>3, <2>5 DEF UserRoutes
  <2>6. CASE route \in ProductRoutes
    <3>1. /\ Sound(Route("POST", "products", "", Guarded({"seller"})))
          /\ Sound(Route("PUT", "products", "/{}", Guarded({"seller"})))
          /\ Sound(Route("DELETE", "products", "/{}", Guarded({"seller"})))
          /\ Sound(Route("PUT", "products", "/{}/inventory", Guarded({"seller"})))
          /\ Sound(Route("POST", "categories", "", Guarded({"admin"})))
        BY <2>2, <2>3
    <3>2. /\ Sound(Route("GET", "products", "/{}", Open))
          /\ Sound(Route("GET", "products", "", Open))
          /\ Sound(Route("GET", "products", "/{}/inventory", Open))
          /\ Sound(Route("GET", "categories", "", Open))
        BY <2>1, <2>3
    <3> QED
        BY <2>6, <3>1, <3>2 DEF ProductRoutes
  <2>7. CASE route \in CartRoutes
      BY <2>2, <2>3, <2>7 DEF CartRoutes
  <2> QED
      BY <1>1, <2>4, <2>5, <2>6, <2>7 DEF Routes
<1>3. ServiceOf(route.call.base) \in Svc
    BY <1>2 DEF ServiceOf, Svc
<1> QED
    BY <1>1, <1>2, <1>3

\* What a guard decides on a role is behind the database for less than the life
\* of a token.
THEOREM RolesInTime == AccessSpec => []RolesCatchUp
<1>1. ASSUME AccessInv, NEW c \in Checkpoint, NEW r \in c.guard.roles \cap Role,
             ~(r \in roles <=> r \in token.roles), Answers(c) # {"401"}
      PROVE  changed[r] < AccessLife
  <2>1. c.guard.login /\ c.service \in Svc
      BY <1>1, CheckpointsAreGuards
  <2>2. secret[c.service] # {}
      BY <1>1, <2>1 DEF AccessInv, Staffed
  <2>3. PICK v \in secret[c.service] : Answer(c.guard, KeyOf(c.service, v)) # "401"
    <3>1. SUFFICES ASSUME \A v \in secret[c.service] :
                              Answer(c.guard, KeyOf(c.service, v)) = "401"
                   PROVE  FALSE
        OBVIOUS
    <3>2. PICK u \in secret[c.service] : TRUE
        BY <2>2
    <3>3. Answers(c) \subseteq {"401"}
        BY <3>1 DEF Answers
    <3>4. "401" \in Answers(c)
        BY <3>1, <3>2 DEF Answers
    <3>5. Answers(c) = {"401"}
        BY <3>3, <3>4, Zenon
    <3> QED
        BY <1>1, <3>5
  <2>4. Unexpired
      BY <2>1, <2>3, HandledIsValid DEF Valid
  <2>5. /\ r \in Role
        /\ changed \in [Role -> Age] /\ token.age \in Nat /\ AccessLife \in Nat
    <3>1. r \in Role
        BY <1>1
    <3>2. changed \in [Role -> Age] /\ token \in Token
        BY <1>1 DEF AccessInv, AccessTypeOK
    <3> QED
        BY <3>1, <3>2, AccessConstants DEF Token, Age
  <2>6. changed[r] <= token.age
      BY <1>1, <2>4, <2>5 DEF AccessInv, Fresh
  <2>7. changed[r] \in Nat
      BY <2>5, AccessConstants DEF Age
  <2> QED
      BY <2>4, <2>5, <2>6, <2>7 DEF Unexpired
<1>2. AccessInv => RolesCatchUp
    BY <1>1 DEF RolesCatchUp
<1> QED
    BY <1>2, AccessInvariant, PTL

\* A token that has not expired is refused while secrets differ, or for less
\* than its life after they did.
THEOREM RefusalsHaveCause == AccessSpec => []RefusalHasCause
<1>1. ASSUME AccessInv, NEW c \in Checkpoint, Unexpired, "401" \in Answers(c), Agree
      PROVE  settled < AccessLife
  <2>1. PICK v \in secret[c.service] : Answer(c.guard, KeyOf(c.service, v)) = "401"
      BY <1>1 DEF Answers
  <2>2. token.key # KeyOf(c.service, v)
      BY <1>1, <2>1 DEF Answer, Valid
  <2>3. c.service \in Svc
      BY CheckpointsAreGuards
  <2>4. PICK u \in secret["user-service"] : TRUE
      BY <1>1, UserServiceIsOne DEF AccessInv, Staffed
  <2>5. KeyOf("user-service", u) = KeyOf(c.service, v)
      BY <1>1, <2>3, <2>4, UserServiceIsOne DEF Agree
  <2>6. settled <= token.age
      BY <1>1, <2>2, <2>4, <2>5 DEF AccessInv, Fresh
  <2>7. settled \in Nat /\ token.age \in Nat /\ AccessLife \in Nat
      BY <1>1, AccessConstants DEF AccessInv, AccessTypeOK, Token, Age
  <2> QED
      BY <1>1, <2>6, <2>7 DEF Unexpired
<1>2. AccessInv => RefusalHasCause
    BY <1>1 DEF RefusalHasCause
<1> QED
    BY <1>2, AccessInvariant, PTL

-----------------------------------------------------------------------------
(* The documentation.                                                       *)

\* The inductive invariant: a service that does not listen, or did not answer, is
\* one that is missed.
DocsInv ==
    /\ proc \in [Svc -> {"down", "connecting", "listening", "stuck"}]
    /\ fetch \in [Svc -> {"idle", "asked", "spec", "null"}]
    /\ \A s \in Svc : proc[s] # "listening" \/ fetch[s] = "null" => s \in missed
    /\ MissingHasCause

LEMMA DocsInvInit == DocsInit => DocsInv
BY DEF DocsInit, DocsInv, MissingHasCause, NoPage

LEMMA MoveKeepsDocs ==
    ASSUME DocsInv, NEW s \in Svc, NEW from,
           NEW to \in {"down", "connecting", "listening", "stuck"}, Move(s, from, to)
    PROVE  DocsInv'
BY DEF Move, DocsInv, MissingHasCause

LEMMA DocsInvNext == DocsInv /\ [DocsNext]_docsVars => DocsInv'
<1> SUFFICES ASSUME DocsInv, [DocsNext]_docsVars PROVE DocsInv'
    OBVIOUS
<1>1. ASSUME NEW s \in Svc, StartService(s) \/ ListenOnce(s) \/ StartFails(s) \/ StopService(s)
      PROVE  DocsInv'
  <2>1. PICK to \in {"down", "connecting", "listening", "stuck"} : \E from : Move(s, from, to)
      BY <1>1 DEF StartService, ListenOnce, StartFails, StopService
  <2> QED
      BY <2>1, MoveKeepsDocs
<1>2. ASSUME NEW s \in Svc, Fetched(s) PROVE DocsInv'
    BY <1>2 DEF Fetched, DocsInv, MissingHasCause
<1>3. ASSUME NEW s \in Svc, FetchBreaks(s) PROVE DocsInv'
    BY <1>3 DEF FetchBreaks, DocsInv, MissingHasCause
<1>4. CASE AskDocs
    BY <1>4 DEF AskDocs, DocsInv, MissingHasCause
<1>5. CASE MergeSpecs
  <2>1. page'.found = {s \in Svc : fetch[s] = "spec"} /\ page'.missed = missed
      BY <1>5 DEF MergeSpecs
  <2>2. MissingHasCause'
      BY <1>5, <2>1 DEF MergeSpecs, DocsInv, MissingHasCause
  <2> QED
      BY <1>5, <2>2 DEF MergeSpecs, DocsInv
<1>6. CASE UNCHANGED docsVars
    BY <1>6 DEF DocsInv, MissingHasCause
<1> QED
    BY <1>1, <1>2, <1>3, <1>4, <1>5, <1>6 DEF DocsNext

\* A service that is missing on the page gave a reason to be, whichever services
\* start, fail to start and stop, and however often.
THEOREM MissingServicesHaveCause == DocsSpec => []MissingHasCause
<1>1. DocsInv => MissingHasCause
    BY DEF DocsInv
<1> QED
    BY <1>1, DocsInvInit, DocsInvNext, PTL DEF DocsSpec

\* What the operators of the merge return: the parts of both, with the source's first.
IsMerge(all, target, source) ==
    /\ DOMAIN all = DOMAIN target \cup DOMAIN source
    /\ \A name \in DOMAIN source : all[name] = source[name]
    /\ \A name \in DOMAIN target : name \notin DOMAIN source => all[name] = target[name]

LEMMA Assigned ==
    ASSUME NEW target, NEW source
    PROVE  IsMerge(Assign(target, source), target, source)
BY DEF Assign, IsMerge

\* Of three parts, all the names are there; and if no two of the parts have a
\* name in common, each keeps its own.
NamesOfThree(all, f, g, h) == DOMAIN all = DOMAIN f \cup DOMAIN g \cup DOMAIN h

ValuesOfThree(all, f, g, h) ==
    /\ \A name \in DOMAIN f : all[name] = f[name]
    /\ \A name \in DOMAIN g : all[name] = g[name]
    /\ \A name \in DOMAIN h : all[name] = h[name]

LEMMA AssignedThree ==
    ASSUME NEW f, NEW g, NEW h
    PROVE  /\ NamesOfThree(Assign(Assign(Assign(Nothing, f), g), h), f, g, h)
           /\ /\ DOMAIN f \cap DOMAIN g = {} /\ DOMAIN f \cap DOMAIN h = {}
              /\ DOMAIN g \cap DOMAIN h = {}
              => ValuesOfThree(Assign(Assign(Assign(Nothing, f), g), h), f, g, h)
<1>1. PICK a : a = Assign(Nothing, f)
    OBVIOUS
<1>2. PICK b : b = Assign(a, g)
    OBVIOUS
<1>3. PICK all : all = Assign(b, h)
    OBVIOUS
<1>4. IsMerge(a, Nothing, f) /\ IsMerge(b, a, g) /\ IsMerge(all, b, h)
    BY <1>1, <1>2, <1>3, Assigned
<1>5. DOMAIN Nothing = {}
    BY DEF Nothing
<1>6. DOMAIN a = DOMAIN f /\ \A name \in DOMAIN f : a[name] = f[name]
    BY <1>4, <1>5 DEF IsMerge
<1>7. NamesOfThree(all, f, g, h)
    BY <1>4, <1>6 DEF IsMerge, NamesOfThree
<1>8. ASSUME DOMAIN f \cap DOMAIN g = {}, DOMAIN f \cap DOMAIN h = {},
             DOMAIN g \cap DOMAIN h = {}
      PROVE  ValuesOfThree(all, f, g, h)
  <2>1. /\ DOMAIN b = DOMAIN f \cup DOMAIN g
        /\ \A name \in DOMAIN f : b[name] = f[name]
        /\ \A name \in DOMAIN g : b[name] = g[name]
      BY <1>4, <1>6, <1>8 DEF IsMerge
  <2> QED
      BY <1>4, <1>8, <2>1 DEF IsMerge, ValuesOfThree
<1> QED
    BY <1>1, <1>2, <1>3, <1>7, <1>8, Zenon

-----------------------------------------------------------------------------
(* The tables of ApiEndpoints.                                              *)

\* A call that is open to everyone.
IsOpen(call) ==
    call.base = "auth" \/ (call.method = "GET" /\ call.base \in {"products", "categories"})

\* What a document says fits the service it is of.
Consistent(doc, s) ==
    /\ ServiceOf(doc.call.base) = s
    /\ doc.scheme = IF IsOpen(doc.call) THEN "none" ELSE SchemeOf(s)
    /\ doc.refs \subseteq SchemasOf(s)
    /\ \E method, base, path : doc.call = Request(method, base, path)

LEMMA Services ==
    /\ ServiceOf("auth") = "user-service" /\ ServiceOf("users") = "user-service"
    /\ ServiceOf("products") = "product-management" /\ ServiceOf("categories") = "product-management"
    /\ ServiceOf("cart") = "cart-service"
BY Zenon DEF ServiceOf

LEMMA Schemas ==
    /\ SchemasOf("user-service") = UserSchemas
    /\ SchemasOf("product-management") = ProductSchemas
    /\ SchemasOf("cart-service") = CartSchemas
BY Zenon DEF SchemasOf

LEMMA IsConsistent ==
    ASSUME NEW method, NEW base, NEW path, NEW scheme, NEW refs, NEW s,
           ServiceOf(base) = s, refs \subseteq SchemasOf(s),
           scheme = IF base = "auth" \/ (method = "GET" /\ base \in {"products", "categories"})
                    THEN "none" ELSE SchemeOf(s)
    PROVE  Consistent(Doc(method, base, path, scheme, refs), s)
BY DEF Consistent, Doc, Request, IsOpen

LEMMA UserDocuments == \A doc \in AuthDocs \cup UserDocs : Consistent(doc, "user-service")
<1>1. SchemeOf("user-service") = "bearerAuth"
    BY DEF SchemeOf
<1>2. ASSUME NEW doc \in AuthDocs PROVE Consistent(doc, "user-service")
  <2>1. PICK method, path, refs : doc = Doc(method, "auth", path, "none", refs)
      BY Zenon, <1>2 DEF AuthDocs
  <2>2. refs \subseteq UserSchemas
    <3>1. doc.refs \subseteq UserSchemas
        BY <1>2 DEF AuthDocs, Doc, Request, UserSchemas
    <3> QED
        BY <2>1, <3>1 DEF Doc
  <2>3. Consistent(Doc(method, "auth", path, "none", refs), "user-service")
      BY <2>2, Services, Schemas, IsConsistent
  <2> QED
      BY <2>1, <2>3, Zenon
<1>3. ASSUME NEW doc \in UserDocs PROVE Consistent(doc, "user-service")
  <2>1. PICK method, path, refs : /\ doc = Doc(method, "users", path, "bearerAuth", refs)
                                  /\ refs \subseteq UserSchemas
      BY Zenon, <1>3 DEF UserDocs, UserSchemas
  <2>2. Consistent(Doc(method, "users", path, "bearerAuth", refs), "user-service")
      BY <1>1, <2>1, Services, Schemas, IsConsistent
  <2> QED
      BY <2>1, <2>2, Zenon
<1> QED
    BY <1>2, <1>3

LEMMA ProductDocuments ==
    \A doc \in ProductDocs \cup CategoryDocs \cup InventoryDocs :
        Consistent(doc, "product-management")
<1> SUFFICES ASSUME NEW doc \in ProductDocs \cup CategoryDocs \cup InventoryDocs
             PROVE  Consistent(doc, "product-management")
    OBVIOUS
<1>1. PICK base, path, refs :
         /\ base \in {"products", "categories"} /\ refs \subseteq ProductSchemas
         /\ \/ doc = Doc("GET", base, path, "none", refs)
            \/ \E method \in {"POST", "PUT", "DELETE"} :
                  doc = Doc(method, base, path, "bearerAuth", refs)
    BY Zenon DEF ProductDocs, CategoryDocs, InventoryDocs, ProductSchemas
<1>2. SchemeOf("product-management") = "bearerAuth"
    BY DEF SchemeOf
<1>3. Consistent(Doc("GET", base, path, "none", refs), "product-management")
    BY <1>1, Services, Schemas, IsConsistent
<1>4. \A method \in {"POST", "PUT", "DELETE"} :
         Consistent(Doc(method, base, path, "bearerAuth", refs), "product-management")
    BY <1>1, <1>2, Services, Schemas, IsConsistent
<1> QED
    BY <1>1, <1>3, <1>4, Zenon

LEMMA CartDocuments == \A doc \in CartDocs : Consistent(doc, "cart-service")
<1> SUFFICES ASSUME NEW doc \in CartDocs PROVE Consistent(doc, "cart-service")
    OBVIOUS
<1>1. PICK method, path, refs : /\ refs \in {{"Cart", "CartItem"}, {"CartItem"}, {}}
                                /\ doc = Doc(method, "cart", path, "BearerAuth", refs)
    BY Zenon DEF CartDocs
<1>2. SchemeOf("cart-service") = "BearerAuth" /\ refs \subseteq CartSchemas
    BY <1>1 DEF SchemeOf, CartSchemas
<1>3. Consistent(Doc(method, "cart", path, "BearerAuth", refs), "cart-service")
    BY <1>2, Services, Schemas, IsConsistent
<1> QED
    BY <1>1, <1>3, Zenon

LEMMA Documents ==
    ASSUME NEW doc \in Documented
    PROVE  /\ ServiceOf(doc.call.base) \in Svc
           /\ Consistent(doc, ServiceOf(doc.call.base))
BY UserDocuments, ProductDocuments, CartDocuments DEF Documented, Svc, Consistent

\* A route that looks at a token where its call is not open.
Matched(route) == route.guard.login <=> ~IsOpen(route.call)

LEMMA OpenRoute ==
    ASSUME NEW method, NEW base, NEW path,
           base = "auth" \/ (method = "GET" /\ base \in {"products", "categories"})
    PROVE  Matched(Route(method, base, path, Open))
BY DEF Matched, Route, Request, IsOpen, Open

LEMMA GuardedRoute ==
    ASSUME NEW method, NEW base, NEW path, NEW any,
           base # "auth", base \in {"products", "categories"} => method # "GET"
    PROVE  Matched(Route(method, base, path, Guarded(any)))
BY DEF Matched, Route, Request, IsOpen, Guarded

\* Every router looks at a token where the call is not open, and nowhere else.
LEMMA GuardsOfRoutes ==
    ASSUME NEW route \in Routes
    PROVE  Matched(route)
<1>1. CASE route \in AuthRoutes
  <2>1. PICK method, path : route = Route(method, "auth", path, Open)
      BY <1>1, Zenon DEF AuthRoutes
  <2>2. Matched(Route(method, "auth", path, Open))
      BY OpenRoute
  <2> QED
      BY <2>1, <2>2, Zenon
<1>2. CASE route \in UserRoutes
  <2>1. PICK method, path, any : route = Route(method, "users", path, Guarded(any))
      BY <1>2, Zenon DEF UserRoutes
  <2>2. Matched(Route(method, "users", path, Guarded(any)))
      BY GuardedRoute
  <2> QED
      BY <2>1, <2>2, Zenon
<1>3. CASE route \in ProductRoutes
  <2>1. PICK base \in {"products", "categories"} : \E path :
            \/ route = Route("GET", base, path, Open)
            \/ \E method \in {"POST", "PUT", "DELETE"} : \E any :
                  route = Route(method, base, path, Guarded(any))
      BY <1>3, Zenon DEF ProductRoutes
  <2>2. \A path : Matched(Route("GET", base, path, Open))
      BY <2>1, OpenRoute
  <2>3. \A method \in {"POST", "PUT", "DELETE"} : \A path, any :
            Matched(Route(method, base, path, Guarded(any)))
      BY <2>1, GuardedRoute
  <2> QED
      BY <2>1, <2>2, <2>3, Zenon
<1>4. CASE route \in CartRoutes
  <2>1. PICK method, path, any : route = Route(method, "cart", path, Guarded(any))
      BY <1>4, Zenon DEF CartRoutes
  <2>2. Matched(Route(method, "cart", path, Guarded(any)))
      BY GuardedRoute
  <2> QED
      BY <2>1, <2>2, Zenon
<1> QED
    BY <1>1, <1>2, <1>3, <1>4 DEF Routes

\* A call after a redirection to its path with a slash.
Redirected(call, sent) ==
    /\ sent.path = "" /\ call.path = "/"
    /\ call.base = sent.base
    /\ call.method = IF sent.method = "POST" THEN "GET" ELSE sent.method

\* What becomes of a call on its way: nothing, or a slash and no POST.
LEMMA WayOfCall ==
    ASSUME NEW method, NEW base, NEW path, NEW sent, sent = Request(method, base, path),
           NEW gateway, NEW call \in Forwarded(gateway, sent)
    PROVE  call = sent \/ Redirected(call, sent)
<1>1. CASE call \in ThroughNginx(sent)
  <2>1. CASE sent.path # ""
      BY <1>1, <2>1, Zenon DEF ThroughNginx
  <2>2. CASE sent.path = ""
    <3>1. call = [sent EXCEPT !.path = "/", !.method = IF @ = "POST" THEN "GET" ELSE @]
        BY <1>1, <2>2, Zenon DEF ThroughNginx
    <3>2. /\ call.path = "/" /\ call.base = sent.base
          /\ call.method = IF sent.method = "POST" THEN "GET" ELSE sent.method
        BY <3>1 DEF Request
    <3> QED
        BY <2>2, <3>2, Zenon DEF Redirected
  <2> QED
      BY <2>1, <2>2
<1>2. CASE call \in ThroughAlb(sent)
    BY <1>2, Zenon DEF ThroughAlb
<1> QED
    BY <1>1, <1>2, Zenon DEF Forwarded

\* A call that arrives is the one that was meant, or reads.
LEMMA StrayCallReads ==
    ASSUME NEW doc \in Documented, NEW gateway, NEW route \in RoutesOf(gateway, doc.call)
    PROVE  route \in Routes /\ (Serves(route, doc.call) \/ route.call.method = "GET")
<1>1. PICK method, base, path : doc.call = Request(method, base, path)
    BY Documents DEF Consistent
<1>2. PICK call \in Forwarded(gateway, doc.call) : Serves(route, call)
    BY DEF RoutesOf
<1>3. route \in Routes
    BY DEF RoutesOf
<1>4. call = doc.call \/ Redirected(call, doc.call)
    BY <1>1, WayOfCall
<1>5. CASE Redirected(call, doc.call)
  <2>1. Bare(call.path) = "" /\ Bare(doc.call.path) = ""
      BY <1>5, Zenon DEF Bare, Redirected
  <2>2. Bare(call.path) = Bare(doc.call.path)
      BY <2>1, Zenon
  <2>3. /\ call.base = doc.call.base
        /\ call.method = IF doc.call.method = "POST" THEN "GET" ELSE doc.call.method
      BY <1>5, Zenon DEF Redirected
  <2> QED
      BY <1>2, <1>3, <2>2, <2>3 DEF Serves
<1> QED
    BY <1>2, <1>3, <1>4, <1>5

\* A token is asked for where the document says so.
LEMMA GuardIsDocumented ==
    ASSUME NEW doc \in Documented, NEW route \in Routes, Serves(route, doc.call)
    PROVE  route.guard.login <=> doc.scheme # "none"
<1>1. IsOpen(route.call) <=> IsOpen(doc.call)
    BY DEF Serves, IsOpen
<1>2. doc.scheme = IF IsOpen(doc.call) THEN "none" ELSE SchemeOf(ServiceOf(doc.call.base))
    BY Documents DEF Consistent
<1>3. SchemeOf(ServiceOf(doc.call.base)) # "none"
    BY DEF SchemeOf
<1>4. route.guard.login <=> ~IsOpen(route.call)
    BY GuardsOfRoutes DEF Matched
<1> QED
    BY <1>1, <1>2, <1>3, <1>4, Zenon

-----------------------------------------------------------------------------
(* The page.                                                                *)

\* An operation is in the document of its own service, under its own path.
LEMMA PathsOf ==
    ASSUME NEW s \in Svc
    PROVE  /\ DOMAIN SpecOf(s).paths = {PathOf(doc) : doc \in DocsOf(s)}
           /\ \A path \in DOMAIN SpecOf(s).paths :
                 /\ ServiceOf(path[1]) = s
                 /\ SpecOf(s).paths[path] = {doc \in DocsOf(s) : PathOf(doc) = path}
BY DEF SpecOf, DocsOf, PathOf

LEMMA NamesOf ==
    ASSUME NEW s \in Svc
    PROVE  /\ DOMAIN SpecOf(s).schemas = SchemasOf(s)
           /\ \A name \in SchemasOf(s) : SpecOf(s).schemas[name] = s
           /\ DOMAIN SpecOf(s).schemes = {SchemeOf(s)}
BY DEF SpecOf

LEMMA SchemasApart ==
    /\ SchemasOf("user-service") \cap SchemasOf("product-management") = {}
    /\ SchemasOf("user-service") \cap SchemasOf("cart-service") = {}
    /\ SchemasOf("product-management") \cap SchemasOf("cart-service") = {}
<1>1. /\ UserSchemas \cap ProductSchemas = {}
      /\ UserSchemas \cap CartSchemas = {}
      /\ ProductSchemas \cap CartSchemas = {}
    BY DEF UserSchemas, ProductSchemas, CartSchemas
<1> QED
    BY <1>1, Schemas, Zenon

\* What a request that found nothing, or something, brings to the page.
LEMMA FoundSpec ==
    ASSUME NEW s \in Svc, fetch[s] = "spec"
    PROVE  Found(s) = SpecOf(s)
BY DEF Found

LEMMA FoundNothing ==
    ASSUME NEW s \in Svc, fetch[s] # "spec"
    PROVE  DOMAIN Found(s).paths = {} /\ DOMAIN Found(s).schemas = {}
BY DEF Found, NoSpec, Nothing

\* Names of different services, whether or not the services were there.
LEMMA PartsApart ==
    /\ \A s, t \in Svc : s # t => DOMAIN Found(s).paths \cap DOMAIN Found(t).paths = {}
    /\ \A s, t \in Svc : s # t => DOMAIN Found(s).schemas \cap DOMAIN Found(t).schemas = {}
<1>1. ASSUME NEW s \in Svc
      PROVE  /\ \A path \in DOMAIN Found(s).paths : ServiceOf(path[1]) = s
             /\ DOMAIN Found(s).schemas \subseteq SchemasOf(s)
  <2>1. CASE fetch[s] = "spec"
    <3>1. Found(s) = SpecOf(s)
        BY <2>1, FoundSpec
    <3>2. /\ \A path \in DOMAIN SpecOf(s).paths : ServiceOf(path[1]) = s
          /\ DOMAIN SpecOf(s).schemas \subseteq SchemasOf(s)
        BY PathsOf, NamesOf
    <3> QED
        BY <3>1, <3>2, Zenon
  <2>2. CASE fetch[s] # "spec"
    <3>1. DOMAIN Found(s).paths = {} /\ DOMAIN Found(s).schemas = {}
        BY <2>2, FoundNothing
    <3> QED
        BY <3>1
  <2> QED
      BY <2>1, <2>2
<1>2. ASSUME NEW s \in Svc, NEW t \in Svc, s # t
      PROVE  DOMAIN Found(s).schemas \cap DOMAIN Found(t).schemas = {}
  <2>1. SchemasOf(s) \cap SchemasOf(t) = {}
      BY <1>2, SchemasApart DEF Svc
  <2> QED
      BY <1>1, <2>1
<1> QED
    BY <1>1, <1>2

\* What the merged document holds of the services that were there.
HoldsParts(spec, found) ==
    /\ DOMAIN spec.paths = UNION {DOMAIN SpecOf(s).paths : s \in found}
    /\ \A s \in found : \A path \in DOMAIN SpecOf(s).paths :
          spec.paths[path] = SpecOf(s).paths[path]
    /\ \A s \in found : \A name \in SchemasOf(s) :
          name \in DOMAIN spec.schemas /\ spec.schemas[name] = s
    /\ \A s \in found : SchemeOf(s) \in DOMAIN spec.schemes

LEMMA MergedParts == HoldsParts(Merged, {s \in Svc : fetch[s] = "spec"})
<1>1. PICK user : user = Found("user-service")
    OBVIOUS
<1>2. PICK product : product = Found("product-management")
    OBVIOUS
<1>3. PICK cart : cart = Found("cart-service")
    OBVIOUS
<1>4. PICK spec : spec = Merged
    OBVIOUS
<1>5. PICK found : found = {s \in Svc : fetch[s] = "spec"}
    OBVIOUS
<1>6. Svc = {"user-service", "product-management", "cart-service"}
    BY DEF Svc
<1>7. /\ spec.paths = Assign(Assign(Assign(Nothing, user.paths), product.paths), cart.paths)
      /\ spec.schemas
            = Assign(Assign(Assign(Nothing, user.schemas), product.schemas), cart.schemas)
      /\ spec.schemes
            = Assign(Assign(Assign(Nothing, user.schemes), product.schemes), cart.schemes)
    BY <1>1, <1>2, <1>3, <1>4 DEF Merged
<1>8. /\ NamesOfThree(spec.paths, user.paths, product.paths, cart.paths)
      /\ NamesOfThree(spec.schemas, user.schemas, product.schemas, cart.schemas)
      /\ NamesOfThree(spec.schemes, user.schemes, product.schemes, cart.schemes)
    BY <1>7, AssignedThree, Zenon
<1>9. ValuesOfThree(spec.paths, user.paths, product.paths, cart.paths)
  <2>1. /\ DOMAIN user.paths \cap DOMAIN product.paths = {}
        /\ DOMAIN user.paths \cap DOMAIN cart.paths = {}
        /\ DOMAIN product.paths \cap DOMAIN cart.paths = {}
      BY <1>1, <1>2, <1>3, <1>6, PartsApart
  <2> QED
      BY <1>7, <2>1, AssignedThree, Zenon
<1>10. ValuesOfThree(spec.schemas, user.schemas, product.schemas, cart.schemas)
  <2>1. /\ DOMAIN user.schemas \cap DOMAIN product.schemas = {}
        /\ DOMAIN user.schemas \cap DOMAIN cart.schemas = {}
        /\ DOMAIN product.schemas \cap DOMAIN cart.schemas = {}
      BY <1>1, <1>2, <1>3, <1>6, PartsApart
  <2> QED
      BY <1>7, <2>1, AssignedThree, Zenon
<1>11. \A s \in found : s \in Svc /\ Found(s) = SpecOf(s)
    BY <1>5, FoundSpec
<1>12. \A s \in Svc \ found : DOMAIN Found(s).paths = {}
    BY <1>5, FoundNothing
<1>13. DOMAIN spec.paths = UNION {DOMAIN SpecOf(s).paths : s \in found}
  <2>1. DOMAIN spec.paths = UNION {DOMAIN Found(s).paths : s \in Svc}
      BY <1>1, <1>2, <1>3, <1>6, <1>8 DEF NamesOfThree
  <2>2. found \subseteq Svc
      BY <1>11
  <2> QED
      BY <1>11, <1>12, <2>1, <2>2
<1>14. \A s \in found : \A path \in DOMAIN SpecOf(s).paths :
           spec.paths[path] = SpecOf(s).paths[path]
    BY <1>1, <1>2, <1>3, <1>6, <1>9, <1>11 DEF ValuesOfThree
<1>15. \A s \in found : \A name \in SchemasOf(s) :
           name \in DOMAIN spec.schemas /\ spec.schemas[name] = s
  <2>1. \A s \in Svc : DOMAIN Found(s).schemas \subseteq DOMAIN spec.schemas
      BY <1>1, <1>2, <1>3, <1>6, <1>8 DEF NamesOfThree
  <2>2. \A s \in Svc : \A name \in DOMAIN Found(s).schemas :
            spec.schemas[name] = Found(s).schemas[name]
      BY <1>1, <1>2, <1>3, <1>6, <1>10 DEF ValuesOfThree
  <2> QED
      BY <1>11, <2>1, <2>2, NamesOf
<1>16. \A s \in found : SchemeOf(s) \in DOMAIN spec.schemes
  <2>1. \A s \in Svc : DOMAIN Found(s).schemes \subseteq DOMAIN spec.schemes
      BY <1>1, <1>2, <1>3, <1>6, <1>8 DEF NamesOfThree
  <2> QED
      BY <1>11, <2>1, NamesOf
<1>17. HoldsParts(spec, found)
    BY <1>13, <1>14, <1>15, <1>16 DEF HoldsParts
<1> QED
    BY <1>4, <1>5, <1>17

\* A page made of whichever documents were found is faithful to them.
LEMMA MergeIsFaithful ==
    ASSUME MergeSpecs
    PROVE  PageIsFaithful'
<1>1. PICK found : found = {s \in Svc : fetch[s] = "spec"}
    OBVIOUS
<1>2. PICK spec : spec = Merged
    OBVIOUS
<1>3. page'.spec = spec /\ page'.found = found
    BY <1>1, <1>2 DEF MergeSpecs
<1>4. /\ DOMAIN spec.paths = UNION {DOMAIN SpecOf(s).paths : s \in found}
      /\ \A s \in found : \A path \in DOMAIN SpecOf(s).paths :
            spec.paths[path] = SpecOf(s).paths[path]
      /\ \A s \in found : \A name \in SchemasOf(s) :
            name \in DOMAIN spec.schemas /\ spec.schemas[name] = s
      /\ \A s \in found : SchemeOf(s) \in DOMAIN spec.schemes
  <2>1. HoldsParts(spec, found)
      BY <1>1, <1>2, MergedParts
  <2> QED
      BY <2>1 DEF HoldsParts
<1>5. found \subseteq Svc
    BY <1>1
<1>6. PICK shown : shown = UNION {spec.paths[p] : p \in DOMAIN spec.paths}
    OBVIOUS
<1>7. Shown' = shown
    BY <1>3, <1>6 DEF Shown
<1>8. ASSUME NEW doc \in shown PROVE \E s \in found : doc \in DocsOf(s)
  <2>1. PICK p \in DOMAIN spec.paths : doc \in spec.paths[p]
      BY <1>6
  <2>2. PICK s \in found : p \in DOMAIN SpecOf(s).paths
      BY <1>4
  <2>3. doc \in SpecOf(s).paths[p]
      BY <1>4, <2>1, <2>2
  <2> QED
      BY <1>5, <2>2, <2>3, PathsOf
<1>9. ASSUME NEW s \in found, NEW doc \in DocsOf(s) PROVE doc \in shown
  <2>1. PathOf(doc) \in DOMAIN SpecOf(s).paths /\ doc \in SpecOf(s).paths[PathOf(doc)]
      BY <1>5, PathsOf
  <2>2. PathOf(doc) \in DOMAIN spec.paths /\ doc \in spec.paths[PathOf(doc)]
      BY <1>4, <2>1
  <2> QED
      BY <1>6, <2>2
<1>10. shown = UNION {DocsOf(s) : s \in found}
    BY <1>8, <1>9
<1>11. ASSUME NEW doc \in shown
       PROVE  /\ doc.scheme \in {"none"} \cup DOMAIN spec.schemes
              /\ \A name \in doc.refs : /\ name \in DOMAIN spec.schemas
                                        /\ spec.schemas[name] = ServiceOf(doc.call.base)
  <2>1. PICK s \in found : doc \in DocsOf(s)
      BY <1>8
  <2>2. doc \in Documented /\ ServiceOf(doc.call.base) = s
      BY <2>1 DEF DocsOf
  <2>3. doc.scheme \in {"none", SchemeOf(s)} /\ doc.refs \subseteq SchemasOf(s)
      BY <2>2, Documents DEF Consistent
  <2> QED
      BY <1>4, <2>2, <2>3
<1> QED
    BY <1>3, <1>7, <1>10, <1>11 DEF PageIsFaithful

\* Whichever documents the page is made of, it shows their operations and no
\* other, and no name of one service stands for one of another.
THEOREM PagesAreFaithful == DocsSpec => []PageIsFaithful
<1>1. DocsInit => PageIsFaithful
    BY DEF DocsInit, NoPage, NoSpec, Nothing, PageIsFaithful, Shown
<1>2. PageIsFaithful /\ [DocsNext]_docsVars => PageIsFaithful'
  <2> SUFFICES ASSUME PageIsFaithful, [DocsNext]_docsVars PROVE PageIsFaithful'
      OBVIOUS
  <2>1. CASE MergeSpecs
      BY <2>1, MergeIsFaithful
  <2>2. CASE ~MergeSpecs
    <3>1. page' = page
        BY <2>2 DEF DocsNext, StartService, ListenOnce, StartFails, StopService, Move,
                    Fetched, FetchBreaks, AskDocs
    <3> QED
        BY <3>1 DEF PageIsFaithful, Shown
  <2> QED
      BY <2>1, <2>2
<1> QED
    BY <1>1, <1>2, PTL DEF DocsSpec

\* Whatever a gateway makes of a call the page shows, it ends at its own
\* operation or at one that only reads, and meets a guard where the page says so.
THEOREM CallsGoAstrayOnlyToReads == DocsSpec => []StrayCallsOnlyRead
<1>1. PageIsFaithful => StrayCallsOnlyRead
  <2> SUFFICES ASSUME PageIsFaithful, NEW arrival \in Arrivals(Shown)
               PROVE  IF Serves(arrival.route, arrival.doc.call)
                      THEN arrival.route.guard.login <=> arrival.doc.scheme # "none"
                      ELSE arrival.route.call.method = "GET"
      BY Zenon DEF StrayCallsOnlyRead
  <2>1. PICK gateway \in Gateway, doc \in Shown :
           \E route \in RoutesOf(gateway, doc.call) : arrival = [doc |-> doc, route |-> route]
      BY DEF Arrivals
  <2>2. arrival.doc = doc /\ arrival.route \in RoutesOf(gateway, doc.call)
      BY <2>1
  <2>3. doc \in Documented
      BY DEF PageIsFaithful, DocsOf
  <2> QED
      BY <2>2, <2>3, StrayCallReads, GuardIsDocumented, Zenon
<1> QED
    BY <1>1, PagesAreFaithful, PTL
=============================================================================
