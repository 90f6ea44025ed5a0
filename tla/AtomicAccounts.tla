--------------------------- MODULE AtomicAccounts ---------------------------
(***************************************************************************)
(* What the user service promises: every operation acts on an account at   *)
(* once.  Roles are only added, the first account is an administrator, a   *)
(* verified account stays verified, and an operation on one session leaves *)
(* those with another token alone.                                         *)
(***************************************************************************)
EXTENDS Naturals

CONSTANTS User, Founder, Request, MaxClock

VARIABLE accounts

Role == {"admin", "seller", "buyer"}
Time == 0..MaxClock
Link == Request \cup {"none"}
Nobody == [roles |-> {}, verified |-> FALSE, link |-> "none", sessions |-> {}]

Known(u) == accounts[u] # Nobody

Administered == \E u \in User : "admin" \in accounts[u].roles

Becomes(u, account) == accounts' = [accounts EXCEPT ![u] = account]

Register(u) ==
    /\ ~Known(u)
    /\ \E link \in Request :
           Becomes(u, [roles |-> IF Administered THEN {"buyer"} ELSE Role,
                       verified |-> FALSE, link |-> link, sessions |-> {}])

NewLink(u) ==
    /\ Known(u)
    /\ \E link \in Request : Becomes(u, [accounts[u] EXCEPT !.link = link])

Verify(u) ==
    /\ Known(u) /\ accounts[u].link # "none"
    /\ Becomes(u, [accounts[u] EXCEPT !.verified = TRUE])

Login(u) ==
    /\ accounts[u].verified
    /\ \E id \in Request, token \in Time :
           /\ \A s \in accounts[u].sessions : s.id # id
           /\ Becomes(u, [accounts[u] EXCEPT !.sessions = @ \cup {[id |-> id, hash |-> token]}])

Logout(u) ==
    \E token \in Time :
        Becomes(u, [accounts[u] EXCEPT !.sessions = {s \in @ : s.hash # token}])

\* A refresh keeps every session.
Refresh(u) ==
    \E token, new \in Time :
        Becomes(u, [accounts[u] EXCEPT !.sessions =
                        {IF s.hash = token THEN [s EXCEPT !.hash = new] ELSE s : s \in @}])

Promote(u) ==
    /\ Known(u) /\ Administered
    /\ \E role \in {"seller", "admin"} :
           Becomes(u, [accounts[u] EXCEPT !.roles = @ \cup {role}])

Init ==
    accounts \in {[u \in User |-> Nobody],
                  [u \in User |->
                       IF u = Founder
                       THEN [roles |-> Role, verified |-> TRUE, link |-> "none",
                             sessions |-> {[id |-> "inherited", hash |-> 0]}]
                       ELSE Nobody]}

Next ==
    \E u \in User : \/ Register(u) \/ NewLink(u) \/ Verify(u) \/ Login(u)
                    \/ Logout(u) \/ Refresh(u) \/ Promote(u)

Spec == Init /\ [][Next]_accounts
=============================================================================
