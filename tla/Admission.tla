----------------------------- MODULE Admission -----------------------------
(***************************************************************************)
(* How a request gets as far as a handler, against accounts that change    *)
(* while it is on its way: the chains router.Register installs, over       *)
(* AuthMiddleware and RBACMiddleware, and the two operations of            *)
(* AuthService, Login and Parse.                                           *)
(*                                                                         *)
(*   login       limiter -> Login                                          *)
(*   protected   Parse -> limiter, if the route has one -> roles -> handler *)
(*                                                                         *)
(* A limiter lets a request pass or answers it 429, as it likes; module    *)
(* RateLimiter says when.  The program never changes an account once it is *)
(* seeded: administrators do, in the database.                             *)
(***************************************************************************)
EXTENDS Workflow, Naturals, FiniteSets

CONSTANTS Users,        \* accounts
          FirstRole,    \* FirstRole[u] is the role account u is created with
          AccountRoles, \* bound: the roles an administrator gives an account
          Routes,       \* protected routes of the instance
          TokenLife,    \* AccessTokenTTL
          Requests,     \* request slots
          MaxTokens,    \* bound: no login starts once so many tokens are signed
          MaxTime       \* bound on the clock

-----------------------------------------------------------------------------
(* What the routers install. *)

LimitedRoutes == {"observation_import", "conflict_detection"}

\* RBACMiddleware's argument; a listing has none and admits every account.
AuditRoles == {"auditor", "reviewer", "admin"}

RouteRoles ==
    [ observation_import |-> FieldRoles, conflict_detection |-> DetectionRoles,
      audit |-> AuditRoles, parcels |-> Roles ]

ASSUME AdmissionAssumption ==
    /\ Routes \subseteq DOMAIN RouteRoles
    /\ FirstRole \in [Users -> Roles]
    /\ AccountRoles \subseteq Roles
    /\ TokenLife \in Nat \ {0}
    /\ MaxTokens \in Nat
    /\ MaxTime \in Nat

-----------------------------------------------------------------------------
VARIABLES clock,      \* time.Now, in the seconds a token's times are cut to
          accounts,   \* table users
          tokens,     \* tokens signed so far; clients keep them over restarts
          requests    \* requests in flight

vars == <<clock, accounts, tokens, requests>>

Account == [active : BOOLEAN, role : Roles]
Token == [user : Users, role : Roles, expiresAt : Nat]

\* What a goroutine knows: what came with the request, the role it goes by, and,
\* as history, when it arrived and the roles its account has held since then while
\* it was active.
Idle == [phase |-> "idle"]
Answered == [phase : {"answered"}, status : {200, 401, 403, 429, 500}]
LoginRequest ==
    [phase : {"limiter", "lookup"}, route : {"login"}, user : Users, password : BOOLEAN]
Signing == [phase : {"signing"}, user : Users, role : Roles]
Call ==
    [phase : {"verifying", "account", "limiter", "handling"}, route : Routes,
     user : Users, role : Roles, expiresAt : Nat, arrived : Nat, held : SUBSET Roles]

Request == {Idle} \cup Answered \cup LoginRequest \cup Signing \cup Call

Init ==
    /\ clock = 0
    /\ accounts = [u \in Users |-> [active |-> TRUE, role |-> FirstRole[u]]]
    /\ tokens = {}
    /\ requests = [r \in Requests |-> Idle]

-----------------------------------------------------------------------------
Become(r, request) ==
    /\ requests' = [requests EXCEPT ![r] = request]
    /\ UNCHANGED <<clock, accounts, tokens>>

Answer(r, status) == Become(r, [phase |-> "answered", status |-> status])

RolesHeld(account) == IF account.active THEN {account.role} ELSE {}

\* POST /auth/login
ArriveLogin(r, user, password) ==
    /\ requests[r].phase = "idle"
    /\ Cardinality(tokens) < MaxTokens
    /\ Become(r, [phase |-> "limiter", route |-> "login", user |-> user,
                  password |-> password])

\* A request with a token that Login signed.
ArriveCall(r, route, token) ==
    /\ requests[r].phase = "idle"
    /\ Become(r, [phase |-> "verifying", route |-> route, user |-> token.user,
                  role |-> token.role, expiresAt |-> token.expiresAt,
                  arrived |-> clock, held |-> RolesHeld(accounts[token.user])])

\* Parse, first half: signature and expiry.
VerifyToken(r) ==
    /\ requests[r].phase = "verifying"
    /\ IF clock < requests[r].expiresAt
       THEN Become(r, [requests[r] EXCEPT !.phase = "account"])
       ELSE Answer(r, 401)

\* RBACMiddleware, and the handler behind it.
CheckRole(r, role) ==
    IF role \in RouteRoles[requests[r].route]
    THEN Become(r, [requests[r] EXCEPT !.phase = "handling", !.role = role])
    ELSE Answer(r, 403)

\* Parse, second half: the account as it is now, whatever the token says of it.
\* Any error of the database is taken for an inactive account.
ReadAccount_TokenRole(r) ==
    /\ requests[r].phase = "account"
    /\ \/ /\ accounts[requests[r].user].active
          /\ IF requests[r].route \in LimitedRoutes
             THEN Become(r, [requests[r] EXCEPT !.phase = "limiter"])
             ELSE CheckRole(r, requests[r].role)
       \/ Answer(r, 401)

ReadAccount(r) ==
    LET account == accounts[requests[r].user]
    IN  /\ requests[r].phase = "account"
        /\ \/ /\ account.active
              /\ IF requests[r].route \in LimitedRoutes
                 THEN Become(r, [requests[r] EXCEPT !.phase = "limiter",
                                                    !.role = account.role])
                 ELSE CheckRole(r, account.role)
           \/ Answer(r, 401)

\* RateLimitMiddleware, before the role check of a protected route.
PassLimiter(r) ==
    /\ requests[r].phase = "limiter"
    /\ \/ Answer(r, 429)
       \/ /\ requests[r].route = "login"
          /\ Become(r, [requests[r] EXCEPT !.phase = "lookup"])
       \/ /\ requests[r].route # "login"
          /\ CheckRole(r, requests[r].role)

\* Login: the active account of that name, and the password compared.
LookUpAccount(r) ==
    LET account == accounts[requests[r].user]
    IN  /\ requests[r].phase = "lookup"
        /\ \/ /\ account.active /\ requests[r].password
              /\ Become(r, [phase |-> "signing", user |-> requests[r].user,
                            role |-> account.role])
           \/ /\ ~(account.active /\ requests[r].password)
              /\ Answer(r, 401)
           \/ Answer(r, 500)

\* Login: a token for the account as it was read, living from now.
SignToken(r) ==
    /\ requests[r].phase = "signing"
    /\ tokens' = tokens \cup {[user |-> requests[r].user, role |-> requests[r].role,
                               expiresAt |-> clock + TokenLife]}
    /\ requests' = [requests EXCEPT ![r] = [phase |-> "answered", status |-> 200]]
    /\ UNCHANGED <<clock, accounts>>

FinishHandling(r) == requests[r].phase = "handling" /\ Answer(r, 200)

Depart(r) == requests[r].phase = "answered" /\ Become(r, Idle)

-----------------------------------------------------------------------------
Tick ==
    /\ clock < MaxTime
    /\ clock' = clock + 1
    /\ UNCHANGED <<accounts, tokens, requests>>

\* An administrator deactivates an account, reactivates it or gives it a role.
ChangeAccount(u, account) ==
    /\ account # accounts[u]
    /\ accounts' = [accounts EXCEPT ![u] = account]
    /\ requests' = [r \in Requests |->
           IF requests[r] \in Call /\ requests[r].user = u
           THEN [requests[r] EXCEPT !.held = @ \cup RolesHeld(account)]
           ELSE requests[r]]
    /\ UNCHANGED <<clock, tokens>>

\* The server stops and starts; the secret that tokens are signed with stays.
Restart ==
    /\ requests' = [r \in Requests |-> Idle]
    /\ UNCHANGED <<clock, accounts, tokens>>

Arrive(r) ==
    \/ \E user \in Users, password \in BOOLEAN : ArriveLogin(r, user, password)
    \/ \E route \in Routes, token \in tokens : ArriveCall(r, route, token)

Step(r) ==
    \/ VerifyToken(r)
    \/ ReadAccount(r)
    \/ PassLimiter(r)
    \/ LookUpAccount(r)
    \/ SignToken(r)
    \/ FinishHandling(r)
    \/ Depart(r)

Next ==
    \/ \E r \in Requests : Arrive(r) \/ Step(r)
    \/ \E u \in Users, active \in BOOLEAN, role \in AccountRoles :
           ChangeAccount(u, [active |-> active, role |-> role])
    \/ Tick
    \/ Restart

Spec == Init /\ [][Next]_vars

-----------------------------------------------------------------------------
(* Properties. *)

TypeOK ==
    /\ clock \in Nat
    /\ accounts \in [Users -> Account]
    /\ tokens \subseteq Token
    /\ requests \in [Requests -> Request]

\* Deactivation and demotion take effect with the next request, whatever the token
\* says, whenever it was signed, and however long the request waits on its way: a
\* request in its handler goes by a role that its route admits and that its account
\* has held, while active, since the request arrived, and its token had not expired then.
HandledWithAuthority ==
    \A r \in Requests : requests[r].phase = "handling" =>
        /\ requests[r].role \in requests[r].held \cap RouteRoles[requests[r].route]
        /\ requests[r].arrived < requests[r].expiresAt
=============================================================================
