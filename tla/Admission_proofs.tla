-------------------------- MODULE Admission_proofs --------------------------
(***************************************************************************)
(* Theorems about Admission, for any accounts, routes, token lifetime and  *)
(* number of requests in flight.                                           *)
(***************************************************************************)
EXTENDS Admission, TLAPS

(* What a phase says of the request that is in it. *)

LEMMA LoginIsNoRoute == "login" \notin Routes
  <1>1. "login" \notin DOMAIN RouteRoles
    BY DEF RouteRoles
  <1>2. QED
    BY <1>1, AdmissionAssumption

LEMMA CallOfPhase ==
    ASSUME NEW q \in Request,
           \/ q.phase \in {"verifying", "account", "handling"}
           \/ q.phase = "limiter" /\ q.route # "login"
    PROVE  q \in Call
  BY DEF Request, Idle, Answered, LoginRequest, Signing, Call

LEMMA LoginOfPhase ==
    ASSUME NEW q \in Request,
           \/ q.phase = "lookup"
           \/ q.phase = "limiter" /\ q.route = "login"
    PROVE  q \in LoginRequest
  BY LoginIsNoRoute DEF Request, Idle, Answered, LoginRequest, Signing, Call

LEMMA SigningOfPhase ==
    ASSUME NEW q \in Request, q.phase = "signing"
    PROVE  q \in Signing
  BY DEF Request, Idle, Answered, LoginRequest, Signing, Call

LEMMA NoCall ==
    /\ Idle \notin Call
    /\ \A q \in Answered : q \notin Call
    /\ \A q \in LoginRequest : q \notin Call
    /\ \A q \in Signing : q \notin Call
  BY LoginIsNoRoute DEF Idle, Answered, LoginRequest, Signing, Call

-----------------------------------------------------------------------------
(* The inductive invariant: what a call on its way can rely on.  Every role its  *)
(* account holds now is among those counted as held; a token that was verified   *)
(* had not expired on arrival; and a role that was read is one that was held.    *)
CallSound(q) ==
    q \in Call =>
        /\ RolesHeld(accounts[q.user]) \subseteq q.held
        /\ q.arrived <= clock
        /\ q.phase # "verifying" => q.arrived < q.expiresAt
        /\ q.phase \in {"limiter", "handling"} => q.role \in q.held
        /\ q.phase = "handling" => q.role \in RouteRoles[q.route]

CallsSound == \A r \in Requests : CallSound(requests[r])

Inv == TypeOK /\ CallsSound

LEMMA InitInv == Init => Inv
  <1>1. Init => TypeOK
    BY AdmissionAssumption DEF Init, TypeOK, Account, Request
  <1>2. Init => CallsSound
    BY NoCall DEF Init, CallsSound, CallSound
  <1>3. QED
    BY <1>1, <1>2 DEF Inv

(* A step that only moves one request has that request to answer for. *)
LEMMA BecomeInv ==
    ASSUME Inv, NEW r \in Requests, NEW q \in Request, Become(r, q), CallSound(q)
    PROVE  Inv'
  <1>1. requests' \in [Requests -> Request]
    BY DEF Inv, TypeOK, Become
  <1>2. TypeOK'
    BY <1>1 DEF Inv, TypeOK, Become
  <1>3. ASSUME NEW s \in Requests
        PROVE  CallSound(requests[s])'
    <2>1. requests'[s] = IF s = r THEN q ELSE requests[s]
      BY DEF Inv, TypeOK, Become
    <2>2. CallSound(requests[s])
      BY DEF Inv, CallsSound
    <2>3. clock' = clock /\ accounts' = accounts
      BY DEF Become
    <2>4. CASE s = r
      BY <2>1, <2>3, <2>4 DEF CallSound
    <2>5. CASE s # r
      BY <2>1, <2>2, <2>3, <2>5 DEF CallSound
    <2>6. QED
      BY <2>4, <2>5
  <1>4. QED
    BY <1>2, <1>3 DEF Inv, CallsSound

LEMMA AnswerInv ==
    ASSUME Inv, NEW r \in Requests, NEW status \in {200, 401, 403, 429, 500},
           Answer(r, status)
    PROVE  Inv'
  <1>1. [phase |-> "answered", status |-> status] \in Answered
    BY DEF Answered
  <1>2. CallSound([phase |-> "answered", status |-> status])
    BY <1>1, NoCall DEF CallSound
  <1>3. QED
    BY <1>1, <1>2, BecomeInv DEF Answer, Request

(* The role a call goes by when it reaches the role check is one it has held. *)
LEMMA CheckRoleInv ==
    ASSUME Inv, NEW r \in Requests, NEW role \in Roles,
           requests[r] \in Call, requests[r].phase # "verifying",
           role \in requests[r].held, CheckRole(r, role)
    PROVE  Inv'
  <1> DEFINE q == [requests[r] EXCEPT !.phase = "handling", !.role = role]
  <1>1. CASE role \in RouteRoles[requests[r].route]
    <2>1. CallSound(requests[r])
      BY DEF Inv, CallsSound
    <2>2. q \in Call /\ q.role = role /\ q.user = requests[r].user
            /\ q.route = requests[r].route /\ q.held = requests[r].held
            /\ q.arrived = requests[r].arrived /\ q.expiresAt = requests[r].expiresAt
      BY DEF Call
    <2>3. CallSound(q)
      BY <1>1, <2>1, <2>2 DEF CallSound
    <2>4. Become(r, q)
      BY <1>1 DEF CheckRole
    <2>5. QED
      BY <2>2, <2>3, <2>4, BecomeInv DEF Request
  <1>2. CASE role \notin RouteRoles[requests[r].route]
    BY <1>2, AnswerInv DEF CheckRole
  <1>3. QED
    BY <1>1, <1>2

LEMMA ArriveInv ==
    ASSUME Inv, NEW r \in Requests, Arrive(r)
    PROVE  Inv'
  <1>1. CASE \E user \in Users, password \in BOOLEAN : ArriveLogin(r, user, password)
    <2>1. PICK user \in Users, password \in BOOLEAN : ArriveLogin(r, user, password)
      BY <1>1
    <2> DEFINE q == [phase |-> "limiter", route |-> "login", user |-> user,
                     password |-> password]
    <2>2. q \in LoginRequest
      BY DEF LoginRequest
    <2>3. CallSound(q)
      BY <2>2, NoCall DEF CallSound
    <2>4. QED
      BY <2>1, <2>2, <2>3, BecomeInv DEF ArriveLogin, Request
  <1>2. CASE \E route \in Routes, token \in tokens : ArriveCall(r, route, token)
    <2>1. PICK route \in Routes, token \in tokens : ArriveCall(r, route, token)
      BY <1>2
    <2> DEFINE q == [phase |-> "verifying", route |-> route, user |-> token.user,
                     role |-> token.role, expiresAt |-> token.expiresAt,
                     arrived |-> clock, held |-> RolesHeld(accounts[token.user])]
    <2>2. token \in Token
      BY DEF Inv, TypeOK
    <2>3. RolesHeld(accounts[token.user]) \subseteq Roles
      BY <2>2 DEF Inv, TypeOK, Token, Account, RolesHeld
    <2>4. q \in Call
      BY <2>2, <2>3 DEF Inv, TypeOK, Token, Call
    <2>5. CallSound(q)
      BY DEF Inv, TypeOK, CallSound
    <2>6. QED
      BY <2>1, <2>4, <2>5, BecomeInv DEF ArriveCall, Request
  <1>3. QED
    BY <1>1, <1>2 DEF Arrive

LEMMA VerifyTokenInv ==
    ASSUME Inv, NEW r \in Requests, VerifyToken(r)
    PROVE  Inv'
  <1>1. requests[r] \in Call
    BY CallOfPhase DEF Inv, TypeOK, VerifyToken
  <1>2. CASE clock < requests[r].expiresAt
    <2> DEFINE q == [requests[r] EXCEPT !.phase = "account"]
    <2>1. CallSound(requests[r])
      BY DEF Inv, CallsSound
    <2>2. requests[r].role \in Roles
      BY <1>1 DEF Call
    <2>3. q \in Call /\ q.phase = "account" /\ q.user = requests[r].user
            /\ q.held = requests[r].held /\ q.arrived = requests[r].arrived
            /\ q.expiresAt = requests[r].expiresAt
      BY <1>1, <2>2 DEF Call
    <2>4. /\ clock \in Nat /\ requests[r].arrived \in Nat /\ requests[r].expiresAt \in Nat
      BY <1>1 DEF Inv, TypeOK, Call
    <2>5. CallSound(q)
      BY <1>1, <1>2, <2>1, <2>3, <2>4 DEF CallSound
    <2>6. QED
      BY <1>2, <2>3, <2>5, BecomeInv DEF VerifyToken, Request
  <1>3. CASE ~(clock < requests[r].expiresAt)
    BY <1>3, AnswerInv DEF VerifyToken
  <1>4. QED
    BY <1>2, <1>3

LEMMA ReadAccountInv ==
    ASSUME Inv, NEW r \in Requests, ReadAccount(r)
    PROVE  Inv'
  <1> DEFINE account == accounts[requests[r].user]
             q == [requests[r] EXCEPT !.phase = "limiter", !.role = account.role]
  <1>1. requests[r] \in Call /\ requests[r].phase = "account"
    BY CallOfPhase DEF Inv, TypeOK, ReadAccount
  <1>2. account \in Account /\ account.role \in Roles
    BY <1>1 DEF Inv, TypeOK, Call, Account
  <1>3. CallSound(requests[r])
    BY DEF Inv, CallsSound
  <1>4. CASE account.active /\ requests[r].route \in LimitedRoutes /\ Become(r, q)
    <2>1. account.role \in requests[r].held
      BY <1>1, <1>3, <1>4 DEF CallSound, RolesHeld
    <2>2. q \in Call /\ q.phase = "limiter" /\ q.role = account.role
            /\ q.user = requests[r].user /\ q.held = requests[r].held
            /\ q.arrived = requests[r].arrived /\ q.expiresAt = requests[r].expiresAt
      BY <1>1, <1>2 DEF Call
    <2>3. CallSound(q)
      BY <1>1, <1>3, <2>1, <2>2 DEF CallSound
    <2>4. QED
      BY <1>4, <2>2, <2>3, BecomeInv DEF Request
  <1>5. CASE account.active /\ CheckRole(r, account.role)
    <2>1. account.role \in requests[r].held
      BY <1>1, <1>3, <1>5 DEF CallSound, RolesHeld
    <2>2. QED
      BY <1>1, <1>2, <1>5, <2>1, CheckRoleInv
  <1>6. CASE Answer(r, 401)
    BY <1>6, AnswerInv
  <1>7. QED
    BY <1>4, <1>5, <1>6 DEF ReadAccount

LEMMA PassLimiterInv ==
    ASSUME Inv, NEW r \in Requests, PassLimiter(r)
    PROVE  Inv'
  <1>1. CASE Answer(r, 429)
    BY <1>1, AnswerInv
  <1>2. CASE requests[r].route = "login" /\ Become(r, [requests[r] EXCEPT !.phase = "lookup"])
    <2> DEFINE q == [requests[r] EXCEPT !.phase = "lookup"]
    <2>1. requests[r] \in LoginRequest
      BY <1>2, LoginOfPhase DEF Inv, TypeOK, PassLimiter
    <2>2. q \in LoginRequest
      BY <2>1 DEF LoginRequest
    <2>3. CallSound(q)
      BY <2>2, NoCall DEF CallSound
    <2>4. QED
      BY <1>2, <2>2, <2>3, BecomeInv DEF Request
  <1>3. CASE requests[r].route # "login" /\ CheckRole(r, requests[r].role)
    <2>1. requests[r] \in Call /\ requests[r].phase = "limiter"
      BY <1>3, CallOfPhase DEF Inv, TypeOK, PassLimiter
    <2>2. requests[r].role \in requests[r].held
      BY <2>1 DEF Inv, CallsSound, CallSound
    <2>3. requests[r].role \in Roles
      BY <2>1 DEF Call
    <2>4. QED
      BY <1>3, <2>1, <2>2, <2>3, CheckRoleInv
  <1>4. QED
    BY <1>1, <1>2, <1>3 DEF PassLimiter

LEMMA LoginInv ==
    ASSUME Inv, NEW r \in Requests, LookUpAccount(r) \/ SignToken(r)
    PROVE  Inv'
  <1>1. CASE LookUpAccount(r)
    <2> DEFINE account == accounts[requests[r].user]
               q == [phase |-> "signing", user |-> requests[r].user, role |-> account.role]
    <2>1. requests[r] \in LoginRequest
      BY <1>1, LoginOfPhase DEF Inv, TypeOK, LookUpAccount
    <2>2. q \in Signing
      BY <2>1 DEF Inv, TypeOK, LoginRequest, Account, Signing
    <2>3. CallSound(q)
      BY <2>2, NoCall DEF CallSound
    <2>4. CASE Become(r, q)
      BY <2>2, <2>3, <2>4, BecomeInv DEF Request
    <2>5. CASE Answer(r, 401) \/ Answer(r, 500)
      BY <2>5, AnswerInv
    <2>6. QED
      BY <1>1, <2>4, <2>5 DEF LookUpAccount
  <1>2. CASE SignToken(r)
    <2> DEFINE token == [user |-> requests[r].user, role |-> requests[r].role,
                         expiresAt |-> clock + TokenLife]
               q == [phase |-> "answered", status |-> 200]
    <2>1. requests[r] \in Signing
      BY <1>2, SigningOfPhase DEF Inv, TypeOK, SignToken
    <2>2. token \in Token
      BY <2>1, AdmissionAssumption DEF Inv, TypeOK, Signing, Token
    <2>3. q \in Answered
      BY DEF Answered
    <2>4. TypeOK'
      BY <1>2, <2>2, <2>3 DEF Inv, TypeOK, SignToken, Request
    <2>5. ASSUME NEW s \in Requests
          PROVE  CallSound(requests[s])'
      <3>1. requests'[s] = IF s = r THEN q ELSE requests[s]
        BY <1>2 DEF Inv, TypeOK, SignToken
      <3>2. CallSound(requests[s])
        BY DEF Inv, CallsSound
      <3>3. clock' = clock /\ accounts' = accounts
        BY <1>2 DEF SignToken
      <3>4. q \notin Call
        BY <2>3, NoCall
      <3>5. QED
        BY <3>1, <3>2, <3>3, <3>4 DEF CallSound
    <2>6. QED
      BY <2>4, <2>5 DEF Inv, CallsSound
  <1>3. QED
    BY <1>1, <1>2
LEMMA ChangeAccountInv ==
    ASSUME Inv, NEW u \in Users, NEW account \in Account, ChangeAccount(u, account)
    PROVE  Inv'
  <1>1. accounts' \in [Users -> Account]
    BY DEF Inv, TypeOK, ChangeAccount
  <1>2. RolesHeld(account) \subseteq Roles
    BY DEF RolesHeld, Account
  <1>3. ASSUME NEW s \in Requests
        PROVE  requests'[s] \in Request /\ CallSound(requests[s])'
    <2>1. CallSound(requests[s]) /\ requests[s] \in Request
      BY DEF Inv, TypeOK, CallsSound
    <2>2. CASE requests[s] \in Call /\ requests[s].user = u
      <3> DEFINE q == [requests[s] EXCEPT !.held = @ \cup RolesHeld(account)]
      <3>1. requests'[s] = q
        BY <2>2 DEF ChangeAccount
      <3>2. q.held = requests[s].held \cup RolesHeld(account)
        BY <2>2 DEF Call
      <3>3. q \in Call
        BY <1>2, <2>2 DEF Call
      <3>4. /\ q.user = u /\ q.arrived = requests[s].arrived
            /\ q.phase = requests[s].phase /\ q.expiresAt = requests[s].expiresAt
            /\ q.role = requests[s].role /\ q.route = requests[s].route
        BY <2>2 DEF Call
      <3>5. accounts'[u] = account /\ clock' = clock
        BY DEF Inv, TypeOK, ChangeAccount
      <3>6. CallSound(requests[s])'
        BY <2>1, <2>2, <3>1, <3>2, <3>4, <3>5 DEF CallSound
      <3>7. QED
        BY <3>1, <3>3, <3>6 DEF Request
    <2>3. CASE requests[s] \in Call /\ requests[s].user # u
      <3>1. requests'[s] = requests[s]
        BY <2>3 DEF ChangeAccount
      <3>2. accounts'[requests[s].user] = accounts[requests[s].user] /\ clock' = clock
        BY <2>3 DEF Inv, TypeOK, ChangeAccount, Call
      <3>3. QED
        BY <2>1, <3>1, <3>2 DEF CallSound
    <2>4. CASE requests[s] \notin Call
      <3>1. requests'[s] = requests[s]
        BY <2>4 DEF ChangeAccount
      <3>2. QED
        BY <2>1, <2>4, <3>1 DEF CallSound
    <2>5. QED
      BY <2>2, <2>3, <2>4
  <1>4. requests' \in [Requests -> Request]
    BY <1>3 DEF ChangeAccount
  <1>5. TypeOK'
    BY <1>1, <1>4 DEF Inv, TypeOK, ChangeAccount
  <1>6. QED
    BY <1>3, <1>5 DEF Inv, CallsSound

LEMMA TickInv ==
    ASSUME Inv, Tick
    PROVE  Inv'
  <1>1. TypeOK'
    BY DEF Inv, TypeOK, Tick
  <1>2. ASSUME NEW s \in Requests
        PROVE  CallSound(requests[s])'
    <2>1. CallSound(requests[s]) /\ requests[s] \in Request
      BY DEF Inv, TypeOK, CallsSound
    <2>2. requests' = requests /\ accounts' = accounts /\ clock' = clock + 1
      BY DEF Tick
    <2>3. requests[s] \in Call => requests[s].arrived \in Nat
      BY DEF Call
    <2>4. clock \in Nat
      BY DEF Inv, TypeOK
    <2>5. QED
      BY <2>1, <2>2, <2>3, <2>4 DEF CallSound
  <1>3. QED
    BY <1>1, <1>2 DEF Inv, CallsSound

LEMMA RestartInv ==
    ASSUME Inv, Restart
    PROVE  Inv'
  <1>1. TypeOK'
    BY DEF Inv, TypeOK, Restart, Request
  <1>2. \A s \in Requests : requests'[s] = Idle
    BY DEF Restart
  <1>3. CallsSound'
    BY <1>2, NoCall DEF CallsSound, CallSound
  <1>4. QED
    BY <1>1, <1>3 DEF Inv

LEMMA NextInv == Inv /\ [Next]_vars => Inv'
  <1> SUFFICES ASSUME Inv, [Next]_vars
               PROVE  Inv'
    OBVIOUS
  <1>1. ASSUME NEW r \in Requests, Arrive(r)
        PROVE  Inv'
    BY <1>1, ArriveInv
  <1>2. ASSUME NEW r \in Requests, Step(r)
        PROVE  Inv'
    <2>1. CASE FinishHandling(r)
      BY <2>1, AnswerInv DEF FinishHandling
    <2>2. CASE Depart(r)
      <3>1. CallSound(Idle)
        BY NoCall DEF CallSound
      <3>2. QED
        BY <2>2, <3>1, BecomeInv DEF Depart, Request
    <2>3. QED
      BY <1>2, <2>1, <2>2, VerifyTokenInv, ReadAccountInv, PassLimiterInv, LoginInv
         DEF Step
  <1>3. ASSUME NEW u \in Users, NEW active \in BOOLEAN, NEW role \in AccountRoles,
               ChangeAccount(u, [active |-> active, role |-> role])
        PROVE  Inv'
    <2>1. [active |-> active, role |-> role] \in Account
      BY AdmissionAssumption DEF Account
    <2>2. QED
      BY <1>3, <2>1, ChangeAccountInv
  <1>4. CASE Tick
    BY <1>4, TickInv
  <1>5. CASE Restart
    BY <1>5, RestartInv
  <1>6. CASE UNCHANGED vars
    BY <1>6 DEF vars, Inv, TypeOK, CallsSound, CallSound
  <1>7. QED
    BY <1>1, <1>2, <1>3, <1>4, <1>5, <1>6 DEF Next

LEMMA SpecInv == Spec => []Inv
  BY InitInv, NextInv, PTL DEF Spec

-----------------------------------------------------------------------------
\* The tables, the tokens and every request in flight hold values of their types
\* (TypeOK): Parse never lets a call through without a role of its account.
THEOREM TypeCorrect == Spec => []TypeOK
  <1>1. Inv => TypeOK
    BY DEF Inv
  <1>2. QED
    BY <1>1, SpecInv, PTL

\* However accounts change while requests are on their way, and whatever their
\* tokens say and however long they last, a handler runs with a role its route admits
\* and that its account held, while active, since the request arrived, and for a token
\* that had not expired then (HandledWithAuthority).
THEOREM AuthorityIsCurrent == Spec => []HandledWithAuthority
  <1>1. Inv => HandledWithAuthority
    <2> SUFFICES ASSUME Inv, NEW r \in Requests, requests[r].phase = "handling"
                 PROVE  /\ requests[r].role \in requests[r].held
                        /\ requests[r].role \in RouteRoles[requests[r].route]
                        /\ requests[r].arrived < requests[r].expiresAt
      BY DEF HandledWithAuthority
    <2>1. requests[r] \in Call
      BY CallOfPhase DEF Inv, TypeOK
    <2>2. QED
      BY <2>1 DEF Inv, CallsSound, CallSound
  <1>2. QED
    BY <1>1, SpecInv, PTL
=============================================================================
