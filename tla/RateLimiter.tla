---------------------------- MODULE RateLimiter ----------------------------
(***************************************************************************)
(* The fixed-window limiter of internal/middleware/auth.go, with any       *)
(* number of requests passing through it.                                  *)
(*                                                                         *)
(* RateLimitMiddleware reads the clock and only then calls Allow, which    *)
(* takes the limiter's mutex: a request waits with the time it has read,   *)
(* and requests pass in any order.  Allow itself is one step.  The three   *)
(* limiters of the server share nothing, so this is one of them; they are  *)
(* in memory, and a restart forgets them.                                  *)
(***************************************************************************)
EXTENDS Integers, Sequences, FiniteSets

CONSTANTS Addresses,  \* client addresses
          Requests,   \* request slots
          Limit,      \* requests admitted per window
          Window,     \* length of a window
          MaxDelay,   \* bound: longest wait between reading the time and the mutex
          MaxTime     \* bound on the clock

ASSUME LimiterAssumption ==
    /\ Limit \in Nat
    /\ Window \in Nat \ {0}
    /\ MaxDelay \in Nat
    /\ MaxTime \in Nat \ {0}

VARIABLES clock,     \* time.Now
          visitors,  \* the map: what Allow finds for an address
          lastSweep, \* when expired entries were last deleted
          requests,  \* requests in the middleware
          admitted   \* history: the windows opened for an address, each the times
                     \* that the requests admitted in it carried

vars == <<clock, visitors, lastSweep, requests, admitted>>

Times == 1 .. MaxTime

\* The zero visitor, which a map without the key returns.  Times are positive, so
\* expiresAt = 0 is IsZero.
NoVisitor == [count |-> 0, expiresAt |-> 0]

Visitor == {NoVisitor} \cup [count : 1 .. Limit, expiresAt : Nat \ {0}]

Idle == [phase |-> "idle"]
Waiting == [phase : {"waiting"}, address : Addresses, stamp : Times]
Answered == [phase : {"admitted", "refused"}, address : Addresses, stamp : Times]

Init ==
    /\ clock = 1
    /\ visitors = [a \in Addresses |-> NoVisitor]
    /\ lastSweep = 1
    /\ requests = [r \in Requests |-> Idle]
    /\ admitted = [a \in Addresses |-> <<>>]

-----------------------------------------------------------------------------
(* Allow, under the mutex. *)

SweepDue(now) == now - lastSweep > Window

\* What the map holds for an address once expired entries are deleted, at most
\* once per window.
Swept_LastInstant(a, now) ==
    IF SweepDue(now) /\ now >= visitors[a].expiresAt THEN NoVisitor ELSE visitors[a]

Swept(a, now) ==
    IF SweepDue(now) /\ now > visitors[a].expiresAt THEN NoVisitor ELSE visitors[a]

\* The window a call counts in: the one stored, or a new one when none is open.
NoneOpen(a, now) == Swept(a, now).expiresAt = 0 \/ now > Swept(a, now).expiresAt

CurrentWindow_CountKept(a, now) ==
    IF NoneOpen(a, now)
    THEN [Swept(a, now) EXCEPT !.expiresAt = now + Window]
    ELSE Swept(a, now)

CurrentWindow(a, now) ==
    IF NoneOpen(a, now)
    THEN [count |-> 0, expiresAt |-> now + Window]
    ELSE Swept(a, now)

Admits_OneMore(a, now) == CurrentWindow(a, now).count <= Limit

Admits(a, now) == CurrentWindow(a, now).count < Limit

\* A refusal stores nothing but what the sweep did.
AfterAllow(a, now) ==
    [b \in Addresses |->
        IF b = a /\ Admits(a, now)
        THEN [CurrentWindow(a, now) EXCEPT !.count = @ + 1]
        ELSE Swept(b, now)]

Recorded(a, now) ==
    IF NoneOpen(a, now)
    THEN Append(admitted[a], <<now>>)
    ELSE [admitted[a] EXCEPT ![Len(admitted[a])] = Append(@, now)]

-----------------------------------------------------------------------------
(* RateLimitMiddleware. *)

ReadClock(r, a) ==
    /\ requests[r].phase = "idle"
    /\ requests' = [requests EXCEPT ![r] =
           [phase |-> "waiting", address |-> a, stamp |-> clock]]
    /\ UNCHANGED <<clock, visitors, lastSweep, admitted>>

Allow(r) ==
    LET a == requests[r].address
        now == requests[r].stamp
    IN  /\ requests[r].phase = "waiting"
        /\ visitors' = AfterAllow(a, now)
        /\ lastSweep' = IF SweepDue(now) THEN now ELSE lastSweep
        /\ requests' = [requests EXCEPT ![r].phase =
               IF Admits(a, now) THEN "admitted" ELSE "refused"]
        /\ admitted' = IF Admits(a, now) THEN [admitted EXCEPT ![a] = Recorded(a, now)]
                                         ELSE admitted
        /\ UNCHANGED clock

Depart(r) ==
    /\ requests[r].phase \in {"admitted", "refused"}
    /\ requests' = [requests EXCEPT ![r] = Idle]
    /\ UNCHANGED <<clock, visitors, lastSweep, admitted>>

-----------------------------------------------------------------------------
\* Time passes, but no request waits longer than MaxDelay for the mutex.
Tick ==
    /\ clock < MaxTime
    /\ \A r \in Requests : requests[r].phase = "waiting"
                              => clock < requests[r].stamp + MaxDelay
    /\ clock' = clock + 1
    /\ UNCHANGED <<visitors, lastSweep, requests, admitted>>

\* The process stops and starts: NewRateLimiter.
Restart ==
    /\ visitors' = [a \in Addresses |-> NoVisitor]
    /\ lastSweep' = clock
    /\ requests' = [r \in Requests |-> Idle]
    /\ admitted' = [a \in Addresses |-> <<>>]
    /\ UNCHANGED clock

Next ==
    \/ \E r \in Requests, a \in Addresses : ReadClock(r, a)
    \/ \E r \in Requests : Allow(r) \/ Depart(r)
    \/ Tick
    \/ Restart

Spec == Init /\ [][Next]_vars

-----------------------------------------------------------------------------
(* Properties. *)

\* An entry of the map is a window with 1 to Limit requests in it; a request that
\* waits carries a time it has read.
TypeOK ==
    /\ clock \in Times
    /\ visitors \in [Addresses -> Visitor]
    /\ lastSweep \in Times
    /\ requests \in [Requests -> {Idle} \cup Waiting \cup Answered]
    /\ admitted \in [Addresses -> Seq(Seq(Times))]

\* How many requests of an address were admitted with a time of the span.
Admissions(a) == UNION {{w} \X DOMAIN admitted[a][w] : w \in DOMAIN admitted[a]}

AdmittedIn(a, span) == Cardinality({e \in Admissions(a) : admitted[a][e[1]][e[2]] \in span})

\* In the time requests carry, a fixed window lets a client through twice its limit
\* in any span of a window and two instants.  That requests wait for the mutex after
\* they have read the clock shortens the span by one delay at either end: a late
\* request opens a window in the past once another client's call has swept the map,
\* and a late request is counted in a window that opened after its time.
AdmittedPerSpan ==
    \A a \in Addresses, t \in Times :
        AdmittedIn(a, t .. t + Window + 1 - 2 * MaxDelay) <= 2 * Limit

\* A refused client has used up its own limit, about a window ago at most.
RefusalEarned ==
    \A r \in Requests : requests[r].phase = "refused" =>
        AdmittedIn(requests[r].address,
                   requests[r].stamp - Window - MaxDelay .. clock) >= Limit

\* A window that is not over on the server's clock is never forgotten, moved or
\* counted down, whoever's call sweeps the map, short of a restart.
OpenWindowKept ==
    [][ \A a \in Addresses :
            visitors[a].expiresAt >= clock /\ ~Restart =>
                /\ visitors'[a].expiresAt = visitors[a].expiresAt
                /\ visitors'[a].count >= visitors[a].count ]_vars
=============================================================================
