------------------------- MODULE RateLimiter_proofs -------------------------
(***************************************************************************)
(* Theorems about RateLimiter, for any addresses, any number of requests   *)
(* and any limit, window and delay.                                        *)
(***************************************************************************)
EXTENDS RateLimiter, FiniteSetTheorems, SequenceTheorems, TLAPS

LEMMA WaitingRequest ==
    ASSUME NEW q \in {Idle} \cup Waiting \cup Answered, q.phase = "waiting"
    PROVE  q \in Waiting
  BY DEF Idle, Waiting, Answered

(* What Allow leaves for an address is an entry again. *)
LEMMA SweptType ==
    ASSUME TypeOK, NEW a \in Addresses, NEW now \in Times
    PROVE  Swept(a, now) \in Visitor
  <1>1. NoVisitor \in Visitor
    BY DEF Visitor
  <1>2. visitors[a] \in Visitor
    BY DEF TypeOK
  <1>3. QED
    BY <1>1, <1>2 DEF Swept

LEMMA CurrentWindowType ==
    ASSUME TypeOK, NEW a \in Addresses, NEW now \in Times
    PROVE  /\ CurrentWindow(a, now).count \in Nat
           /\ CurrentWindow(a, now).expiresAt \in Nat \ {0}
           /\ CurrentWindow(a, now) = [count |-> CurrentWindow(a, now).count,
                                       expiresAt |-> CurrentWindow(a, now).expiresAt]
  <1>1. Swept(a, now) \in Visitor
    BY SweptType
  <1>2. now + Window \in Nat \ {0}
    BY LimiterAssumption DEF Times
  <1>3. CASE Swept(a, now).expiresAt = 0 \/ now > Swept(a, now).expiresAt
    BY <1>2, <1>3 DEF CurrentWindow, NoneOpen
  <1>4. CASE ~(Swept(a, now).expiresAt = 0 \/ now > Swept(a, now).expiresAt)
    <2>1. CurrentWindow(a, now) = Swept(a, now)
      BY <1>4 DEF CurrentWindow, NoneOpen
    <2>2. Swept(a, now) \in [count : 1 .. Limit, expiresAt : Nat \ {0}]
      BY <1>1, <1>4 DEF Visitor, NoVisitor
    <2>3. QED
      BY <2>1, <2>2
  <1>5. QED
    BY <1>3, <1>4

LEMMA AfterAllowType ==
    ASSUME TypeOK, NEW a \in Addresses, NEW now \in Times
    PROVE  AfterAllow(a, now) \in [Addresses -> Visitor]
  <1>1. ASSUME NEW b \in Addresses
        PROVE  AfterAllow(a, now)[b] \in Visitor
    <2>1. CASE b = a /\ Admits(a, now)
      <3>1. AfterAllow(a, now)[b] = [CurrentWindow(a, now) EXCEPT !.count = @ + 1]
        BY <2>1 DEF AfterAllow
      <3>2. CurrentWindow(a, now).count + 1 \in 1 .. Limit
        BY <2>1, CurrentWindowType, LimiterAssumption DEF Admits
      <3>3. [CurrentWindow(a, now) EXCEPT !.count = @ + 1]
              = [count |-> CurrentWindow(a, now).count + 1,
                 expiresAt |-> CurrentWindow(a, now).expiresAt]
        BY CurrentWindowType
      <3>4. QED
        BY <3>1, <3>2, <3>3, CurrentWindowType DEF Visitor
    <2>2. CASE ~(b = a /\ Admits(a, now))
      BY <2>2, SweptType DEF AfterAllow
    <2>3. QED
      BY <2>1, <2>2
  <1>2. QED
    BY <1>1 DEF AfterAllow

(* What it adds to the history is a history again. *)
LEMMA RecordedType ==
    ASSUME TypeOK, NEW a \in Addresses, NEW now \in Times
    PROVE  Recorded(a, now) \in Seq(Seq(Times))
  <1> DEFINE h == admitted[a]
  <1>1. h \in Seq(Seq(Times)) /\ <<now>> \in Seq(Times)
    BY DEF TypeOK
  <1>2. Append(h, <<now>>) \in Seq(Seq(Times))
    BY <1>1
  <1>3. [h EXCEPT ![Len(h)] = Append(@, now)] \in Seq(Seq(Times))
    <2>1. CASE h = <<>>
      <3>1. Len(h) \notin DOMAIN h
        BY <2>1
      <3>2. [h EXCEPT ![Len(h)] = Append(@, now)] = h
        BY <1>1, <3>1, LenProperties
      <3>3. QED
        BY <1>1, <3>2
    <2>2. CASE h # <<>>
      <3>1. h[Len(h)] \in Seq(Times)
        BY <1>1, <2>2
      <3>2. Append(h[Len(h)], now) \in Seq(Times)
        BY <3>1
      <3>3. Len(h) \in 1 .. Len(h)
        BY <1>1, <2>2
      <3>4. QED
        BY <1>1, <3>2, <3>3, ExceptSeq
    <2>3. QED
      BY <2>1, <2>2
  <1>4. QED
    BY <1>2, <1>3 DEF Recorded

-----------------------------------------------------------------------------
(* Type correctness. *)

LEMMA InitType == Init => TypeOK
  BY LimiterAssumption DEF Init, TypeOK, Times, Visitor

LEMMA AllowType ==
    ASSUME TypeOK, NEW r \in Requests, Allow(r)
    PROVE  TypeOK'
  <1> DEFINE a == requests[r].address
             now == requests[r].stamp
  <1>1. requests[r] \in Waiting
    BY WaitingRequest DEF TypeOK, Allow
  <1>2. a \in Addresses /\ now \in Times
    BY <1>1 DEF Waiting
  <1>3. visitors' \in [Addresses -> Visitor]
    BY <1>2, AfterAllowType DEF Allow
  <1>4. requests' \in [Requests -> {Idle} \cup Waiting \cup Answered]
    <2>1. \A phase \in {"admitted", "refused"} :
             [requests[r] EXCEPT !.phase = phase] \in Answered
      BY <1>1 DEF Waiting, Answered
    <2>2. QED
      BY <2>1 DEF TypeOK, Allow
  <1>5. admitted' \in [Addresses -> Seq(Seq(Times))]
    BY <1>2, RecordedType DEF TypeOK, Allow
  <1>6. clock' \in Times /\ lastSweep' \in Times
    BY <1>2 DEF TypeOK, Allow
  <1>7. QED
    BY <1>3, <1>4, <1>5, <1>6 DEF TypeOK

LEMMA NextType == TypeOK /\ [Next]_vars => TypeOK'
  <1> SUFFICES ASSUME TypeOK, [Next]_vars
               PROVE  TypeOK'
    OBVIOUS
  <1>1. ASSUME NEW r \in Requests, NEW a \in Addresses, ReadClock(r, a)
        PROVE  TypeOK'
    <2>1. [phase |-> "waiting", address |-> a, stamp |-> clock] \in Waiting
      BY DEF TypeOK, Waiting
    <2>2. requests' \in [Requests -> {Idle} \cup Waiting \cup Answered]
      BY <1>1, <2>1 DEF TypeOK, ReadClock
    <2>3. QED
      BY <1>1, <2>2 DEF TypeOK, ReadClock
  <1>2. ASSUME NEW r \in Requests, Allow(r)
        PROVE  TypeOK'
    BY <1>2, AllowType
  <1>3. ASSUME NEW r \in Requests, Depart(r)
        PROVE  TypeOK'
    BY <1>3 DEF TypeOK, Depart
  <1>4. CASE Tick
    BY <1>4, LimiterAssumption DEF TypeOK, Tick, Times
  <1>5. CASE Restart
    BY <1>5 DEF TypeOK, Restart, Visitor
  <1>6. CASE UNCHANGED vars
    BY <1>6 DEF TypeOK, vars
  <1>7. QED
    BY <1>1, <1>2, <1>3, <1>4, <1>5, <1>6 DEF Next

\* Every entry of the map is a window with 1 to Limit requests counted in it, and
\* every request that waits for the mutex carries a time (TypeOK), for every limit
\* and window: Allow never stores a count its limit does not admit.
THEOREM TypeCorrect == Spec => []TypeOK
  BY InitType, NextType, PTL DEF Spec

-----------------------------------------------------------------------------
(* Requests carry times that have passed: the sampled time can be late but never *)
(* early, which is why a sweep in its name spares every window still open.       *)
StampsPassed ==
    \A r \in Requests : requests[r].phase = "waiting" => requests[r].stamp <= clock

LEMMA NextStampsPassed ==
    ASSUME TypeOK, StampsPassed, [Next]_vars
    PROVE  StampsPassed'
  <1>1. ASSUME NEW r \in Requests, NEW a \in Addresses, ReadClock(r, a)
        PROVE  StampsPassed'
    <2>1. requests'[r].stamp = clock
      BY <1>1 DEF ReadClock, TypeOK
    <2>2. \A s \in Requests \ {r} : requests'[s] = requests[s]
      BY <1>1 DEF ReadClock, TypeOK
    <2>3. QED
      BY <1>1, <2>1, <2>2 DEF StampsPassed, ReadClock, TypeOK, Times
  <1>2. ASSUME NEW r \in Requests, Allow(r)
        PROVE  StampsPassed'
    <2>1. requests'[r].phase # "waiting"
      BY <1>2, WaitingRequest DEF Allow, TypeOK, Waiting
    <2>2. \A s \in Requests \ {r} : requests'[s] = requests[s]
      BY <1>2 DEF Allow, TypeOK
    <2>3. QED
      BY <1>2, <2>1, <2>2 DEF StampsPassed, Allow
  <1>3. ASSUME NEW r \in Requests, Depart(r)
        PROVE  StampsPassed'
    BY <1>3 DEF StampsPassed, Depart, TypeOK, Idle
  <1>4. CASE Tick
    <2>1. ASSUME NEW s \in Requests, requests[s].phase = "waiting"
          PROVE  requests[s].stamp \in Times
      BY <2>1, WaitingRequest DEF TypeOK, Waiting
    <2>2. QED
      BY <1>4, <2>1 DEF StampsPassed, Tick, TypeOK, Times
  <1>5. CASE Restart
    BY <1>5 DEF StampsPassed, Restart, Idle
  <1>6. CASE UNCHANGED vars
    BY <1>6 DEF StampsPassed, vars
  <1>7. QED
    BY <1>1, <1>2, <1>3, <1>4, <1>5, <1>6 DEF Next

(* A call by any client leaves the open window of another alone, and adds to its own. *)
LEMMA AllowKeepsOpenWindow ==
    ASSUME TypeOK, StampsPassed, NEW r \in Requests, Allow(r),
           NEW b \in Addresses, visitors[b].expiresAt >= clock
    PROVE  /\ visitors'[b].expiresAt = visitors[b].expiresAt
           /\ visitors'[b].count >= visitors[b].count
  <1> DEFINE a == requests[r].address
             now == requests[r].stamp
  <1>1. requests[r] \in Waiting
    BY WaitingRequest DEF TypeOK, Allow
  <1>2. a \in Addresses /\ now \in Times /\ now <= clock
    BY <1>1 DEF Waiting, StampsPassed
  <1>3. clock \in Nat \ {0} /\ now \in Nat
    BY <1>2 DEF TypeOK, Times
  <1>4. visitors[b] \in [count : 1 .. Limit, expiresAt : Nat \ {0}]
    BY <1>3 DEF TypeOK, Visitor, NoVisitor
  <1>5. Swept(b, now) = visitors[b]
    BY <1>2, <1>3, <1>4 DEF Swept
  <1>6. CASE b = a /\ Admits(a, now)
    <2>1. CurrentWindow(b, now) = visitors[b]
      BY <1>2, <1>3, <1>4, <1>5 DEF CurrentWindow, NoneOpen
    <2>2. visitors'[b] = [visitors[b] EXCEPT !.count = @ + 1]
      BY <1>6, <2>1 DEF Allow, AfterAllow
    <2>3. visitors[b].count \in Nat
      BY <1>4, LimiterAssumption
    <2>4. visitors'[b].count = visitors[b].count + 1
      BY <1>4, <2>2
    <2>5. visitors'[b].expiresAt = visitors[b].expiresAt
      BY <1>4, <2>2
    <2>6. QED
      BY <2>3, <2>4, <2>5
  <1>7. CASE ~(b = a /\ Admits(a, now))
    <2>1. visitors'[b] = visitors[b]
      BY <1>5, <1>7 DEF Allow, AfterAllow
    <2>2. visitors[b].count \in Nat
      BY <1>4, LimiterAssumption
    <2>3. QED
      BY <2>1, <2>2
  <1>8. QED
    BY <1>6, <1>7

\* No client's call ever forgets, moves or counts down a window that is still open,
\* its own or another's (OpenWindowKept), although calls enter the limiter with
\* times out of order and any of them may sweep the map.
THEOREM OpenWindowsAreKept == Spec => OpenWindowKept
  <1> DEFINE Kept ==
        \A a \in Addresses :
            visitors[a].expiresAt >= clock /\ ~Restart =>
                /\ visitors'[a].expiresAt = visitors[a].expiresAt
                /\ visitors'[a].count >= visitors[a].count
  <1>1. Init => StampsPassed
    BY DEF Init, StampsPassed, Idle
  <1>2. TypeOK /\ StampsPassed /\ [Next]_vars => StampsPassed'
    BY NextStampsPassed
  <1>3. TypeOK /\ StampsPassed /\ [Next]_vars => [Kept]_vars
    <2> SUFFICES ASSUME TypeOK, StampsPassed, Next, NEW a \in Addresses,
                        visitors[a].expiresAt >= clock, ~Restart
                 PROVE  /\ visitors'[a].expiresAt = visitors[a].expiresAt
                        /\ visitors'[a].count >= visitors[a].count
      OBVIOUS
    <2>1. visitors[a].count \in Int
      BY LimiterAssumption DEF TypeOK, Visitor, NoVisitor
    <2>2. ASSUME UNCHANGED visitors
          PROVE  /\ visitors'[a].expiresAt = visitors[a].expiresAt
                 /\ visitors'[a].count >= visitors[a].count
      BY <2>1, <2>2
    <2>3. ASSUME NEW r \in Requests, Allow(r)
          PROVE  /\ visitors'[a].expiresAt = visitors[a].expiresAt
                 /\ visitors'[a].count >= visitors[a].count
      BY <2>3, AllowKeepsOpenWindow
    <2>4. CASE \E r \in Requests, b \in Addresses : ReadClock(r, b)
      BY <2>2, <2>4 DEF ReadClock
    <2>5. CASE \E r \in Requests : Depart(r)
      BY <2>2, <2>5 DEF Depart
    <2>6. CASE Tick
      BY <2>2, <2>6 DEF Tick
    <2>7. QED
      BY <2>3, <2>4, <2>5, <2>6 DEF Next
  <1>4. QED
    BY <1>1, <1>2, <1>3, TypeCorrect, PTL DEF Spec, OpenWindowKept

-----------------------------------------------------------------------------
(* The history of an address and the windows of the map.                   *)
(*                                                                         *)
(* A window is named by its first time, the time that opened it.  The      *)
(* invariant is about neighbours in the history: how much later a window   *)
(* opens than the one before it (Spaced), and what the clock must have     *)
(* come to before a third one is counted in (Third).  The map may have     *)
(* forgotten the last window (Stored), and then a request that read the    *)
(* clock before the sweep opens the next one earlier than it ended.        *)

Counted(h, now) ==
    \A w \in 1 .. Len(h) :
        /\ Len(h[w]) \in 1 .. Limit
        /\ \A i \in 1 .. Len(h[w]) :
              /\ h[w][1] - MaxDelay <= h[w][i]
              /\ h[w][i] <= h[w][1] + Window
              /\ h[w][i] <= now

Spaced(h) ==
    \A w \in 1 .. (Len(h) - 1) : h[w + 1][1] > h[w][1] + Window - MaxDelay

Third(h, now) ==
    \A v \in 1 .. Len(h), w \in 1 .. Len(h) : w >= v + 2 =>
        /\ now > h[v][1] + 2 * Window + 1 - MaxDelay
        /\ \A i \in 1 .. Len(h[w]) : h[w][i] > h[v][1] + 2 * Window + 1 - 2 * MaxDelay

History(h, now) ==
    /\ h \in Seq(Seq(Times))
    /\ Counted(h, now)
    /\ Spaced(h)
    /\ Third(h, now)

\* What the map holds of the last window, or what its last sweep has forgotten.
Stored(visitor, sweep, h) ==
    IF visitor.expiresAt = 0
    THEN h # <<>> => h[Len(h)][1] + Window < sweep
    ELSE /\ h # <<>>
         /\ Len(h[Len(h)]) = visitor.count
         /\ h[Len(h)][1] + Window = visitor.expiresAt

Timing ==
    /\ lastSweep <= clock
    /\ \A r \in Requests : requests[r].phase = "waiting" =>
          requests[r].stamp <= clock /\ clock <= requests[r].stamp + MaxDelay

HistoryInv ==
    /\ TypeOK
    /\ Timing
    /\ \A a \in Addresses : History(admitted[a], clock) /\ Stored(visitors[a], lastSweep, admitted[a])

\* A refused request met a full window, one that was not over at its time.
FullWindow(h, stamp) ==
    \E w \in 1 .. Len(h) :
        /\ Len(h[w]) = Limit
        /\ \A i \in 1 .. Limit : h[w][i] >= stamp - Window - MaxDelay

Refusals ==
    \A r \in Requests : requests[r].phase = "refused" =>
        Limit = 0 \/ FullWindow(admitted[requests[r].address], requests[r].stamp)

-----------------------------------------------------------------------------
(* What time and one more admission do to a history. *)

LEMMA WindowTimes ==
    ASSUME NEW h, NEW now \in Times, History(h, now), NEW w \in 1 .. Len(h)
    PROVE  /\ h[w] \in Seq(Times)
           /\ Len(h[w]) \in Nat \ {0}
           /\ h[w][1] \in Nat
           /\ \A i \in 1 .. Len(h[w]) : h[w][i] \in Nat
  <1>1. h[w] \in Seq(Times)
    BY DEF History
  <1>2. Len(h[w]) \in Nat \ {0}
    BY LimiterAssumption DEF History, Counted
  <1>3. \A i \in 1 .. Len(h[w]) : h[w][i] \in Nat
    <2> DEFINE times == h[w]
    <2>1. times \in Seq(Times)
      BY <1>1
    <2> HIDE DEF times
    <2>2. \A i \in 1 .. Len(times) : times[i] \in Times
      BY <2>1, ElementOfSeq
    <2>3. QED
      BY <2>2 DEF times, Times
  <1>4. QED
    BY <1>1, <1>2, <1>3

LEMMA TimePasses ==
    ASSUME NEW h, NEW now \in Times, NEW later \in Times, History(h, now), now <= later
    PROVE  History(h, later)
  <1>1. Counted(h, later)
    BY WindowTimes DEF History, Counted, Times
  <1>2. Third(h, later)
    <2> SUFFICES ASSUME NEW v \in 1 .. Len(h), NEW w \in 1 .. Len(h), w >= v + 2
                 PROVE  /\ later > h[v][1] + 2 * Window + 1 - MaxDelay
                        /\ \A i \in 1 .. Len(h[w]) :
                              h[w][i] > h[v][1] + 2 * Window + 1 - 2 * MaxDelay
      BY DEF Third
    <2>1. now > h[v][1] + 2 * Window + 1 - MaxDelay
      BY DEF History, Third
    <2>2. \A i \in 1 .. Len(h[w]) : h[w][i] > h[v][1] + 2 * Window + 1 - 2 * MaxDelay
      BY DEF History, Third
    <2>3. h[v][1] \in Nat
      BY WindowTimes
    <2>4. later > h[v][1] + 2 * Window + 1 - MaxDelay
      BY <2>1, <2>3, LimiterAssumption DEF Times
    <2>5. QED
      BY <2>2, <2>4
  <1>3. QED
    BY <1>1, <1>2 DEF History

LEMMA WindowOpens ==
    ASSUME NEW h, NEW g, NEW now \in Times, NEW stamp \in Times, History(h, now),
           Limit # 0, stamp <= now, now <= stamp + MaxDelay,
           h # <<>> => /\ h[Len(h)][1] + Window < now
                       /\ h[Len(h)][1] + Window - MaxDelay < stamp,
           g = Append(h, <<stamp>>)
    PROVE  History(g, now)
  <1>1. h \in Seq(Seq(Times)) /\ <<stamp>> \in Seq(Times)
    BY DEF History
  <1>2. /\ g \in Seq(Seq(Times))
        /\ Len(g) = Len(h) + 1
        /\ \A w \in 1 .. Len(h) : g[w] = h[w]
        /\ g[Len(g)] = <<stamp>>
    BY <1>1
  <1>3. Len(h) \in Nat /\ now \in Nat /\ stamp \in Nat
    BY <1>1 DEF Times
  <1>4. Len(g[Len(g)]) = 1 /\ g[Len(g)][1] = stamp
    BY <1>2
  <1> HIDE DEF History
  <1>5. \A w \in 1 .. Len(h) : h[w][1] \in Nat
    BY WindowTimes
  <1>6. Counted(g, now)
    <2> SUFFICES ASSUME NEW w \in 1 .. Len(g)
                 PROVE  /\ Len(g[w]) \in 1 .. Limit
                        /\ \A i \in 1 .. Len(g[w]) :
                              /\ g[w][1] - MaxDelay <= g[w][i]
                              /\ g[w][i] <= g[w][1] + Window
                              /\ g[w][i] <= now
      BY DEF Counted
    <2>1. CASE w = Len(g)
      BY <1>3, <1>4, <2>1, LimiterAssumption
    <2>2. CASE w # Len(g)
      <3>1. w \in 1 .. Len(h) /\ g[w] = h[w]
        BY <1>2, <1>3, <2>2
      <3>2. QED
        BY <3>1 DEF History, Counted
    <2>3. QED
      BY <2>1, <2>2
  <1>7. Spaced(g)
    <2> SUFFICES ASSUME NEW w \in 1 .. (Len(g) - 1)
                 PROVE  g[w + 1][1] > g[w][1] + Window - MaxDelay
      BY DEF Spaced
    <2>1. w \in 1 .. Len(h) /\ g[w] = h[w]
      BY <1>2, <1>3
    <2>2. CASE w = Len(h)
      <3>1. h # <<>> /\ g[w + 1][1] = stamp
        BY <1>1, <1>2, <1>4, <2>1, <2>2
      <3>2. QED
        BY <1>3, <1>5, <2>1, <2>2, <3>1, LimiterAssumption
    <2>3. CASE w # Len(h)
      <3>1. w \in 1 .. (Len(h) - 1) /\ g[w + 1] = h[w + 1]
        BY <1>2, <1>3, <2>1, <2>3
      <3>2. QED
        BY <2>1, <3>1 DEF History, Spaced
    <2>4. QED
      BY <2>2, <2>3
  <1>8. Third(g, now)
    <2> SUFFICES ASSUME NEW v \in 1 .. Len(g), NEW w \in 1 .. Len(g), w >= v + 2
                 PROVE  /\ now > g[v][1] + 2 * Window + 1 - MaxDelay
                        /\ \A i \in 1 .. Len(g[w]) :
                              g[w][i] > g[v][1] + 2 * Window + 1 - 2 * MaxDelay
      BY DEF Third
    <2>1. v \in 1 .. Len(h) /\ g[v] = h[v] /\ v < Len(h)
      BY <1>2, <1>3
    <2>2. CASE w # Len(g)
      <3>1. w \in 1 .. Len(h) /\ g[w] = h[w]
        BY <1>2, <1>3, <2>2
      <3>2. /\ now > h[v][1] + 2 * Window + 1 - MaxDelay
            /\ \A i \in 1 .. Len(h[w]) : h[w][i] > h[v][1] + 2 * Window + 1 - 2 * MaxDelay
        BY <2>1, <3>1 DEF History, Third
      <3>3. QED
        BY <2>1, <3>1, <3>2
    <2>3. CASE w = Len(g)
      <3>1. now > h[v][1] + 2 * Window + 1 - MaxDelay
        <4>1. CASE v + 1 = Len(h)
          <5>1. h # <<>> /\ v \in 1 .. (Len(h) - 1)
            BY <1>1, <1>3, <2>1, <4>1
          <5>2. h[Len(h)][1] > h[v][1] + Window - MaxDelay
            BY <4>1, <5>1 DEF History, Spaced
          <5>3. h[Len(h)][1] \in Nat
            BY <1>5, <2>1, <4>1
          <5>4. h[Len(h)][1] + Window < now /\ h[v][1] \in Nat
            BY <1>5, <2>1, <5>1
          <5> DEFINE opened == h[v][1]
                     last == h[Len(h)][1]
          <5>5. /\ opened \in Nat /\ last \in Nat
                /\ last > opened + Window - MaxDelay
                /\ last + Window < now
            BY <5>2, <5>3, <5>4
          <5> HIDE DEF opened, last
          <5>6. now > opened + 2 * Window + 1 - MaxDelay
            BY <1>3, <5>5, LimiterAssumption
          <5>7. QED
            BY <5>6 DEF opened
        <4>2. CASE v + 1 # Len(h)
          <5>1. Len(h) \in 1 .. Len(h) /\ Len(h) >= v + 2
            BY <1>3, <2>1, <4>2
          <5>2. QED
            BY <2>1, <5>1 DEF History, Third
        <4>3. QED
          BY <4>1, <4>2
      <3>2. stamp > h[v][1] + 2 * Window + 1 - 2 * MaxDelay
        BY <1>3, <1>5, <2>1, <3>1, LimiterAssumption
      <3>3. QED
        BY <1>4, <2>1, <2>3, <3>1, <3>2
    <2>4. QED
      BY <2>2, <2>3
  <1>9. QED
    BY <1>2, <1>6, <1>7, <1>8 DEF History

LEMMA WindowFills ==
    ASSUME NEW h, NEW g, NEW now \in Times, NEW stamp \in Times, History(h, now),
           stamp <= now, now <= stamp + MaxDelay,
           h # <<>>, Len(h[Len(h)]) < Limit, stamp <= h[Len(h)][1] + Window,
           g = [h EXCEPT ![Len(h)] = Append(@, stamp)]
    PROVE  History(g, now)
  <1> DEFINE n == Len(h)
             last == h[n]
  <1>1. h \in Seq(Seq(Times)) /\ n \in 1 .. Len(h) /\ n \in Nat
    BY DEF History
  <1>2. now \in Nat /\ stamp \in Nat
    BY DEF Times
  <1>3. /\ last \in Seq(Times)
        /\ Len(last) \in Nat \ {0}
        /\ \A w \in 1 .. n : h[w][1] \in Nat
    BY <1>1, WindowTimes
  <1>4. /\ Append(last, stamp) \in Seq(Times)
        /\ Len(Append(last, stamp)) = Len(last) + 1
        /\ \A i \in 1 .. Len(last) : Append(last, stamp)[i] = last[i]
        /\ Append(last, stamp)[Len(last) + 1] = stamp
    BY <1>3
  <1>5. /\ g \in Seq(Seq(Times))
        /\ Len(g) = n
        /\ g[n] = Append(last, stamp)
        /\ \A w \in 1 .. n : w # n => g[w] = h[w]
    BY <1>1, <1>4, ExceptSeq
  <1>6. /\ \A w \in 1 .. n : g[w][1] = h[w][1]
        /\ Len(g[n]) = Len(last) + 1
        /\ \A i \in 1 .. Len(last) : g[n][i] = last[i]
        /\ g[n][Len(last) + 1] = stamp
    <2>1. 1 \in 1 .. Len(last)
      BY <1>3
    <2>2. g[n][1] = h[n][1]
      BY <1>4, <1>5, <2>1
    <2>3. \A w \in 1 .. n : g[w][1] = h[w][1]
      BY <1>5, <2>2
    <2>4. QED
      BY <1>4, <1>5, <2>3
  <1> HIDE DEF n, last
  <1>7. now >= h[n][1] /\ Len(last) < Limit /\ stamp <= h[n][1] + Window
    <2>1. 1 \in 1 .. Len(h[n])
      BY <1>3 DEF last
    <2>2. h[n][1] <= now
      BY <1>1, <2>1 DEF History, Counted
    <2>3. QED
      BY <1>1, <1>2, <1>3, <2>2 DEF n, last
  <1>8. Counted(g, now)
    <2> SUFFICES ASSUME NEW w \in 1 .. n
                 PROVE  /\ Len(g[w]) \in 1 .. Limit
                        /\ \A i \in 1 .. Len(g[w]) :
                              /\ g[w][1] - MaxDelay <= g[w][i]
                              /\ g[w][i] <= g[w][1] + Window
                              /\ g[w][i] <= now
      BY <1>5 DEF Counted
    <2>1. CASE w # n
      BY <1>5, <2>1 DEF History, Counted, n
    <2>2. CASE w = n
      <3>1. Len(g[w]) \in 1 .. Limit
        <4>1. Len(g[w]) = Len(last) + 1
          BY <1>6, <2>2
        <4>2. Len(last) \in Nat \ {0} /\ Len(last) < Limit
          BY <1>3, <1>7
        <4>3. Len(last) + 1 \in 1 .. Limit
          BY <4>2, LimiterAssumption
        <4>4. QED
          BY <4>1, <4>3
      <3>2. \A i \in 1 .. Len(last) :
               /\ h[n][1] - MaxDelay <= last[i]
               /\ last[i] <= h[n][1] + Window
               /\ last[i] <= now
        BY <1>1 DEF History, Counted, last, n
      <3>3. h[n][1] - MaxDelay <= stamp /\ stamp <= h[n][1] + Window /\ stamp <= now
        BY <1>1, <1>2, <1>3, <1>7, LimiterAssumption
      <3>4. ASSUME NEW i \in 1 .. Len(g[w])
            PROVE  /\ g[w][1] - MaxDelay <= g[w][i]
                   /\ g[w][i] <= g[w][1] + Window
                   /\ g[w][i] <= now
        <4>1. CASE i \in 1 .. Len(last)
          BY <1>6, <2>2, <3>2, <4>1
        <4>2. CASE i = Len(last) + 1
          BY <1>6, <2>2, <3>3, <4>2
        <4>3. QED
          BY <1>3, <1>6, <2>2, <4>1, <4>2
      <3>5. QED
        BY <3>1, <3>4
    <2>3. QED
      BY <2>1, <2>2
  <1>9. Spaced(g)
    <2>1. ASSUME NEW w \in 1 .. (n - 1)
          PROVE  g[w + 1][1] = h[w + 1][1] /\ g[w][1] = h[w][1]
      <3>1. w \in 1 .. n /\ w + 1 \in 1 .. n
        BY <1>1
      <3>2. QED
        BY <1>6, <3>1
    <2>2. QED
      BY <1>5, <2>1 DEF History, Spaced, n
  <1>10. Third(g, now)
    <2> SUFFICES ASSUME NEW v \in 1 .. n, NEW w \in 1 .. n, w >= v + 2
                 PROVE  /\ now > g[v][1] + 2 * Window + 1 - MaxDelay
                        /\ \A i \in 1 .. Len(g[w]) :
                              g[w][i] > g[v][1] + 2 * Window + 1 - 2 * MaxDelay
      BY <1>5 DEF Third
    <2>1. /\ now > h[v][1] + 2 * Window + 1 - MaxDelay
          /\ \A i \in 1 .. Len(h[w]) : h[w][i] > h[v][1] + 2 * Window + 1 - 2 * MaxDelay
      BY DEF History, Third, n
    <2>2. g[v][1] = h[v][1] /\ h[v][1] \in Nat
      BY <1>3, <1>6
    <2>3. CASE w # n
      BY <1>5, <2>1, <2>2, <2>3
    <2>4. CASE w = n
      <3>1. stamp > h[v][1] + 2 * Window + 1 - 2 * MaxDelay
        <4>1. now > h[v][1] + 2 * Window + 1 - MaxDelay
          BY <2>1
        <4> DEFINE opened == h[v][1]
        <4>2. opened \in Nat /\ now > opened + 2 * Window + 1 - MaxDelay
          BY <2>2, <4>1
        <4> HIDE DEF opened
        <4>3. stamp > opened + 2 * Window + 1 - 2 * MaxDelay
          BY <1>2, <4>2, LimiterAssumption
        <4>4. QED
          BY <4>3 DEF opened
      <3>2. ASSUME NEW i \in 1 .. Len(g[w])
            PROVE  g[w][i] > g[v][1] + 2 * Window + 1 - 2 * MaxDelay
        <4>1. CASE i \in 1 .. Len(last)
          BY <1>6, <2>1, <2>2, <2>4, <4>1 DEF last
        <4>2. CASE i = Len(last) + 1
          BY <1>6, <2>2, <2>4, <3>1, <4>2
        <4>3. i \in 1 .. (Len(last) + 1) /\ Len(last) \in Nat
          BY <1>3, <1>6, <2>4
        <4>4. i \in 1 .. Len(last) \/ i = Len(last) + 1
          BY <4>3
        <4>5. QED
          BY <4>1, <4>2, <4>4
      <3>3. QED
        BY <2>1, <2>2, <3>2
    <2>5. QED
      BY <2>3, <2>4
  <1>11. QED
    BY <1>5, <1>8, <1>9, <1>10 DEF History

-----------------------------------------------------------------------------
(* Allow keeps the map and the history together. *)

SweptAt(now) == IF SweepDue(now) THEN now ELSE lastSweep

LEMMA SweptIsStored ==
    ASSUME HistoryInv, NEW b \in Addresses, NEW now \in Times
    PROVE  Stored(Swept(b, now), SweptAt(now), admitted[b])
  <1> DEFINE h == admitted[b]
             end == h[Len(h)][1] + Window
  <1>1. Stored(visitors[b], lastSweep, h) /\ History(h, clock)
    BY DEF HistoryInv
  <1>2. /\ lastSweep \in Nat /\ now \in Nat /\ clock \in Times
        /\ Window \in Nat \ {0} /\ h \in Seq(Seq(Times))
    BY LimiterAssumption DEF HistoryInv, TypeOK, Times
  <1>3. visitors[b].expiresAt \in Nat
    BY DEF HistoryInv, TypeOK, Visitor, NoVisitor
  <1>4. h # <<>> => end \in Nat
    <2> HAVE h # <<>>
    <2>1. Len(h) \in 1 .. Len(h)
      BY <1>2
    <2>2. h[Len(h)][1] \in Nat
      BY <1>1, <1>2, <2>1, WindowTimes
    <2>3. QED
      BY <1>2, <2>2
  <1>5. CASE SweepDue(now) /\ now > visitors[b].expiresAt
    <2>1. Swept(b, now) = NoVisitor /\ SweptAt(now) = now /\ now > lastSweep
      BY <1>2, <1>5 DEF Swept, SweptAt, SweepDue
    <2>2. ASSUME h # <<>>
          PROVE  end < now
      <3>1. CASE visitors[b].expiresAt = 0
        <4>1. end < lastSweep
          BY <1>1, <2>2, <3>1 DEF Stored
        <4>2. QED
          BY <1>2, <1>4, <2>1, <2>2, <4>1
      <3>2. CASE visitors[b].expiresAt # 0
        <4>1. end = visitors[b].expiresAt
          BY <1>1, <3>2 DEF Stored
        <4>2. QED
          BY <1>5, <4>1
      <3>3. QED
        BY <3>1, <3>2
    <2>3. QED
      BY <2>1, <2>2 DEF Stored, NoVisitor
  <1>6. CASE ~(SweepDue(now) /\ now > visitors[b].expiresAt)
    <2>1. Swept(b, now) = visitors[b] /\ SweptAt(now) >= lastSweep /\ SweptAt(now) \in Nat
      BY <1>2, <1>6 DEF Swept, SweptAt, SweepDue
    <2>2. CASE visitors[b].expiresAt = 0
      <3>1. h # <<>> => end < lastSweep
        BY <1>1, <2>2 DEF Stored
      <3>2. h # <<>> => end < SweptAt(now)
        BY <1>2, <1>4, <2>1, <3>1
      <3>3. QED
        BY <2>1, <2>2, <3>2 DEF Stored
    <2>3. CASE visitors[b].expiresAt # 0
      BY <1>1, <2>1, <2>3 DEF Stored
    <2>4. QED
      BY <2>2, <2>3
  <1>7. QED
    BY <1>5, <1>6

LEMMA AdmissionIsRecorded ==
    ASSUME HistoryInv, NEW a \in Addresses, NEW now \in Times, Admits(a, now),
           now <= clock, clock <= now + MaxDelay
    PROVE  /\ History(Recorded(a, now), clock)
           /\ Stored(AfterAllow(a, now)[a], SweptAt(now), Recorded(a, now))
  <1> DEFINE h == admitted[a]
             n == Len(h)
             end == h[n][1] + Window
             g == Recorded(a, now)
  <1>1. Stored(Swept(a, now), SweptAt(now), h) /\ History(h, clock)
    BY SweptIsStored DEF HistoryInv
  <1>2. TypeOK
    BY DEF HistoryInv
  <1>3. /\ now \in Nat \ {0} /\ clock \in Times /\ clock \in Nat
        /\ Window \in Nat \ {0} /\ MaxDelay \in Nat /\ h \in Seq(Seq(Times))
    BY <1>2, LimiterAssumption DEF TypeOK, Times
  <1>4. SweptAt(now) <= clock
    BY DEF SweptAt, HistoryInv, Timing
  <1>5. SweptAt(now) \in Nat
    BY <1>2, <1>3 DEF SweptAt, TypeOK, Times
  <1>6. Limit # 0
    BY <1>2, CurrentWindowType DEF Admits
  <1>7. AfterAllow(a, now)[a] = [CurrentWindow(a, now) EXCEPT !.count = @ + 1]
    BY DEF AfterAllow
  <1>8. Swept(a, now).expiresAt \in Nat
    BY <1>2, SweptType DEF Visitor, NoVisitor
  <1>9. h # <<>> => n \in 1 .. Len(h) /\ h[n][1] \in Nat
    <2> HAVE h # <<>>
    <2>1. n \in 1 .. Len(h)
      BY <1>3
    <2>2. QED
      BY <1>1, <1>3, <2>1, WindowTimes
  <1>10. CASE NoneOpen(a, now)
    <2>1. g = Append(h, <<now>>)
      BY <1>10 DEF Recorded
    <2>2. ASSUME h # <<>>
          PROVE  end < clock /\ end - MaxDelay < now
      <3>1. CASE Swept(a, now).expiresAt = 0
        <4>1. end < SweptAt(now)
          BY <1>1, <2>2, <3>1 DEF Stored
        <4>2. end \in Nat
          BY <1>3, <1>9, <2>2
        <4> HIDE DEF end
        <4>3. QED
          BY <1>3, <1>4, <1>5, <4>1, <4>2
      <3>2. CASE Swept(a, now).expiresAt # 0
        <4>1. end = Swept(a, now).expiresAt
          BY <1>1, <3>2 DEF Stored
        <4>2. end < now
          BY <1>10, <3>2, <4>1 DEF NoneOpen
        <4>3. end \in Nat
          BY <1>3, <1>9, <2>2
        <4> HIDE DEF end
        <4>4. QED
          BY <1>3, <4>2, <4>3
      <3>3. QED
        BY <3>1, <3>2
    <2>3. History(g, clock)
      <3>1. h # <<>> => /\ h[Len(h)][1] + Window < clock
                        /\ h[Len(h)][1] + Window - MaxDelay < now
        BY <1>3, <1>9, <2>2
      <3> HIDE DEF h, g
      <3>2. History(h, clock) /\ clock \in Times
        BY <1>1, <1>3
      <3>3. QED
        BY <1>6, <2>1, <3>1, <3>2, WindowOpens
    <2>4. AfterAllow(a, now)[a] = [count |-> 1, expiresAt |-> now + Window]
      BY <1>7, <1>10 DEF CurrentWindow
    <2>5. g # <<>> /\ g[Len(g)] = <<now>>
      BY <1>3, <2>1
    <2>6. now + Window # 0
      BY <1>3
    <2>7. QED
      BY <2>3, <2>4, <2>5, <2>6 DEF Stored
  <1>11. CASE ~NoneOpen(a, now)
    <2>1. g = [h EXCEPT ![n] = Append(@, now)]
      BY <1>11 DEF Recorded
    <2>2. CurrentWindow(a, now) = Swept(a, now)
      BY <1>11 DEF CurrentWindow
    <2>3. Swept(a, now).expiresAt # 0 /\ now <= Swept(a, now).expiresAt
      BY <1>3, <1>8, <1>11 DEF NoneOpen
    <2>4. h # <<>> /\ Len(h[n]) = Swept(a, now).count /\ end = Swept(a, now).expiresAt
      BY <1>1, <2>3 DEF Stored
    <2>5. Len(h[n]) < Limit /\ now <= h[n][1] + Window
      BY <2>2, <2>3, <2>4 DEF Admits
    <2>6. History(g, clock)
      BY <1>1, <1>3, <2>1, <2>4, <2>5, WindowFills
    <2>7. h[n] \in Seq(Times) /\ Len(h[n]) \in Nat \ {0}
      BY <1>1, <1>3, <1>9, <2>4, WindowTimes
    <2>8. Append(h[n], now) \in Seq(Times) /\ Len(Append(h[n], now)) = Len(h[n]) + 1
             /\ Append(h[n], now)[1] = h[n][1]
      BY <2>7
    <2>9. Len(g) = n /\ g[n] = Append(h[n], now)
      <3> DEFINE filled == Append(h[n], now)
      <3>1. filled \in Seq(Times) /\ n \in 1 .. Len(h)
        BY <1>9, <2>4, <2>8
      <3>2. g = [h EXCEPT ![n] = filled]
        BY <2>1
      <3> HIDE DEF filled, g, n
      <3>3. Len(g) = Len(h) /\ g[n] = filled
        BY <1>3, <3>1, <3>2, ExceptSeq
      <3>4. QED
        BY <3>3 DEF filled, n
    <2>10. g # <<>>
      BY <1>3, <1>9, <2>4, <2>9
    <2>11. /\ AfterAllow(a, now)[a].count = Swept(a, now).count + 1
           /\ AfterAllow(a, now)[a].expiresAt = Swept(a, now).expiresAt
      BY <1>2, <1>7, <2>2, CurrentWindowType
    <2>12. QED
      BY <2>3, <2>4, <2>6, <2>8, <2>9, <2>10, <2>11 DEF Stored
  <1>12. QED
    BY <1>10, <1>11

LEMMA AllowKeepsHistory ==
    ASSUME HistoryInv, NEW r \in Requests, Allow(r), NEW b \in Addresses
    PROVE  History(admitted'[b], clock') /\ Stored(visitors'[b], lastSweep', admitted'[b])
  <1> DEFINE a == requests[r].address
             now == requests[r].stamp
  <1>1. TypeOK
    BY DEF HistoryInv
  <1>2. requests[r] \in Waiting
    BY <1>1, WaitingRequest DEF TypeOK, Allow
  <1>3. a \in Addresses /\ now \in Times
    BY <1>2 DEF Waiting
  <1>4. now <= clock /\ clock <= now + MaxDelay
    BY DEF HistoryInv, Timing, Allow
  <1>5. clock' = clock /\ lastSweep' = SweptAt(now)
    BY DEF Allow, SweptAt
  <1>6. CASE b = a /\ Admits(a, now)
    <2>1. admitted'[b] = Recorded(a, now)
      BY <1>1, <1>3, <1>6 DEF Allow, TypeOK
    <2>2. visitors'[b] = AfterAllow(a, now)[a]
      BY <1>6 DEF Allow
    <2>3. QED
      BY <1>3, <1>4, <1>5, <1>6, <2>1, <2>2, AdmissionIsRecorded
  <1>7. CASE ~(b = a /\ Admits(a, now))
    <2>1. admitted'[b] = admitted[b]
      BY <1>1, <1>3, <1>7 DEF Allow, TypeOK
    <2>2. visitors'[b] = Swept(b, now)
      BY <1>7 DEF Allow, AfterAllow
    <2>3. QED
      BY <1>3, <1>5, <2>1, <2>2, SweptIsStored DEF HistoryInv
  <1>8. QED
    BY <1>6, <1>7

-----------------------------------------------------------------------------
(* The invariant. *)

LEMMA NothingAdmitted ==
    ASSUME NEW now \in Times, NEW sweep
    PROVE  History(<<>>, now) /\ Stored(NoVisitor, sweep, <<>>)
  BY DEF History, Counted, Spaced, Third, Stored, NoVisitor

LEMMA InitHistory == Init => HistoryInv
  <1> SUFFICES ASSUME Init
               PROVE  HistoryInv
    OBVIOUS
  <1>1. TypeOK
    BY InitType
  <1>2. Timing
    BY DEF Init, Timing, Idle
  <1>3. \A a \in Addresses : admitted[a] = <<>> /\ visitors[a] = NoVisitor
    BY DEF Init
  <1>4. clock \in Times
    BY <1>1 DEF TypeOK
  <1>5. QED
    BY <1>1, <1>2, <1>3, <1>4, NothingAdmitted DEF HistoryInv

LEMMA NextTiming ==
    ASSUME TypeOK, Timing, [Next]_vars
    PROVE  Timing'
  <1>1. clock \in Nat /\ lastSweep \in Nat /\ MaxDelay \in Nat
    BY LimiterAssumption DEF TypeOK, Times
  <1>2. ASSUME NEW r \in Requests, NEW a \in Addresses, ReadClock(r, a)
        PROVE  Timing'
    <2>1. requests'[r].stamp = clock
      BY <1>2 DEF ReadClock, TypeOK
    <2>2. \A s \in Requests \ {r} : requests'[s] = requests[s]
      BY <1>2 DEF ReadClock, TypeOK
    <2>3. clock <= clock + MaxDelay
      BY <1>1
    <2>4. QED
      BY <1>1, <1>2, <2>1, <2>2, <2>3 DEF Timing, ReadClock
  <1>3. ASSUME NEW r \in Requests, Allow(r)
        PROVE  Timing'
    <2>1. requests'[r].phase # "waiting"
      BY <1>3, WaitingRequest DEF Allow, TypeOK, Waiting
    <2>2. \A s \in Requests \ {r} : requests'[s] = requests[s]
      BY <1>3 DEF Allow, TypeOK
    <2>3. lastSweep' <= clock
      BY <1>3 DEF Timing, Allow
    <2>4. QED
      BY <1>3, <2>1, <2>2, <2>3 DEF Timing, Allow
  <1>4. ASSUME NEW r \in Requests, Depart(r)
        PROVE  Timing'
    BY <1>4 DEF Timing, Depart, TypeOK, Idle
  <1>5. CASE Tick
    <2>1. ASSUME NEW s \in Requests, requests[s].phase = "waiting"
          PROVE  requests[s].stamp \in Nat
      BY <2>1, WaitingRequest DEF TypeOK, Waiting, Times
    <2>2. QED
      BY <1>1, <1>5, <2>1 DEF Timing, Tick
  <1>6. CASE Restart
    BY <1>1, <1>6 DEF Timing, Restart, Idle
  <1>7. CASE UNCHANGED vars
    BY <1>7 DEF Timing, vars
  <1>8. QED
    BY <1>2, <1>3, <1>4, <1>5, <1>6, <1>7 DEF Next

LEMMA NextHistory == HistoryInv /\ [Next]_vars => HistoryInv'
  <1> SUFFICES ASSUME HistoryInv, [Next]_vars
               PROVE  HistoryInv'
    OBVIOUS
  <1>1. TypeOK' /\ Timing'
    BY NextType, NextTiming DEF HistoryInv
  <1>2. clock \in Times /\ clock' \in Times
    BY <1>1 DEF HistoryInv, TypeOK
  <1> SUFFICES ASSUME NEW a \in Addresses
               PROVE  History(admitted'[a], clock') /\ Stored(visitors'[a], lastSweep', admitted'[a])
    BY <1>1 DEF HistoryInv
  <1>3. History(admitted[a], clock) /\ Stored(visitors[a], lastSweep, admitted[a])
    BY DEF HistoryInv
  <1>4. CASE \E r \in Requests : Allow(r)
    BY <1>4, AllowKeepsHistory
  <1>5. CASE Tick
    <2>1. clock <= clock'
      BY <1>2, <1>5 DEF Tick, Times
    <2>2. History(admitted[a], clock')
      BY <1>2, <1>3, <2>1, TimePasses
    <2>3. QED
      BY <1>3, <1>5, <2>2 DEF Tick
  <1>6. CASE Restart
    <2>1. admitted'[a] = <<>> /\ visitors'[a] = NoVisitor
      BY <1>6 DEF Restart
    <2>2. QED
      BY <1>2, <2>1, NothingAdmitted
  <1>7. CASE UNCHANGED <<clock, visitors, lastSweep, admitted>>
    BY <1>3, <1>7
  <1>8. QED
    BY <1>4, <1>5, <1>6, <1>7 DEF Next, ReadClock, Depart, vars

LEMMA HistoryHolds == Spec => []HistoryInv
  BY InitHistory, NextHistory, PTL DEF Spec

-----------------------------------------------------------------------------
(* Admissions in a span. *)

LEMMA AdmissionsFit ==
    ASSUME HistoryInv, NEW a \in Addresses
    PROVE  /\ \A e \in Admissions(a) :
                /\ e = <<e[1], e[2]>>
                /\ e[1] \in 1 .. Len(admitted[a])
                /\ e[2] \in 1 .. Len(admitted[a][e[1]])
                /\ e[2] \in 1 .. Limit
           /\ \A w \in 1 .. Len(admitted[a]) : \A i \in 1 .. Len(admitted[a][w]) :
                <<w, i>> \in Admissions(a)
  <1> DEFINE h == admitted[a]
  <1>1. h \in Seq(Seq(Times)) /\ Counted(h, clock)
    BY DEF HistoryInv, History
  <1>2. DOMAIN h = 1 .. Len(h)
    BY <1>1, LenProperties
  <1>3. ASSUME NEW w \in 1 .. Len(h)
        PROVE  DOMAIN h[w] = 1 .. Len(h[w])
    <2>1. h[w] \in Seq(Times)
      BY <1>1
    <2>2. QED
      BY <2>1, LenProperties
  <1>4. ASSUME NEW e \in Admissions(a)
        PROVE  /\ e = <<e[1], e[2]>>
               /\ e[1] \in 1 .. Len(h)
               /\ e[2] \in 1 .. Len(h[e[1]])
               /\ e[2] \in 1 .. Limit
    <2>1. PICK w \in DOMAIN h : e \in {w} \X DOMAIN h[w]
      BY DEF Admissions
    <2>2. e = <<w, e[2]>> /\ e[1] = w /\ w \in 1 .. Len(h) /\ e[2] \in 1 .. Len(h[w])
      BY <1>2, <1>3, <2>1
    <2>3. Len(h[w]) \in 1 .. Limit
      BY <1>1, <2>2 DEF Counted
    <2>4. QED
      BY <2>2, <2>3, LimiterAssumption
  <1>5. ASSUME NEW w \in 1 .. Len(h), NEW i \in 1 .. Len(h[w])
        PROVE  <<w, i>> \in Admissions(a)
    <2>1. <<w, i>> \in {w} \X DOMAIN h[w]
      BY <1>3
    <2>2. QED
      BY <1>2, <2>1 DEF Admissions
  <1>6. QED
    BY <1>4, <1>5

LEMMA RowSize ==
    ASSUME NEW w, NEW n \in Nat
    PROVE  Cardinality({w} \X (1 .. n)) = n
  <1> DEFINE First == {w}
             Second == 1 .. n
  <1>1. IsFiniteSet(First) /\ Cardinality(First) = 1
    BY FS_Singleton
  <1>2. IsFiniteSet(Second) /\ Cardinality(Second) = n
    BY FS_Interval
  <1> HIDE DEF First, Second
  <1>3. Cardinality(First \X Second) = 1 * n
    BY <1>1, <1>2, FS_Product
  <1>4. 1 * n = n
    OBVIOUS
  <1>5. Cardinality(First \X Second) = n
    BY <1>3, <1>4
  <1>6. QED
    BY <1>5 DEF First, Second

LEMMA AdmittedInBox ==
    ASSUME HistoryInv, NEW a \in Addresses, NEW span, NEW v \in Nat, NEW u \in Nat,
           \A w \in 1 .. Len(admitted[a]) :
               (\E i \in 1 .. Len(admitted[a][w]) : admitted[a][w][i] \in span) => w \in {v, u}
    PROVE  AdmittedIn(a, span) <= 2 * Limit
  <1> DEFINE h == admitted[a]
             Counts == {e \in Admissions(a) : h[e[1]][e[2]] \in span}
             Numbers == {v} \cup {u}
             Box == Numbers \X (1 .. Limit)
  <1>1. /\ IsFiniteSet(Numbers) /\ Cardinality(Numbers) <= 2 /\ Cardinality(Numbers) \in Nat
        /\ IsFiniteSet(1 .. Limit) /\ Cardinality(1 .. Limit) = Limit
    <2>1. IsFiniteSet({v}) /\ Cardinality({v}) = 1
      BY FS_Singleton
    <2>2. /\ IsFiniteSet(Numbers)
          /\ Cardinality(Numbers) = IF u \in {v} THEN 1 ELSE 1 + 1
      BY <2>1, FS_AddElement
    <2> HIDE DEF Numbers
    <2>3. Cardinality(Numbers) <= 2 /\ Cardinality(Numbers) \in Nat
      BY <2>2
    <2>4. IsFiniteSet(1 .. Limit) /\ Cardinality(1 .. Limit) = Limit
      BY LimiterAssumption, FS_Interval
    <2>5. QED
      BY <2>2, <2>3, <2>4
  <1>2. IsFiniteSet(Box) /\ Cardinality(Box) = Cardinality(Numbers) * Limit
    BY <1>1, FS_Product
  <1>3. Counts \subseteq Box
    <2> SUFFICES ASSUME NEW e \in Counts
                 PROVE  e \in Box
      OBVIOUS
    <2>1. /\ e = <<e[1], e[2]>>
          /\ e[1] \in 1 .. Len(h) /\ e[2] \in 1 .. Len(h[e[1]])
          /\ e[2] \in 1 .. Limit
      BY AdmissionsFit
    <2>2. e[1] \in {v, u}
      BY <2>1
    <2>3. QED
      BY <2>1, <2>2
  <1>4. Cardinality(Counts) <= Cardinality(Box) /\ Cardinality(Counts) \in Nat
    BY <1>2, <1>3, FS_Subset, FS_CardinalityType
  <1>5. Cardinality(Numbers) * Limit <= 2 * Limit
    <2>1. \A c \in Nat : c <= 2 => c * Limit <= 2 * Limit
      <3> TAKE c \in Nat
      <3> HAVE c <= 2
      <3>1. CASE c = 0
        BY <3>1, LimiterAssumption
      <3>2. CASE c = 1
        BY <3>2, LimiterAssumption
      <3>3. CASE c = 2
        BY <3>3, LimiterAssumption
      <3>4. QED
        BY <3>1, <3>2, <3>3
    <2>2. QED
      BY <1>1, <2>1
  <1>6. Cardinality(Counts) <= 2 * Limit
    <2>1. Cardinality(Numbers) * Limit \in Nat /\ 2 * Limit \in Nat
      BY <1>1, LimiterAssumption
    <2>2. QED
      BY <1>2, <1>4, <1>5, <2>1
  <1>7. QED
    BY <1>6 DEF AdmittedIn

\* A fixed window admits at most twice its limit in any span of a window and two
\* instants, less a delay at either end (AdmittedPerSpan): for every limit, window
\* and delay, and whatever sweeps other clients cause.
THEOREM SpansAreBounded == Spec => []AdmittedPerSpan
  <1>1. HistoryInv => AdmittedPerSpan
    <2> SUFFICES ASSUME HistoryInv, NEW a \in Addresses, NEW t \in Times
                 PROVE  AdmittedIn(a, t .. t + Window + 1 - 2 * MaxDelay) <= 2 * Limit
      BY DEF AdmittedPerSpan
    <2> DEFINE h == admitted[a]
               span == t .. t + Window + 1 - 2 * MaxDelay
               Meets(w) == \E i \in 1 .. Len(h[w]) : h[w][i] \in span
    <2>1. History(h, clock) /\ clock \in Times /\ h \in Seq(Seq(Times)) /\ Len(h) \in Nat
      BY DEF HistoryInv, History, TypeOK
    <2>2. ASSUME NEW v \in 1 .. Len(h), NEW w \in 1 .. Len(h), Meets(v), Meets(w)
          PROVE  w < v + 2
      <3> SUFFICES ASSUME w >= v + 2
                   PROVE  FALSE
        BY <2>1
      <3>1. PICK i \in 1 .. Len(h[v]) : h[v][i] \in span
        BY <2>2
      <3>2. PICK j \in 1 .. Len(h[w]) : h[w][j] \in span
        BY <2>2
      <3>3. h[v][i] <= h[v][1] + Window
        BY <2>1, <3>1 DEF History, Counted
      <3>4. h[w][j] > h[v][1] + 2 * Window + 1 - 2 * MaxDelay
        BY <2>1, <3>2 DEF History, Third
      <3>5. h[v][1] \in Nat /\ h[v][i] \in Nat /\ h[w][j] \in Nat
        BY <2>1, <3>1, <3>2, WindowTimes
      <3>6. t <= h[v][i] /\ h[w][j] <= t + Window + 1 - 2 * MaxDelay
        BY <3>1, <3>2
      <3>7. QED
        <4> DEFINE opened == h[v][1]
                   first == h[v][i]
                   second == h[w][j]
        <4>1. /\ opened \in Nat /\ first \in Nat /\ second \in Nat /\ t \in Nat
              /\ Window \in Nat /\ MaxDelay \in Nat
          BY <3>5, LimiterAssumption DEF Times
        <4>2. /\ first <= opened + Window
              /\ second > opened + 2 * Window + 1 - 2 * MaxDelay
              /\ t <= first
              /\ second <= t + Window + 1 - 2 * MaxDelay
          BY <3>3, <3>4, <3>6
        <4> HIDE DEF opened, first, second
        <4>3. QED
          BY <4>1, <4>2
    <2>3. PICK v \in Nat : \A w \in 1 .. Len(h) : Meets(w) => w \in {v, v + 1}
      <3>1. CASE \E w \in 1 .. Len(h) : Meets(w) /\ \E u \in 1 .. Len(h) : Meets(u) /\ u = w + 1
        <4>1. PICK w \in 1 .. Len(h) : Meets(w) /\ \E u \in 1 .. Len(h) : Meets(u) /\ u = w + 1
          BY <3>1
        <4>2. PICK u \in 1 .. Len(h) : Meets(u) /\ u = w + 1
          BY <4>1
        <4>3. ASSUME NEW x \in 1 .. Len(h), Meets(x)
              PROVE  x \in {w, w + 1}
          <5>1. x < w + 2 /\ u < x + 2
            BY <2>2, <4>1, <4>2, <4>3
          <5>2. QED
            BY <2>1, <4>2, <5>1
        <4>4. w \in Nat
          BY <2>1
        <4> HIDE DEF Meets
        <4>5. QED
          BY <4>3, <4>4
      <3>2. CASE ~\E w \in 1 .. Len(h) : Meets(w) /\ \E u \in 1 .. Len(h) : Meets(u) /\ u = w + 1
        <4>1. CASE \E w \in 1 .. Len(h) : Meets(w)
          <5>1. PICK w \in 1 .. Len(h) : Meets(w)
            BY <4>1
          <5>2. ASSUME NEW x \in 1 .. Len(h), Meets(x)
                PROVE  x \in {w, w + 1}
            <6>1. x < w + 2 /\ w < x + 2
              BY <2>2, <5>1, <5>2
            <6>2. w # x + 1
              BY <3>2, <5>1, <5>2
            <6>3. QED
              BY <2>1, <6>1, <6>2
          <5>3. w \in Nat
            BY <2>1
          <5> HIDE DEF Meets
          <5>4. QED
            BY <5>2, <5>3
        <4>2. CASE ~\E w \in 1 .. Len(h) : Meets(w)
          BY <4>2
        <4>3. QED
          BY <4>1, <4>2
      <3>3. QED
        BY <3>1, <3>2
    <2>4. v + 1 \in Nat
      OBVIOUS
    <2>5. QED
      BY <2>3, <2>4, AdmittedInBox
  <1>2. QED
    BY <1>1, HistoryHolds, PTL

-----------------------------------------------------------------------------
(* Refusals. *)

LEMMA FullWindowsStay ==
    ASSUME HistoryInv, NEW a \in Addresses, NEW now \in Times, Admits(a, now),
           NEW stamp, FullWindow(admitted[a], stamp)
    PROVE  FullWindow(Recorded(a, now), stamp)
  <1> DEFINE h == admitted[a]
             n == Len(h)
             g == Recorded(a, now)
  <1>1. h \in Seq(Seq(Times)) /\ History(h, clock) /\ clock \in Times /\ n \in Nat /\ TypeOK
    BY DEF HistoryInv, History, TypeOK
  <1>2. PICK w \in 1 .. n : Len(h[w]) = Limit /\ \A i \in 1 .. Limit : h[w][i] >= stamp - Window - MaxDelay
    BY DEF FullWindow
  <1>3. w \in 1 .. Len(g) /\ g[w] = h[w]
    <2>1. CASE NoneOpen(a, now)
      <3>1. g = Append(h, <<now>>)
        BY <2>1 DEF Recorded
      <3>2. QED
        BY <1>1, <3>1
    <2>2. CASE ~NoneOpen(a, now)
      <3>1. g = [h EXCEPT ![n] = Append(@, now)]
        BY <2>2 DEF Recorded
      <3>2. CurrentWindow(a, now) = Swept(a, now) /\ Swept(a, now).expiresAt # 0
        BY <2>2 DEF CurrentWindow, NoneOpen
      <3>3. Len(h[n]) = Swept(a, now).count
        BY <3>2, SweptIsStored DEF Stored
      <3>4. w # n
        BY <1>2, <3>2, <3>3, LimiterAssumption DEF Admits
      <3>5. n \in 1 .. Len(h) /\ n \in 1 .. n
        BY <1>1
      <3>6. Append(h[n], now) \in Seq(Times)
        <4>1. h[n] \in Seq(Times)
          BY <1>1, <3>5
        <4>2. QED
          BY <4>1
      <3>7. QED
        BY <1>1, <3>1, <3>4, <3>5, <3>6, ExceptSeq
    <2>3. QED
      BY <2>1, <2>2
  <1>4. QED
    BY <1>2, <1>3 DEF FullWindow

LEMMA RefusedMeetsFullWindow ==
    ASSUME HistoryInv, NEW a \in Addresses, NEW now \in Times, ~Admits(a, now), Limit # 0
    PROVE  FullWindow(admitted[a], now)
  <1> DEFINE h == admitted[a]
             n == Len(h)
  <1>1. h \in Seq(Seq(Times)) /\ History(h, clock) /\ clock \in Times /\ TypeOK
    BY DEF HistoryInv, History, TypeOK
  <1>2. ~NoneOpen(a, now)
    <2> SUFFICES ASSUME NoneOpen(a, now)
                 PROVE  FALSE
      OBVIOUS
    <2>1. CurrentWindow(a, now).count = 0
      BY DEF CurrentWindow
    <2>2. QED
      BY <2>1, LimiterAssumption DEF Admits
  <1>3. /\ CurrentWindow(a, now) = Swept(a, now)
        /\ Swept(a, now).expiresAt # 0 /\ now <= Swept(a, now).expiresAt
    <2>1. Swept(a, now).expiresAt \in Nat
      BY <1>1, SweptType DEF Visitor, NoVisitor
    <2>2. QED
      BY <1>2, <2>1 DEF CurrentWindow, NoneOpen, Times
  <1>4. h # <<>> /\ Len(h[n]) = Swept(a, now).count /\ now <= h[n][1] + Window
    BY <1>3, SweptIsStored DEF Stored
  <1>5. n \in 1 .. n
    BY <1>1, <1>4
  <1>6. h[n][1] \in Nat /\ \A i \in 1 .. Len(h[n]) : h[n][i] \in Nat
    BY <1>1, <1>5, WindowTimes
  <1>7. Len(h[n]) \in 1 .. Limit /\ \A i \in 1 .. Len(h[n]) : h[n][1] - MaxDelay <= h[n][i]
    BY <1>1, <1>5 DEF History, Counted
  <1>8. Len(h[n]) = Limit
    BY <1>3, <1>4, <1>7, LimiterAssumption DEF Admits
  <1>9. ASSUME NEW i \in 1 .. Limit
        PROVE  h[n][i] >= now - Window - MaxDelay
    <2>1. h[n][1] - MaxDelay <= h[n][i] /\ h[n][i] \in Nat
      BY <1>6, <1>7, <1>8, <1>9
    <2>2. QED
      BY <1>4, <1>6, <2>1, LimiterAssumption DEF Times
  <1>10. QED
    BY <1>5, <1>8, <1>9 DEF FullWindow

LEMMA NextRefusals ==
    ASSUME HistoryInv, Refusals, [Next]_vars
    PROVE  Refusals'
  <1>1. TypeOK
    BY DEF HistoryInv
  <1>2. ASSUME NEW r \in Requests, Allow(r)
        PROVE  Refusals'
    <2> DEFINE a == requests[r].address
               now == requests[r].stamp
    <2>1. requests[r] \in Waiting
      BY <1>1, <1>2, WaitingRequest DEF TypeOK, Allow
    <2>2. a \in Addresses /\ now \in Times
      BY <2>1 DEF Waiting
    <2>3. /\ requests' = [requests EXCEPT ![r].phase = IF Admits(a, now) THEN "admitted" ELSE "refused"]
          /\ admitted' = IF Admits(a, now) THEN [admitted EXCEPT ![a] = Recorded(a, now)] ELSE admitted
      BY <1>2 DEF Allow
    <2> SUFFICES ASSUME NEW s \in Requests, requests'[s].phase = "refused", Limit # 0
                 PROVE  FullWindow(admitted'[requests'[s].address], requests'[s].stamp)
      BY DEF Refusals
    <2>4. CASE s = r
      <3>1. /\ requests'[s].phase = IF Admits(a, now) THEN "admitted" ELSE "refused"
            /\ requests'[s].address = a /\ requests'[s].stamp = now
        BY <1>1, <2>1, <2>3, <2>4 DEF TypeOK, Waiting
      <3>2. ~Admits(a, now)
        BY <3>1
      <3>3. admitted' = admitted
        BY <2>3, <3>2
      <3>4. QED
        BY <2>2, <3>1, <3>2, <3>3, RefusedMeetsFullWindow
    <2>5. CASE s # r
      <3>1. requests'[s] = requests[s]
        BY <1>1, <2>3, <2>5 DEF TypeOK
      <3>2. PICK b, stamp : b = requests[s].address /\ stamp = requests[s].stamp
        OBVIOUS
      <3>3. FullWindow(admitted[b], stamp)
        BY <3>1, <3>2 DEF Refusals
      <3>4. CASE Admits(a, now) /\ b = a
        <4>1. admitted'[b] = Recorded(a, now)
          BY <1>1, <2>2, <2>3, <3>4 DEF TypeOK
        <4>2. QED
          BY <2>2, <3>1, <3>2, <3>3, <3>4, <4>1, FullWindowsStay
      <3>5. CASE ~(Admits(a, now) /\ b = a)
        <4>1. admitted'[b] = admitted[b]
          BY <1>1, <2>2, <2>3, <3>5 DEF TypeOK
        <4>2. QED
          BY <3>1, <3>2, <3>3, <4>1
      <3>6. QED
        BY <3>4, <3>5
    <2>6. QED
      BY <2>4, <2>5
  <1>3. ASSUME UNCHANGED admitted,
               \A s \in Requests : requests'[s].phase = "refused" => requests'[s] = requests[s]
        PROVE  Refusals'
    BY <1>3 DEF Refusals
  <1>4. ASSUME NEW r \in Requests, NEW a \in Addresses, ReadClock(r, a)
        PROVE  Refusals'
    <2>1. requests'[r].phase = "waiting"
      BY <1>1, <1>4 DEF ReadClock, TypeOK
    <2>2. \A s \in Requests \ {r} : requests'[s] = requests[s]
      BY <1>1, <1>4 DEF ReadClock, TypeOK
    <2>3. UNCHANGED admitted
      BY <1>4 DEF ReadClock
    <2>4. QED
      BY <1>3, <2>1, <2>2, <2>3
  <1>5. ASSUME NEW r \in Requests, Depart(r)
        PROVE  Refusals'
    <2>1. requests'[r].phase = "idle"
      BY <1>1, <1>5 DEF Depart, TypeOK, Idle
    <2>2. \A s \in Requests \ {r} : requests'[s] = requests[s]
      BY <1>1, <1>5 DEF Depart, TypeOK
    <2>3. UNCHANGED admitted
      BY <1>5 DEF Depart
    <2>4. QED
      BY <1>3, <2>1, <2>2, <2>3
  <1>6. CASE Restart
    BY <1>6 DEF Refusals, Restart, Idle
  <1>7. CASE UNCHANGED <<requests, admitted>>
    BY <1>7 DEF Refusals
  <1>8. QED
    BY <1>2, <1>4, <1>5, <1>6, <1>7 DEF Next, Tick, vars

\* A client that is refused really has used up its limit: as many of its own
\* requests as the limit were admitted with times not older than a window and a
\* delay (RefusalEarned), whatever other clients did meanwhile.
THEOREM RefusalsAreEarned == Spec => []RefusalEarned
  <1>1. Init => Refusals
    BY DEF Init, Refusals, Idle
  <1>2. HistoryInv /\ Refusals /\ [Next]_vars => Refusals'
    BY NextRefusals
  <1>3. HistoryInv /\ Refusals => RefusalEarned
    <2> SUFFICES ASSUME HistoryInv, Refusals, NEW r \in Requests, requests[r].phase = "refused"
                 PROVE  AdmittedIn(requests[r].address,
                                   requests[r].stamp - Window - MaxDelay .. clock) >= Limit
      BY DEF RefusalEarned
    <2> DEFINE a == requests[r].address
               span == requests[r].stamp - Window - MaxDelay .. clock
               h == admitted[a]
               Counts == {e \in Admissions(a) : h[e[1]][e[2]] \in span}
    <2>1. requests[r] \in Answered
      BY DEF HistoryInv, TypeOK, Idle, Waiting, Answered
    <2>2. a \in Addresses /\ requests[r].stamp \in Nat
      BY <2>1 DEF Answered, Times
    <2>3. History(h, clock) /\ h \in Seq(Seq(Times)) /\ clock \in Times
      BY <2>2 DEF HistoryInv, History, TypeOK
    <2>4. IsFiniteSet(Counts)
      <3>1. Len(h) \in Nat
        BY <2>3
      <3>2. IsFiniteSet(1 .. Len(h)) /\ IsFiniteSet(1 .. Limit)
        BY <3>1, FS_Interval, LimiterAssumption
      <3>3. IsFiniteSet((1 .. Len(h)) \X (1 .. Limit))
        BY <3>2, FS_Product
      <3>4. Counts \subseteq (1 .. Len(h)) \X (1 .. Limit)
        BY <2>2, AdmissionsFit
      <3>5. QED
        BY <3>3, <3>4, FS_Subset
    <2>5. CASE Limit = 0
      <3>1. AdmittedIn(a, span) = Cardinality(Counts)
        BY DEF AdmittedIn
      <3>2. Cardinality(Counts) \in Nat
        BY <2>4, FS_CardinalityType
      <3> HIDE DEF Counts
      <3>3. QED
        BY <2>5, <3>1, <3>2
    <2>6. CASE Limit # 0
      <3>1. PICK w \in 1 .. Len(h) :
               /\ Len(h[w]) = Limit
               /\ \A i \in 1 .. Limit : h[w][i] >= requests[r].stamp - Window - MaxDelay
        BY <2>6 DEF Refusals, FullWindow
      <3>2. ASSUME NEW i \in 1 .. Limit
            PROVE  <<w, i>> \in Counts
        <4>1. <<w, i>> \in Admissions(a)
          BY <2>2, <3>1, AdmissionsFit
        <4>2. h[w][i] <= clock
          BY <2>3, <3>1 DEF History, Counted
        <4>3. h[w][i] \in Nat
          BY <2>3, <3>1, WindowTimes
        <4>4. h[w][i] >= requests[r].stamp - Window - MaxDelay
          BY <3>1
        <4>5. h[w][i] \in span
          <5>1. requests[r].stamp - Window - MaxDelay \in Int /\ clock \in Int
            BY <2>2, <2>3, LimiterAssumption DEF Times
          <5>2. QED
            BY <4>2, <4>3, <4>4, <5>1
        <4>6. QED
          BY <4>1, <4>5
      <3> DEFINE Row == {w} \X (1 .. Limit)
      <3>3. Row \subseteq Counts
        BY <3>2
      <3>4. Cardinality(Row) = Limit
        BY LimiterAssumption, RowSize
      <3> HIDE DEF Row, Counts
      <3>5. Cardinality(Row) <= Cardinality(Counts)
        BY <2>4, <3>3, FS_Subset
      <3>6. AdmittedIn(a, span) = Cardinality(Counts)
        BY DEF AdmittedIn, Counts
      <3>7. QED
        BY <3>4, <3>5, <3>6
    <2>7. QED
      BY <2>5, <2>6
  <1>4. QED
    BY <1>1, <1>2, <1>3, HistoryHolds, PTL DEF Spec
=============================================================================
