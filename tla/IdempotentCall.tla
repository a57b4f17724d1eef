--------------------------- MODULE IdempotentCall ---------------------------
(***************************************************************************)
(* What an idempotency key promises, without transactions or races: the    *)
(* first call that succeeds under an owner (an actor's key) stores its     *)
(* request and its result, once; every later call of that owner is         *)
(* answered from the store, with the result if it is the same request and  *)
(* a refusal if it is another.  A call may fail or be forgotten at any     *)
(* time; a failed call stores nothing.  TopologyDetection implements it.   *)
(***************************************************************************)
CONSTANTS Slots, Owners, Requests, Results, NoResult

VARIABLES
    store,          \* each owner's entry: {} or the one it stored
    call            \* each slot's call: {} or the one in progress or answered

Entry(request, result) == [request |-> request, result |-> result]

Call(owner, request, outcome, result) ==
    [owner |-> owner, request |-> request, outcome |-> outcome, result |-> result]

Init ==
    /\ store = [o \in Owners |-> {}]
    /\ call = [s \in Slots |-> {}]

Begin(s, owner, request) ==
    /\ call[s] = {}
    /\ call' = [call EXCEPT ![s] = {Call(owner, request, "pending", NoResult)}]
    /\ UNCHANGED store

Answer(s, c, outcome, result) ==
    /\ c \in call[s]
    /\ c.outcome = "pending"
    /\ call' = [call EXCEPT ![s] = {Call(c.owner, c.request, outcome, result)}]

Perform(s, c, result) ==
    /\ store[c.owner] = {}
    /\ store' = [store EXCEPT ![c.owner] = {Entry(c.request, result)}]
    /\ Answer(s, c, "done", result)

Replay(s, c) ==
    /\ \E e \in store[c.owner] : e.request = c.request /\ Answer(s, c, "done", e.result)
    /\ UNCHANGED store

Refuse(s, c) ==
    /\ \E e \in store[c.owner] : e.request # c.request
    /\ Answer(s, c, "refused", NoResult)
    /\ UNCHANGED store

Fail(s, c) == Answer(s, c, "failed", NoResult) /\ UNCHANGED store

\* Clients go away, and a crash takes any number of calls with it.
Forget ==
    /\ \E gone \in SUBSET Slots :
         call' = [s \in Slots |-> IF s \in gone THEN {} ELSE call[s]]
    /\ UNCHANGED store

Next ==
    \/ Forget
    \/ \E s \in Slots :
         \/ \E o \in Owners, r \in Requests : Begin(s, o, r)
         \/ \E c \in call[s] :
              \/ \E result \in Results : Perform(s, c, result)
              \/ Replay(s, c) \/ Refuse(s, c) \/ Fail(s, c)

Spec == Init /\ [][Next]_<<store, call>>
=============================================================================
