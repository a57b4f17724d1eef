---------------------- MODULE TopologyDetection_proofs ----------------------
(***************************************************************************)
(* Theorems about conflict detection, in two parts: the service, for any   *)
(* accounts, keys, parcels, proposals and conflict ids and any number of   *)
(* detections in flight; and the algorithms it calls (SnapAndDetect), for  *)
(* any upright rectangles with integer corners, any number of neighbours,  *)
(* any tolerance and any number of rounds.                                 *)
(***************************************************************************)
EXTENDS TopologyDetection, SnapAndDetect, WellFoundedInduction, TLAPS

-----------------------------------------------------------------------------
(* The service: TopologyDetection.                                           *)

(* The inductive invariant.  An input is real when it is of the request and of       *)
(* versions the boundaries have had, which stays so because they only grow.          *)
RealInput(input, call) ==
    LET p == call.proposal
    IN  /\ input.proposal = p /\ input.tolerance = call.tolerance
        /\ input.own \in 1 .. boundary[ParcelOf[p]]
        /\ \A x \in Neighbours(p) : input.others[x] \in 1 .. boundary[x]

InTransaction(q) == q.phase \in {"inserting", "indexed"}

\* What a request knows by itself: no ids before the transaction; in it, a real input
\* and ids of rows that nobody has written; past the index, that its key is free.
Sound(q) ==
    /\ q.phase \in {"lookup", "parcel", "neighbours"} => q.ids = {}
    /\ q.phase = "neighbours" => q.own \in 1 .. boundary[ParcelOf[q.call.proposal]]
    /\ InTransaction(q) =>
         /\ q.input \in Inputs /\ RealInput(q.input, q.call)
         /\ \A id \in q.ids : conflicts[id] = NoConflict
    /\ q.phase = "indexed" => RunsOf(q) = {}
    /\ q.phase = "answered" =>
         /\ q.status = 200 => \E run \in RunsOf(q) : run.call = q.call /\ run.ids = q.ids
         /\ q.status = 409 => \E run \in RunsOf(q) : run.call # q.call

\* What two requests know of each other: no row is both's, and the index holds an
\* actor's key for one of them.
Apart(q, r) ==
    /\ InTransaction(q) /\ InTransaction(r) => q.ids \cap r.ids = {}
    /\ q.phase = "indexed" /\ r.phase = "indexed" => q.actor # r.actor \/ q.key # r.key

RequestsSound ==
    /\ \A s \in Slots : Sound(request[s])
    /\ \A s, t \in Slots : s # t => Apart(request[s], request[t])

Inv == TypeOK /\ OneRunPerKey /\ NoOrphans /\ InputsAreReal /\ RequestsSound

-----------------------------------------------------------------------------
(* Requests by their phase. *)

Anything == {IdleRequest} \cup Refusals \cup Requests

Phases == {"lookup", "parcel", "neighbours", "inserting", "indexed", "recovering", "answered"}

Statuses == {0, 200, 409, 422, 500}

LEMMA RequestFields ==
    Requests =
      [phase : Phases, status : Statuses, actor : Users, key : Keys, call : Call,
       own : 0 .. MaxBoundary, input : Inputs \cup {NoInput}, count : FindingCounts \cup {0},
       ids : SUBSET ConflictIds]
  BY DEF Requests, Phases, Statuses

LEMMA AcceptedShape ==
    ASSUME NEW q \in Anything, q.phase \in Phases
    PROVE  q \in Requests
  BY DEF Anything, IdleRequest, Refusals, Phases

LEMMA OutsideShape ==
    /\ IdleRequest \in Anything /\ IdleRequest.phase = "idle"
    /\ \A q \in Refusals : q \in Anything /\ q.phase = "refused"
    /\ \A q \in Requests : q \in Anything /\ q.phase \in Phases
  BY RequestFields DEF Anything, IdleRequest, Refusals

LEMMA GotoShape ==
    ASSUME NEW q \in Requests, NEW ph \in Phases
    PROVE  /\ Goto(q, ph) \in Requests
           /\ Goto(q, ph).phase = ph
           /\ Goto(q, ph).actor = q.actor /\ Goto(q, ph).key = q.key
           /\ Goto(q, ph).call = q.call /\ Goto(q, ph).own = q.own
           /\ Goto(q, ph).input = q.input /\ Goto(q, ph).ids = q.ids
  <1>1. Goto(q, ph) \in Requests
    BY RequestFields DEF Goto
  <1>2. QED
    BY <1>1, RequestFields DEF Goto

LEMMA AnswerShape ==
    ASSUME NEW q \in Requests, NEW status \in Statuses, NEW ids \in SUBSET ConflictIds
    PROVE  /\ Answer(q, status, ids) \in Requests
           /\ Answer(q, status, ids).phase = "answered"
           /\ Answer(q, status, ids).status = status
           /\ Answer(q, status, ids).ids = ids
           /\ Answer(q, status, ids).actor = q.actor /\ Answer(q, status, ids).key = q.key
           /\ Answer(q, status, ids).call = q.call
  <1>1. "answered" \in Phases
    BY DEF Phases
  <1>2. 0 \in 0 .. MaxBoundary
    BY Bounds
  <1>3. Answer(q, status, ids) \in Requests
    BY <1>1, <1>2, RequestFields DEF Answer
  <1>4. QED
    BY <1>3, RequestFields DEF Answer

-----------------------------------------------------------------------------
(* Steps that change one request and nothing else. *)

Good(s, q) ==
    /\ q \in Anything /\ Sound(q)
    /\ \A t \in Slots : t # s => Apart(q, request[t]) /\ Apart(request[t], q)

LEMMA OnlyInv ==
    ASSUME Inv, NEW s \in Slots, NEW q, Good(s, q), Only(s, q)
    PROVE  Inv'
  <1>1. request \in [Slots -> Anything]
    BY DEF Inv, TypeOK, Anything
  <1>2. UNCHANGED <<boundary, known, conflicts, runs, auditLog>>
        /\ request' = [request EXCEPT ![s] = q]
    BY DEF Only
  <1>3. request' \in [Slots -> Anything] /\ request'[s] = q
        /\ \A t \in Slots : t # s => request'[t] = request[t]
    BY <1>1, <1>2 DEF Good
  <1>4. TypeOK'
    BY <1>2, <1>3 DEF Inv, TypeOK, Anything
  <1>5. OneRunPerKey' /\ InputsAreReal'
    BY <1>2 DEF Inv, OneRunPerKey, InputsAreReal
  <1>6. NoOrphans'
    BY <1>2 DEF Inv, NoOrphans
  <1>7. \A r : Sound(r) => Sound(r)'
    BY <1>2 DEF Sound, RealInput, RunsOf
  <1>8. ASSUME NEW t \in Slots PROVE Sound(request[t])'
    <2>1. PICK r : r = request'[t]
      OBVIOUS
    <2>2. Sound(r)
      BY <1>3, <2>1 DEF Good, Inv, RequestsSound
    <2>3. QED
      BY <1>7, <2>1, <2>2 DEF Sound, RunsOf, RealInput, InTransaction
  <1>9. ASSUME NEW t \in Slots, NEW u \in Slots, t # u PROVE Apart(request[t], request[u])'
    <2>1. Apart(request'[t], request'[u])
      BY <1>3, <1>9 DEF Good, Inv, RequestsSound
    <2>2. QED
      BY <2>1 DEF Apart, InTransaction
  <1>10. RequestsSound'
    BY <1>8, <1>9 DEF RequestsSound
  <1>11. QED
    BY <1>4, <1>5, <1>6, <1>10 DEF Inv

LEMMA OutsideGood ==
    ASSUME Inv, NEW s \in Slots, NEW q \in Anything,
           q.phase \in {"idle", "refused", "recovering"}
    PROVE  Good(s, q)
  BY DEF Good, Sound, Apart, InTransaction

LEMMA BeforeGood ==
    ASSUME Inv, NEW s \in Slots, NEW q \in Anything,
           q.phase \in {"lookup", "parcel", "neighbours"}, q.ids = {},
           q.phase = "neighbours" => q.own \in 1 .. boundary[ParcelOf[q.call.proposal]]
    PROVE  Good(s, q)
  BY DEF Good, Sound, Apart, InTransaction

LEMMA FailedGood ==
    ASSUME Inv, NEW s \in Slots, NEW q \in Requests, NEW status \in {422, 500}
    PROVE  Good(s, Answer(q, status, {}))
  <1>1. PICK a : a = Answer(q, status, {})
    OBVIOUS
  <1>2. a \in Requests /\ a.phase = "answered" /\ a.status = status
    BY <1>1, AnswerShape DEF Statuses
  <1>3. a \in Anything
    BY <1>2 DEF Anything
  <1>4. Good(s, a)
    BY <1>2, <1>3 DEF Good, Sound, Apart, InTransaction
  <1>5. QED
    BY <1>1, <1>4

LEMMA ReplayedGood ==
    ASSUME Inv, NEW s \in Slots, NEW q \in Requests, NEW run \in RunsOf(q)
    PROVE  Good(s, Replayed(q, run))
  <1>1. PICK a : a = Replayed(q, run)
    OBVIOUS
  <1>2. run \in runs /\ run \in Run /\ run.actor = q.actor /\ run.key = q.key
    BY DEF RunsOf, Inv, TypeOK
  <1>3. run.ids \in SUBSET ConflictIds /\ {} \in SUBSET ConflictIds
    BY <1>2 DEF Run
  <1>4. CASE run.call = q.call
    <2>1. a = Answer(q, 200, run.ids)
      BY <1>1, <1>4 DEF Replayed
    <2>2. a \in Requests /\ a.phase = "answered" /\ a.status = 200 /\ a.ids = run.ids
          /\ a.actor = q.actor /\ a.key = q.key /\ a.call = q.call
      BY <1>3, <2>1, AnswerShape DEF Statuses
    <2>3. run \in RunsOf(a) /\ run.call = a.call /\ run.ids = a.ids
      BY <1>2, <1>4, <2>2 DEF RunsOf
    <2>4. a \in Anything
      BY <2>2 DEF Anything
    <2>5. Good(s, a)
      BY <2>2, <2>3, <2>4 DEF Good, Sound, Apart, InTransaction
    <2>6. QED
      BY <1>1, <2>5
  <1>5. CASE run.call # q.call
    <2>1. a = Answer(q, 409, {})
      BY <1>1, <1>5 DEF Replayed
    <2>2. a \in Requests /\ a.phase = "answered" /\ a.status = 409
          /\ a.actor = q.actor /\ a.key = q.key /\ a.call = q.call
      BY <1>3, <2>1, AnswerShape DEF Statuses
    <2>3. run \in RunsOf(a) /\ run.call # a.call
      BY <1>2, <1>5, <2>2 DEF RunsOf
    <2>4. a \in Anything
      BY <2>2 DEF Anything
    <2>5. Good(s, a)
      BY <2>2, <2>3, <2>4 DEF Good, Sound, Apart, InTransaction
    <2>6. QED
      BY <1>1, <2>5
  <1>6. QED
    BY <1>4, <1>5

-----------------------------------------------------------------------------
(* Before the transaction, and after one that failed. *)

LEMMA OwnRequest ==
    ASSUME Inv, NEW s \in Slots, request[s].phase \in Phases
    PROVE  /\ request[s] \in Requests
           /\ Sound(request[s])
           /\ \A t \in Slots : t # s => Apart(request[s], request[t])
                                      /\ Apart(request[t], request[s])
  <1>1. request[s] \in Anything
    BY DEF Inv, TypeOK, Anything
  <1>2. QED
    BY <1>1, AcceptedShape DEF Inv, RequestsSound

LEMMA BeginInv ==
    ASSUME Inv, NEW s \in Slots, NEW u \in Users, NEW key \in Keys \cup {NoKey},
           NEW call \in Call, BeginDetection(s, u, key, call)
    PROVE  Inv'
  <1>1. ASSUME NEW status \in {400, 403, 404}, Only(s, [phase |-> "refused", status |-> status])
        PROVE  Inv'
    <2> DEFINE q == [phase |-> "refused", status |-> status]
    <2>1. q \in Refusals
      BY DEF Refusals
    <2>2. q \in Anything /\ q.phase = "refused"
      BY <2>1, OutsideShape
    <2>3. Only(s, q)
      BY <1>1
    <2> HIDE DEF q
    <2>4. Good(s, q)
      BY <2>2, OutsideGood
    <2>5. QED
      BY <2>3, <2>4, OnlyInv
  <1>2. ASSUME key # NoKey,
               Only(s, [phase |-> "lookup", status |-> 0, actor |-> u, key |-> key,
                        call |-> call, own |-> 0, input |-> NoInput, count |-> 0, ids |-> {}])
        PROVE  Inv'
    <2>1. PICK q : q = [phase |-> "lookup", status |-> 0, actor |-> u, key |-> key,
                        call |-> call, own |-> 0, input |-> NoInput, count |-> 0, ids |-> {}]
      OBVIOUS
    <2>2. "lookup" \in Phases /\ 0 \in Statuses /\ 0 \in 0 .. MaxBoundary /\ key \in Keys
      BY <1>2, Bounds DEF Phases, Statuses
    <2>3. q \in Requests
      BY <2>1, <2>2, RequestFields
    <2>4. q \in Anything /\ q.phase = "lookup" /\ q.ids = {}
      BY <2>1, <2>3 DEF Anything
    <2>5. QED
      BY <1>2, <2>1, <2>4, BeforeGood, OnlyInv
  <1>3. QED
    BY <1>1, <1>2 DEF BeginDetection

LEMMA LookupInv ==
    ASSUME Inv, NEW s \in Slots, Lookup(s)
    PROVE  Inv'
  <1>1. PICK q \in Requests : q = request[s] /\ q.phase = "lookup" /\ Sound(q)
    BY OwnRequest DEF Lookup, Phases
  <1>2. CASE RunsOf(q) = {}
    <2>1. PICK n : n = Goto(q, "parcel")
      OBVIOUS
    <2>2. n \in Requests /\ n.phase = "parcel" /\ n.ids = {}
      BY <1>1, <2>1, GotoShape DEF Phases, Sound
    <2>3. Good(s, n)
      BY <2>2, BeforeGood DEF Anything
    <2>4. Only(s, n)
      BY <1>1, <1>2, <2>1 DEF Lookup
    <2>5. QED
      BY <2>3, <2>4, OnlyInv
  <1>3. CASE RunsOf(q) # {}
    <2>1. PICK run \in RunsOf(q) : Only(s, Replayed(q, run))
      BY <1>1, <1>3 DEF Lookup
    <2>2. PICK n : n = Replayed(q, run)
      OBVIOUS
    <2>3. Good(s, n)
      BY <2>2, ReplayedGood
    <2>4. QED
      BY <2>1, <2>2, <2>3, OnlyInv
  <1>4. QED
    BY <1>2, <1>3

LEMMA ReadParcelInv ==
    ASSUME Inv, NEW s \in Slots, ReadParcel(s)
    PROVE  Inv'
  <1>1. PICK q \in Requests : q = request[s] /\ q.phase = "parcel" /\ Sound(q)
    BY OwnRequest DEF ReadParcel, Phases
  <1>2. PICK own : own = boundary[ParcelOf[q.call.proposal]]
    OBVIOUS
  <1>3. own \in 1 .. MaxBoundary
    <2>1. q.call.proposal \in Proposals
      BY RequestFields DEF Call
    <2>2. QED
      BY <1>2, <2>1, Proposed DEF Inv, TypeOK
  <1>4. PICK n : n = [q EXCEPT !.phase = "neighbours", !.own = own]
    OBVIOUS
  <1>5. own \in 0 .. MaxBoundary /\ "neighbours" \in Phases
    BY <1>3, Bounds DEF Phases
  <1>6. n \in Requests
    BY <1>4, <1>5, RequestFields
  <1>7. n.phase = "neighbours" /\ n.own = own /\ n.ids = q.ids /\ n.call = q.call
    BY <1>4, RequestFields
  <1>8. n.ids = {} /\ n.own \in 1 .. boundary[ParcelOf[n.call.proposal]]
    BY <1>1, <1>2, <1>3, <1>7, Bounds DEF Sound
  <1>9. Good(s, n)
    BY <1>6, <1>7, <1>8, BeforeGood DEF Anything
  <1>10. Only(s, n)
    BY <1>1, <1>2, <1>4 DEF ReadParcel
  <1>11. QED
    BY <1>9, <1>10, OnlyInv

LEMMA ReadNeighboursInv ==
    ASSUME Inv, NEW s \in Slots, NEW count \in FindingCounts, ReadNeighbours(s, count)
    PROVE  Inv'
  <1>1. PICK q \in Requests : q = request[s] /\ q.phase = "neighbours" /\ Sound(q)
    BY OwnRequest DEF ReadNeighbours, Phases
  <1>2. PICK p : p = q.call.proposal
    OBVIOUS
  <1>3. PICK others : others = [x \in Neighbours(p) |-> boundary[x]]
    OBVIOUS
  <1>4. PICK input : input = InputOf(p, q.call.tolerance, q.own, others)
    OBVIOUS
  <1>5. p \in Proposals /\ q.call.tolerance \in Tolerances
    BY <1>2, RequestFields DEF Call
  <1>6. q.own \in 1 .. boundary[ParcelOf[p]] /\ boundary[ParcelOf[p]] \in 1 .. MaxBoundary
    BY <1>1, <1>2, <1>5, Proposed DEF Sound, Inv, TypeOK
  <1>7. q.own \in 1 .. MaxBoundary
    BY <1>6, Bounds
  <1>8. others \in [Neighbours(p) -> 1 .. MaxBoundary]
    BY <1>3 DEF Neighbours, Inv, TypeOK
  <1>9. others \in UNION {[Neighbours(r) -> 1 .. MaxBoundary] : r \in Proposals}
    BY <1>5, <1>8
  <1>10. input \in Inputs
    BY <1>4, <1>5, <1>7, <1>9 DEF InputOf, Inputs
  <1>11. \A x \in Neighbours(p) : boundary[x] \in 1 .. boundary[x]
    BY Bounds DEF Neighbours, Inv, TypeOK
  <1>12. RealInput(input, q.call)
    BY <1>2, <1>3, <1>4, <1>6, <1>11 DEF InputOf, RealInput
  <1>13. PICK n : n = [q EXCEPT !.phase = "inserting", !.count = count, !.input = input]
    OBVIOUS
  <1>14. n \in Requests
    BY <1>10, <1>13, RequestFields DEF Phases
  <1>15. n.phase = "inserting" /\ n.ids = q.ids /\ n.call = q.call /\ n.input = input
    BY <1>13, RequestFields
  <1>16. n.ids = {}
    BY <1>1, <1>15 DEF Sound
  <1>17. Sound(n)
    BY <1>10, <1>12, <1>15, <1>16 DEF Sound, InTransaction
  <1>18. Good(s, n)
    BY <1>14, <1>15, <1>16, <1>17 DEF Good, Apart, Anything
  <1>19. Only(s, n)
    BY <1>1, <1>2, <1>3, <1>4, <1>13 DEF ReadNeighbours
  <1>20. QED
    BY <1>18, <1>19, OnlyInv

LEMMA GiveUpInv ==
    ASSUME Inv, NEW s \in Slots, NEW status \in {422, 500}, GiveUp(s, status)
    PROVE  Inv'
  <1>1. PICK q \in Requests : q = request[s]
    BY OwnRequest DEF GiveUp, Phases
  <1>2. PICK n : n = Answer(q, status, {})
    OBVIOUS
  <1>3. Good(s, n)
    BY <1>2, FailedGood
  <1>4. QED
    BY <1>1, <1>2, <1>3, OnlyInv DEF GiveUp

LEMMA RecoverInv ==
    ASSUME Inv, NEW s \in Slots, Recover(s) \/ RecoverFails(s)
    PROVE  Inv'
  <1>1. PICK q \in Requests : q = request[s]
    BY OwnRequest DEF Recover, RecoverFails, Phases
  <1>2. ASSUME NEW run \in RunsOf(q), Only(s, Replayed(q, run))
        PROVE  Inv'
    <2>1. PICK n : n = Replayed(q, run)
      OBVIOUS
    <2>2. Good(s, n)
      BY <2>1, ReplayedGood
    <2>3. QED
      BY <1>2, <2>1, <2>2, OnlyInv
  <1>3. ASSUME Only(s, Answer(q, 500, {}))
        PROVE  Inv'
    <2>1. PICK n : n = Answer(q, 500, {})
      OBVIOUS
    <2>2. Good(s, n)
      BY <2>1, FailedGood
    <2>3. QED
      BY <1>3, <2>1, <2>2, OnlyInv
  <1>4. QED
    BY <1>1, <1>2, <1>3 DEF Recover, RecoverFails

LEMMA RollbackInv ==
    ASSUME Inv, NEW s \in Slots, Rollback(s)
    PROVE  Inv'
  <1>1. PICK q \in Requests : q = request[s]
    BY OwnRequest DEF Rollback, Phases
  <1>2. PICK n : n = Goto(q, "recovering")
    OBVIOUS
  <1>3. n \in Requests /\ n.phase = "recovering"
    BY <1>2, GotoShape DEF Phases
  <1>4. Good(s, n)
    BY <1>3, OutsideGood DEF Anything
  <1>5. QED
    BY <1>1, <1>2, <1>4, OnlyInv DEF Rollback

LEMMA FinishInv ==
    ASSUME Inv, NEW s \in Slots, Finish(s)
    PROVE  Inv'
  <1>1. Good(s, IdleRequest)
    BY OutsideShape, OutsideGood
  <1>2. QED
    BY <1>1, OnlyInv DEF Finish

-----------------------------------------------------------------------------
(* The transaction. *)

LEMMA InsertConflictInv ==
    ASSUME Inv, NEW s \in Slots, NEW id \in ConflictIds, InsertConflict(s, id)
    PROVE  Inv'
  <1>1. PICK q \in Requests : /\ q = request[s] /\ q.phase = "inserting" /\ Sound(q)
                              /\ \A t \in Slots : t # s => Apart(q, request[t])
    BY OwnRequest DEF InsertConflict, Phases
  <1>2. PICK n : n = [q EXCEPT !.ids = @ \cup {id}]
    OBVIOUS
  <1>3. n \in Requests
    BY <1>2, RequestFields
  <1>4. n.phase = "inserting" /\ n.ids = q.ids \cup {id} /\ n.call = q.call
        /\ n.input = q.input
    BY <1>1, <1>2, RequestFields
  <1>5. conflicts[id] = NoConflict
        /\ \A t \in Slots : InTransaction(request[t]) => id \notin request[t].ids
    BY <1>1 DEF InsertConflict, Unused, InTransaction
  <1>6. Sound(n)
    BY <1>1, <1>4, <1>5 DEF Sound, InTransaction
  <1>7. ASSUME NEW t \in Slots, t # s
        PROVE  Apart(n, request[t]) /\ Apart(request[t], n)
    <2>1. InTransaction(request[t]) => q.ids \cap request[t].ids = {}
      BY <1>1, <1>7 DEF Apart, InTransaction
    <2>2. QED
      BY <1>4, <1>5, <2>1 DEF Apart, InTransaction
  <1>8. Good(s, n)
    BY <1>3, <1>6, <1>7 DEF Good, Anything
  <1>9. QED
    BY <1>1, <1>2, <1>8, OnlyInv DEF InsertConflict

LEMMA InsertRunInv ==
    ASSUME Inv, NEW s \in Slots, InsertRun(s)
    PROVE  Inv'
  <1>1. PICK q \in Requests : /\ q = request[s] /\ q.phase = "inserting" /\ Sound(q)
                              /\ \A t \in Slots : t # s => Apart(q, request[t])
    BY OwnRequest DEF InsertRun, Phases
  <1>2. CASE DuplicateKey(q)
    <2>1. PICK n : n = Goto(q, "recovering")
      OBVIOUS
    <2>2. n \in Requests /\ n.phase = "recovering"
      BY <2>1, GotoShape DEF Phases
    <2>3. Good(s, n)
      BY <2>2, OutsideGood DEF Anything
    <2>4. Only(s, n)
      BY <1>1, <1>2, <2>1 DEF InsertRun
    <2>5. QED
      BY <2>3, <2>4, OnlyInv
  <1>3. CASE ~DuplicateKey(q)
    <2>1. PICK n : n = Goto(q, "indexed")
      OBVIOUS
    <2>2. n \in Requests /\ n.phase = "indexed" /\ n.ids = q.ids /\ n.call = q.call
          /\ n.input = q.input /\ n.actor = q.actor /\ n.key = q.key
      BY <2>1, GotoShape DEF Phases
    <2>3. RunsOf(n) = {}
      BY <1>3, <2>2 DEF DuplicateKey, RunsOf
    <2>4. Sound(n)
      BY <1>1, <2>2, <2>3 DEF Sound, InTransaction
    <2>5. ASSUME NEW t \in Slots, t # s
          PROVE  Apart(n, request[t]) /\ Apart(request[t], n)
      <3>1. InTransaction(request[t]) => q.ids \cap request[t].ids = {}
        BY <1>1, <2>5 DEF Apart, InTransaction
      <3>2. request[t].phase = "indexed" => request[t].actor # q.actor \/ request[t].key # q.key
        BY <1>1 DEF InsertRun, KeyHeld
      <3>3. QED
        BY <2>2, <3>1, <3>2 DEF Apart, InTransaction
    <2>6. Good(s, n)
      BY <2>2, <2>4, <2>5 DEF Good, Anything
    <2>7. Only(s, n)
      BY <1>1, <1>3, <2>1 DEF InsertRun
    <2>8. QED
      BY <2>6, <2>7, OnlyInv
  <1>4. QED
    BY <1>2, <1>3

(* The commit: rows, run and entries appear at once. *)

LEMMA CommitInv ==
    ASSUME Inv, NEW s \in Slots, Commit(s)
    PROVE  Inv'
  <1>1. PICK q \in Requests : /\ q = request[s] /\ q.phase = "indexed" /\ Sound(q)
                              /\ \A t \in Slots : t # s => Apart(q, request[t])
    BY OwnRequest DEF Commit, Phases
  <1>2. PICK run : run = RunOf(q)
    OBVIOUS
  <1>3. PICK n : n = Answer(q, 200, q.ids)
    OBVIOUS
  <1>4. /\ q.ids \in SUBSET ConflictIds /\ q.input \in Inputs /\ RealInput(q.input, q.call)
        /\ RunsOf(q) = {} /\ \A id \in q.ids : conflicts[id] = NoConflict
    BY <1>1, RequestFields DEF Sound, InTransaction
  <1>5. run \in Run /\ run.actor = q.actor /\ run.key = q.key /\ run.call = q.call
        /\ run.input = q.input /\ run.ids = q.ids
    BY <1>2, <1>4, RequestFields DEF RunOf, Run
  <1>6. n \in Requests /\ n.phase = "answered" /\ n.status = 200 /\ n.ids = q.ids
        /\ n.actor = q.actor /\ n.key = q.key /\ n.call = q.call
    BY <1>3, <1>4, AnswerShape DEF Statuses
  <1>7. /\ request \in [Slots -> Anything]
        /\ conflicts \in [ConflictIds -> {NoConflict} \cup [input : Inputs]]
        /\ runs \subseteq Run
    BY DEF Inv, TypeOK, Anything
  <1>8. /\ conflicts' = Written(q) /\ runs' = runs \cup {run} /\ UNCHANGED <<boundary, known>>
        /\ auditLog' = auditLog \cup Detected(q) \cup {Completed(run)}
        /\ request' = [request EXCEPT ![s] = n]
    BY <1>1, <1>2, <1>3 DEF Commit
  <1>9. request'[s] = n /\ \A t \in Slots : t # s => request'[t] = request[t]
    BY <1>7, <1>8
  <1>10. \A id \in ConflictIds :
            conflicts'[id] = IF id \in q.ids THEN [input |-> q.input] ELSE conflicts[id]
    BY <1>8 DEF Written
  <1>11. [input |-> q.input] # NoConflict
    <2>1. q.input.own \in 1 .. MaxBoundary
      BY <1>4 DEF Inputs
    <2>2. q.input.own # 0
      BY <2>1, Bounds
    <2>3. NoInput.own = 0
      BY DEF NoInput
    <2>4. q.input # NoInput
      BY <2>2, <2>3
    <2>5. QED
      BY <2>4 DEF NoConflict
  <1>12. TypeOK'
    <2>1. conflicts' \in [ConflictIds -> {NoConflict} \cup [input : Inputs]]
      BY <1>4, <1>7, <1>8 DEF Written
    <2>2. request' \in [Slots -> Anything]
      BY <1>6, <1>7, <1>8 DEF Anything
    <2>3. runs' \subseteq Run
      BY <1>5, <1>7, <1>8
    <2>4. QED
      BY <1>8, <2>1, <2>2, <2>3 DEF Inv, TypeOK, Anything
  <1>13. OneRunPerKey'
    <2>1. \A other \in runs : other.actor # run.actor \/ other.key # run.key
      BY <1>4, <1>5 DEF RunsOf
    <2>2. QED
      BY <1>8, <2>1 DEF Inv, OneRunPerKey
  <1>14. InputsAreReal'
    BY <1>4, <1>5, <1>8 DEF Inv, InputsAreReal, RealInput
  <1>15. NoOrphans'
    <2>1. ASSUME NEW other \in runs
          PROVE  other.ids \subseteq ConflictIds /\ other.ids \cap q.ids = {}
      <3>1. other.ids \subseteq ConflictIds
        BY <1>7 DEF Run
      <3>2. \A id \in other.ids : conflicts[id] # NoConflict
        BY DEF Inv, NoOrphans
      <3>3. QED
        BY <1>4, <3>1, <3>2
    <2>2. ASSUME NEW id \in ConflictIds, conflicts'[id] # NoConflict
          PROVE  \E r \in runs' : /\ id \in r.ids /\ conflicts'[id].input = r.input
                                  /\ \A other \in runs' : id \in other.ids => other = r
      <3>1. CASE id \in q.ids
        <4>1. conflicts'[id].input = run.input /\ id \in run.ids
          BY <1>5, <1>10, <3>1
        <4>2. \A other \in runs' : id \in other.ids => other = run
          BY <1>8, <2>1, <3>1
        <4>3. QED
          BY <1>8, <4>1, <4>2
      <3>2. CASE id \notin q.ids
        <4>1. conflicts'[id] = conflicts[id]
          BY <1>10, <3>2
        <4>2. PICK r \in runs : /\ id \in r.ids /\ conflicts[id].input = r.input
                                /\ \A other \in runs : id \in other.ids => other = r
          BY <2>2, <4>1 DEF Inv, NoOrphans
        <4>3. QED
          BY <1>5, <1>8, <3>2, <4>1, <4>2
      <3>3. QED
        BY <3>1, <3>2
    <2>3. ASSUME NEW r \in runs', NEW id \in r.ids
          PROVE  conflicts'[id] # NoConflict
      <3>1. CASE r \in runs
        <4>1. conflicts[id] # NoConflict /\ id \in ConflictIds /\ id \notin q.ids
          BY <2>1, <2>3, <3>1 DEF Inv, NoOrphans
        <4>2. QED
          BY <1>10, <4>1
      <3>2. CASE r = run
        BY <1>4, <1>5, <1>10, <1>11, <2>3, <3>2
      <3>3. QED
        BY <1>8, <3>1, <3>2
    <2>4. auditLog' = {Completed(r) : r \in runs'} \cup UNION {Detected(r) : r \in runs'}
      <3>1. auditLog = {Completed(r) : r \in runs} \cup UNION {Detected(r) : r \in runs}
        BY DEF Inv, NoOrphans
      <3>2. Detected(q) = Detected(run)
        BY <1>5 DEF Detected
      <3>3. {Completed(r) : r \in runs'} = {Completed(r) : r \in runs} \cup {Completed(run)}
        BY <1>8
      <3>4. UNION {Detected(r) : r \in runs'}
            = (UNION {Detected(r) : r \in runs}) \cup Detected(run)
        BY <1>8
      <3>5. QED
        BY <1>8, <3>1, <3>2, <3>3, <3>4
    <2>5. QED
      BY <2>2, <2>3, <2>4 DEF NoOrphans
  <1>16. ASSUME NEW t \in Slots PROVE Sound(request[t])'
    <2>1. PICK r : r = request'[t]
      OBVIOUS
    <2>2. CASE t = s
      <3>1. r = n
        BY <1>9, <2>1, <2>2
      <3>2. run \in RunsOf(r)'
        BY <1>5, <1>6, <1>8, <3>1 DEF RunsOf
      <3>3. Sound(r)'
        BY <1>5, <1>6, <3>1, <3>2 DEF Sound, InTransaction
      <3>4. QED
        BY <2>1, <3>3
    <2>3. CASE t # s
      <3>1. r = request[t] /\ Sound(r) /\ Apart(q, r) /\ r \in Anything
        BY <1>1, <1>7, <1>9, <2>1, <2>3 DEF Inv, RequestsSound
      <3>2. r.phase \in Phases => r \in Requests
        BY <3>1, AcceptedShape
      <3>3. InTransaction(r) => \A id \in r.ids : conflicts'[id] = NoConflict
        <4>1. SUFFICES ASSUME InTransaction(r), NEW id \in r.ids
                       PROVE  conflicts'[id] = NoConflict
          OBVIOUS
        <4>2. id \notin q.ids /\ conflicts[id] = NoConflict
          BY <1>1, <3>1, <4>1 DEF Apart, InTransaction, Sound
        <4>3. r \in Requests
          BY <3>2, <4>1 DEF InTransaction, Phases
        <4>4. id \in ConflictIds
          BY <4>1, <4>3, RequestFields
        <4>5. QED
          BY <1>10, <4>2, <4>4
      <3>4. r.phase = "indexed" => RunsOf(r)' = {}
        <4>1. SUFFICES ASSUME r.phase = "indexed" PROVE RunsOf(r)' = {}
          OBVIOUS
        <4>2. RunsOf(r) = {} /\ (q.actor # r.actor \/ q.key # r.key)
          BY <1>1, <3>1, <4>1 DEF Sound, Apart
        <4>3. QED
          BY <1>5, <1>8, <4>2 DEF RunsOf
      <3>5. RunsOf(r) \subseteq RunsOf(r)'
        BY <1>8 DEF RunsOf
      <3>6. RealInput(r.input, r.call) => RealInput(r.input, r.call)'
        BY <1>8 DEF RealInput
      <3>7. Sound(r)'
        BY <1>8, <3>1, <3>3, <3>4, <3>5, <3>6 DEF Sound, InTransaction
      <3>8. QED
        BY <2>1, <3>7
    <2>4. QED
      BY <2>2, <2>3
  <1>17. ASSUME NEW t \in Slots, NEW u \in Slots, t # u PROVE Apart(request[t], request[u])'
    <2>1. ~InTransaction(n) /\ n.phase # "indexed"
      BY <1>6 DEF InTransaction
    <2>2. Apart(request'[t], request'[u])
      BY <1>9, <1>17, <2>1 DEF Apart, Inv, RequestsSound
    <2>3. QED
      BY <2>2 DEF Apart, InTransaction
  <1>18. QED
    BY <1>12, <1>13, <1>14, <1>15, <1>16, <1>17 DEF Inv, RequestsSound

-----------------------------------------------------------------------------
(* What takes no part in a transaction. *)

LEMMA CrashInv ==
    ASSUME Inv, Crash
    PROVE  Inv'
  <1>1. /\ request' \in [Slots -> Anything] /\ \A s \in Slots : request'[s].phase = "idle"
        /\ UNCHANGED <<boundary, known, conflicts, runs, auditLog>>
    BY OutsideShape DEF Crash
  <1>2. TypeOK'
    BY <1>1 DEF Inv, TypeOK, Anything
  <1>3. OneRunPerKey' /\ InputsAreReal'
    BY <1>1 DEF Inv, OneRunPerKey, InputsAreReal
  <1>4. NoOrphans'
    BY <1>1 DEF Inv, NoOrphans
  <1>5. RequestsSound'
    BY <1>1 DEF RequestsSound, Sound, Apart, InTransaction
  <1>6. QED
    BY <1>2, <1>3, <1>4, <1>5 DEF Inv

LEMMA ParcelUpdatedInv ==
    ASSUME Inv, NEW x \in Parcels, ParcelUpdated(x)
    PROVE  Inv'
  <1>1. boundary \in [Parcels -> 1 .. MaxBoundary]
    BY DEF Inv, TypeOK
  <1>2. /\ boundary[x] < MaxBoundary /\ boundary' = [boundary EXCEPT ![x] = boundary[x] + 1]
        /\ UNCHANGED <<known, conflicts, runs, auditLog, request>>
    BY DEF ParcelUpdated
  <1>3. boundary' \in [Parcels -> 1 .. MaxBoundary]
    BY <1>1, <1>2, Bounds
  <1>4. \A y \in Parcels : boundary[y] \in Nat /\ boundary'[y] \in Nat /\ boundary[y] <= boundary'[y]
    BY <1>1, <1>2, <1>3, Bounds
  <1>5. \A p \in Proposals : ParcelOf[p] \in Parcels /\ Neighbours(p) \subseteq Parcels
    BY Proposed DEF Neighbours
  <1>6. TypeOK'
    BY <1>2, <1>3 DEF Inv, TypeOK
  <1>7. OneRunPerKey'
    BY <1>2 DEF Inv, OneRunPerKey
  <1>8. NoOrphans'
    BY <1>2 DEF Inv, NoOrphans
  <1>9. ASSUME NEW input, NEW call \in Call, RealInput(input, call)
        PROVE  RealInput(input, call)'
    <2>1. PICK p \in Proposals : p = call.proposal
      BY DEF Call
    <2>2. \A y \in Parcels : \A v : v \in 1 .. boundary[y] => v \in 1 .. boundary'[y]
      BY <1>4
    <2>3. QED
      BY <1>5, <1>9, <2>1, <2>2 DEF RealInput
  <1>10. InputsAreReal'
    <2>1. \A run \in runs : run.call \in Call
      BY DEF Inv, TypeOK, Run
    <2>2. \A run \in runs : RealInput(run.input, run.call)
      BY DEF Inv, InputsAreReal, RealInput
    <2>3. \A run \in runs : RealInput(run.input, run.call)'
      BY <1>9, <2>1, <2>2
    <2>4. QED
      BY <1>2, <2>3 DEF InputsAreReal, RealInput
  <1>11. ASSUME NEW s \in Slots PROVE Sound(request[s])'
    <2>1. PICK q : q = request[s]
      OBVIOUS
    <2>2. Sound(q) /\ q \in Anything
      BY <2>1 DEF Inv, RequestsSound, TypeOK, Anything
    <2>3. q.phase \in Phases => q.call \in Call /\ q.call.proposal \in Proposals
      BY <2>2, AcceptedShape, RequestFields DEF Call
    <2>4. q.phase = "neighbours" => q.own \in 1 .. boundary'[ParcelOf[q.call.proposal]]
      <3>1. SUFFICES ASSUME q.phase = "neighbours"
                     PROVE  q.own \in 1 .. boundary'[ParcelOf[q.call.proposal]]
        OBVIOUS
      <3>2. ParcelOf[q.call.proposal] \in Parcels
        BY <1>5, <2>3, <3>1 DEF Phases
      <3>3. q.own \in 1 .. boundary[ParcelOf[q.call.proposal]]
        BY <2>2, <3>1 DEF Sound
      <3>4. QED
        BY <1>4, <3>2, <3>3
    <2>5. InTransaction(q) => RealInput(q.input, q.call)'
      BY <1>9, <2>2, <2>3 DEF Sound, InTransaction, Phases
    <2>6. RunsOf(q)' = RunsOf(q)
      BY <1>2 DEF RunsOf
    <2>7. Sound(q)'
      BY <1>2, <2>2, <2>4, <2>5, <2>6 DEF Sound, InTransaction
    <2>8. QED
      BY <1>2, <2>1, <2>7
  <1>12. ASSUME NEW s \in Slots, NEW t \in Slots, s # t PROVE Apart(request[s], request[t])'
    BY <1>2, <1>12 DEF Inv, RequestsSound, Apart, InTransaction
  <1>13. QED
    BY <1>6, <1>7, <1>8, <1>10, <1>11, <1>12 DEF Inv, RequestsSound

LEMMA SameViewInv ==
    ASSUME Inv, UNCHANGED <<boundary, conflicts, runs, auditLog, request>>,
           known' \subseteq Proposals
    PROVE  Inv'
  <1>1. TypeOK'
    BY DEF Inv, TypeOK
  <1>2. OneRunPerKey' /\ InputsAreReal'
    BY DEF Inv, OneRunPerKey, InputsAreReal
  <1>3. NoOrphans'
    BY DEF Inv, NoOrphans
  <1>4. RequestsSound'
    BY DEF Inv, RequestsSound, Sound, Apart, InTransaction, RunsOf, RealInput
  <1>5. QED
    BY <1>1, <1>2, <1>3, <1>4 DEF Inv

-----------------------------------------------------------------------------
LEMMA InitInv == Init => Inv
  <1> SUFFICES ASSUME Init PROVE Inv
    OBVIOUS
  <1>1. TypeOK
    <2>1. 1 \in 1 .. MaxBoundary
      BY Bounds
    <2>2. QED
      BY <2>1 DEF Init, TypeOK
  <1>2. OneRunPerKey /\ InputsAreReal
    BY DEF Init, OneRunPerKey, InputsAreReal
  <1>3. NoOrphans
    BY DEF Init, NoOrphans
  <1>4. \A s \in Slots : request[s].phase = "idle"
    BY DEF Init, IdleRequest
  <1>5. RequestsSound
    BY <1>4 DEF RequestsSound, Sound, Apart, InTransaction
  <1>6. QED
    BY <1>1, <1>2, <1>3, <1>5 DEF Inv

LEMMA NextInv == Inv /\ [Next]_vars => Inv'
  <1> SUFFICES ASSUME Inv, [Next]_vars PROVE Inv'
    OBVIOUS
  <1>1. ASSUME NEW s \in Slots, NEW u \in Users, NEW key \in Keys \cup {NoKey}, NEW call \in Call,
               BeginDetection(s, u, key, call)
        PROVE  Inv'
    BY <1>1, BeginInv
  <1>2. ASSUME NEW s \in Slots, Work(s) PROVE Inv'
    BY <1>2, LookupInv, ReadParcelInv, ReadNeighboursInv, InsertConflictInv, InsertRunInv,
       CommitInv, RecoverInv
    DEF Work
  <1>3. ASSUME NEW s \in Slots, Mishap(s) PROVE Inv'
    BY <1>3, GiveUpInv, RollbackInv, RecoverInv DEF Mishap
  <1>4. ASSUME NEW s \in Slots, Finish(s) PROVE Inv'
    BY <1>4, FinishInv
  <1>5. CASE Crash
    BY <1>5, CrashInv
  <1>6. ASSUME NEW x \in Parcels, ParcelUpdated(x) PROVE Inv'
    BY <1>6, ParcelUpdatedInv
  <1>7. ASSUME NEW p \in Proposals, ProposalCreated(p) PROVE Inv'
    <2>1. known' \subseteq Proposals
      BY <1>7 DEF ProposalCreated, Inv, TypeOK
    <2>2. QED
      BY <1>7, <2>1, SameViewInv DEF ProposalCreated
  <1>8. CASE UNCHANGED vars
    <2>1. known' \subseteq Proposals
      BY <1>8 DEF vars, Inv, TypeOK
    <2>2. QED
      BY <1>8, <2>1, SameViewInv DEF vars
  <1>9. QED
    BY <1>1, <1>2, <1>3, <1>4, <1>5, <1>6, <1>7, <1>8 DEF Next, Step, Env

LEMMA Invariance == Spec => []Inv
  BY InitInv, NextInv, PTL DEF Spec

\* Whatever is reachable, tables and requests hold values of their types.
THEOREM TypeCorrect == Spec => []TypeOK
  <1>1. Inv => TypeOK
    BY DEF Inv
  <1>2. QED
    BY <1>1, Invariance, PTL

\* DetectConflicts and the unique index of its runs: one run for an actor and a key.
THEOREM KeysNameOneRun == Spec => []OneRunPerKey
  <1>1. Inv => OneRunPerKey
    BY DEF Inv
  <1>2. QED
    BY <1>1, Invariance, PTL

\* replayDetectionRun: every answer is that of the run stored under the key.
THEOREM AnswersAreStored == Spec => []AnswersComeFromTheRun
  <1>1. Inv => AnswersComeFromTheRun
    BY DEF Inv, RequestsSound, Sound, AnswersComeFromTheRun
  <1>2. QED
    BY <1>1, Invariance, PTL

\* The detection transaction: all of a run's rows and entries are there, or none.
THEOREM DetectionIsAtomic == Spec => []NoOrphans
  <1>1. Inv => NoOrphans
    BY DEF Inv
  <1>2. QED
    BY <1>1, Invariance, PTL

\* The input a run is stored with is of its request, and its boundaries were real.
THEOREM InputsWereRead == Spec => []InputsAreReal
  <1>1. Inv => InputsAreReal
    BY DEF Inv
  <1>2. QED
    BY <1>1, Invariance, PTL

-----------------------------------------------------------------------------
(* The refinement. *)

Pending == Phases \ {"answered"}

Owner(q) == <<q.actor, q.key>>

LEMMA OwnerIs == \A q \in Requests : Owner(q) \in Owners /\ q.call \in Call
  BY RequestFields DEF Owner, Owners

LEMMA NoCallOf ==
    ASSUME NEW q, q.phase \in {"idle", "refused"}
    PROVE  CallOf(q) = {}
  BY DEF CallOf

LEMMA PendingCallOf ==
    ASSUME NEW q, q.phase \in Pending
    PROVE  CallOf(q) = {Abstract!Call(Owner(q), q.call, "pending", {})}
  BY DEF CallOf, OutcomeOf, Owner, Pending, Phases, Abstract!Call

LEMMA AnsweredCallOf ==
    ASSUME NEW q, q.phase = "answered"
    PROVE  /\ q.status = 200 =>
                CallOf(q) = {Abstract!Call(Owner(q), q.call, "done", q.ids)}
           /\ q.status = 409 =>
                CallOf(q) = {Abstract!Call(Owner(q), q.call, "refused", q.ids)}
           /\ q.status \in {422, 500} =>
                CallOf(q) = {Abstract!Call(Owner(q), q.call, "failed", q.ids)}
  BY DEF CallOf, OutcomeOf, Owner, Abstract!Call

LEMMA CallsAre == Calls \in [Slots -> {CallOf(q) : q \in {request[s] : s \in Slots}}]
                  /\ \A s \in Slots : Calls[s] = CallOf(request[s])
  BY DEF Calls

\* Request s becomes q, and nothing else happens to the requests.
Becomes(s, q) == request' = [request EXCEPT ![s] = q]

\* One request changes: one call changes.
LEMMA CallsMove ==
    ASSUME Inv, NEW s \in Slots, NEW q, Becomes(s, q)
    PROVE  Calls' = [Calls EXCEPT ![s] = CallOf(q)] /\ Calls[s] = CallOf(request[s])
  <1>1. request \in [Slots -> Anything]
    BY DEF Inv, TypeOK, Anything
  <1>2. \A t \in Slots : request'[t] = IF t = s THEN q ELSE request[t]
    BY <1>1 DEF Becomes
  <1>3. Calls' = [t \in Slots |-> CallOf(request'[t])]
    BY DEF Calls, CallOf, OutcomeOf
  <1>4. [Calls EXCEPT ![s] = CallOf(q)]
          = [t \in Slots |-> IF t = s THEN CallOf(q) ELSE CallOf(request[t])]
    BY DEF Calls
  <1>5. QED
    BY <1>2, <1>3, <1>4, CallsAre

LEMMA StoreStays ==
    ASSUME UNCHANGED runs
    PROVE  UNCHANGED Store
  BY DEF Store, StoreOf

LEMMA StoreHas ==
    ASSUME Inv, NEW q \in Requests
    PROVE  /\ \A run \in RunsOf(q) : Abstract!Entry(run.call, run.ids) \in Store[Owner(q)]
           /\ RunsOf(q) = {} => Store[Owner(q)] = {}
  <1>1. Store[Owner(q)] = {[request |-> run.call, result |-> run.ids] :
                             run \in {r \in runs : <<r.actor, r.key>> = Owner(q)}}
    BY OwnerIs DEF Store, StoreOf
  <1>2. {r \in runs : <<r.actor, r.key>> = Owner(q)} = RunsOf(q)
    BY DEF RunsOf, Owner
  <1>3. QED
    BY <1>1, <1>2 DEF Abstract!Entry

\* A request on its way stays on its way: nothing happens to its call.
LEMMA PendingStutters ==
    ASSUME Inv, NEW s \in Slots, NEW n, Only(s, n),
           request[s].phase \in Pending, n.phase \in Pending,
           n.actor = request[s].actor, n.key = request[s].key, n.call = request[s].call
    PROVE  UNCHANGED <<Store, Calls>>
  <1>1. CallOf(n) = CallOf(request[s])
    BY PendingCallOf DEF Owner
  <1>2. Becomes(s, n)
    BY DEF Only, Becomes
  <1>3. Calls' = [Calls EXCEPT ![s] = Calls[s]]
    BY <1>1, <1>2, CallsMove
  <1>4. Calls' = Calls
    BY <1>3 DEF Calls
  <1>5. QED
    BY <1>4, StoreStays DEF Only

\* The call of request q in slot s is answered.
AnsweredAs(s, q, outcome, ids) ==
    \E c \in Calls[s] : /\ c.owner = Owner(q) /\ c.request = q.call
                        /\ Abstract!Answer(s, c, outcome, ids)

CalledAs(n, q, outcome, ids) == CallOf(n) = {Abstract!Call(Owner(q), q.call, outcome, ids)}

LEMMA CallAnswered ==
    ASSUME Inv, NEW s \in Slots, NEW q, q = request[s], q.phase \in Pending,
           NEW n, Becomes(s, n), NEW outcome, NEW ids, CalledAs(n, q, outcome, ids)
    PROVE  AnsweredAs(s, q, outcome, ids)
  <1>1. Calls' = [Calls EXCEPT ![s] = CallOf(n)] /\ Calls[s] = CallOf(q)
    BY CallsMove
  <1>2. CallOf(q) = {Abstract!Call(Owner(q), q.call, "pending", {})}
    BY PendingCallOf
  <1>3. PICK c : c = Abstract!Call(Owner(q), q.call, "pending", {})
    OBVIOUS
  <1>4. c.owner = Owner(q) /\ c.request = q.call /\ c.outcome = "pending"
    BY <1>3 DEF Abstract!Call
  <1>5. c \in Calls[s] /\ Abstract!Answer(s, c, outcome, ids)
    BY <1>1, <1>2, <1>3, <1>4 DEF Abstract!Answer, CalledAs
  <1>6. QED
    BY <1>4, <1>5 DEF AnsweredAs

LEMMA AnswerMoves ==
    ASSUME Inv, NEW s \in Slots, NEW q \in Requests, q = request[s], q.phase \in Pending,
           NEW status \in Statuses, NEW ids \in SUBSET ConflictIds,
           Becomes(s, Answer(q, status, ids))
    PROVE  /\ status = 200 => AnsweredAs(s, q, "done", ids)
           /\ status = 409 => AnsweredAs(s, q, "refused", ids)
           /\ status \in {422, 500} => AnsweredAs(s, q, "failed", ids)
  <1>1. PICK n : n = Answer(q, status, ids)
    OBVIOUS
  <1>2. n.phase = "answered" /\ n.status = status /\ n.ids = ids /\ Owner(n) = Owner(q)
        /\ n.call = q.call
    BY <1>1, AnswerShape DEF Owner
  <1>3. Becomes(s, n)
    BY <1>1
  <1>4. /\ status = 200 => CalledAs(n, q, "done", ids)
        /\ status = 409 => CalledAs(n, q, "refused", ids)
        /\ status \in {422, 500} => CalledAs(n, q, "failed", ids)
    BY <1>2, AnsweredCallOf DEF CalledAs
  <1>5. QED
    BY <1>3, <1>4, CallAnswered

LEMMA FailedIsFail ==
    ASSUME Inv, NEW s \in Slots, NEW q \in Requests, q = request[s], q.phase \in Pending,
           NEW status \in {422, 500}, Only(s, Answer(q, status, {}))
    PROVE  Abstract!Next
  <1>1. Becomes(s, Answer(q, status, {})) /\ UNCHANGED Store
    BY StoreStays DEF Only, Becomes
  <1>2. {} \in SUBSET ConflictIds /\ status \in Statuses
    BY DEF Statuses
  <1>3. AnsweredAs(s, q, "failed", {})
    BY <1>1, <1>2, AnswerMoves
  <1>4. PICK c \in Calls[s] : Abstract!Fail(s, c)
    BY <1>1, <1>3 DEF AnsweredAs, Abstract!Fail
  <1>5. QED
    BY <1>4 DEF Abstract!Next

LEMMA ReplayedIsReplay ==
    ASSUME Inv, NEW s \in Slots, NEW q \in Requests, q = request[s], q.phase \in Pending,
           NEW run \in RunsOf(q), Only(s, Replayed(q, run))
    PROVE  Abstract!Next
  <1>1. PICK e \in Store[Owner(q)] : e.request = run.call /\ e.result = run.ids
    <2>1. Abstract!Entry(run.call, run.ids) \in Store[Owner(q)]
      BY StoreHas
    <2>2. QED
      BY <2>1 DEF Abstract!Entry
  <1>2. run.ids \in SUBSET ConflictIds /\ {} \in SUBSET ConflictIds
        /\ 200 \in Statuses /\ 409 \in Statuses
    BY DEF RunsOf, Inv, TypeOK, Run, Statuses
  <1>3. UNCHANGED Store
    BY StoreStays DEF Only
  <1>4. CASE run.call = q.call
    <2>1. Becomes(s, Answer(q, 200, run.ids))
      BY <1>4 DEF Only, Replayed, Becomes
    <2>2. AnsweredAs(s, q, "done", run.ids)
      BY <1>2, <2>1, AnswerMoves
    <2>3. PICK c \in Calls[s] : Abstract!Replay(s, c)
      BY <1>1, <1>3, <1>4, <2>2 DEF Abstract!Replay, AnsweredAs
    <2>4. QED
      BY <2>3 DEF Abstract!Next
  <1>5. CASE run.call # q.call
    <2>1. Becomes(s, Answer(q, 409, {}))
      BY <1>5 DEF Only, Replayed, Becomes
    <2>2. AnsweredAs(s, q, "refused", {})
      BY <1>2, <2>1, AnswerMoves
    <2>3. PICK c \in Calls[s] : Abstract!Refuse(s, c)
      BY <1>1, <1>3, <1>5, <2>2 DEF Abstract!Refuse, AnsweredAs
    <2>4. QED
      BY <2>3 DEF Abstract!Next
  <1>6. QED
    BY <1>4, <1>5

\* The commit stores the owner's entry, and answers with it.
LEMMA CommitIsPerform ==
    ASSUME Inv, NEW s \in Slots, Commit(s)
    PROVE  Abstract!Next
  <1>1. PICK q \in Requests : q = request[s] /\ q.phase = "indexed" /\ Sound(q)
    BY OwnRequest DEF Commit, Phases
  <1>2. PICK run : run = RunOf(q)
    OBVIOUS
  <1>3. run.actor = q.actor /\ run.key = q.key /\ run.call = q.call /\ run.ids = q.ids
    BY <1>2 DEF RunOf
  <1>4. q.phase \in Pending /\ q.ids \in SUBSET ConflictIds /\ RunsOf(q) = {}
    BY <1>1, RequestFields DEF Pending, Phases, Sound
  <1>5. runs' = runs \cup {run} /\ Becomes(s, Answer(q, 200, q.ids)) /\ 200 \in Statuses
    BY <1>1, <1>2 DEF Commit, Becomes, Statuses
  <1>6. AnsweredAs(s, q, "done", q.ids)
    BY <1>1, <1>4, <1>5, AnswerMoves
  <1>7. Store[Owner(q)] = {}
    BY <1>4, StoreHas
  <1>8. Store' = [Store EXCEPT ![Owner(q)] = {Abstract!Entry(q.call, q.ids)}]
    <2>1. ASSUME NEW o \in Owners, o # Owner(q)
          PROVE  StoreOf(o)' = StoreOf(o)
      <3>1. {r \in runs' : <<r.actor, r.key>> = o} = {r \in runs : <<r.actor, r.key>> = o}
        BY <1>3, <1>5, <2>1 DEF Owner
      <3>2. QED
        BY <3>1 DEF StoreOf
    <2>2. StoreOf(Owner(q))' = {Abstract!Entry(q.call, q.ids)}
      <3>1. {r \in runs' : <<r.actor, r.key>> = Owner(q)} = {run}
        <4>1. {r \in runs : <<r.actor, r.key>> = Owner(q)} = {}
          BY <1>4 DEF RunsOf, Owner
        <4>2. <<run.actor, run.key>> = Owner(q)
          BY <1>3 DEF Owner
        <4>3. QED
          BY <1>5, <4>1, <4>2
      <3>2. QED
        BY <1>3, <3>1 DEF StoreOf, Abstract!Entry, Owner
    <2>3. \A o \in Owners : StoreOf(o)' = IF o = Owner(q) THEN {Abstract!Entry(q.call, q.ids)}
                                         ELSE StoreOf(o)
      BY <2>1, <2>2
    <2>4. Store' = [o \in Owners |-> StoreOf(o)']
      BY DEF Store
    <2>5. [Store EXCEPT ![Owner(q)] = {Abstract!Entry(q.call, q.ids)}]
            = [o \in Owners |-> IF o = Owner(q) THEN {Abstract!Entry(q.call, q.ids)} ELSE StoreOf(o)]
      BY DEF Store
    <2>6. QED
      BY <2>3, <2>4, <2>5
  <1>9. PICK c \in Calls[s] : Abstract!Perform(s, c, q.ids)
    BY <1>6, <1>7, <1>8 DEF Abstract!Perform, AnsweredAs
  <1>10. QED
    BY <1>4, <1>9 DEF Abstract!Next

LEMMA BeginIsBegin ==
    ASSUME Inv, NEW s \in Slots, NEW u \in Users, NEW key \in Keys \cup {NoKey},
           NEW call \in Call, BeginDetection(s, u, key, call)
    PROVE  Abstract!Next \/ UNCHANGED <<Store, Calls>>
  <1>1. Calls[s] = {}
    BY CallsAre, NoCallOf, OutsideShape DEF BeginDetection
  <1>2. ASSUME NEW n, Only(s, n), n.phase = "refused"
        PROVE  UNCHANGED <<Store, Calls>>
    <2>1. Calls' = [Calls EXCEPT ![s] = {}]
      <3>1. Becomes(s, n) /\ CallOf(n) = {}
        BY <1>2, NoCallOf DEF Only, Becomes
      <3>2. QED
        BY <3>1, CallsMove
    <2>2. Calls' = Calls
      BY <1>1, <2>1 DEF Calls
    <2>3. QED
      BY <1>2, <2>2, StoreStays DEF Only
  <1>3. ASSUME NEW n, Only(s, n), n.phase = "lookup", n.actor = u, n.key = key, n.call = call,
               key # NoKey
        PROVE  Abstract!Next
    <2>1. CallOf(n) = {Abstract!Call(<<u, key>>, call, "pending", {})}
      BY <1>3, PendingCallOf DEF Owner, Pending, Phases
    <2>2. Calls' = [Calls EXCEPT ![s] = {Abstract!Call(<<u, key>>, call, "pending", {})}]
      <3>1. Becomes(s, n)
        BY <1>3 DEF Only, Becomes
      <3>2. QED
        BY <2>1, <3>1, CallsMove
    <2>3. Abstract!Begin(s, <<u, key>>, call)
      BY <1>1, <1>3, <2>2, StoreStays DEF Only, Abstract!Begin
    <2>4. <<u, key>> \in Owners
      BY <1>3 DEF Owners
    <2>5. QED
      BY <2>3, <2>4 DEF Abstract!Next
  <1>4. CASE \E status : Only(s, [phase |-> "refused", status |-> status])
    BY <1>2, <1>4
  <1>5. CASE key # NoKey /\ Only(s, [phase |-> "lookup", status |-> 0, actor |-> u, key |-> key,
                         call |-> call, own |-> 0, input |-> NoInput, count |-> 0, ids |-> {}])
    BY <1>3, <1>5
  <1>6. QED
    BY <1>4, <1>5 DEF BeginDetection

\* The client leaves: its call is forgotten.
LEMMA FinishIsForget ==
    ASSUME Inv, NEW s \in Slots, Finish(s)
    PROVE  Abstract!Next
  <1>1. Becomes(s, IdleRequest) /\ CallOf(IdleRequest) = {} /\ UNCHANGED Store
    BY OutsideShape, NoCallOf, StoreStays DEF Finish, Only, Becomes
  <1>2. Calls' = [Calls EXCEPT ![s] = {}]
    BY <1>1, CallsMove
  <1>3. Calls' = [t \in Slots |-> IF t \in {s} THEN {} ELSE Calls[t]]
    BY <1>2 DEF Calls
  <1>4. Abstract!Forget
    BY <1>1, <1>3 DEF Abstract!Forget
  <1>5. QED
    BY <1>4 DEF Abstract!Next

LEMMA CrashIsForget ==
    ASSUME Inv, Crash
    PROVE  Abstract!Next
  <1>1. \A s \in Slots : CallOf(request'[s]) = {}
    BY OutsideShape, NoCallOf DEF Crash
  <1>2. Calls' = [s \in Slots |-> CallOf(request'[s])]
    BY DEF Calls, CallOf, OutcomeOf
  <1>3. Calls' = [s \in Slots |-> IF s \in Slots THEN {} ELSE Calls[s]]
    BY <1>1, <1>2
  <1>4. Abstract!Forget
    BY <1>3, StoreStays DEF Crash, Abstract!Forget
  <1>5. QED
    BY <1>4 DEF Abstract!Next

LEMMA UnseenStep ==
    ASSUME UNCHANGED <<runs, request>>
    PROVE  UNCHANGED <<Store, Calls>>
  BY StoreStays DEF Calls, CallOf, OutcomeOf

\* A request of the server's own that is neither answered nor forgotten.
LEMMA OnItsWay ==
    ASSUME Inv, NEW s \in Slots,
           \/ request[s].phase = "lookup" /\ Only(s, Goto(request[s], "parcel"))
           \/ ReadParcel(s)
           \/ \E count \in FindingCounts : ReadNeighbours(s, count)
           \/ \E id \in ConflictIds : InsertConflict(s, id)
           \/ InsertRun(s)
           \/ Rollback(s)
    PROVE  UNCHANGED <<Store, Calls>>
  <1>1. request[s].phase \in Phases
    BY DEF ReadParcel, ReadNeighbours, InsertConflict, InsertRun, Rollback, Phases
  <1>2. PICK q \in Requests : q = request[s]
    BY <1>1, OwnRequest
  <1>3. request[s].phase \in Pending
    BY DEF ReadParcel, ReadNeighbours, InsertConflict, InsertRun, Rollback, Phases, Pending
  <1>4. \E n : /\ Only(s, n) /\ n.phase \in Pending
               /\ n.actor = q.actor /\ n.key = q.key /\ n.call = q.call
    <2>1. CASE request[s].phase = "lookup" /\ Only(s, Goto(request[s], "parcel"))
      BY <1>2, <2>1, RequestFields DEF Goto, Pending, Phases
    <2>2. CASE ReadParcel(s)
      <3>1. PICK n : n = [q EXCEPT !.phase = "neighbours",
                                   !.own = boundary[ParcelOf[q.call.proposal]]]
        OBVIOUS
      <3>2. n.phase = "neighbours" /\ n.actor = q.actor /\ n.key = q.key /\ n.call = q.call
        BY <3>1, RequestFields
      <3>3. Only(s, n)
        BY <1>2, <2>2, <3>1 DEF ReadParcel
      <3>4. QED
        BY <3>2, <3>3 DEF Pending, Phases
    <2>3. CASE \E count \in FindingCounts : ReadNeighbours(s, count)
      <3>1. PICK count, input :
                   Only(s, [q EXCEPT !.phase = "inserting", !.count = count, !.input = input])
        BY <1>2, <2>3 DEF ReadNeighbours
      <3>2. PICK n : n = [q EXCEPT !.phase = "inserting", !.count = count, !.input = input]
        OBVIOUS
      <3>3. n.phase = "inserting" /\ n.actor = q.actor /\ n.key = q.key /\ n.call = q.call
        BY <3>2, RequestFields
      <3>4. QED
        BY <3>1, <3>2, <3>3 DEF Pending, Phases
    <2>4. CASE \E id \in ConflictIds : InsertConflict(s, id)
      BY <1>2, <2>4, RequestFields DEF InsertConflict, Pending, Phases
    <2>5. ASSUME NEW ph \in Pending, Only(s, Goto(q, ph))
          PROVE  \E n : /\ Only(s, n) /\ n.phase \in Pending
                        /\ n.actor = q.actor /\ n.key = q.key /\ n.call = q.call
      BY <2>5, RequestFields DEF Goto, Pending
    <2>6. CASE InsertRun(s) \/ Rollback(s)
      <3>1. \E ph \in Pending : Only(s, Goto(q, ph))
        BY <1>2, <2>6 DEF InsertRun, Rollback, Pending, Phases
      <3>2. QED
        BY <2>5, <3>1
    <2>7. QED
      BY <2>1, <2>2, <2>3, <2>4, <2>6
  <1>5. QED
    BY <1>2, <1>3, <1>4, PendingStutters

LEMMA InitIsInit == Init => Abstract!Init
  <1> SUFFICES ASSUME Init PROVE Abstract!Init
    OBVIOUS
  <1>1. \A s \in Slots : CallOf(request[s]) = {}
    BY OutsideShape, NoCallOf DEF Init
  <1>2. \A o \in Owners : StoreOf(o) = {}
    BY DEF Init, StoreOf
  <1>3. QED
    BY <1>1, <1>2 DEF Abstract!Init, Store, Calls

\* Every step of detection is a step of the idempotent call, or changes nothing of it.
LEMMA StepIsStep == Inv /\ [Next]_vars => [Abstract!Next]_<<Store, Calls>>
  <1> SUFFICES ASSUME Inv, [Next]_vars
               PROVE  Abstract!Next \/ UNCHANGED <<Store, Calls>>
    OBVIOUS
  <1>1. ASSUME NEW s \in Slots, NEW u \in Users, NEW key \in Keys \cup {NoKey}, NEW call \in Call,
               BeginDetection(s, u, key, call)
        PROVE  Abstract!Next \/ UNCHANGED <<Store, Calls>>
    BY <1>1, BeginIsBegin
  <1>2. ASSUME NEW s \in Slots, Lookup(s) \/ Recover(s) \/ RecoverFails(s)
                                \/ \E status \in {422, 500} : GiveUp(s, status)
        PROVE  Abstract!Next \/ UNCHANGED <<Store, Calls>>
    <2>1. request[s].phase \in Phases /\ request[s].phase \in Pending
      BY <1>2 DEF Lookup, Recover, RecoverFails, GiveUp, Phases, Pending
    <2>2. PICK q \in Requests : q = request[s]
      BY <2>1, OwnRequest
    <2>3. \/ q.phase = "lookup" /\ Only(s, Goto(q, "parcel"))
          \/ \E run \in RunsOf(q) : Only(s, Replayed(q, run))
          \/ \E status \in {422, 500} : Only(s, Answer(q, status, {}))
      BY <1>2, <2>2 DEF Lookup, Recover, RecoverFails, GiveUp
    <2>4. QED
      BY <2>1, <2>2, <2>3, OnItsWay, ReplayedIsReplay, FailedIsFail
  <1>3. ASSUME NEW s \in Slots, Work(s) \/ Mishap(s) \/ Finish(s)
        PROVE  Abstract!Next \/ UNCHANGED <<Store, Calls>>
    BY <1>2, <1>3, OnItsWay, CommitIsPerform, FinishIsForget DEF Work, Mishap
  <1>4. CASE Crash
    BY <1>4, CrashIsForget
  <1>5. CASE Env \/ UNCHANGED vars
    BY <1>5, UnseenStep DEF Env, ParcelUpdated, ProposalCreated, vars
  <1>6. QED
    BY <1>1, <1>3, <1>4, <1>5 DEF Next, Step

\* Detection keeps what an idempotency key promises: each of its behaviours, seen as
\* calls of owners and what is stored for them, is one of IdempotentCall.
THEOREM DetectionIsIdempotent == Spec => ImplementsIdempotentCall
  <1>1. Init => Abstract!Init
    BY InitIsInit
  <1>2. Inv /\ [Next]_vars => [Abstract!Next]_<<Store, Calls>>
    BY StepIsStep
  <1>3. QED
    BY <1>1, <1>2, Invariance, PTL DEF Spec, ImplementsIdempotentCall, Abstract!Spec

-----------------------------------------------------------------------------
(* The algorithms: SnapAndDetect.                                            *)

Points == [x : Int, y : Int]

\* Induction over the passes of a loop, in terms of sets of numbers.
LEMMA LeastNumber ==
    ASSUME NEW S \in SUBSET Nat, S # {}
    PROVE  \E n \in S : \A m \in S : n <= m
  <1> DEFINE R == {ss \in Nat \X Nat : ss[1] < ss[2]}
  <1>1. IsWellFoundedOn(R, Nat)
    BY NatLessThanWellFounded, Zenon DEF OpToRel
  <1>2. \A x, y \in Nat : ~(<<y, x>> \in R) => x <= y
    OBVIOUS
  <1> HIDE DEF R
  <1>3. PICK n \in S : \A y \in S : ~(<<y, n>> \in R)
    BY <1>1, WFMin, Zenon
  <1> QED BY <1>2, <1>3

LEMMA Counting ==
    ASSUME NEW N \in Nat, NEW S, 0 \in S,
           \A n \in 1 .. N : n - 1 \in S => n \in S
    PROVE  \A n \in 0 .. N : n \in S
  <1> SUFFICES ASSUME \E n \in 0 .. N : n \notin S PROVE FALSE
    OBVIOUS
  <1> DEFINE B == {n \in 0 .. N : n \notin S}
  <1>1. B \in SUBSET Nat /\ B # {}
    OBVIOUS
  <1>2. PICK n \in B : \A m \in B : n <= m
    BY <1>1, LeastNumber, Zenon
  <1>3. n \in 0 .. N /\ n \notin S /\ n # 0
    BY <1>2
  <1>4. n \in 1 .. N /\ n - 1 \in 0 .. N /\ n - 1 \notin S
    BY <1>3
  <1>5. n - 1 \in B
    BY <1>4
  <1> QED BY <1>2, <1>3, <1>5

\* A loop of N passes over a value of V that begins as v; Pass[i] is pass i.
Runs(N, V, v, Pass) ==
    {g \in [0 .. N -> V] : g[0] = v /\ \A i \in 1 .. N : g[i] = Pass[i][g[i - 1]]}

LEMMA LoopExists ==
    ASSUME NEW N \in Nat, NEW V, NEW v \in V, NEW Pass \in [1 .. N -> [V -> V]]
    PROVE  \E g : g \in Runs(N, V, v, Pass)
  <1> DEFINE Prefix(n) == {g \in [0 .. n -> V] : g[0] = v /\ \A i \in 1 .. n : g[i] = Pass[i][g[i - 1]]}
             S == {n \in 0 .. N : Prefix(n) # {}}
  <1>1. 0 \in S
    <2>1. [i \in 0 .. 0 |-> v] \in Prefix(0)
      OBVIOUS
    <2> QED BY <2>1
  <1>2. ASSUME NEW n \in 1 .. N, n - 1 \in S PROVE n \in S
    <2>1. PICK g : g \in Prefix(n - 1)
      BY <1>2
    <2> DEFINE h == [i \in 0 .. n |-> IF i = n THEN Pass[n][g[n - 1]] ELSE g[i]]
    <2>2. n - 1 \in 0 .. n - 1 /\ g \in [0 .. n - 1 -> V] /\ g[0] = v
          /\ \A i \in 1 .. n - 1 : g[i] = Pass[i][g[i - 1]]
      BY <2>1
    <2>3. Pass[n][g[n - 1]] \in V
      BY <2>2
    <2>4. h \in [0 .. n -> V]
      BY <2>2, <2>3
    <2>5. h[0] = v
      BY <2>2
    <2>6. ASSUME NEW i \in 1 .. n PROVE h[i] = Pass[i][h[i - 1]]
      <3>1. CASE i = n
        BY <3>1
      <3>2. CASE i # n
        <4>1. i \in 1 .. n - 1 /\ i - 1 \in 0 .. n /\ i - 1 # n /\ i \in 0 .. n
          BY <3>2
        <4> QED BY <4>1, <2>2, <3>2
      <3> QED BY <3>1, <3>2
    <2>7. h \in Prefix(n)
      BY <2>4, <2>5, <2>6
    <2> QED BY <2>7
  <1>3. N \in S
    <2> HIDE DEF S
    <2>1. \A n \in 0 .. N : n \in S
      BY <1>1, <1>2, Counting
    <2> QED BY <2>1
  <1>4. PICK g : g \in Prefix(N)
    BY <1>3
  <1> QED BY <1>4 DEF Runs

LEMMA NearestIsLoop ==
    ASSUME NEW p \in Points, NEW targets \in Seq(Points), NEW tol \in Nat
    PROVE  \E best : /\ best = [i \in 0 .. Len(targets) |->
                                  IF i = 0 THEN <<>> ELSE Closer(p, best[i - 1], targets[i], tol)]
                     /\ Nearest(p, targets, tol) = best[Len(targets)]
  <1> DEFINE Eq(g) == g = [i \in 0 .. Len(targets) |->
                                  IF i = 0 THEN <<>> ELSE Closer(p, g[i - 1], targets[i], tol)]
             V == {<<>>} \cup {<<q>> : q \in Points}
             Pass == [i \in 1 .. Len(targets) |-> [v \in V |-> Closer(p, v, targets[i], tol)]]
  <1>1. Len(targets) \in Nat /\ <<>> \in V
    OBVIOUS
  <1>2. Pass \in [1 .. Len(targets) -> [V -> V]]
    BY DEF Closer
  <1>3. PICK g \in [0 .. Len(targets) -> V] :
           g[0] = <<>> /\ \A i \in 1 .. Len(targets) : g[i] = Pass[i][g[i - 1]]
    <2> HIDE DEF V, Pass
    <2>1. \E g : g \in Runs(Len(targets), V, <<>>, Pass)
      BY <1>1, <1>2, LoopExists
    <2> QED BY <2>1 DEF Runs
  <1>4. ASSUME NEW i \in 1 .. Len(targets)
        PROVE  g[i] = Closer(p, g[i - 1], targets[i], tol)
    <2>1. i - 1 \in 0 .. Len(targets)
      OBVIOUS
    <2>2. g[i - 1] \in V
      <3> HIDE DEF V
      <3> QED BY <1>3, <2>1
    <2>3. \A v \in V : Pass[i][v] = Closer(p, v, targets[i], tol)
      <3> HIDE DEF V
      <3> QED OBVIOUS
    <2> HIDE DEF V, Pass
    <2> QED BY <1>3, <2>2, <2>3
  <1>5. Eq(g)
    <2> DEFINE h == [i \in 0 .. Len(targets) |->
                                  IF i = 0 THEN <<>> ELSE Closer(p, g[i - 1], targets[i], tol)]
    <2>1. \A i \in 0 .. Len(targets) : g[i] = h[i]
      BY <1>3, <1>4
    <2> HIDE DEF V
    <2> QED BY <2>1, <1>3
  <1>6. Nearest(p, targets, tol) = (CHOOSE b : Eq(b))[Len(targets)]
    BY Zenon DEF Nearest
  <1> HIDE DEF Eq
  <1>7. PICK b : b = (CHOOSE x : Eq(x))
    OBVIOUS
  <1>8. Eq(b)
    BY <1>5, <1>7, Zenon
  <1>9. b = [i \in 0 .. Len(targets) |->
                                  IF i = 0 THEN <<>> ELSE Closer(p, b[i - 1], targets[i], tol)]
    BY <1>8 DEF Eq
  <1>10. Nearest(p, targets, tol) = b[Len(targets)]
    BY <1>6, <1>7, Zenon
  <1> QED BY <1>9, <1>10, Zenon

LEMMA Squares ==
    ASSUME NEW a \in Int
    PROVE  a * a \in Nat /\ (a * a = 0 => a = 0)
  <1>1. CASE a >= 0
    BY <1>1
  <1>2. CASE a < 0
    <2> DEFINE b == -a
    <2>1. b \in Nat /\ b # 0 /\ a * a = b * b
      BY <1>2
    <2> HIDE DEF b
    <2> QED BY <2>1
  <1> QED BY <1>1, <1>2

LEMMA DistanceNat ==
    ASSUME NEW p \in Points, NEW q \in Points
    PROVE  /\ Distance2(p, q) \in Nat
           /\ Distance2(p, q) = 0 => p = q
           /\ Distance2(p, p) = 0
  <1> DEFINE a == p.x - q.x
             b == p.y - q.y
  <1>1. a \in Int /\ b \in Int /\ Distance2(p, q) = a * a + b * b
    BY DEF Points, Distance2
  <1>2. Distance2(p, p) = 0
    BY DEF Points, Distance2
  <1>3. a = 0 /\ b = 0 => p = q
    BY DEF Points
  <1> HIDE DEF a, b
  <1> DEFINE a2 == a * a
             b2 == b * b
  <1>4. a2 \in Nat /\ b2 \in Nat /\ (a2 = 0 => a = 0) /\ (b2 = 0 => b = 0)
    BY <1>1, Squares
  <1>5. Distance2(p, q) = a2 + b2
    BY <1>1
  <1> HIDE DEF a2, b2
  <1> QED BY <1>2, <1>3, <1>4, <1>5

\* What is seen of best after n passes.
NearestSoFar(p, targets, tol, n, best) ==
    \/ best = <<>> /\ \A j \in 1 .. n : Distance2(p, targets[j]) > tol * tol
    \/ \E i \in 1 .. n :
          /\ best = <<targets[i]>>
          /\ Distance2(p, targets[i]) <= tol * tol
          /\ \A j \in 1 .. n : Distance2(p, targets[i]) <= Distance2(p, targets[j])

LEMMA OnePass ==
    ASSUME NEW p \in Points, NEW targets \in Seq(Points), NEW tol \in Nat,
           NEW n \in 1 .. Len(targets), NEW best,
           NearestSoFar(p, targets, tol, n - 1, best)
    PROVE  NearestSoFar(p, targets, tol, n, Closer(p, best, targets[n], tol))
  <1> DEFINE D(j) == Distance2(p, targets[j])
             T == tol * tol
             after == Closer(p, best, targets[n], tol)
  <1>1. ASSUME NEW j \in 1 .. n PROVE D(j) \in Nat
    <2>1. targets[j] \in Points
      OBVIOUS
    <2> QED BY <2>1, DistanceNat
  <1>2. T \in Nat
    BY Squares
  <1>3. after = IF D(n) <= T /\ (best = <<>> \/ D(n) < Distance2(p, best[1]))
                THEN <<targets[n]>> ELSE best
    BY DEF Closer
  <1>4. CASE best = <<>> /\ \A j \in 1 .. n - 1 : D(j) > T
    <2>1. CASE D(n) <= T
      <3>1. after = <<targets[n]>>
        BY <1>3, <1>4, <2>1
      <3>2. \A j \in 1 .. n : D(n) <= D(j)
        <4> HIDE DEF D, T
        <4> QED BY <1>1, <1>2, <1>4, <2>1
      <3> QED BY <2>1, <3>1, <3>2 DEF NearestSoFar
    <2>2. CASE ~(D(n) <= T)
      <3>1. after = best
        <4> HIDE DEF D, T, after
        <4> QED BY <1>3, <2>2
      <3>2. \A j \in 1 .. n : D(j) > T
        <4> HIDE DEF D, T
        <4> QED BY <1>1, <1>2, <1>4, <2>2
      <3> QED BY <1>4, <3>1, <3>2 DEF NearestSoFar
    <2> QED BY <2>1, <2>2
  <1>5. ASSUME NEW i \in 1 .. n - 1, best = <<targets[i]>>, D(i) <= T,
               \A j \in 1 .. n - 1 : D(i) <= D(j)
        PROVE  NearestSoFar(p, targets, tol, n, after)
    <2>1. Distance2(p, best[1]) = D(i) /\ best # <<>> /\ i \in 1 .. n
      BY <1>5
    <2>2. CASE D(n) <= T /\ D(n) < D(i)
      <3>1. after = <<targets[n]>>
        <4> HIDE DEF D, T, after
        <4> QED BY <1>3, <2>1, <2>2
      <3>2. \A j \in 1 .. n : D(n) <= D(j)
        <4> HIDE DEF D, T
        <4> QED BY <1>1, <1>2, <1>5, <2>1, <2>2
      <3> QED BY <2>2, <3>1, <3>2 DEF NearestSoFar
    <2>3. CASE ~(D(n) <= T /\ D(n) < D(i))
      <3>1. after = best
        <4> HIDE DEF D, T, after
        <4> QED BY <1>3, <2>1, <2>3
      <3>2. \A j \in 1 .. n : D(i) <= D(j)
        <4> HIDE DEF D, T
        <4> QED BY <1>1, <1>2, <1>5, <2>1, <2>3
      <3> QED BY <1>5, <2>1, <3>1, <3>2 DEF NearestSoFar
    <2> QED BY <2>2, <2>3
  <1> QED BY <1>4, <1>5 DEF NearestSoFar

LEMMA NearestFound ==
    ASSUME NEW p \in Points, NEW targets \in Seq(Points), NEW tol \in Nat
    PROVE  NearestSoFar(p, targets, tol, Len(targets), Nearest(p, targets, tol))
  <1>1. PICK best :
           /\ best = [i \in 0 .. Len(targets) |->
                        IF i = 0 THEN <<>> ELSE Closer(p, best[i - 1], targets[i], tol)]
           /\ Nearest(p, targets, tol) = best[Len(targets)]
    BY NearestIsLoop
  <1> DEFINE N == Len(targets)
             S == {n \in 0 .. N : NearestSoFar(p, targets, tol, n, best[n])}
  <1>2. N \in Nat
    OBVIOUS
  <1>3. best[0] = <<>>
    BY <1>1
  <1>4. \A n \in 1 .. N : best[n] = Closer(p, best[n - 1], targets[n], tol)
    BY <1>1
  <1>5. 0 \in S
    BY <1>2, <1>3 DEF NearestSoFar
  <1>6. ASSUME NEW n \in 1 .. N, n - 1 \in S PROVE n \in S
    <2>1. NearestSoFar(p, targets, tol, n, Closer(p, best[n - 1], targets[n], tol))
      BY <1>6, OnePass
    <2> QED BY <1>4, <2>1
  <1>7. \A n \in 0 .. N : n \in S
    <2> HIDE DEF S, N
    <2> QED BY <1>2, <1>5, <1>6, Counting
  <1>8. N \in S
    BY <1>2, <1>7
  <1> QED BY <1>1, <1>8

-----------------------------------------------------------------------------
(* Projection onto a side. *)

LEMMA ExactDivision ==
    ASSUME NEW q \in Int, NEW m \in Nat, m # 0
    PROVE  (q * m) \div m = q
  OBVIOUS

LEMMA MaxTwo ==
    ASSUME NEW a \in Int, NEW b \in Int
    PROVE  Max({a, b}) = IF a >= b THEN a ELSE b
  BY DEF Max

LEMMA MinTwo ==
    ASSUME NEW a \in Int, NEW b \in Int
    PROVE  Min({a, b}) = IF a <= b THEN a ELSE b
  BY DEF Min

\* How far along a side of length d, from its start, the nearest place to a is.
Along(d, a) == (Max({0, Min({d * d, a * d})}) * d) \div (d * d)

\* Nothing between 0 and d is nearer to a.
LEMMA AlongNearest ==
    ASSUME NEW d \in Int, d # 0, NEW a \in Int
    PROVE  /\ Along(d, a) \in Int
           /\ d > 0 => /\ 0 <= Along(d, a) /\ Along(d, a) <= d
                       /\ a <= 0 => Along(d, a) = 0
                       /\ a >= d => Along(d, a) = d
                       /\ 0 <= a /\ a <= d => Along(d, a) = a
           /\ d < 0 => /\ d <= Along(d, a) /\ Along(d, a) <= 0
                       /\ a >= 0 => Along(d, a) = 0
                       /\ a <= d => Along(d, a) = d
                       /\ d <= a /\ a <= 0 => Along(d, a) = a
  <1> DEFINE m == d * d
             k == a * d
             low == IF m <= k THEN m ELSE k
             c == IF 0 >= low THEN 0 ELSE low
  <1>1. m \in Nat /\ m # 0
    <2>1. d * d \in Nat /\ (d * d = 0 => d = 0)
      BY Squares
    <2> QED BY <2>1
  <1>2. k \in Int
    OBVIOUS
  <1>3. Along(d, a) = (c * d) \div m
    <2>1. Min({m, k}) = low
      BY <1>1, <1>2, MinTwo
    <2>2. low \in Int
      BY <1>1, <1>2
    <2>3. Max({0, low}) = c
      <3> HIDE DEF low
      <3> QED BY <2>2, MaxTwo
    <2> HIDE DEF low, c
    <2> QED BY <2>1, <2>3 DEF Along
  <1>4. c = 0 => Along(d, a) = 0
    <2>1. 0 * d = 0 * m
      BY <1>1
    <2>2. (0 * m) \div m = 0
      BY <1>1, ExactDivision
    <2> QED BY <1>3, <2>1, <2>2
  <1>5. c = m => Along(d, a) = d
    <2>1. (d * m) \div m = d
      BY <1>1, ExactDivision
    <2>2. m * d = d * m
      OBVIOUS
    <2> QED BY <1>3, <2>1, <2>2
  <1>6. c = k => Along(d, a) = a
    <2>1. (a * m) \div m = a
      BY <1>1, ExactDivision
    <2>2. k * d = a * m
      OBVIOUS
    <2> QED BY <1>3, <2>1, <2>2
  <1>7. a * d <= d * d <=> (d > 0 /\ a <= d) \/ (d < 0 /\ a >= d)
    <2>1. CASE d > 0
      BY <2>1
    <2>2. CASE d < 0
      BY <2>2
    <2> QED BY <2>1, <2>2
  <1>8. a * d <= 0 <=> (d > 0 /\ a <= 0) \/ (d < 0 /\ a >= 0)
    OBVIOUS
  <1> HIDE DEF m, k
  <1> DEFINE s == Along(d, a)
  <1>9. (c = 0 => s = 0) /\ (c = m => s = d) /\ (c = k => s = a)
    BY <1>4, <1>5, <1>6
  <1>10. k <= m <=> (d > 0 /\ a <= d) \/ (d < 0 /\ a >= d)
    BY <1>7 DEF m, k
  <1>11. k <= 0 <=> (d > 0 /\ a <= 0) \/ (d < 0 /\ a >= 0)
    BY <1>8 DEF k
  <1> HIDE DEF s
  <1>12. s \in {0, d, a}
    BY <1>1, <1>2, <1>9
  <1>13. \/ k <= 0 /\ s = 0
         \/ k > 0 /\ k <= m /\ s = a
         \/ k > 0 /\ k > m /\ s = d
    BY <1>1, <1>2, <1>9
  <1>14. /\ s \in Int
         /\ d > 0 => /\ 0 <= s /\ s <= d
                     /\ a <= 0 => s = 0
                     /\ a >= d => s = d
                     /\ 0 <= a /\ a <= d => s = a
         /\ d < 0 => /\ d <= s /\ s <= 0
                     /\ a >= 0 => s = 0
                     /\ a <= d => s = d
                     /\ d <= a /\ a <= 0 => s = a
    BY <1>1, <1>2, <1>10, <1>11, <1>12, <1>13
  <1> QED BY <1>14 DEF s

LEMMA CloserSquare ==
    ASSUME NEW a \in Int, NEW b \in Int, a <= b, -b <= a
    PROVE  a * a <= b * b
  <1>1. (b - a) * (b + a) >= 0
    <2>1. b - a \in Nat /\ b + a \in Nat
      OBVIOUS
    <2> QED BY <2>1
  <1> QED BY <1>1

Within(o, s, e) == (s <= o /\ o <= e) \/ (e <= o /\ o <= s)

\* On a line: among the places between s and e, s + Along(e - s, a - s) is nearest to a.
LEMMA NearestOnLine ==
    ASSUME NEW s \in Int, NEW e \in Int, s # e, NEW a \in Int
    PROVE  \E c \in Int : /\ c = s + Along(e - s, a - s)
                          /\ Within(c, s, e)
                          /\ \A o \in Int : Within(o, s, e) =>
                                (a - c) * (a - c) <= (a - o) * (a - o)
  <1> DEFINE d == e - s
             b == a - s
             v == Along(d, b)
  <1>1. d \in Int /\ d # 0 /\ b \in Int
    OBVIOUS
  <1>2. /\ v \in Int
        /\ d > 0 => /\ 0 <= v /\ v <= d
                    /\ b <= 0 => v = 0
                    /\ b >= d => v = d
                    /\ 0 <= b /\ b <= d => v = b
        /\ d < 0 => /\ d <= v /\ v <= 0
                    /\ b >= 0 => v = 0
                    /\ b <= d => v = d
                    /\ d <= b /\ b <= 0 => v = b
    <2> HIDE DEF d, b
    <2> QED BY <1>1, AlongNearest
  <1> HIDE DEF v
  <1> DEFINE c == s + v
  <1>3. c \in Int /\ Within(c, s, e)
    BY <1>2 DEF Within
  <1>4. ASSUME NEW o \in Int, Within(o, s, e)
        PROVE  (a - c) * (a - c) <= (a - o) * (a - o)
    <2>1. \/ c = a
          \/ c < a /\ o <= c
          \/ c > a /\ o >= c
      BY <1>2, <1>4 DEF Within
    <2> DEFINE f == a - c
               g == a - o
    <2>2. f \in Int /\ g \in Int /\ (f = 0 \/ (0 < f /\ f <= g) \/ (0 < -f /\ -f <= -g))
      BY <1>3, <2>1
    <2> HIDE DEF f, g
    <2>3. f * f <= g * g
      <3>1. CASE f = 0
        BY <2>2, <3>1, Squares
      <3>2. CASE 0 < f /\ f <= g
        BY <2>2, <3>2, CloserSquare
      <3>3. CASE 0 < -f /\ -f <= -g
        <4> DEFINE h == -g
        <4>1. h \in Int /\ f <= h /\ -h <= f /\ h * h = g * g
          BY <2>2, <3>3
        <4> HIDE DEF h
        <4>2. f * f <= h * h
          BY <2>2, <4>1, CloserSquare
        <4> QED BY <4>1, <4>2
      <3> QED BY <2>2, <3>1, <3>2, <3>3
    <2> QED BY <2>3 DEF f, g
  <1>5. c = s + Along(e - s, a - s)
    BY DEF v
  <1> HIDE DEF c
  <1> QED BY <1>3, <1>4, <1>5

LEMMA ProjectHorizontal ==
    ASSUME NEW s \in Int, NEW e \in Int, s # e, NEW y \in Int, NEW p \in Points
    PROVE  Project(p, [start |-> Point(s, y), end |-> Point(e, y)])
             = Point(s + Along(e - s, p.x - s), y)
  <1> DEFINE d == e - s
             b == p.x - s
             m == d * d
             c == Max({0, Min({m, b * d})})
  <1>1. d \in Int /\ d # 0 /\ b \in Int /\ p.y - y \in Int
    BY DEF Points
  <1>2. m \in Nat /\ m # 0
    <2> HIDE DEF d
    <2> QED BY <1>1, Squares
  <1>3. (d * d) + ((y - y) * (y - y)) = m /\ (b * d) + ((p.y - y) * (y - y)) = b * d
    BY <1>1
  <1>4. Project(p, [start |-> Point(s, y), end |-> Point(e, y)])
          = Point(s + (c * d) \div m, y + (c * (y - y)) \div m)
    BY <1>3 DEF Project, Point
  <1>5. c \in Int
    <2> DEFINE k == b * d
    <2>1. k \in Int
      BY <1>1
    <2>2. c = Max({0, Min({m, k})})
      OBVIOUS
    <2> HIDE DEF c, k, m
    <2>3. Min({m, k}) \in Int
      BY <1>2, <2>1, MinTwo
    <2> QED BY <2>2, <2>3, MaxTwo
  <1>6. (c * (y - y)) \div m = 0
    <2> HIDE DEF c, m
    <2>1. c * (y - y) = 0 * m
      BY <1>2, <1>5
    <2> QED BY <1>2, <2>1, ExactDivision
  <1>7. y + (c * (y - y)) \div m = y
    <2> HIDE DEF c, m
    <2> QED BY <1>6
  <1>8. (c * d) \div m = Along(d, b)
    BY DEF Along
  <1> QED BY <1>4, <1>7, <1>8

LEMMA ProjectVertical ==
    ASSUME NEW s \in Int, NEW e \in Int, s # e, NEW x \in Int, NEW p \in Points
    PROVE  Project(p, [start |-> Point(x, s), end |-> Point(x, e)])
             = Point(x, s + Along(e - s, p.y - s))
  <1> DEFINE d == e - s
             b == p.y - s
             m == d * d
             c == Max({0, Min({m, b * d})})
  <1>1. d \in Int /\ d # 0 /\ b \in Int /\ p.x - x \in Int
    BY DEF Points
  <1>2. m \in Nat /\ m # 0
    <2> HIDE DEF d
    <2> QED BY <1>1, Squares
  <1>3. ((x - x) * (x - x)) + (d * d) = m /\ ((p.x - x) * (x - x)) + (b * d) = b * d
    BY <1>1
  <1>4. Project(p, [start |-> Point(x, s), end |-> Point(x, e)])
          = Point(x + (c * (x - x)) \div m, s + (c * d) \div m)
    BY <1>3 DEF Project, Point
  <1>5. c \in Int
    <2> DEFINE k == b * d
    <2>1. k \in Int
      BY <1>1
    <2>2. c = Max({0, Min({m, k})})
      OBVIOUS
    <2> HIDE DEF c, k, m
    <2>3. Min({m, k}) \in Int
      BY <1>2, <2>1, MinTwo
    <2> QED BY <2>2, <2>3, MaxTwo
  <1>6. (c * (x - x)) \div m = 0
    <2> HIDE DEF c, m
    <2>1. c * (x - x) = 0 * m
      BY <1>2, <1>5
    <2> QED BY <1>2, <2>1, ExactDivision
  <1>7. x + (c * (x - x)) \div m = x
    <2> HIDE DEF c, m
    <2> QED BY <1>6
  <1>8. (c * d) \div m = Along(d, b)
    BY DEF Along
  <1> QED BY <1>4, <1>7, <1>8

-----------------------------------------------------------------------------
(* Sides, borders and corners. *)

Side(r, j) == [start |-> Closed(Ring(r))[j], end |-> Closed(Ring(r))[j + 1]]

SidePoints(r, j) ==
    CASE j = 1 -> {Point(x, r.y1) : x \in r.x1 .. r.x2}
      [] j = 2 -> {Point(r.x2, y) : y \in r.y1 .. r.y2}
      [] j = 3 -> {Point(x, r.y2) : x \in r.x1 .. r.x2}
      [] j = 4 -> {Point(r.x1, y) : y \in r.y1 .. r.y2}

LEMMA UprightShape ==
    ASSUME NEW r, Upright(r)
    PROVE  /\ r.x1 \in Int /\ r.x2 \in Int /\ r.x1 < r.x2
           /\ r.y1 \in Int /\ r.y2 \in Int /\ r.y1 < r.y2
           /\ r = Rectangle(r.x1, r.y1, r.x2, r.y2)
  BY DEF Upright, Rectangles, Rectangle

LEMMA BorderIsSides ==
    ASSUME NEW r, Upright(r), NEW q
    PROVE  q \in BoundaryPoints(r) <=> \E j \in 1 .. 4 : q \in SidePoints(r, j)
  <1>1. q \in BoundaryPoints(r) <=>
          \/ q \in SidePoints(r, 1) \/ q \in SidePoints(r, 2)
          \/ q \in SidePoints(r, 3) \/ q \in SidePoints(r, 4)
    BY DEF BoundaryPoints, SidePoints
  <1> QED BY <1>1

LEMMA SidesArePoints ==
    ASSUME NEW r, Upright(r), NEW j \in 1 .. 4, NEW q \in SidePoints(r, j)
    PROVE  q \in Points
  BY UprightShape DEF SidePoints, Point, Points

\* The nearest point of a side is the projection.
LEMMA ProjectNearest ==
    ASSUME NEW r, Upright(r), NEW j \in 1 .. 4, NEW p \in Points
    PROVE  /\ Project(p, Side(r, j)) \in SidePoints(r, j)
           /\ \A o \in SidePoints(r, j) :
                 Distance2(p, Project(p, Side(r, j))) <= Distance2(p, o)
  <1> USE UprightShape
  <1>0. p.x \in Int /\ p.y \in Int
    BY DEF Points
  <1>a. /\ r.x1 \in Int /\ r.x2 \in Int /\ r.x1 # r.x2 /\ r.x2 # r.x1
        /\ r.y1 \in Int /\ r.y2 \in Int /\ r.y1 # r.y2 /\ r.y2 # r.y1
    OBVIOUS
  <1> DEFINE BestOf(q) == /\ q \in SidePoints(r, j)
                          /\ \A o \in SidePoints(r, j) : Distance2(p, q) <= Distance2(p, o)
             Row(s, e, y) ==
                /\ Side(r, j) = [start |-> Point(s, y), end |-> Point(e, y)]
                /\ \A q : q \in SidePoints(r, j)
                             <=> \E x \in Int : Within(x, s, e) /\ q = Point(x, y)
             Column(s, e, x) ==
                /\ Side(r, j) = [start |-> Point(x, s), end |-> Point(x, e)]
                /\ \A q : q \in SidePoints(r, j)
                             <=> \E y \in Int : Within(y, s, e) /\ q = Point(x, y)
  <1> SUFFICES BestOf(Project(p, Side(r, j)))
    OBVIOUS
  <1>1. ASSUME NEW s \in Int, NEW e \in Int, s # e, NEW y \in Int, Row(s, e, y)
        PROVE  BestOf(Project(p, Side(r, j)))
    <2>1. PICK c \in Int : /\ c = s + Along(e - s, p.x - s)
                           /\ Within(c, s, e)
                           /\ \A o \in Int : Within(o, s, e) =>
                                (p.x - c) * (p.x - c) <= (p.x - o) * (p.x - o)
      BY <1>0, <1>1, NearestOnLine
    <2>2. Project(p, Side(r, j)) = Point(c, y)
      BY <1>1, <2>1, ProjectHorizontal
    <2>3. Point(c, y) \in SidePoints(r, j)
      BY <1>1, <2>1
    <2>4. ASSUME NEW o \in SidePoints(r, j)
          PROVE  Distance2(p, Point(c, y)) <= Distance2(p, o)
      <3>1. PICK x \in Int : Within(x, s, e) /\ o = Point(x, y)
        BY <1>1
      <3> DEFINE a == (p.x - c) * (p.x - c)
                 b == (p.x - x) * (p.x - x)
                 f == (p.y - y) * (p.y - y)
      <3>2. a <= b
        BY <2>1, <3>1
      <3>3. Distance2(p, Point(c, y)) = a + f /\ Distance2(p, o) = b + f
        BY <3>1 DEF Distance2, Point
      <3>4. a \in Int /\ b \in Int /\ f \in Int
        BY <1>0
      <3> HIDE DEF a, b, f
      <3> QED BY <3>2, <3>3, <3>4
    <2> QED BY <2>2, <2>3, <2>4
  <1>2. ASSUME NEW s \in Int, NEW e \in Int, s # e, NEW x \in Int, Column(s, e, x)
        PROVE  BestOf(Project(p, Side(r, j)))
    <2>1. PICK c \in Int : /\ c = s + Along(e - s, p.y - s)
                           /\ Within(c, s, e)
                           /\ \A o \in Int : Within(o, s, e) =>
                                (p.y - c) * (p.y - c) <= (p.y - o) * (p.y - o)
      BY <1>0, <1>2, NearestOnLine
    <2>2. Project(p, Side(r, j)) = Point(x, c)
      BY <1>2, <2>1, ProjectVertical
    <2>3. Point(x, c) \in SidePoints(r, j)
      BY <1>2, <2>1
    <2>4. ASSUME NEW o \in SidePoints(r, j)
          PROVE  Distance2(p, Point(x, c)) <= Distance2(p, o)
      <3>1. PICK y \in Int : Within(y, s, e) /\ o = Point(x, y)
        BY <1>2
      <3> DEFINE a == (p.y - c) * (p.y - c)
                 b == (p.y - y) * (p.y - y)
                 f == (p.x - x) * (p.x - x)
      <3>2. a <= b
        BY <2>1, <3>1
      <3>3. Distance2(p, Point(x, c)) = f + a /\ Distance2(p, o) = f + b
        BY <3>1 DEF Distance2, Point
      <3>4. a \in Int /\ b \in Int /\ f \in Int
        BY <1>0
      <3> HIDE DEF a, b, f
      <3> QED BY <3>2, <3>3, <3>4
    <2> QED BY <2>2, <2>3, <2>4
  <1>3. CASE j = 1
    <2>1. Side(r, j) = [start |-> Point(r.x1, r.y1), end |-> Point(r.x2, r.y1)]
      BY <1>3 DEF Side, Closed, Ring
    <2>2. \A q : q \in SidePoints(r, j)
                   <=> \E x \in Int : Within(x, r.x1, r.x2) /\ q = Point(x, r.y1)
      BY <1>3 DEF SidePoints, Within
    <2>3. Row(r.x1, r.x2, r.y1)
      BY <2>1, <2>2
    <2> HIDE DEF BestOf, Row, Column
    <2> QED BY <1>a, <1>1, <2>3, Zenon
  <1>4. CASE j = 2
    <2>1. Side(r, j) = [start |-> Point(r.x2, r.y1), end |-> Point(r.x2, r.y2)]
      BY <1>4 DEF Side, Closed, Ring
    <2>2. \A q : q \in SidePoints(r, j)
                   <=> \E y \in Int : Within(y, r.y1, r.y2) /\ q = Point(r.x2, y)
      BY <1>4 DEF SidePoints, Within
    <2>3. Column(r.y1, r.y2, r.x2)
      BY <2>1, <2>2
    <2> HIDE DEF BestOf, Row, Column
    <2> QED BY <1>a, <1>2, <2>3, Zenon
  <1>5. CASE j = 3
    <2>1. Side(r, j) = [start |-> Point(r.x2, r.y2), end |-> Point(r.x1, r.y2)]
      BY <1>5 DEF Side, Closed, Ring
    <2>2. \A q : q \in SidePoints(r, j)
                   <=> \E x \in Int : Within(x, r.x2, r.x1) /\ q = Point(x, r.y2)
      BY <1>5 DEF SidePoints, Within
    <2>3. Row(r.x2, r.x1, r.y2)
      BY <2>1, <2>2
    <2> HIDE DEF BestOf, Row, Column
    <2> QED BY <1>a, <1>1, <2>3, Zenon
  <1>6. CASE j = 4
    <2>1. Side(r, j) = [start |-> Point(r.x1, r.y2), end |-> Point(r.x1, r.y1)]
      BY <1>6 DEF Side, Closed, Ring
    <2>2. \A q : q \in SidePoints(r, j)
                   <=> \E y \in Int : Within(y, r.y2, r.y1) /\ q = Point(r.x1, y)
      BY <1>6 DEF SidePoints, Within
    <2>3. Column(r.y2, r.y1, r.x1)
      BY <2>1, <2>2
    <2> HIDE DEF BestOf, Row, Column
    <2> QED BY <1>a, <1>2, <2>3, Zenon
  <1> QED BY <1>3, <1>4, <1>5, <1>6

\* Corners and border of a sequence of rectangles.
Corners(refs) == {Ring(refs[i])[j] : i \in 1 .. Len(refs), j \in 1 .. 4}

Border(refs) == UNION {BoundaryPoints(refs[i]) : i \in 1 .. Len(refs)}

UprightSeq(refs) == refs \in Seq(Rectangles) /\ \A i \in 1 .. Len(refs) : Upright(refs[i])

LEMMA CornersOnBorder ==
    ASSUME NEW refs, UprightSeq(refs), NEW q \in Corners(refs)
    PROVE  q \in Points /\ q \in Border(refs)
  <1>1. PICK i \in 1 .. Len(refs), j \in 1 .. 4 : q = Ring(refs[i])[j]
    BY DEF Corners
  <1> DEFINE r == refs[i]
  <1>2. Upright(r)
    BY DEF UprightSeq
  <1>3. q \in Points /\ q \in BoundaryPoints(r)
    <2> HIDE DEF r
    <2>1. q = Ring(r)[j]
      BY <1>1 DEF r
    <2>2. \/ q = Point(r.x1, r.y1) \/ q = Point(r.x2, r.y1)
          \/ q = Point(r.x2, r.y2) \/ q = Point(r.x1, r.y2)
      BY <2>1 DEF Ring
    <2> QED BY <1>2, <2>2, UprightShape DEF BoundaryPoints, Point, Points
  <1> QED BY <1>3 DEF Border

LEMMA BorderIsPoints ==
    ASSUME NEW refs, UprightSeq(refs), NEW q \in Border(refs)
    PROVE  q \in Points
  BY BorderIsSides, SidesArePoints DEF Border, UprightSeq

LEMMA VerticesAreCorners ==
    ASSUME NEW refs, UprightSeq(refs)
    PROVE  /\ Vertices(refs) \in Seq(Points)
           /\ \A i \in 1 .. Len(Vertices(refs)) : Vertices(refs)[i] \in Corners(refs)
           /\ \A q \in Corners(refs) : \E i \in 1 .. Len(Vertices(refs)) : Vertices(refs)[i] = q
  <1> DEFINE n == Len(refs)
             V == Vertices(refs)
  <1>1. n \in Nat
    BY DEF UprightSeq
  <1>2. ASSUME NEW i \in 1 .. 5 * n
        PROVE  /\ ((i - 1) \div 5) + 1 \in 1 .. n
               /\ ((i - 1) % 5) + 1 \in 1 .. 5
    <2> HIDE DEF n
    <2> QED BY <1>1
  <1>3. ASSUME NEW k \in 1 .. n, NEW j \in 1 .. 5
        PROVE  /\ 5 * (k - 1) + j \in 1 .. 5 * n
               /\ ((5 * (k - 1) + j - 1) \div 5) + 1 = k
               /\ ((5 * (k - 1) + j - 1) % 5) + 1 = j
    <2> HIDE DEF n
    <2> QED BY <1>1
  <1>4. ASSUME NEW k \in 1 .. n, NEW j \in 1 .. 5
        PROVE  Closed(Ring(refs[k]))[j] \in Corners(refs)
    <2>1. \/ Closed(Ring(refs[k]))[j] = Ring(refs[k])[1]
          \/ Closed(Ring(refs[k]))[j] = Ring(refs[k])[2]
          \/ Closed(Ring(refs[k]))[j] = Ring(refs[k])[3]
          \/ Closed(Ring(refs[k]))[j] = Ring(refs[k])[4]
      BY DEF Closed
    <2> QED BY <2>1 DEF Corners
  <1>5. \A i \in 1 .. 5 * n : V[i] = Closed(Ring(refs[((i - 1) \div 5) + 1]))[((i - 1) % 5) + 1]
    BY DEF Vertices
  <1>6. \A i \in 1 .. 5 * n : V[i] \in Corners(refs)
    <2> HIDE DEF n, V
    <2> QED BY <1>2, <1>4, <1>5
  <1>7. V = [i \in 1 .. 5 * n |-> V[i]] /\ 5 * n \in Nat
    <2>1. 5 * n \in Nat
      <3> HIDE DEF n
      <3> QED BY <1>1
    <2> QED BY <2>1 DEF Vertices
  <1>8. V \in Seq(Points) /\ Len(V) = 5 * n
    <2>1. \A i \in 1 .. 5 * n : V[i] \in Points
      <3> HIDE DEF n, V
      <3> QED BY <1>6, CornersOnBorder
    <2> HIDE DEF n, V
    <2> QED BY <1>7, <2>1
  <1>9. ASSUME NEW q \in Corners(refs)
        PROVE  \E i \in 1 .. 5 * n : V[i] = q
    <2>1. PICK k \in 1 .. n, j \in 1 .. 4 : q = Ring(refs[k])[j]
      BY DEF Corners
    <2>2. Closed(Ring(refs[k]))[j] = q
      BY <2>1 DEF Closed
    <2>3. j \in 1 .. 5
      OBVIOUS
    <2>4. 5 * (k - 1) + j \in 1 .. 5 * n /\ V[5 * (k - 1) + j] = q
      <3> DEFINE m == 5 * (k - 1) + j
      <3> HIDE DEF n, V
      <3>1. m \in 1 .. 5 * n /\ ((m - 1) \div 5) + 1 = k /\ ((m - 1) % 5) + 1 = j
        <4>1. /\ 5 * (k - 1) + j \in 1 .. 5 * n
              /\ ((5 * (k - 1) + j - 1) \div 5) + 1 = k
              /\ ((5 * (k - 1) + j - 1) % 5) + 1 = j
          BY <1>3, <2>3, Zenon
        <4> QED BY <4>1
      <3> HIDE DEF m
      <3>2. V[m] = Closed(Ring(refs[((m - 1) \div 5) + 1]))[((m - 1) % 5) + 1]
        BY <1>5, <3>1
      <3>3. V[m] = Closed(Ring(refs[k]))[j]
        BY <3>1, <3>2
      <3> QED BY <2>2, <3>1, <3>3 DEF m
    <2> QED BY <2>4
  <1> QED BY <1>6, <1>8, <1>9

LEMMA ProjectionsOnBorder ==
    ASSUME NEW refs, UprightSeq(refs), NEW p \in Points
    PROVE  LET Q == Projections(p, refs)
           IN  /\ Q \in Seq(Points)
               /\ \A i \in 1 .. Len(Q) : Q[i] \in Border(refs)
               /\ \A o \in Border(refs) :
                     \E i \in 1 .. Len(Q) : Distance2(p, Q[i]) <= Distance2(p, o)
  <1> DEFINE n == Len(refs)
             Q == Projections(p, refs)
  <1>1. n \in Nat
    BY DEF UprightSeq
  <1>2. ASSUME NEW i \in 1 .. 4 * n
        PROVE  /\ ((i - 1) \div 4) + 1 \in 1 .. n
               /\ ((i - 1) % 4) + 1 \in 1 .. 4
    <2> HIDE DEF n
    <2> QED BY <1>1
  <1>3. ASSUME NEW k \in 1 .. n, NEW j \in 1 .. 4
        PROVE  /\ 4 * (k - 1) + j \in 1 .. 4 * n
               /\ ((4 * (k - 1) + j - 1) \div 4) + 1 = k
               /\ ((4 * (k - 1) + j - 1) % 4) + 1 = j
    <2> HIDE DEF n
    <2> QED BY <1>1
  <1>4. \A i \in 1 .. 4 * n :
           Q[i] = Project(p, Side(refs[((i - 1) \div 4) + 1], ((i - 1) % 4) + 1))
    BY DEF Projections, Segments, Side
  <1>5. ASSUME NEW k \in 1 .. n, NEW j \in 1 .. 4
        PROVE  /\ Project(p, Side(refs[k], j)) \in SidePoints(refs[k], j)
               /\ \A o \in SidePoints(refs[k], j) :
                     Distance2(p, Project(p, Side(refs[k], j))) <= Distance2(p, o)
               /\ Project(p, Side(refs[k], j)) \in Border(refs)
    <2>1. Upright(refs[k])
      BY DEF UprightSeq
    <2>2. /\ Project(p, Side(refs[k], j)) \in SidePoints(refs[k], j)
          /\ \A o \in SidePoints(refs[k], j) :
                Distance2(p, Project(p, Side(refs[k], j))) <= Distance2(p, o)
      BY <2>1, ProjectNearest
    <2>3. Project(p, Side(refs[k], j)) \in BoundaryPoints(refs[k])
      BY <2>1, <2>2, BorderIsSides
    <2> QED BY <2>2, <2>3 DEF Border
  <1>6. ASSUME NEW i \in 1 .. 4 * n PROVE Q[i] \in Border(refs)
    <2> HIDE DEF n, Q
    <2> QED BY <1>2, <1>4, <1>5
  <1>7. Q \in Seq(Points) /\ Len(Q) = 4 * n
    <2>1. 4 * n \in Nat
      <3> HIDE DEF n
      <3> QED BY <1>1
    <2>2. Q = [i \in 1 .. 4 * n |-> Q[i]]
      BY DEF Projections
    <2>3. \A i \in 1 .. 4 * n : Q[i] \in Points
      <3> HIDE DEF n, Q
      <3> QED BY <1>6, BorderIsPoints
    <2> HIDE DEF n, Q
    <2> QED BY <2>1, <2>2, <2>3
  <1>8. ASSUME NEW o \in Border(refs)
        PROVE  \E i \in 1 .. 4 * n : Distance2(p, Q[i]) <= Distance2(p, o)
    <2>1. PICK k \in 1 .. n : o \in BoundaryPoints(refs[k])
      BY DEF Border
    <2>2. PICK j \in 1 .. 4 : o \in SidePoints(refs[k], j)
      BY <2>1, BorderIsSides DEF UprightSeq
    <2> DEFINE i == 4 * (k - 1) + j
    <2>3. i \in 1 .. 4 * n /\ Q[i] = Project(p, Side(refs[k], j))
      <3> HIDE DEF n, Q
      <3> QED BY <1>3, <1>4
    <2>4. Distance2(p, Q[i]) <= Distance2(p, o)
      <3> HIDE DEF n, Q, i
      <3> QED BY <1>5, <2>2, <2>3
    <2> HIDE DEF n, Q, i
    <2> QED BY <2>3, <2>4
  <1> QED BY <1>6, <1>7, <1>8

-----------------------------------------------------------------------------
(* What a corner is moved to. *)

InReach(p, q, tol) == Distance2(p, q) <= tol * tol

NearestOf(p, q, S, tol) ==
    q \in S /\ InReach(p, q, tol) /\ \A o \in S : Distance2(p, q) <= Distance2(p, o)

SnapsTo(p, q, refs, tol) ==
    IF \E o \in Corners(refs) : InReach(p, o, tol) THEN NearestOf(p, q, Corners(refs), tol)
    ELSE IF \E o \in Border(refs) : InReach(p, o, tol) THEN NearestOf(p, q, Border(refs), tol)
    ELSE q = p

\* A list of targets that stands for a set S: all its targets are in S, and nothing in
\* S is nearer than all of them.
StandsFor(p, targets, S) ==
    /\ \A i \in 1 .. Len(targets) : targets[i] \in S
    /\ \A o \in S : \E i \in 1 .. Len(targets) : Distance2(p, targets[i]) <= Distance2(p, o)

LEMMA NearestOfTargets ==
    ASSUME NEW p \in Points, NEW tol \in Nat, NEW S \in SUBSET Points,
           NEW targets \in Seq(Points), StandsFor(p, targets, S)
    PROVE  IF \E o \in S : InReach(p, o, tol)
           THEN /\ Nearest(p, targets, tol) # <<>>
                /\ NearestOf(p, Nearest(p, targets, tol)[1], S, tol)
           ELSE Nearest(p, targets, tol) = <<>>
  <1> DEFINE best == Nearest(p, targets, tol)
             T == tol * tol
  <1>1. T \in Nat
    BY Squares
  <1>2. \A o \in S : Distance2(p, o) \in Nat
    BY DistanceNat
  <1>3. NearestSoFar(p, targets, tol, Len(targets), best)
    BY NearestFound
  <1>4. \A i \in 1 .. Len(targets) : targets[i] \in S
    BY DEF StandsFor
  <1>5. \A o \in S : \E i \in 1 .. Len(targets) : Distance2(p, targets[i]) <= Distance2(p, o)
    BY DEF StandsFor
  <1> HIDE DEF best, T
  <1>6. CASE best = <<>> /\ \A j \in 1 .. Len(targets) : Distance2(p, targets[j]) > T
    <2>1. \A o \in S : ~(Distance2(p, o) <= T)
      BY <1>1, <1>2, <1>4, <1>5, <1>6
    <2>2. ~\E o \in S : InReach(p, o, tol)
      BY <2>1 DEF InReach, T
    <2> QED BY <1>6, <2>2 DEF best
  <1>7. ASSUME NEW i \in 1 .. Len(targets), best = <<targets[i]>>,
               Distance2(p, targets[i]) <= T,
               \A j \in 1 .. Len(targets) : Distance2(p, targets[i]) <= Distance2(p, targets[j])
        PROVE  /\ best # <<>> /\ NearestOf(p, best[1], S, tol)
               /\ \E o \in S : InReach(p, o, tol)
    <2>1. best[1] = targets[i] /\ best # <<>>
      BY <1>7
    <2>2. targets[i] \in S
      BY <1>4
    <2>3. InReach(p, targets[i], tol)
      BY <1>7 DEF InReach, T
    <2>4. ASSUME NEW o \in S PROVE Distance2(p, targets[i]) <= Distance2(p, o)
      <3>1. PICK j \in 1 .. Len(targets) : Distance2(p, targets[j]) <= Distance2(p, o)
        BY <1>5
      <3>2. Distance2(p, targets[i]) <= Distance2(p, targets[j])
        BY <1>7
      <3>3. Distance2(p, targets[i]) \in Nat /\ Distance2(p, targets[j]) \in Nat
            /\ Distance2(p, o) \in Nat
        BY <1>2, <1>4
      <3> QED BY <3>1, <3>2, <3>3
    <2> QED BY <2>1, <2>2, <2>3, <2>4 DEF NearestOf
  <1>8. \/ best = <<>> /\ \A j \in 1 .. Len(targets) : Distance2(p, targets[j]) > T
        \/ \E i \in 1 .. Len(targets) :
              /\ best = <<targets[i]>>
              /\ Distance2(p, targets[i]) <= T
              /\ \A j \in 1 .. Len(targets) : Distance2(p, targets[i]) <= Distance2(p, targets[j])
    BY <1>3 DEF NearestSoFar, T
  <1> QED BY <1>6, <1>7, <1>8 DEF best

LEMMA SnapTargetNearest ==
    ASSUME NEW refs, UprightSeq(refs), NEW p \in Points, NEW tol \in Nat
    PROVE  /\ SnapTarget(p, refs, tol) \in Points
           /\ SnapsTo(p, SnapTarget(p, refs, tol), refs, tol)
  <1> DEFINE V == Vertices(refs)
             Q == Projections(p, refs)
             vertex == Nearest(p, V, tol)
             edge == Nearest(p, Q, tol)
             C == Corners(refs)
             B == Border(refs)
             t == SnapTarget(p, refs, tol)
  <1>1. V \in Seq(Points) /\ StandsFor(p, V, C)
    <2>1. /\ V \in Seq(Points)
          /\ \A i \in 1 .. Len(V) : V[i] \in C
          /\ \A q \in C : \E i \in 1 .. Len(V) : V[i] = q
      BY VerticesAreCorners
    <2>2. ASSUME NEW o \in C
          PROVE  \E i \in 1 .. Len(V) : Distance2(p, V[i]) <= Distance2(p, o)
      <3>1. PICK i \in 1 .. Len(V) : V[i] = o
        BY <2>1
      <3>2. Distance2(p, o) \in Nat
        BY CornersOnBorder, DistanceNat
      <3> QED BY <3>1, <3>2
    <2> HIDE DEF V, C
    <2> QED BY <2>1, <2>2 DEF StandsFor
  <1>2. Q \in Seq(Points) /\ StandsFor(p, Q, B)
    BY ProjectionsOnBorder DEF StandsFor
  <1>3. C \in SUBSET Points /\ B \in SUBSET Points
    BY CornersOnBorder, BorderIsPoints
  <1>4. IF \E o \in C : InReach(p, o, tol) THEN vertex # <<>> /\ NearestOf(p, vertex[1], C, tol)
        ELSE vertex = <<>>
    <2> HIDE DEF V, C
    <2> QED BY <1>1, <1>3, NearestOfTargets
  <1>5. IF \E o \in B : InReach(p, o, tol) THEN edge # <<>> /\ NearestOf(p, edge[1], B, tol)
        ELSE edge = <<>>
    <2> HIDE DEF Q, B
    <2> QED BY <1>2, <1>3, NearestOfTargets
  <1>6. t = IF vertex # <<>> THEN vertex[1] ELSE IF edge # <<>> THEN edge[1] ELSE p
    BY DEF SnapTarget
  <1>7. SnapsTo(p, t, refs, tol)
    <2> HIDE DEF t, vertex, edge
    <2> QED BY <1>4, <1>5, <1>6 DEF SnapsTo
  <1>8. t \in Points
    <2> HIDE DEF t
    <2> QED BY <1>3, <1>7 DEF SnapsTo, NearestOf
  <1> QED BY <1>7, <1>8

-----------------------------------------------------------------------------
(* Snapping again. *)

LEMMA CornerStays ==
    ASSUME NEW refs, UprightSeq(refs), NEW tol \in Nat, NEW q \in Corners(refs)
    PROVE  SnapTarget(q, refs, tol) = q
  <1> DEFINE t == SnapTarget(q, refs, tol)
  <1>1. q \in Points
    BY CornersOnBorder
  <1>2. t \in Points /\ SnapsTo(q, t, refs, tol)
    BY <1>1, SnapTargetNearest
  <1>3. Distance2(q, q) = 0 /\ tol * tol \in Nat
    BY <1>1, DistanceNat, Squares
  <1>4. InReach(q, q, tol)
    BY <1>3 DEF InReach
  <1> HIDE DEF t
  <1>5. NearestOf(q, t, Corners(refs), tol)
    BY <1>2, <1>4 DEF SnapsTo
  <1>6. Distance2(q, t) <= 0
    BY <1>3, <1>5 DEF NearestOf
  <1>7. Distance2(q, t) \in Nat /\ (Distance2(q, t) = 0 => q = t)
    BY <1>1, <1>2, DistanceNat
  <1> QED BY <1>6, <1>7 DEF t

LEMMA BorderMovesToCorner ==
    ASSUME NEW refs, UprightSeq(refs), NEW tol \in Nat, NEW q \in Border(refs)
    PROVE  SnapTarget(q, refs, tol) \in Corners(refs) \cup {q}
  <1> DEFINE t == SnapTarget(q, refs, tol)
  <1>1. q \in Points
    BY BorderIsPoints
  <1>2. t \in Points /\ SnapsTo(q, t, refs, tol)
    BY <1>1, SnapTargetNearest
  <1>3. Distance2(q, q) = 0 /\ tol * tol \in Nat
    BY <1>1, DistanceNat, Squares
  <1>4. InReach(q, q, tol)
    BY <1>3 DEF InReach
  <1> HIDE DEF t
  <1>5. NearestOf(q, t, Corners(refs), tol) \/ NearestOf(q, t, Border(refs), tol)
    BY <1>2, <1>4 DEF SnapsTo
  <1>6. CASE NearestOf(q, t, Corners(refs), tol)
    BY <1>6 DEF NearestOf, t
  <1>7. CASE NearestOf(q, t, Border(refs), tol)
    <2>1. Distance2(q, t) <= 0
      BY <1>3, <1>7 DEF NearestOf
    <2>2. Distance2(q, t) \in Nat /\ (Distance2(q, t) = 0 => q = t)
      BY <1>1, <1>2, DistanceNat
    <2> QED BY <2>1, <2>2 DEF t
  <1> QED BY <1>5, <1>6, <1>7

LEMMA SnapTwice ==
    ASSUME NEW refs, UprightSeq(refs), NEW tol \in Nat, NEW p \in Points
    PROVE  LET once == SnapTarget(p, refs, tol)
               twice == SnapTarget(once, refs, tol)
           IN  SnapTarget(twice, refs, tol) = twice
  <1> DEFINE once == SnapTarget(p, refs, tol)
             twice == SnapTarget(once, refs, tol)
  <1>1. once = p \/ once \in Corners(refs) \/ once \in Border(refs)
    BY SnapTargetNearest DEF SnapsTo, NearestOf
  <1>2. CASE once = p
    <2>1. twice = once
      BY <1>2
    <2> QED BY <2>1
  <1>3. CASE once \in Corners(refs)
    <2>1. twice = once
      BY <1>3, CornerStays
    <2> QED BY <2>1
  <1>4. CASE once \in Border(refs)
    <2>1. twice \in Corners(refs) \/ twice = once
      BY <1>4, BorderMovesToCorner
    <2>2. CASE twice \in Corners(refs)
      BY <2>2, CornerStays
    <2>3. CASE twice = once
      BY <2>3
    <2> QED BY <2>1, <2>2, <2>3
  <1> QED BY <1>1, <1>2, <1>3, <1>4

LEMMA SnapInReach ==
    ASSUME NEW refs, UprightSeq(refs), NEW tol \in Nat, NEW p \in Points
    PROVE  Distance2(p, SnapTarget(p, refs, tol)) <= tol * tol
  <1>1. SnapsTo(p, SnapTarget(p, refs, tol), refs, tol)
    BY SnapTargetNearest
  <1>2. Distance2(p, p) <= tol * tol
    <2>1. Distance2(p, p) = 0 /\ tol * tol \in Nat
      BY DistanceNat, Squares
    <2> QED BY <2>1
  <1> QED BY <1>1, <1>2 DEF SnapsTo, NearestOf, InReach

\* The square of a sum is at most twice the sum of the squares.
LEMMA SquareOfSum ==
    ASSUME NEW a \in Int, NEW b \in Int
    PROVE  (a + b) * (a + b) <= 2 * (a * a) + 2 * (b * b)
  <1>1. (a - b) * (a - b) >= 0
    <2> DEFINE d == a - b
    <2>1. d \in Int
      OBVIOUS
    <2> HIDE DEF d
    <2>2. d * d \in Nat
      BY <2>1, Squares
    <2> QED BY <2>2 DEF d
  <1> QED BY <1>1

LEMMA TwoMoves ==
    ASSUME NEW p \in Points, NEW q \in Points, NEW r \in Points, NEW t \in Nat,
           Distance2(p, q) <= t, Distance2(q, r) <= t
    PROVE  Distance2(p, r) <= 4 * t
  <1> DEFINE a == p.x - q.x
             b == q.x - r.x
             c == p.y - q.y
             d == q.y - r.y
             e == p.x - r.x
             f == p.y - r.y
  <1>1. /\ a \in Int /\ b \in Int /\ c \in Int /\ d \in Int
        /\ e = a + b /\ f = c + d
    BY DEF Points
  <1>2. /\ Distance2(p, q) = a * a + c * c
        /\ Distance2(q, r) = b * b + d * d
        /\ Distance2(p, r) = e * e + f * f
    BY DEF Distance2
  <1> HIDE DEF a, b, c, d, e, f
  <1>3. /\ e * e <= 2 * (a * a) + 2 * (b * b)
        /\ f * f <= 2 * (c * c) + 2 * (d * d)
    BY <1>1, SquareOfSum
  <1> DEFINE a2 == a * a
             b2 == b * b
             c2 == c * c
             d2 == d * d
             e2 == e * e
             f2 == f * f
  <1>4. /\ a2 \in Int /\ b2 \in Int /\ c2 \in Int /\ d2 \in Int /\ e2 \in Int /\ f2 \in Int
        /\ e2 <= 2 * a2 + 2 * b2 /\ f2 <= 2 * c2 + 2 * d2
        /\ Distance2(p, q) = a2 + c2 /\ Distance2(q, r) = b2 + d2 /\ Distance2(p, r) = e2 + f2
    BY <1>1, <1>2, <1>3
  <1> HIDE DEF a2, b2, c2, d2, e2, f2
  <1> QED BY <1>4

Rings == [1 .. 4 -> Points]

LEMMA SnappedRing ==
    ASSUME NEW refs, UprightSeq(refs), NEW tol \in Nat, NEW ring \in Rings
    PROVE  /\ Snapped(ring, refs, tol) \in Rings
           /\ tol > 0 => \A i \in 1 .. 4 :
                 Snapped(ring, refs, tol)[i] = SnapTarget(ring[i], refs, tol)
           /\ tol = 0 => Snapped(ring, refs, tol) = ring
  BY SnapTargetNearest DEF Snapped, Rings

LEMMA SnappedThrice ==
    ASSUME NEW refs, UprightSeq(refs), NEW tol \in Nat, NEW ring \in Rings
    PROVE  LET once == Snapped(ring, refs, tol)
               twice == Snapped(once, refs, tol)
           IN  Snapped(twice, refs, tol) = twice
  <1> DEFINE once == Snapped(ring, refs, tol)
             twice == Snapped(once, refs, tol)
             thrice == Snapped(twice, refs, tol)
  <1>1. once \in Rings /\ twice \in Rings /\ thrice \in Rings
    BY SnappedRing
  <1>2. CASE tol = 0
    BY <1>1, <1>2, SnappedRing
  <1>3. CASE tol > 0
    <2>1. ASSUME NEW i \in 1 .. 4 PROVE thrice[i] = twice[i]
      <3>1. once[i] = SnapTarget(ring[i], refs, tol)
        BY <1>3, SnappedRing
      <3>2. twice[i] = SnapTarget(once[i], refs, tol)
        BY <1>1, <1>3, SnappedRing
      <3>3. thrice[i] = SnapTarget(twice[i], refs, tol)
        BY <1>1, <1>3, SnappedRing
      <3>4. ring[i] \in Points
        BY DEF Rings
      <3> HIDE DEF once, twice, thrice
      <3> QED BY <3>1, <3>2, <3>3, <3>4, SnapTwice
    <2>2. thrice = twice
      <3> HIDE DEF twice, thrice
      <3> QED BY <1>1, <2>1 DEF Rings
    <2> QED BY <2>2
  <1> QED BY <1>2, <1>3

LEMMA SnappedInReach ==
    ASSUME NEW refs, UprightSeq(refs), NEW tol \in Nat, NEW ring \in Rings, NEW i \in 1 .. 4
    PROVE  Distance2(ring[i], Snapped(ring, refs, tol)[i]) <= tol * tol
  <1>1. ring[i] \in Points
    BY DEF Rings
  <1>2. CASE tol = 0
    <2>1. Distance2(ring[i], ring[i]) = 0 /\ tol * tol = 0
      BY <1>1, <1>2, DistanceNat
    <2> QED BY <1>2, <2>1, SnappedRing
  <1>3. CASE tol > 0
    BY <1>1, <1>3, SnappedRing, SnapInReach
  <1> QED BY <1>2, <1>3

-----------------------------------------------------------------------------
(* Deduplication.  For N neighbours: Fits[k] are the neighbours with a trouble of *)
(* kind k, Evidence[k][id] what would prove it.                                    *)

Kinds == {"overlap", "gap", "dangling_edge"}

Expected(k, id, Evidence) == Finding(k, Evidence[k][id], id)

AllExpected(N, Evidence) == {Expected(k, id, Evidence) : k \in Kinds, id \in 1 .. N}

\* No earlier neighbour has the same trouble with the same evidence.
First(k, id, Fits, Evidence) ==
    /\ id \in Fits[k]
    /\ \A m \in 1 .. (id - 1) : ~(m \in Fits[k] /\ Evidence[k][m] = Evidence[k][id])

\* Of kind k, kept holds what is first among the neighbours up to n.
KeptOf(kept, k, n, N, Fits, Evidence) ==
    \A id \in 1 .. N :
        (\E i \in 1 .. Len(kept) : kept[i] = Expected(k, id, Evidence))
            <=> id <= n /\ First(k, id, Fits, Evidence)

LEMMA ExpectedDiffer ==
    ASSUME NEW k \in Kinds, NEW l \in Kinds, NEW id, NEW m, NEW Evidence
    PROVE  Expected(k, id, Evidence) = Expected(l, m, Evidence) <=> k = l /\ id = m
  BY DEF Expected, Finding

\* What is in a sequence once f is noted in it.
Gains(after, kept, f, found) ==
    \A g : (\E i \in 1 .. Len(after) : after[i] = g)
             <=> \/ \E i \in 1 .. Len(kept) : kept[i] = g
                 \/ /\ g = f /\ found
                    /\ \A i \in 1 .. Len(kept) : ~SameKey(kept[i], f)

LEMMA NotedEntries ==
    ASSUME NEW N \in Nat, NEW Evidence, NEW kept \in Seq(AllExpected(N, Evidence)),
           NEW k \in Kinds, NEW n \in 1 .. N, NEW found \in BOOLEAN
    PROVE  /\ Noted(kept, found, Expected(k, n, Evidence)) \in Seq(AllExpected(N, Evidence))
           /\ Gains(Noted(kept, found, Expected(k, n, Evidence)), kept,
                    Expected(k, n, Evidence), found)
  <1> DEFINE f == Expected(k, n, Evidence)
             after == Noted(kept, found, f)
             F == AllExpected(N, Evidence)
             new == found /\ \A i \in 1 .. Len(kept) : ~SameKey(kept[i], f)
  <1>1. f \in F /\ kept \in Seq(F)
    BY DEF AllExpected
  <1>2. CASE new
    <2>1. after = Append(kept, f)
      BY <1>2 DEF Noted
    <2> HIDE DEF f, F, after
    <2>2. after \in Seq(F) /\ Len(after) = Len(kept) + 1 /\ after[Len(kept) + 1] = f
          /\ \A i \in 1 .. Len(kept) : after[i] = kept[i]
      BY <1>1, <2>1
    <2>3. \A g : (\E i \in 1 .. Len(after) : after[i] = g)
                   <=> (\E i \in 1 .. Len(kept) : kept[i] = g) \/ g = f
      <3>1. Len(kept) \in Nat
        OBVIOUS
      <3> HIDE DEF new
      <3> QED BY <2>2, <3>1
    <2> QED BY <1>2, <2>2, <2>3 DEF f, F, after, Gains
  <1>3. CASE ~new
    <2>1. after = kept
      BY <1>3 DEF Noted
    <2> QED BY <1>3, <2>1 DEF Gains
  <1> QED BY <1>2, <1>3

LEMMA NotedOfKind ==
    ASSUME NEW N \in Nat, NEW Fits \in [Kinds -> SUBSET (1 .. N)], NEW Evidence,
           NEW kept \in Seq(AllExpected(N, Evidence)), NEW k \in Kinds, NEW n \in 1 .. N,
           KeptOf(kept, k, n - 1, N, Fits, Evidence)
    PROVE  KeptOf(Noted(kept, n \in Fits[k], Expected(k, n, Evidence)), k, n, N, Fits, Evidence)
  <1> DEFINE f == Expected(k, n, Evidence)
             after == Noted(kept, n \in Fits[k], f)
             Has(s, g) == \E i \in 1 .. Len(s) : s[i] = g
             seen == \E i \in 1 .. Len(kept) : SameKey(kept[i], f)
             repeated == \E m \in 1 .. n - 1 : m \in Fits[k] /\ Evidence[k][m] = Evidence[k][n]
  <1>1. \A g : Has(after, g) <=> Has(kept, g) \/ (g = f /\ n \in Fits[k] /\ ~seen)
    <2>1. PICK found \in BOOLEAN : found <=> n \in Fits[k]
      OBVIOUS
    <2>2. Gains(Noted(kept, found, f), kept, f, found)
      BY NotedEntries
    <2>3. Noted(kept, found, f) = after
      BY <2>1 DEF Noted
    <2> QED BY <2>1, <2>2, <2>3 DEF Gains
  <1>2. \A id \in 1 .. N : Has(kept, Expected(k, id, Evidence))
                             <=> id <= n - 1 /\ First(k, id, Fits, Evidence)
    BY DEF KeptOf
  <1>3. seen => repeated
    <2> SUFFICES ASSUME NEW i \in 1 .. Len(kept), SameKey(kept[i], f) PROVE repeated
      OBVIOUS
    <2>1. kept[i] \in AllExpected(N, Evidence)
      OBVIOUS
    <2>2. PICK l \in Kinds, m \in 1 .. N : kept[i] = Expected(l, m, Evidence)
      BY <2>1 DEF AllExpected
    <2>3. l = k /\ Evidence[k][m] = Evidence[k][n]
      BY <2>2 DEF SameKey, Expected, Finding
    <2>4. Has(kept, Expected(k, m, Evidence))
      BY <2>2, <2>3
    <2>5. m <= n - 1 /\ m \in Fits[k]
      <3> HIDE DEF Has
      <3> QED BY <1>2, <2>4 DEF First
    <2> QED BY <2>3, <2>5
  <1>4. repeated => seen
    <2> SUFFICES ASSUME repeated PROVE seen
      OBVIOUS
    <2> DEFINE S == {m \in 1 .. n - 1 : m \in Fits[k] /\ Evidence[k][m] = Evidence[k][n]}
    <2>1. S \in SUBSET Nat /\ S # {}
      OBVIOUS
    <2>2. PICK m \in S : \A o \in S : m <= o
      BY <2>1, LeastNumber, Zenon
    <2>3. m \in 1 .. n - 1 /\ m \in Fits[k] /\ Evidence[k][m] = Evidence[k][n]
      BY <2>2
    <2>4. ASSUME NEW o \in 1 .. (m - 1), o \in Fits[k], Evidence[k][o] = Evidence[k][m]
          PROVE  FALSE
      <3>1. o \in S
        BY <2>3, <2>4
      <3> QED BY <2>2, <2>3, <3>1
    <2>5. First(k, m, Fits, Evidence)
      BY <2>3, <2>4 DEF First
    <2>6. m \in 1 .. N /\ m <= n - 1
      BY <2>3
    <2>7. Has(kept, Expected(k, m, Evidence))
      <3> HIDE DEF Has
      <3> QED BY <1>2, <2>5, <2>6
    <2>8. SameKey(Expected(k, m, Evidence), f)
      BY <2>3 DEF SameKey, Expected, Finding
    <2> QED BY <2>7, <2>8
  <1>5. First(k, n, Fits, Evidence) <=> n \in Fits[k] /\ ~repeated
    BY DEF First
  <1>6. ASSUME NEW id \in 1 .. N
        PROVE  Has(after, Expected(k, id, Evidence)) <=> id <= n /\ First(k, id, Fits, Evidence)
    <2>1. Expected(k, id, Evidence) = f <=> id = n
      BY ExpectedDiffer
    <2>2. (id <= n - 1 \/ id = n) <=> id <= n
      OBVIOUS
    <2>3. ~(n <= n - 1)
      OBVIOUS
    <2> HIDE DEF Has, after, f, seen, repeated
    <2> QED BY <1>1, <1>2, <1>3, <1>4, <1>5, <2>1, <2>2, <2>3
  <1> QED BY <1>6 DEF KeptOf

LEMMA NotedOfAnother ==
    ASSUME NEW N \in Nat, NEW Fits, NEW Evidence,
           NEW kept \in Seq(AllExpected(N, Evidence)), NEW k \in Kinds, NEW n \in 1 .. N,
           NEW found \in BOOLEAN, NEW l \in Kinds, l # k, NEW m \in 0 .. N,
           KeptOf(kept, l, m, N, Fits, Evidence)
    PROVE  KeptOf(Noted(kept, found, Expected(k, n, Evidence)), l, m, N, Fits, Evidence)
  <1> DEFINE after == Noted(kept, found, Expected(k, n, Evidence))
             Has(s, g) == \E i \in 1 .. Len(s) : s[i] = g
  <1>1. \A id \in 1 .. N : Has(after, Expected(l, id, Evidence))
                             <=> Has(kept, Expected(l, id, Evidence))
    <2>1. Gains(after, kept, Expected(k, n, Evidence), found)
      BY NotedEntries
    <2>2. \A id \in 1 .. N : Expected(l, id, Evidence) # Expected(k, n, Evidence)
      BY ExpectedDiffer
    <2> HIDE DEF after
    <2> QED BY <2>1, <2>2 DEF Gains
  <1>2. \A id \in 1 .. N : Has(kept, Expected(l, id, Evidence))
                             <=> id <= m /\ First(l, id, Fits, Evidence)
    BY DEF KeptOf
  <1>3. \A id \in 1 .. N : Has(after, Expected(l, id, Evidence))
                             <=> id <= m /\ First(l, id, Fits, Evidence)
    <2> HIDE DEF Has, after
    <2> QED BY <1>1, <1>2
  <1> QED BY <1>3 DEF KeptOf

-----------------------------------------------------------------------------
(* The comparison with one neighbour, and with all. *)

Troubled(k, b, d, neighbour, tol) ==
    \/ k = "overlap" /\ Overlaps(d, neighbour)
    \/ k = "gap" /\ Parts(b, d, neighbour, tol)
    \/ k = "dangling_edge" /\ Dangles(d, neighbour, tol)

Proof(k, d, neighbour) ==
    IF k = "overlap" THEN Intersection(d, neighbour)
    ELSE IF k = "gap" THEN d
    ELSE SharedBoundary(d, neighbour)

FitsOf(b, d, ns, tol) ==
    [k \in Kinds |-> {id \in 1 .. Len(ns) : Troubled(k, b, d, ns[id], tol)}]

EvidenceOf(d, ns) == [k \in Kinds |-> [id \in 1 .. Len(ns) |-> Proof(k, d, ns[id])]]

LEMMA ComparedKept ==
    ASSUME NEW b, NEW d, NEW ns, Len(ns) \in Nat, NEW tol, NEW id \in 1 .. Len(ns),
           NEW kept \in Seq(AllExpected(Len(ns), EvidenceOf(d, ns))),
           \A k \in Kinds :
              KeptOf(kept, k, id - 1, Len(ns), FitsOf(b, d, ns, tol), EvidenceOf(d, ns))
    PROVE  /\ Compared(kept, b, d, ns[id], id, tol)
                \in Seq(AllExpected(Len(ns), EvidenceOf(d, ns)))
           /\ \A k \in Kinds :
                 KeptOf(Compared(kept, b, d, ns[id], id, tol), k, id, Len(ns),
                        FitsOf(b, d, ns, tol), EvidenceOf(d, ns))
  <1> DEFINE N == Len(ns)
             Fits == FitsOf(b, d, ns, tol)
             Ev == EvidenceOf(d, ns)
             Seqs == Seq(AllExpected(N, Ev))
             K(s, k, n) == KeptOf(s, k, n, N, Fits, Ev)
             After(s, k) == Noted(s, id \in Fits[k], Expected(k, id, Ev))
             one == After(kept, "overlap")
             two == After(one, "gap")
             three == After(two, "dangling_edge")
  <1>1. /\ (id \in Fits["overlap"]) <=> Overlaps(d, ns[id])
        /\ (id \in Fits["gap"]) <=> Parts(b, d, ns[id], tol)
        /\ (id \in Fits["dangling_edge"]) <=> Dangles(d, ns[id], tol)
    BY DEF FitsOf, Troubled, Kinds
  <1>2. /\ Expected("overlap", id, Ev) = Finding("overlap", Intersection(d, ns[id]), id)
        /\ Expected("gap", id, Ev) = Finding("gap", d, id)
        /\ Expected("dangling_edge", id, Ev)
             = Finding("dangling_edge", SharedBoundary(d, ns[id]), id)
    BY DEF EvidenceOf, Proof, Kinds, Expected
  <1>3. three = Compared(kept, b, d, ns[id], id, tol)
    <2> HIDE DEF Fits, Ev
    <2>1. one = Noted(kept, Overlaps(d, ns[id]), Finding("overlap", Intersection(d, ns[id]), id))
      BY <1>1, <1>2 DEF Noted
    <2>2. two = Noted(one, Parts(b, d, ns[id], tol), Finding("gap", d, id))
      <3> HIDE DEF one
      <3> QED BY <1>1, <1>2 DEF Noted
    <2>3. three = Noted(two, Dangles(d, ns[id], tol),
                        Finding("dangling_edge", SharedBoundary(d, ns[id]), id))
      <3> HIDE DEF two
      <3> QED BY <1>1, <1>2 DEF Noted
    <2> HIDE DEF one, two, three
    <2> QED BY <2>1, <2>2, <2>3, Zenon DEF Compared
  <1>4. Fits \in [Kinds -> SUBSET (1 .. N)]
    BY DEF FitsOf
  <1>5. ASSUME NEW s \in Seqs, NEW k \in Kinds
        PROVE  /\ After(s, k) \in Seqs
               /\ K(s, k, id - 1) => K(After(s, k), k, id)
               /\ \A l \in Kinds, m \in {id - 1, id} : l # k /\ K(s, l, m) => K(After(s, k), l, m)
    <2>1. PICK found \in BOOLEAN : found <=> id \in Fits[k]
      OBVIOUS
    <2>2. Noted(s, found, Expected(k, id, Ev)) = After(s, k)
      BY <2>1 DEF Noted
    <2> HIDE DEF Fits, Ev
    <2>3. Noted(s, found, Expected(k, id, Ev)) \in Seqs
      BY NotedEntries
    <2>4. K(s, k, id - 1) => K(After(s, k), k, id)
      BY <1>4, NotedOfKind
    <2>5. ASSUME NEW l \in Kinds, NEW m \in {id - 1, id}, l # k, K(s, l, m)
          PROVE  K(Noted(s, found, Expected(k, id, Ev)), l, m)
      <3>1. m \in 0 .. N
        OBVIOUS
      <3> QED BY <2>5, <3>1, NotedOfAnother
    <2> HIDE DEF After, K, Seqs, N
    <2> QED BY <2>2, <2>3, <2>4, <2>5
  <1>6. kept \in Seqs /\ \A k \in Kinds : K(kept, k, id - 1)
    OBVIOUS
  <1>7. "overlap" \in Kinds /\ "gap" \in Kinds /\ "dangling_edge" \in Kinds
    BY DEF Kinds
  <1>8. three \in Seqs /\ \A k \in Kinds : K(three, k, id)
    <2> HIDE DEF Seqs, K, After, Fits, Ev, N
    <2>1. one \in Seqs /\ K(one, "overlap", id) /\ K(one, "gap", id - 1)
          /\ K(one, "dangling_edge", id - 1)
      BY <1>5, <1>6, <1>7
    <2> HIDE DEF one
    <2>2. two \in Seqs /\ K(two, "overlap", id) /\ K(two, "gap", id)
          /\ K(two, "dangling_edge", id - 1)
      BY <1>5, <1>7, <2>1
    <2> HIDE DEF two
    <2>3. three \in Seqs /\ K(three, "overlap", id) /\ K(three, "gap", id)
          /\ K(three, "dangling_edge", id)
      BY <1>5, <1>7, <2>2
    <2> HIDE DEF three
    <2> QED BY <2>3 DEF Kinds
  <1> HIDE DEF three
  <1> QED BY <1>3, <1>8

\* kept[id] is what is kept after the neighbours up to id.
KeptBy(kept, b, d, ns, tol) ==
    /\ kept[0] = <<>>
    /\ \A id \in 1 .. Len(ns) : kept[id] = Compared(kept[id - 1], b, d, ns[id], id, tol)
    /\ DetectTopology(b, d, ns, tol) = kept[Len(ns)]

LEMMA DetectIsLoop ==
    ASSUME NEW b, NEW d, NEW ns, Len(ns) \in Nat, NEW tol
    PROVE  \E kept : KeptBy(kept, b, d, ns, tol)
  <1> DEFINE N == Len(ns)
             Eq(g) == g = [id \in 0 .. N |->
                             IF id = 0 THEN <<>> ELSE Compared(g[id - 1], b, d, ns[id], id, tol)]
             F == AllExpected(N, EvidenceOf(d, ns))
             V == Seq(F)
             Pass == [id \in 1 .. N |-> [v \in V |-> Compared(v, b, d, ns[id], id, tol)]]
  <1>1. N \in Nat /\ <<>> \in V
    OBVIOUS
  <1>2. ASSUME NEW id \in 1 .. N, NEW v \in V
        PROVE  Compared(v, b, d, ns[id], id, tol) \in V
    <2> DEFINE After(s, k, found) == Noted(s, found, Expected(k, id, EvidenceOf(d, ns)))
    <2>1. ASSUME NEW s \in V, NEW k \in Kinds, NEW found \in BOOLEAN
          PROVE  Noted(s, found, Expected(k, id, EvidenceOf(d, ns))) \in V
      <3> HIDE DEF N
      <3> QED BY <1>1, NotedEntries
    <2>2. /\ Expected("overlap", id, EvidenceOf(d, ns))
               = Finding("overlap", Intersection(d, ns[id]), id)
          /\ Expected("gap", id, EvidenceOf(d, ns)) = Finding("gap", d, id)
          /\ Expected("dangling_edge", id, EvidenceOf(d, ns))
               = Finding("dangling_edge", SharedBoundary(d, ns[id]), id)
      BY DEF EvidenceOf, Proof, Kinds, Expected
    <2> HIDE DEF N, F, V
    <2>3. PICK o \in BOOLEAN, g \in BOOLEAN, h \in BOOLEAN :
             /\ o <=> Overlaps(d, ns[id])
             /\ g <=> Parts(b, d, ns[id], tol)
             /\ h <=> Dangles(d, ns[id], tol)
      OBVIOUS
    <2>4. PICK one : one = Noted(v, o, Finding("overlap", Intersection(d, ns[id]), id))
      OBVIOUS
    <2>5. PICK two : two = Noted(one, g, Finding("gap", d, id))
      OBVIOUS
    <2>6. PICK three : three = Noted(two, h, Finding("dangling_edge", SharedBoundary(d, ns[id]), id))
      OBVIOUS
    <2>7. one \in V /\ two \in V /\ three \in V
      BY <2>1, <2>2, <2>4, <2>5, <2>6 DEF Kinds
    <2>8. /\ one = Noted(v, Overlaps(d, ns[id]), Finding("overlap", Intersection(d, ns[id]), id))
          /\ two = Noted(one, Parts(b, d, ns[id], tol), Finding("gap", d, id))
          /\ three = Noted(two, Dangles(d, ns[id], tol),
                           Finding("dangling_edge", SharedBoundary(d, ns[id]), id))
      BY <2>3, <2>4, <2>5, <2>6 DEF Noted
    <2>9. three = Compared(v, b, d, ns[id], id, tol)
      BY <2>8, Zenon DEF Compared
    <2> QED BY <2>7, <2>9
  <1>3. Pass \in [1 .. N -> [V -> V]]
    <2> HIDE DEF V, N
    <2> QED BY <1>2
  <1>4. PICK g \in [0 .. N -> V] :
           g[0] = <<>> /\ \A i \in 1 .. N : g[i] = Pass[i][g[i - 1]]
    <2> HIDE DEF V, Pass, N
    <2>1. \E g : g \in Runs(N, V, <<>>, Pass)
      BY <1>1, <1>3, LoopExists
    <2> QED BY <2>1 DEF Runs
  <1>5. ASSUME NEW i \in 1 .. N
        PROVE  g[i] = Compared(g[i - 1], b, d, ns[i], i, tol)
    <2> HIDE DEF V, N
    <2>1. i - 1 \in 0 .. N
      BY <1>1
    <2>2. g[i - 1] \in V
      BY <1>4, <2>1
    <2>3. \A v \in V : Pass[i][v] = Compared(v, b, d, ns[i], i, tol)
      OBVIOUS
    <2> HIDE DEF Pass
    <2> QED BY <1>4, <2>2, <2>3
  <1>6. Eq(g)
    <2> DEFINE h == [id \in 0 .. N |->
                       IF id = 0 THEN <<>> ELSE Compared(g[id - 1], b, d, ns[id], id, tol)]
    <2> HIDE DEF V, N
    <2>1. \A i \in 0 .. N : g[i] = h[i]
      BY <1>1, <1>4, <1>5
    <2> QED BY <2>1, <1>4
  <1>7. DetectTopology(b, d, ns, tol) = (CHOOSE k : Eq(k))[N]
    BY Zenon DEF DetectTopology
  <1> HIDE DEF Eq
  <1>8. PICK k : k = (CHOOSE x : Eq(x))
    OBVIOUS
  <1>9. Eq(k)
    BY <1>6, <1>8, Zenon
  <1>10. k = [id \in 0 .. N |->
                 IF id = 0 THEN <<>> ELSE Compared(k[id - 1], b, d, ns[id], id, tol)]
    BY <1>9 DEF Eq
  <1>11. DetectTopology(b, d, ns, tol) = k[N]
    BY <1>7, <1>8, Zenon
  <1>12. k[0] = <<>> /\ \A id \in 1 .. N : k[id] = Compared(k[id - 1], b, d, ns[id], id, tol)
    BY <1>1, <1>10
  <1> QED BY <1>11, <1>12 DEF KeptBy

\* What a detection answers: of every kind, what is first.
LEMMA DetectedKept ==
    ASSUME NEW b, NEW d, NEW ns, Len(ns) \in Nat, NEW tol
    PROVE  /\ DetectTopology(b, d, ns, tol) \in Seq(AllExpected(Len(ns), EvidenceOf(d, ns)))
           /\ \A k \in Kinds :
                 KeptOf(DetectTopology(b, d, ns, tol), k, Len(ns), Len(ns),
                        FitsOf(b, d, ns, tol), EvidenceOf(d, ns))
  <1>1. PICK kept : KeptBy(kept, b, d, ns, tol)
    BY DetectIsLoop
  <1> DEFINE N == Len(ns)
             Seqs == Seq(AllExpected(N, EvidenceOf(d, ns)))
             K(s, k, n) == KeptOf(s, k, n, N, FitsOf(b, d, ns, tol), EvidenceOf(d, ns))
             S == {n \in 0 .. N : kept[n] \in Seqs /\ \A k \in Kinds : K(kept[n], k, n)}
  <1>2. /\ kept[0] = <<>>
        /\ \A n \in 1 .. N : kept[n] = Compared(kept[n - 1], b, d, ns[n], n, tol)
        /\ DetectTopology(b, d, ns, tol) = kept[N]
    BY <1>1 DEF KeptBy
  <1>3. 0 \in S
    <2>1. <<>> \in Seqs
      OBVIOUS
    <2>2. \A k \in Kinds : K(<<>>, k, 0)
      BY DEF KeptOf
    <2> HIDE DEF Seqs, K
    <2> QED BY <1>2, <2>1, <2>2
  <1>4. ASSUME NEW n \in 1 .. N, n - 1 \in S PROVE n \in S
    <2>1. kept[n - 1] \in Seqs /\ \A k \in Kinds : K(kept[n - 1], k, n - 1)
      BY <1>4
    <2>2. /\ Compared(kept[n - 1], b, d, ns[n], n, tol) \in Seqs
          /\ \A k \in Kinds : K(Compared(kept[n - 1], b, d, ns[n], n, tol), k, n)
      BY <2>1, ComparedKept
    <2> HIDE DEF Seqs, K
    <2> QED BY <1>2, <2>2
  <1>5. \A n \in 0 .. N : n \in S
    <2> HIDE DEF S, N
    <2>1. N \in Nat
      BY DEF N
    <2> QED BY <1>3, <1>4, <2>1, Counting
  <1>6. N \in S
    BY <1>5
  <1> QED BY <1>2, <1>6

-----------------------------------------------------------------------------
(* What the overlay library answers, against cells and points of the grid. *)

LEMMA MaxThree ==
    ASSUME NEW a \in Int, NEW b \in Int, NEW c \in Int
    PROVE  /\ Max({a, b, c}) \in {a, b, c}
           /\ Max({a, b, c}) >= a /\ Max({a, b, c}) >= b /\ Max({a, b, c}) >= c
  <1> DEFINE S == {a, b, c}
  <1>1. \E x \in S : \A y \in S : x >= y
    OBVIOUS
  <1>2. Max(S) \in S /\ \A y \in S : Max(S) >= y
    <2> HIDE DEF S
    <2> QED BY <1>1 DEF Max
  <1> QED BY <1>2

LEMMA IntersectionShape ==
    ASSUME NEW r, NEW s, Upright(r), Upright(s)
    PROVE  Intersection(r, s) =
             [x1 |-> IF r.x1 >= s.x1 THEN r.x1 ELSE s.x1,
              y1 |-> IF r.y1 >= s.y1 THEN r.y1 ELSE s.y1,
              x2 |-> IF r.x2 <= s.x2 THEN r.x2 ELSE s.x2,
              y2 |-> IF r.y2 <= s.y2 THEN r.y2 ELSE s.y2]
  BY UprightShape, MaxTwo, MinTwo DEF Intersection, Rectangle

LEMMA CellsOf ==
    ASSUME NEW r, r.x1 \in Int, r.x2 \in Int, r.y1 \in Int, r.y2 \in Int,
           NEW x \in Int, NEW y \in Int
    PROVE  Point(x, y) \in Cells(r) <=> r.x1 <= x /\ x < r.x2 /\ r.y1 <= y /\ y < r.y2
  <1>1. \A u, v : Point(x, y) = Point(u, v) <=> x = u /\ y = v
    BY DEF Point
  <1>2. Point(x, y) \in Cells(r)
          <=> \E u \in r.x1 .. (r.x2 - 1), v \in r.y1 .. (r.y2 - 1) : Point(x, y) = Point(u, v)
    BY DEF Cells
  <1>3. Point(x, y) \in Cells(r) <=> x \in r.x1 .. (r.x2 - 1) /\ y \in r.y1 .. (r.y2 - 1)
    BY <1>1, <1>2
  <1> QED BY <1>3

LEMMA CellsOfIntersection ==
    ASSUME NEW r, NEW s, Upright(r), Upright(s)
    PROVE  Cells(Intersection(r, s)) = Cells(r) \cap Cells(s)
  <1> DEFINE i == Intersection(r, s)
  <1>1. /\ r.x1 \in Int /\ r.x2 \in Int /\ r.y1 \in Int /\ r.y2 \in Int
        /\ s.x1 \in Int /\ s.x2 \in Int /\ s.y1 \in Int /\ s.y2 \in Int
    BY UprightShape
  <1>2. /\ i.x1 = (IF r.x1 >= s.x1 THEN r.x1 ELSE s.x1)
        /\ i.y1 = (IF r.y1 >= s.y1 THEN r.y1 ELSE s.y1)
        /\ i.x2 = (IF r.x2 <= s.x2 THEN r.x2 ELSE s.x2)
        /\ i.y2 = (IF r.y2 <= s.y2 THEN r.y2 ELSE s.y2)
    BY IntersectionShape
  <1>3. i.x1 \in Int /\ i.x2 \in Int /\ i.y1 \in Int /\ i.y2 \in Int
    BY <1>1, <1>2
  <1> HIDE DEF i
  <1>4. ASSUME NEW x \in Int, NEW y \in Int
        PROVE  Point(x, y) \in Cells(i) <=> Point(x, y) \in Cells(r) /\ Point(x, y) \in Cells(s)
    BY <1>1, <1>2, <1>3, CellsOf
  <1>5. \A q : q \in Cells(i) => \E x \in Int, y \in Int : q = Point(x, y)
    BY <1>3 DEF Cells
  <1>6. \A q : q \in Cells(r) => \E x \in Int, y \in Int : q = Point(x, y)
    BY <1>1 DEF Cells
  <1>7. \A q : q \in Cells(i) <=> q \in Cells(r) /\ q \in Cells(s)
    BY <1>4, <1>5, <1>6
  <1> QED BY <1>7 DEF i

LEMMA OverlapIsCells ==
    ASSUME NEW r, NEW s, Upright(r), Upright(s)
    PROVE  Overlaps(r, s) <=> Cells(r) \cap Cells(s) # {}
  <1> DEFINE i == Intersection(r, s)
  <1>1. i.x1 \in Int /\ i.x2 \in Int /\ i.y1 \in Int /\ i.y2 \in Int
    BY UprightShape, IntersectionShape
  <1>2. Cells(i) = Cells(r) \cap Cells(s)
    BY CellsOfIntersection
  <1> HIDE DEF i
  <1>3. Area(i) > 0 <=> i.x1 < i.x2 /\ i.y1 < i.y2
    <2>1. CASE i.x1 < i.x2 /\ i.y1 < i.y2
      <3> DEFINE a == i.x2 - i.x1
                 b == i.y2 - i.y1
      <3>1. a \in Nat /\ b \in Nat /\ a > 0 /\ b > 0 /\ Area(i) = a * b
        BY <1>1, <2>1 DEF Area
      <3> HIDE DEF a, b
      <3> QED BY <2>1, <3>1
    <2>2. CASE ~(i.x1 < i.x2 /\ i.y1 < i.y2)
      BY <2>2 DEF Area
    <2> QED BY <2>1, <2>2
  <1>4. i.x1 < i.x2 /\ i.y1 < i.y2 => Point(i.x1, i.y1) \in Cells(i)
    BY <1>1, CellsOf
  <1>5. ~(i.x1 < i.x2 /\ i.y1 < i.y2) => Cells(i) = {}
    BY <1>1 DEF Cells
  <1>6. Overlaps(r, s) <=> Area(i) > 0
    BY DEF Overlaps, i
  <1> QED BY <1>2, <1>3, <1>4, <1>5, <1>6

LEMMA SameOverlap ==
    ASSUME NEW r, NEW s, NEW t, Upright(r), Upright(s), Upright(t),
           Overlaps(r, s), Overlaps(r, t)
    PROVE  Intersection(r, s) = Intersection(r, t)
             <=> Cells(r) \cap Cells(s) = Cells(r) \cap Cells(t)
  <1> DEFINE i == Intersection(r, s)
             j == Intersection(r, t)
  <1>1. /\ i.x1 \in Int /\ i.x2 \in Int /\ i.y1 \in Int /\ i.y2 \in Int
        /\ i = [x1 |-> i.x1, y1 |-> i.y1, x2 |-> i.x2, y2 |-> i.y2]
    BY UprightShape, IntersectionShape
  <1>2. /\ j.x1 \in Int /\ j.x2 \in Int /\ j.y1 \in Int /\ j.y2 \in Int
        /\ j = [x1 |-> j.x1, y1 |-> j.y1, x2 |-> j.x2, y2 |-> j.y2]
    BY UprightShape, IntersectionShape
  <1>3. Cells(i) = Cells(r) \cap Cells(s) /\ Cells(j) = Cells(r) \cap Cells(t)
    BY CellsOfIntersection
  <1>4. i.x1 < i.x2 /\ i.y1 < i.y2 /\ j.x1 < j.x2 /\ j.y1 < j.y2
    BY DEF Overlaps, Area
  <1> HIDE DEF i, j
  <1>5. ASSUME Cells(i) = Cells(j) PROVE i = j
    <2>1. /\ Point(i.x1, i.y1) \in Cells(i) /\ Point(i.x2 - 1, i.y2 - 1) \in Cells(i)
          /\ Point(j.x1, j.y1) \in Cells(j) /\ Point(j.x2 - 1, j.y2 - 1) \in Cells(j)
      <3>1. Point(i.x1, i.y1) \in Cells(i)
        BY <1>1, <1>4, CellsOf
      <3>2. Point(i.x2 - 1, i.y2 - 1) \in Cells(i)
        BY <1>1, <1>4, CellsOf
      <3>3. Point(j.x1, j.y1) \in Cells(j)
        BY <1>2, <1>4, CellsOf
      <3>4. Point(j.x2 - 1, j.y2 - 1) \in Cells(j)
        BY <1>2, <1>4, CellsOf
      <3> QED BY <3>1, <3>2, <3>3, <3>4
    <2>2. /\ Point(i.x1, i.y1) \in Cells(j) /\ Point(i.x2 - 1, i.y2 - 1) \in Cells(j)
          /\ Point(j.x1, j.y1) \in Cells(i) /\ Point(j.x2 - 1, j.y2 - 1) \in Cells(i)
      BY <1>5, <2>1
    <2>3. /\ j.x1 <= i.x1 /\ j.y1 <= i.y1 /\ i.x2 - 1 < j.x2 /\ i.y2 - 1 < j.y2
      BY <1>1, <1>2, <2>2, CellsOf
    <2>4. /\ i.x1 <= j.x1 /\ i.y1 <= j.y1 /\ j.x2 - 1 < i.x2 /\ j.y2 - 1 < i.y2
      BY <1>1, <1>2, <2>2, CellsOf
    <2>5. i.x1 = j.x1 /\ i.y1 = j.y1 /\ i.x2 = j.x2 /\ i.y2 = j.y2
      BY <1>1, <1>2, <2>3, <2>4
    <2> QED BY <1>1, <1>2, <2>5
  <1>6. i = j <=> Cells(i) = Cells(j)
    BY <1>5
  <1> QED BY <1>3, <1>6 DEF i, j

\* Two intervals: no two of their places are nearer than their separation, and two are
\* as near.
Separates(g, a1, a2, b1, b2) ==
    /\ g \in Nat
    /\ \A x \in a1 .. a2, y \in b1 .. b2 : g * g <= (x - y) * (x - y)
    /\ \E x \in a1 .. a2, y \in b1 .. b2 : g * g = (x - y) * (x - y)

LEMMA SeparationIsLeast ==
    ASSUME NEW a1 \in Int, NEW a2 \in Int, NEW b1 \in Int, NEW b2 \in Int, a1 <= a2, b1 <= b2
    PROVE  Separates(Separation(a1, a2, b1, b2), a1, a2, b1, b2)
  <1> DEFINE g == Separation(a1, a2, b1, b2)
  <1>1. g \in {0, b1 - a2, a1 - b2} /\ g >= 0 /\ g >= b1 - a2 /\ g >= a1 - b2
    <2> DEFINE u == b1 - a2
               v == a1 - b2
               z == 0
    <2>1. z \in Int /\ u \in Int /\ v \in Int /\ g = Max({z, u, v})
      BY DEF Separation
    <2> HIDE DEF g, u, v, z
    <2>2. g \in {z, u, v} /\ g >= z /\ g >= u /\ g >= v
      BY <2>1, MaxThree
    <2> QED BY <2>2 DEF u, v, z
  <1>2. g \in Nat
    BY <1>1
  <1> HIDE DEF g
  <1>3. ASSUME NEW x \in a1 .. a2, NEW y \in b1 .. b2
        PROVE  g * g <= (x - y) * (x - y)
    <2> DEFINE e == x - y
    <2>1. e \in Int /\ (g <= e \/ g <= -e)
      BY <1>1, <1>2
    <2> HIDE DEF e
    <2>2. CASE g <= e
      <3>1. -e <= g
        BY <1>2, <2>1, <2>2
      <3>2. g * g <= e * e
        BY <1>2, <2>1, <2>2, <3>1, CloserSquare
      <3> QED BY <3>2 DEF e
    <2>3. CASE g <= -e
      <3> DEFINE f == -e
      <3>1. f \in Int /\ g <= f /\ -f <= g /\ f * f = e * e
        BY <1>2, <2>1, <2>3
      <3> HIDE DEF f
      <3>2. g * g <= f * f
        BY <1>2, <3>1, CloserSquare
      <3>3. g * g <= e * e
        BY <3>1, <3>2
      <3> QED BY <3>3 DEF e
    <2> QED BY <2>1, <2>2, <2>3
  <1>4. \E x \in a1 .. a2, y \in b1 .. b2 : x - y \in {g, -g}
    <2>1. CASE g = 0
      <3>1. CASE a1 >= b1
        <4>1. a1 \in a1 .. a2 /\ a1 \in b1 .. b2 /\ a1 - a1 = g
          BY <1>1, <2>1, <3>1
        <4> QED BY <4>1
      <3>2. CASE a1 < b1
        <4>1. b1 \in a1 .. a2 /\ b1 \in b1 .. b2 /\ b1 - b1 = g
          BY <1>1, <2>1, <3>2
        <4> QED BY <4>1
      <3> QED BY <3>1, <3>2
    <2>2. CASE g = b1 - a2
      <3>1. a2 \in a1 .. a2 /\ b1 \in b1 .. b2 /\ a2 - b1 = -g
        BY <2>2
      <3> QED BY <3>1
    <2>3. CASE g = a1 - b2
      <3>1. a1 \in a1 .. a2 /\ b2 \in b1 .. b2 /\ a1 - b2 = g
        BY <2>3
      <3> QED BY <3>1
    <2> QED BY <1>1, <2>1, <2>2, <2>3
  <1>5. (-g) * (-g) = g * g
    BY <1>2
  <1>6. \E x \in a1 .. a2, y \in b1 .. b2 : g * g = (x - y) * (x - y)
    <2>1. PICK x \in a1 .. a2, y \in b1 .. b2 : x - y \in {g, -g}
      BY <1>4
    <2>2. PICK e : e = x - y
      OBVIOUS
    <2>3. e * e = g * g
      BY <1>5, <2>1, <2>2
    <2> QED BY <2>2, <2>3
  <1> QED BY <1>2, <1>3, <1>6 DEF g, Separates

LEMMA NearIsDistance ==
    ASSUME NEW r, NEW s, Upright(r), Upright(s), tolerance \in Nat
    PROVE  Near(r, s) <=> RectangleDistance2(r, s) <= tolerance * tolerance
  <1> DEFINE g == Separation(r.x1, r.x2, s.x1, s.x2)
             h == Separation(r.y1, r.y2, s.y1, s.y2)
             g2 == g * g
             h2 == h * h
             T == tolerance * tolerance
  <1>1. RectangleDistance2(r, s) = g2 + h2
    BY DEF RectangleDistance2
  <1>a. /\ r.x1 \in Int /\ r.x2 \in Int /\ r.x1 <= r.x2
        /\ r.y1 \in Int /\ r.y2 \in Int /\ r.y1 <= r.y2
        /\ s.x1 \in Int /\ s.x2 \in Int /\ s.x1 <= s.x2
        /\ s.y1 \in Int /\ s.y2 \in Int /\ s.y1 <= s.y2
    BY UprightShape
  <1>b. Separates(g, r.x1, r.x2, s.x1, s.x2) /\ Separates(h, r.y1, r.y2, s.y1, s.y2)
    BY <1>a, SeparationIsLeast
  <1>2. /\ g \in Nat
        /\ \A x \in r.x1 .. r.x2, y \in s.x1 .. s.x2 : g2 <= (x - y) * (x - y)
        /\ \E x \in r.x1 .. r.x2, y \in s.x1 .. s.x2 : g2 = (x - y) * (x - y)
    <2> HIDE DEF g, h
    <2> QED BY <1>b DEF Separates
  <1>3. /\ h \in Nat
        /\ \A x \in r.y1 .. r.y2, y \in s.y1 .. s.y2 : h2 <= (x - y) * (x - y)
        /\ \E x \in r.y1 .. r.y2, y \in s.y1 .. s.y2 : h2 = (x - y) * (x - y)
    <2> HIDE DEF g, h
    <2> QED BY <1>b DEF Separates
  <1>4. g2 \in Int /\ h2 \in Int /\ T \in Int
    <2> HIDE DEF g, h
    <2> QED BY <1>2, <1>3
  <1> HIDE DEF g, h, g2, h2, T
  <1>5. ASSUME NEW p \in GridPoints(r), NEW q \in GridPoints(s), Distance2(p, q) <= T
        PROVE  g2 + h2 <= T
    <2>1. p.x \in r.x1 .. r.x2 /\ p.y \in r.y1 .. r.y2
      BY DEF GridPoints, Point
    <2>2. q.x \in s.x1 .. s.x2 /\ q.y \in s.y1 .. s.y2
      BY DEF GridPoints, Point
    <2> DEFINE e == (p.x - q.x) * (p.x - q.x)
               f == (p.y - q.y) * (p.y - q.y)
    <2>3. g2 <= e /\ h2 <= f
      BY <1>2, <1>3, <2>1, <2>2
    <2>4. e \in Int /\ f \in Int
      BY <2>1, <2>2, UprightShape
    <2>5. Distance2(p, q) = e + f
      BY DEF Distance2
    <2> HIDE DEF e, f
    <2> QED BY <1>4, <1>5, <2>3, <2>4, <2>5
  <1>6. ASSUME g2 + h2 <= T
        PROVE  \E p \in GridPoints(r), q \in GridPoints(s) : Distance2(p, q) <= T
    <2>1. PICK x \in r.x1 .. r.x2, u \in s.x1 .. s.x2 : g2 = (x - u) * (x - u)
      BY <1>2
    <2>2. PICK y \in r.y1 .. r.y2, v \in s.y1 .. s.y2 : h2 = (y - v) * (y - v)
      BY <1>3
    <2>3. Point(x, y) \in GridPoints(r) /\ Point(u, v) \in GridPoints(s)
      BY DEF GridPoints
    <2>4. Distance2(Point(x, y), Point(u, v)) = g2 + h2
      BY <2>1, <2>2 DEF Distance2, Point
    <2> QED BY <1>6, <2>3, <2>4
  <1>7. Near(r, s) <=> \E p \in GridPoints(r), q \in GridPoints(s) : Distance2(p, q) <= T
    BY DEF Near, T
  <1> QED BY <1>1, <1>5, <1>6, <1>7 DEF T

-----------------------------------------------------------------------------
(* The inductive invariant. *)

GeometryPhases == {"received", "snapped", "skewed", "refused", "detected"}

\* The inputs of a detection.
Given ==
    /\ Upright(base) /\ UprightSeq(neighbours)
    /\ tolerance \in Nat
    /\ proposed \in Rings

Typed ==
    /\ candidate \in Rings /\ suggested \in Rings
    /\ rounds \in 0 .. MaxRounds /\ phase \in GeometryPhases

Moved(ring) == Snapped(ring, References, tolerance)

\* How the rings hang together: what is under detection is the proposed boundary,
\* snapped once for each suggestion applied, and a third time changes nothing.
Snaps ==
    /\ rounds = 0 => candidate = proposed
    /\ rounds = 1 => candidate = Moved(proposed)
    /\ rounds >= 2 => candidate = Moved(Moved(proposed))
    /\ phase # "received" => suggested = Moved(candidate)

\* Only a rectangle is compared, and findings are those of what is suggested now.
Finds ==
    /\ phase \in {"snapped", "detected"} => IsRectangle(suggested)
    /\ phase # "detected" => findings = <<>>
    /\ phase = "detected" =>
          findings = DetectTopology(base, RectangleOf(suggested), neighbours, tolerance)

GeometryInv == Given /\ Typed /\ Snaps /\ Finds

LEMMA RingOfRectangle ==
    ASSUME NEW r, Upright(r)
    PROVE  Ring(r) \in Rings
  <1>1. /\ Point(r.x1, r.y1) \in Points /\ Point(r.x2, r.y1) \in Points
        /\ Point(r.x2, r.y2) \in Points /\ Point(r.x1, r.y2) \in Points
    BY UprightShape DEF Point, Points
  <1> QED BY <1>1 DEF Ring, Rings

LEMMA UprightReferences ==
    ASSUME Given
    PROVE  /\ UprightSeq(References)
           /\ Len(References) = Len(neighbours) + 1
  <1>1. /\ base \in Rectangles /\ neighbours \in Seq(Rectangles)
        /\ \A i \in 1 .. Len(neighbours) : Upright(neighbours[i])
    BY DEF Given, Upright, UprightSeq
  <1>2. /\ References \in Seq(Rectangles) /\ Len(References) = Len(neighbours) + 1
        /\ \A i \in 1 .. Len(neighbours) + 1 :
              References[i] = IF i = 1 THEN base ELSE neighbours[i - 1]
    BY <1>1 DEF References
  <1>3. ASSUME NEW i \in 1 .. Len(neighbours) + 1 PROVE Upright(References[i])
    <2>1. CASE i = 1
      BY <1>2, <2>1 DEF Given
    <2>2. CASE i # 1
      <3>1. i - 1 \in 1 .. Len(neighbours)
        BY <1>1, <2>2
      <3> QED BY <1>1, <1>2, <2>2, <3>1
    <2> QED BY <2>1, <2>2
  <1> QED BY <1>2, <1>3 DEF UprightSeq

LEMMA MovedRing ==
    ASSUME Given, NEW ring \in Rings
    PROVE  Moved(ring) \in Rings
  BY UprightReferences, SnappedRing DEF Moved, Given

LEMMA GeometryInitial == GeometryInit => GeometryInv
  <1> SUFFICES ASSUME GeometryInit PROVE GeometryInv
    OBVIOUS
  <1>1. Given
    <2>1. Upright(base) /\ tolerance \in Nat
      BY GridAssumption DEF GeometryInit
    <2>2. UprightSeq(neighbours)
      BY GridAssumption DEF GeometryInit, UprightSeq
    <2>3. PICK r \in Candidates : proposed = Ring(r)
      BY DEF GeometryInit
    <2>4. proposed \in Rings
      BY <2>3, GridAssumption, RingOfRectangle
    <2> QED BY <2>1, <2>2, <2>4 DEF Given
  <1>2. Typed
    BY <1>1, GridAssumption DEF GeometryInit, Given, Typed, GeometryPhases
  <1>3. Snaps /\ Finds
    BY DEF GeometryInit, Snaps, Finds
  <1> QED BY <1>1, <1>2, <1>3 DEF GeometryInv

LEMMA GeometryStep == GeometryInv /\ [GeometryNext]_geometryVars => GeometryInv'
  <1> SUFFICES ASSUME GeometryInv, [GeometryNext]_geometryVars PROVE GeometryInv'
    OBVIOUS
  <1>0. UNCHANGED inputs
    BY DEF GeometryNext, geometryVars, Snap, Detect, ApplySuggestion
  <1>1. Given'
    BY <1>0 DEF GeometryInv, Given, inputs
  <1>2. References' = References /\ tolerance' = tolerance /\ proposed' = proposed
        /\ base' = base /\ neighbours' = neighbours
    BY <1>0 DEF References, inputs
  <1>3. ASSUME NEW ring PROVE Snapped(ring, References', tolerance') = Moved(ring)
    BY <1>2 DEF Moved
  <1>4. CASE UNCHANGED geometryVars
    <2>1. /\ candidate' = candidate /\ suggested' = suggested /\ findings' = findings
          /\ rounds' = rounds /\ phase' = phase
      BY <1>4 DEF geometryVars
    <2>2. Typed'
      BY <2>1 DEF GeometryInv, Typed
    <2>3. Snaps'
      BY <1>2, <2>1 DEF GeometryInv, Snaps, Moved
    <2>4. Finds'
      BY <1>2, <2>1 DEF GeometryInv, Finds
    <2> QED BY <1>1, <2>2, <2>3, <2>4 DEF GeometryInv
  <1>5. CASE Snap
    <2>1. /\ phase = "received" /\ suggested' = Moved(candidate)
          /\ candidate' = candidate /\ findings' = findings /\ rounds' = rounds
          /\ phase' = IF ~Valid(suggested') THEN "refused"
                      ELSE IF IsRectangle(suggested') THEN "snapped" ELSE "skewed"
      BY <1>5 DEF Snap, Moved
    <2>2. Typed'
      BY <2>1, MovedRing DEF GeometryInv, Typed, GeometryPhases
    <2>3. Snaps'
      <3>1. Moved(candidate)' = Moved(candidate)
        BY <1>2, <2>1 DEF Moved
      <3> QED BY <1>2, <2>1, <3>1 DEF GeometryInv, Snaps, Moved
    <2>4. Finds'
      BY <2>1 DEF GeometryInv, Finds
    <2> QED BY <1>1, <2>2, <2>3, <2>4 DEF GeometryInv
  <1>6. CASE Detect
    <2>1. /\ phase = "snapped" /\ phase' = "detected"
          /\ findings' = DetectTopology(base, RectangleOf(suggested), neighbours, tolerance)
          /\ candidate' = candidate /\ suggested' = suggested /\ rounds' = rounds
      BY <1>6 DEF Detect
    <2>2. Typed'
      BY <2>1 DEF GeometryInv, Typed, GeometryPhases
    <2>3. Snaps'
      BY <1>2, <2>1 DEF GeometryInv, Snaps, Moved
    <2>4. Finds'
      BY <1>2, <2>1 DEF GeometryInv, Finds
    <2> QED BY <1>1, <2>2, <2>3, <2>4 DEF GeometryInv
  <1>7. CASE ApplySuggestion
    <2>1. /\ phase \in {"detected", "skewed"} /\ phase' = "received" /\ rounds < MaxRounds
          /\ candidate' = suggested /\ suggested' = suggested
          /\ findings' = <<>> /\ rounds' = rounds + 1
      BY <1>7 DEF ApplySuggestion
    <2>2. Typed'
      BY <2>1, GridAssumption DEF GeometryInv, Typed, GeometryPhases
    <2>3. suggested = Moved(candidate)
      BY <2>1 DEF GeometryInv, Snaps
    <2>4. Snaps'
      <3>1. Moved(Moved(Moved(proposed))) = Moved(Moved(proposed))
        BY UprightReferences, SnappedThrice DEF GeometryInv, Given, Moved
      <3>2. rounds = 0 => candidate' = Moved(proposed)
        BY <2>1, <2>3 DEF GeometryInv, Snaps
      <3>3. rounds >= 1 => candidate' = Moved(Moved(proposed))
        <4>1. rounds = 1 => candidate' = Moved(Moved(proposed))
          BY <2>1, <2>3 DEF GeometryInv, Snaps
        <4>2. rounds >= 2 => candidate' = Moved(Moved(proposed))
          BY <2>1, <2>3, <3>1 DEF GeometryInv, Snaps
        <4> QED BY <4>1, <4>2 DEF GeometryInv, Typed
      <3>4. Moved(proposed)' = Moved(proposed) /\ Moved(Moved(proposed))' = Moved(Moved(proposed))
        BY <1>2 DEF Moved
      <3>5. rounds \in Nat
        BY DEF GeometryInv, Typed
      <3> QED BY <2>1, <3>2, <3>3, <3>4, <3>5 DEF Snaps
    <2>5. Finds'
      BY <2>1 DEF Finds
    <2> QED BY <1>1, <2>2, <2>4, <2>5 DEF GeometryInv
  <1> QED BY <1>4, <1>5, <1>6, <1>7 DEF GeometryNext

\* The inputs stay, the rings under detection and suggested hang together as snapping
\* relates them, and findings belong to the ring they are kept with.
THEOREM GeometryInvariance == GeometrySpec => []GeometryInv
  <1>1. GeometryInit => GeometryInv
    BY GeometryInitial
  <1>2. GeometryInv /\ [GeometryNext]_geometryVars => GeometryInv'
    BY GeometryStep
  <1> QED BY <1>1, <1>2, PTL DEF GeometrySpec

-----------------------------------------------------------------------------
(* The properties. *)

LEMMA DetectedEntries ==
    ASSUME Given
    PROVE  LET N == Len(neighbours)
               d == RectangleOf(suggested)
               found == DetectTopology(base, d, neighbours, tolerance)
           IN  /\ found \in Seq(AllExpected(N, EvidenceOf(d, neighbours)))
               /\ \A k \in Kinds :
                     KeptOf(found, k, N, N, FitsOf(base, d, neighbours, tolerance),
                            EvidenceOf(d, neighbours))
  <1>1. Len(neighbours) \in Nat
    BY DEF Given, UprightSeq
  <1> QED BY <1>1, DetectedKept

LEMMA GeometryTypes == GeometryInv => GeometryTypeOK
  <1> SUFFICES ASSUME GeometryInv PROVE GeometryTypeOK
    OBVIOUS
  <1>1. phase \in GeometryPhases /\ rounds \in 0 .. MaxRounds
    BY DEF GeometryInv, Typed
  <1>2. ASSUME NEW ring \in Rings
        PROVE  Len(ring) = 4 /\ \A i \in 1 .. 4 : IsPoint(ring[i])
    BY DEF Rings, Points, IsPoint
  <1>3. candidate \in Rings /\ suggested \in Rings
    BY DEF GeometryInv, Typed
  <1>4. ASSUME NEW i \in DOMAIN findings
        PROVE  findings[i].kind \in Kinds /\ findings[i].parcel \in DOMAIN neighbours
    <2>1. CASE phase = "detected"
      <3> DEFINE d == RectangleOf(suggested)
                 F == AllExpected(Len(neighbours), EvidenceOf(d, neighbours))
      <3>1. findings \in Seq(F)
        BY <2>1, DetectedEntries DEF GeometryInv, Finds
      <3>2. findings[i] \in F
        <4> HIDE DEF F
        <4> QED BY <3>1
      <3>3. DOMAIN neighbours = 1 .. Len(neighbours)
        BY DEF GeometryInv, Given, UprightSeq
      <3> QED BY <3>2, <3>3 DEF AllExpected, Expected, Finding
    <2>2. CASE phase # "detected"
      BY <2>2 DEF GeometryInv, Finds
    <2> QED BY <2>1, <2>2
  <1> QED BY <1>1, <1>2, <1>3, <1>4 DEF GeometryTypeOK, GeometryPhases, Kinds

\* The variables have their types: four integer points in every ring, and a finding of
\* a seen kind about a parcel that exists.
THEOREM GeometryTypesHold == GeometrySpec => []GeometryTypeOK
  BY GeometryInvariance, GeometryTypes, PTL

LEMMA SnapsNearest == GeometryInv => SnapsToNearest
  <1> SUFFICES ASSUME GeometryInv, phase # "received", tolerance > 0 PROVE SnapsToNearest
    BY DEF SnapsToNearest
  <1>1. Given /\ UprightSeq(References) /\ tolerance \in Nat
    BY UprightReferences DEF GeometryInv, Given
  <1>2. DOMAIN References = 1 .. Len(References)
    BY <1>1 DEF UprightSeq
  <1>3. ReferenceCorners = Corners(References) /\ ReferenceBorder = Border(References)
    BY <1>2 DEF Corners, Border, ReferenceCorners, ReferenceBorder
  <1>4. ASSUME NEW i \in 1 .. 4
        PROVE  SnapsTo(candidate[i], suggested[i], References, tolerance)
    <2>1. candidate \in Rings /\ candidate[i] \in Points
      BY DEF GeometryInv, Typed, Rings
    <2>2. suggested[i] = SnapTarget(candidate[i], References, tolerance)
      BY <1>1, <2>1, SnappedRing DEF GeometryInv, Snaps, Moved
    <2> QED BY <1>1, <2>1, <2>2, SnapTargetNearest
  <1>5. ASSUME NEW p, NEW q, NEW S
        PROVE  /\ Reached(p, S) # {} <=> \E o \in S : InReach(p, o, tolerance)
               /\ NearestOf(p, q, S, tolerance) => IsNearest(q, p, Reached(p, S))
    BY DEF Reached, InReach, NearestOf, IsNearest
  <1>6. ASSUME NEW i \in 1 .. 4
        PROVE  IF Reached(candidate[i], ReferenceCorners) # {}
               THEN IsNearest(suggested[i], candidate[i], Reached(candidate[i], ReferenceCorners))
               ELSE IF Reached(candidate[i], ReferenceBorder) # {}
               THEN IsNearest(suggested[i], candidate[i], Reached(candidate[i], ReferenceBorder))
               ELSE suggested[i] = candidate[i]
    BY <1>3, <1>4, <1>5 DEF SnapsTo
  <1> QED BY <1>6 DEF SnapsToNearest

\* Every corner goes to a nearest corner in reach; only where there is none, to a
\* nearest point of the reference boundaries in reach; else it stays.
THEOREM NearestIsTaken == GeometrySpec => []SnapsToNearest
  BY GeometryInvariance, SnapsNearest, PTL

LEMMA Settles == GeometryInv => SnappingSettles
  <1> SUFFICES ASSUME GeometryInv, phase # "received" PROVE SnappingSettles
    BY DEF SnappingSettles
  <1> DEFINE T == tolerance * tolerance
             once == Moved(proposed)
             twice == Moved(once)
  <1>1. Given /\ UprightSeq(References) /\ tolerance \in Nat /\ proposed \in Rings
    BY UprightReferences DEF GeometryInv, Given
  <1>2. once \in Rings /\ twice \in Rings
    BY <1>1, MovedRing
  <1>3. Moved(twice) = twice
    BY <1>1, SnappedThrice DEF Moved
  <1>4. suggested = Moved(candidate) /\ rounds \in Nat
    BY DEF GeometryInv, Snaps, Typed
  <1>5. /\ rounds = 0 => suggested = once
        /\ rounds = 1 => suggested = twice
        /\ rounds >= 2 => suggested = twice /\ candidate = twice
    BY <1>3, <1>4 DEF GeometryInv, Snaps
  <1>6. ASSUME NEW i \in 1 .. 4
        PROVE  /\ Distance2(proposed[i], once[i]) <= 4 * T
               /\ Distance2(proposed[i], twice[i]) <= 4 * T
    <2>1. proposed[i] \in Points /\ once[i] \in Points /\ twice[i] \in Points
      BY <1>1, <1>2 DEF Rings
    <2>2. Distance2(proposed[i], once[i]) <= T /\ Distance2(once[i], twice[i]) <= T
      BY <1>1, <1>2, SnappedInReach DEF Moved
    <2>3. T \in Nat /\ Distance2(proposed[i], once[i]) \in Nat
      BY <1>1, <2>1, Squares, DistanceNat
    <2> HIDE DEF T, once, twice
    <2> QED BY <2>1, <2>2, <2>3, TwoMoves
  <1>7. 4 * tolerance * tolerance = 4 * T
    BY <1>1
  <1> HIDE DEF T, once, twice
  <1>8. \A i \in 1 .. 4 : Distance2(proposed[i], suggested[i]) <= 4 * T
    BY <1>4, <1>5, <1>6
  <1>9. rounds >= 2 => suggested = candidate
    BY <1>5
  <1> QED BY <1>7, <1>8, <1>9 DEF SnappingSettles

\* A suggestion applied twice is final, and no corner goes further than two tolerances
\* from where it was proposed.
THEOREM SnappingIsFinal == GeometrySpec => []SnappingSettles
  BY GeometryInvariance, Settles, PTL

LEMMA DrawnIsUpright ==
    ASSUME NEW ring \in Rings, IsRectangle(ring)
    PROVE  Upright(RectangleOf(ring))
  <1> DEFINE x1 == ring[1].x
             y1 == ring[1].y
             x2 == ring[3].x
             y2 == ring[3].y
  <1>1. x1 \in Int /\ y1 \in Int /\ x2 \in Int /\ y2 \in Int
    BY DEF Rings, Points
  <1>2. x1 < ring[2].x /\ y1 < ring[4].y /\ ring = Ring(Rectangle(x1, y1, x2, y2))
    BY DEF IsRectangle
  <1>3. ring[2] = Point(x2, y1) /\ ring[4] = Point(x1, y2)
    BY <1>2 DEF Ring, Rectangle
  <1>4. x1 < x2 /\ y1 < y2
    BY <1>2, <1>3 DEF Point
  <1> QED BY <1>1, <1>4 DEF RectangleOf, Rectangle, Upright, Rectangles

LEMMA DistanceIsInt ==
    ASSUME NEW r, NEW s, Upright(r), Upright(s)
    PROVE  RectangleDistance2(r, s) \in Int
  <1> DEFINE g == Separation(r.x1, r.x2, s.x1, s.x2)
             h == Separation(r.y1, r.y2, s.y1, s.y2)
  <1>1. /\ r.x1 \in Int /\ r.x2 \in Int /\ r.x1 <= r.x2
        /\ r.y1 \in Int /\ r.y2 \in Int /\ r.y1 <= r.y2
        /\ s.x1 \in Int /\ s.x2 \in Int /\ s.x1 <= s.x2
        /\ s.y1 \in Int /\ s.y2 \in Int /\ s.y1 <= s.y2
    BY UprightShape
  <1>2. Separates(g, r.x1, r.x2, s.x1, s.x2) /\ Separates(h, r.y1, r.y2, s.y1, s.y2)
    BY <1>1, SeparationIsLeast
  <1>3. g \in Int /\ h \in Int
    <2> HIDE DEF g, h
    <2> QED BY <1>2 DEF Separates
  <1>4. RectangleDistance2(r, s) = g * g + h * h
    BY DEF RectangleDistance2
  <1> HIDE DEF g, h
  <1> QED BY <1>3, <1>4

LEMMA TroubledIsTrouble ==
    ASSUME Given, Upright(RectangleOf(suggested)), NEW k \in Kinds,
           NEW id \in 1 .. Len(neighbours)
    PROVE  Troubled(k, base, RectangleOf(suggested), neighbours[id], tolerance)
             <=> Trouble(k, id)
  <1> DEFINE d == RectangleOf(suggested)
             n == neighbours[id]
  <1>1. Upright(n) /\ Upright(base) /\ Upright(d) /\ tolerance \in Nat
    BY DEF Given, UprightSeq
  <1>2. Overlaps(d, n) <=> Cells(d) \cap Cells(n) # {}
    BY <1>1, OverlapIsCells
  <1>3. RectangleDistance2(d, n) <= tolerance * tolerance <=> Near(d, n)
    BY <1>1, NearIsDistance
  <1>4. RectangleDistance2(base, n) <= tolerance * tolerance <=> Near(base, n)
    BY <1>1, NearIsDistance
  <1>5. RectangleDistance2(d, n) > tolerance * tolerance <=> ~Near(d, n)
    <2>1. RectangleDistance2(d, n) \in Int /\ tolerance * tolerance \in Int
      BY <1>1, DistanceIsInt
    <2> QED BY <1>3, <2>1
  <1> HIDE DEF d, n
  <1>6. SharedBoundary(d, n).edges = BoundaryEdges(d) \cap BoundaryEdges(n)
    BY DEF SharedBoundary
  <1>7. CASE k = "overlap"
    BY <1>2, <1>7 DEF Troubled, Trouble, d, n
  <1>8. CASE k = "gap"
    BY <1>4, <1>5, <1>8 DEF Troubled, Trouble, Parts, d, n
  <1>9. CASE k = "dangling_edge"
    BY <1>3, <1>6, <1>9 DEF Troubled, Trouble, Dangles, d, n
  <1> QED BY <1>7, <1>8, <1>9 DEF Kinds

LEMMA ProofIsEvidence ==
    ASSUME Given, Upright(RectangleOf(suggested)), NEW k \in Kinds,
           NEW id \in 1 .. Len(neighbours), NEW m \in 1 .. Len(neighbours),
           Trouble(k, id), Trouble(k, m)
    PROVE  Proof(k, RectangleOf(suggested), neighbours[m])
             = Proof(k, RectangleOf(suggested), neighbours[id])
             <=> SameEvidence(k, id, m)
  <1> DEFINE d == RectangleOf(suggested)
             n == neighbours[id]
             o == neighbours[m]
  <1>1. Upright(n) /\ Upright(o) /\ Upright(d)
    BY DEF Given, UprightSeq
  <1>2. CASE k = "overlap"
    <2>1. Overlaps(d, n) /\ Overlaps(d, o)
      BY <1>1, <1>2, OverlapIsCells DEF Trouble
    <2>2. Intersection(d, n) = Intersection(d, o)
            <=> Cells(d) \cap Cells(n) = Cells(d) \cap Cells(o)
      BY <1>1, <2>1, SameOverlap
    <2> HIDE DEF d, n, o
    <2> QED BY <1>2, <2>2 DEF Proof, SameEvidence, d, n, o
  <1>3. CASE k = "gap"
    BY <1>3 DEF Proof, SameEvidence
  <1>4. CASE k = "dangling_edge"
    <2> HIDE DEF d, n, o
    <2> QED BY <1>4 DEF Proof, SameEvidence, d, n, o
  <1> QED BY <1>2, <1>3, <1>4 DEF Kinds

LEMMA Exact == GeometryInv => FindingsExact
  <1> SUFFICES ASSUME GeometryInv, phase = "detected" PROVE FindingsExact
    BY DEF FindingsExact
  <1> DEFINE N == Len(neighbours)
             d == RectangleOf(suggested)
             Fits == FitsOf(base, d, neighbours, tolerance)
             Ev == EvidenceOf(d, neighbours)
  <1>1. Given /\ Upright(d)
    BY DrawnIsUpright DEF GeometryInv, Typed, Finds
  <1>2. /\ findings \in Seq(AllExpected(N, Ev))
        /\ \A k \in Kinds : KeptOf(findings, k, N, N, Fits, Ev)
    BY DetectedEntries DEF GeometryInv, Finds
  <1>3. DOMAIN neighbours = 1 .. N /\ N \in Nat
    BY <1>1 DEF Given, UprightSeq
  <1>4. DOMAIN findings = 1 .. Len(findings)
    <2> HIDE DEF Ev, N
    <2> QED BY <1>2
  <1>5. ASSUME NEW k \in Kinds, NEW id \in 1 .. N
        PROVE  (\E i \in DOMAIN findings : findings[i].kind = k /\ findings[i].parcel = id)
                 <=> \E i \in 1 .. Len(findings) : findings[i] = Expected(k, id, Ev)
    <2>1. ASSUME NEW i \in 1 .. Len(findings)
          PROVE  findings[i].kind = k /\ findings[i].parcel = id
                   <=> findings[i] = Expected(k, id, Ev)
      <3>1. findings[i] \in AllExpected(N, Ev)
        <4> HIDE DEF Ev, N
        <4> QED BY <1>2
      <3>2. PICK l \in Kinds, m \in 1 .. N : findings[i] = Expected(l, m, Ev)
        BY <3>1 DEF AllExpected
      <3>3. findings[i].kind = l /\ findings[i].parcel = m
        BY <3>2 DEF Expected, Finding
      <3>4. findings[i] = Expected(k, id, Ev) <=> l = k /\ m = id
        BY <3>2, ExpectedDiffer
      <3> QED BY <3>3, <3>4
    <2> QED BY <1>4, <2>1
  <1>6. ASSUME NEW k \in Kinds, NEW id \in 1 .. N
        PROVE  id \in Fits[k] <=> Trouble(k, id)
    <2>1. id \in Fits[k] <=> Troubled(k, base, d, neighbours[id], tolerance)
      BY DEF FitsOf
    <2> QED BY <1>1, <2>1, TroubledIsTrouble
  <1>7. ASSUME NEW k \in Kinds, NEW id \in 1 .. N, NEW m \in 1 .. N,
               Trouble(k, id), Trouble(k, m)
        PROVE  Ev[k][m] = Ev[k][id] <=> SameEvidence(k, id, m)
    <2>1. Ev[k][m] = Proof(k, d, neighbours[m]) /\ Ev[k][id] = Proof(k, d, neighbours[id])
      BY DEF EvidenceOf
    <2> QED BY <1>1, <1>7, <2>1, ProofIsEvidence
  <1> HIDE DEF N, d, Fits, Ev
  <1>8. ASSUME NEW k \in Kinds, NEW id \in 1 .. N
        PROVE  First(k, id, Fits, Ev)
                 <=> /\ Trouble(k, id)
                     /\ \A m \in 1 .. (id - 1) : ~(Trouble(k, m) /\ SameEvidence(k, id, m))
    <2>1. \A m \in 1 .. (id - 1) : m \in 1 .. N
      BY <1>3
    <2> QED BY <1>6, <1>7, <2>1 DEF First
  <1>9. ASSUME NEW k \in Kinds, NEW id \in 1 .. N
        PROVE  (\E i \in 1 .. Len(findings) : findings[i] = Expected(k, id, Ev))
                 <=> First(k, id, Fits, Ev)
    <2>1. id <= N
      BY <1>3
    <2> QED BY <1>2, <2>1 DEF KeptOf
  <1>10. ASSUME NEW k \in Kinds, NEW id \in 1 .. N
         PROVE  (\E i \in DOMAIN findings : findings[i].kind = k /\ findings[i].parcel = id)
                  <=> /\ Trouble(k, id)
                      /\ \A m \in 1 .. (id - 1) : ~(Trouble(k, m) /\ SameEvidence(k, id, m))
    BY <1>5, <1>8, <1>9
  <1> QED BY <1>3, <1>10 DEF FindingsExact, Kinds

\* Every overlap, gap and dangling edge between candidate and neighbour is found, by
\* what the words mean on the grid, nothing else is, and of those with one evidence the
\* first neighbour's.
THEOREM FindingsAreExact == GeometrySpec => []FindingsExact
  BY GeometryInvariance, Exact, PTL
=============================================================================
