------------------------- MODULE TopologyDetection -------------------------
(***************************************************************************)
(* Conflict detection under an Idempotency-Key: DetectConflicts and        *)
(* replayDetectionRun in service/topology_conflict_service.go over the two *)
(* repositories of repository/topology_conflict_repository.go.             *)
(*                                                                         *)
(* A request reads the proposal, looks its key up, reads the parcel, then  *)
(* its neighbours, computes, and writes in one transaction: a row and an   *)
(* audit entry per finding, then the run that the unique index             *)
(* (actor_id, idempotency_key) guards.  The transaction is modelled        *)
(* statement by statement: its rows are the request's own (`ids', `input') *)
(* until Commit makes them visible, and a rollback or a crash drops them.  *)
(*                                                                         *)
(* The geometry is abstract: what the algorithm reads is the version of    *)
(* each boundary, an input hash is the tuple of what was read, and what it *)
(* finds is a number of findings.  Definitions named X_Y are not the code: *)
(* they are plausible bugs of X that the properties are shown to catch.    *)
(***************************************************************************)
EXTENDS Naturals, FiniteSets, Workflow

CONSTANTS
    Users, RoleOf,     \* accounts and users.role
    Keys,              \* values of the Idempotency-Key header, trimmed
    NoKey,             \* a header that is absent, blank or longer than 128
    Parcels,           \* active parcels of one coordinate system
    Proposals, ParcelOf,
    Tolerances,        \* snap_tolerance_m, or the proposal's own when omitted
    ConflictIds,
    Slots,             \* requests in flight
    FindingCounts,     \* how many findings the algorithm may return
    MaxBoundary,       \* bound: no parcel is updated past this version
    SpareIds           \* bound: a detection starts only with this many ids unused

ASSUME Accounts == RoleOf \in [Users -> Roles]

ASSUME Proposed == ParcelOf \in [Proposals -> Parcels]

ASSUME Bounds ==
    /\ NoKey \notin Keys
    /\ FindingCounts \subseteq Nat
    /\ MaxBoundary \in Nat \ {0}
    /\ SpareIds \in Nat
    /\ IsFiniteSet(ConflictIds)

VARIABLES
    boundary,          \* version of each parcel's boundary
    known,             \* proposals that have been created
    conflicts,         \* table topology_conflicts: what detection writes once
    runs,              \* table topology_detection_runs
    auditLog,          \* the audit_logs rows detection writes
    request            \* requests

vars == <<boundary, known, conflicts, runs, auditLog, request>>

-----------------------------------------------------------------------------
(* Rows and requests. *)

Neighbours(p) == Parcels \ {ParcelOf[p]}

Call == [proposal : Proposals, tolerance : Tolerances]

NoInput == [own |-> 0]

\* What input_hash stands for: the request, the boundary read and the neighbours read.
InputOf_DefaultTolerance(p, tolerance, own, others) ==
    [proposal |-> p, tolerance |-> CHOOSE t \in Tolerances : TRUE, own |-> own,
     others |-> others]

InputOf(p, tolerance, own, others) ==
    [proposal |-> p, tolerance |-> tolerance, own |-> own, others |-> others]

Inputs ==
    [proposal : Proposals, tolerance : Tolerances, own : 1 .. MaxBoundary,
     others : UNION {[Neighbours(p) -> 1 .. MaxBoundary] : p \in Proposals}]

NoConflict == [input |-> NoInput]

Run == [actor : Users, key : Keys, call : Call, input : Inputs, ids : SUBSET ConflictIds]

IdleRequest == [phase |-> "idle"]

Requests ==
    [phase : {"lookup", "parcel", "neighbours", "inserting", "indexed", "recovering",
              "answered"},
     status : {0, 200, 409, 422, 500}, actor : Users, key : Keys, call : Call,
     own : 0 .. MaxBoundary, input : Inputs \cup {NoInput}, count : FindingCounts \cup {0},
     ids : SUBSET ConflictIds]

Refusals == [phase : {"refused"}, status : {400, 403, 404}]

Goto(q, phase) == [q EXCEPT !.phase = phase]

\* An answer forgets what the request computed and keeps what the client sees.
Answer(q, status, ids) ==
    [q EXCEPT !.phase = "answered", !.status = status, !.own = 0, !.input = NoInput,
              !.count = 0, !.ids = ids]

Only(s, q) ==
    /\ request' = [request EXCEPT ![s] = q]
    /\ UNCHANGED <<boundary, known, conflicts, runs, auditLog>>

-----------------------------------------------------------------------------
Init ==
    /\ boundary = [x \in Parcels |-> 1]
    /\ known = {}
    /\ conflicts = [id \in ConflictIds |-> NoConflict]
    /\ runs = {}
    /\ auditLog = {}
    /\ request = [s \in Slots |-> IdleRequest]

-----------------------------------------------------------------------------
(* Before the transaction. *)

Unused ==
    {id \in ConflictIds : conflicts[id] = NoConflict
                          /\ \A s \in Slots : request[s].phase \in {"inserting", "indexed"}
                                               => id \notin request[s].ids}

\* RBAC, the key, the proposal.
BeginDetection(s, u, key, call) ==
    /\ request[s] = IdleRequest
    /\ Cardinality(Unused) >= SpareIds
    /\ LET refused(status) == Only(s, [phase |-> "refused", status |-> status])
       IN  IF RoleOf[u] \notin DetectionRoles THEN refused(403)
           ELSE IF key = NoKey THEN refused(400)
           ELSE IF call.proposal \notin known THEN refused(404)
           ELSE Only(s, [phase |-> "lookup", status |-> 0, actor |-> u, key |-> key,
                         call |-> call, own |-> 0, input |-> NoInput, count |-> 0,
                         ids |-> {}])

RunsOf(q) == {run \in runs : run.actor = q.actor /\ run.key = q.key}

\* replayDetectionRun: the stored result, or 409 when the key was used for another request.
Replayed_AnyCall(q, run) == Answer(q, 200, run.ids)

Replayed(q, run) ==
    IF run.call = q.call THEN Answer(q, 200, run.ids) ELSE Answer(q, 409, {})

Lookup(s) ==
    /\ request[s].phase = "lookup"
    /\ IF RunsOf(request[s]) = {} THEN Only(s, Goto(request[s], "parcel"))
       ELSE \E run \in RunsOf(request[s]) : Only(s, Replayed(request[s], run))

ReadParcel(s) ==
    /\ request[s].phase = "parcel"
    /\ Only(s, [request[s] EXCEPT !.phase = "neighbours",
                                  !.own = boundary[ParcelOf[request[s].call.proposal]]])

\* The neighbours are read and the algorithm runs on what was read.
ReadNeighbours(s, count) ==
    LET q == request[s]
        p == q.call.proposal
    IN  /\ q.phase = "neighbours"
        /\ Only(s, [q EXCEPT !.phase = "inserting", !.count = count,
                             !.input = InputOf(p, q.call.tolerance, q.own,
                                               [x \in Neighbours(p) |-> boundary[x]])])

\* Stored or snapped geometry that does not parse is 422, any failed query 500.
GiveUp(s, status) ==
    /\ request[s].phase \in {"lookup", "parcel", "neighbours"}
    /\ status = 422 => request[s].phase = "neighbours"
    /\ Only(s, Answer(request[s], status, {}))

-----------------------------------------------------------------------------
(* The transaction. *)

InsertConflict_Autocommit(s, id) ==
    LET q == request[s]
    IN  /\ q.phase = "inserting"
        /\ Cardinality(q.ids) < q.count
        /\ id \in Unused
        /\ conflicts' = [conflicts EXCEPT ![id] = [input |-> q.input]]
        /\ request' = [request EXCEPT ![s] = [q EXCEPT !.ids = @ \cup {id}]]
        /\ UNCHANGED <<boundary, known, runs, auditLog>>

InsertConflict(s, id) ==
    LET q == request[s]
    IN  /\ q.phase = "inserting"
        /\ Cardinality(q.ids) < q.count
        /\ id \in Unused
        /\ Only(s, [q EXCEPT !.ids = @ \cup {id}])

\* The unique index: an insert waits for an uncommitted row with its key and fails on
\* a committed one.
KeyHeld_UntilFinished(q) ==
    \E t \in Slots : /\ request[t].phase \in {"indexed", "answered"}
                     /\ request[t].actor = q.actor /\ request[t].key = q.key

KeyHeld(q) ==
    \E t \in Slots : /\ request[t].phase = "indexed"
                     /\ request[t].actor = q.actor /\ request[t].key = q.key

DuplicateKey_NoIndex(q) == FALSE

DuplicateKey(q) == RunsOf(q) # {}

InsertRun(s) ==
    LET q == request[s]
    IN  /\ q.phase = "inserting"
        /\ Cardinality(q.ids) = q.count
        /\ ~KeyHeld(q)
        /\ Only(s, Goto(q, IF DuplicateKey(q) THEN "recovering" ELSE "indexed"))

RunOf(q) ==
    [actor |-> q.actor, key |-> q.key, call |-> q.call, input |-> q.input, ids |-> q.ids]

Detected(q) == {[action |-> "conflict.detected", actor |-> q.actor, about |-> id] : id \in q.ids}

Completed(run) ==
    [action |-> "conflict.detection_completed", actor |-> run.actor, about |-> run]

Written(q) == [id \in ConflictIds |-> IF id \in q.ids THEN [input |-> q.input] ELSE conflicts[id]]

Commit(s) ==
    LET q == request[s]
    IN  /\ q.phase = "indexed"
        /\ conflicts' = Written(q)
        /\ runs' = runs \cup {RunOf(q)}
        /\ auditLog' = auditLog \cup Detected(q) \cup {Completed(RunOf(q))}
        /\ request' = [request EXCEPT ![s] = Answer(q, 200, q.ids)]
        /\ UNCHANGED <<boundary, known>>

\* Any other error of the transaction: its rows and its index entry are gone.
Rollback(s) ==
    /\ request[s].phase \in {"inserting", "indexed"}
    /\ Only(s, Goto(request[s], "recovering"))

\* After a failed transaction the key is looked up once more.
Recover_Unchecked(s) ==
    /\ request[s].phase = "recovering"
    /\ Only(s, Answer(request[s], 200, request[s].ids))

Recover(s) ==
    /\ request[s].phase = "recovering"
    /\ \/ \E run \in RunsOf(request[s]) : Only(s, Replayed(request[s], run))
       \/ RunsOf(request[s]) = {} /\ Only(s, Answer(request[s], 500, {}))

\* The second lookup itself may fail.
RecoverFails(s) ==
    /\ request[s].phase = "recovering"
    /\ Only(s, Answer(request[s], 500, {}))

Finish(s) ==
    /\ request[s].phase \in {"answered", "refused"}
    /\ Only(s, IdleRequest)

Crash ==
    /\ request' = [s \in Slots |-> IdleRequest]
    /\ UNCHANGED <<boundary, known, conflicts, runs, auditLog>>

-----------------------------------------------------------------------------
(* What the other services commit. *)

ParcelUpdated(x) ==
    /\ boundary[x] < MaxBoundary
    /\ boundary' = [boundary EXCEPT ![x] = @ + 1]
    /\ UNCHANGED <<known, conflicts, runs, auditLog, request>>

ProposalCreated(p) ==
    /\ p \notin known
    /\ known' = known \cup {p}
    /\ UNCHANGED <<boundary, conflicts, runs, auditLog, request>>

Env == (\E x \in Parcels : ParcelUpdated(x)) \/ (\E p \in Proposals : ProposalCreated(p))

\* What the server does by itself for a request it has accepted, and what may go wrong.
Work(s) ==
    \/ Lookup(s)
    \/ ReadParcel(s)
    \/ \E count \in FindingCounts : ReadNeighbours(s, count)
    \/ \E id \in ConflictIds : InsertConflict(s, id)
    \/ InsertRun(s)
    \/ Commit(s)
    \/ Recover(s)

Mishap(s) ==
    \/ \E status \in {422, 500} : GiveUp(s, status)
    \/ Rollback(s)
    \/ RecoverFails(s)

Step ==
    \/ \E s \in Slots :
         \/ \E u \in Users, key \in Keys \cup {NoKey}, call \in Call :
              BeginDetection(s, u, key, call)
         \/ Work(s)
         \/ Mishap(s)
         \/ Finish(s)
    \/ Crash

Next == Step \/ Env

Spec == Init /\ [][Next]_vars

\* A goroutine that can run runs and the database answers its statements; of the
\* inserts that wait for one key the database lets every one through in its turn.
FairSpec == Spec /\ \A s \in Slots : WF_vars(Work(s)) /\ SF_vars(InsertRun(s))

-----------------------------------------------------------------------------
(* Properties. *)

\* Tables and requests hold values of their types.
TypeOK ==
    /\ boundary \in [Parcels -> 1 .. MaxBoundary]
    /\ known \subseteq Proposals
    /\ conflicts \in [ConflictIds -> {NoConflict} \cup [input : Inputs]]
    /\ runs \subseteq Run
    /\ request \in [Slots -> {IdleRequest} \cup Refusals \cup Requests]

\* An actor's key is bound to one run, whatever requests with that key raced.
OneRunPerKey ==
    \A run, other \in runs : run.actor = other.actor /\ run.key = other.key => run = other

\* README.md:111, "replaying the same actor/key/request returns the stored result set,
\* while reusing that key with a different detection request returns 409": whichever
\* path an answer took (computed, found at the first lookup, recovered after a lost
\* race), 200 carries the ids of the run stored under its key for its own request, and
\* 409 means that the run stored under its key is for another request.
AnswersComeFromTheRun ==
    \A s \in Slots : LET q == request[s] IN
        q.phase = "answered" =>
            /\ q.status = 200 => \E run \in RunsOf(q) : run.call = q.call /\ run.ids = q.ids
            /\ q.status = 409 => \E run \in RunsOf(q) : run.call # q.call

\* Detection is all or nothing: every conflict row belongs to exactly one run and was
\* computed from that run's input, every id a run stored is a row, and the audit log
\* has the entries of exactly the rows and runs that exist.  A crash, a rollback or a
\* lost race between two inserts leaves no row behind.
NoOrphans ==
    /\ \A id \in ConflictIds : conflicts[id] # NoConflict =>
         \E run \in runs : /\ id \in run.ids
                           /\ conflicts[id].input = run.input
                           /\ \A other \in runs : id \in other.ids => other = run
    /\ \A run \in runs : \A id \in run.ids : conflicts[id] # NoConflict
    /\ auditLog = {Completed(run) : run \in runs}
                    \cup UNION {Detected(run) : run \in runs}

\* The rows of a run were computed for the request that is stored with it, from
\* boundaries its parcels really had by then.
InputsAreReal ==
    \A run \in runs :
        LET input == run.input
            p == run.call.proposal
        IN  /\ input.proposal = p /\ input.tolerance = run.call.tolerance
            /\ input.own \in 1 .. boundary[ParcelOf[p]]
            /\ \A x \in Neighbours(p) : input.others[x] \in 1 .. boundary[x]

\* Every request that was accepted is answered, unless the server goes down with it:
\* waiting for another request's uncommitted key never blocks for good.
EveryCallReturns ==
    \A s \in Slots :
        request[s].phase = "lookup" ~> request[s].phase \in {"answered", "idle"}

\* Detection implements the idempotent call: keys owned by an actor are the owners, the
\* run under a key is what its owner stored.
Owners == Users \X Keys

StoreOf(o) ==
    {[request |-> run.call, result |-> run.ids] :
        run \in {r \in runs : <<r.actor, r.key>> = o}}

OutcomeOf(q) ==
    IF q.phase # "answered" THEN "pending"
    ELSE IF q.status = 200 THEN "done"
    ELSE IF q.status = 409 THEN "refused" ELSE "failed"

CallOf(q) ==
    IF q.phase \in {"idle", "refused"} THEN {}
    ELSE {[owner |-> <<q.actor, q.key>>, request |-> q.call, outcome |-> OutcomeOf(q),
           result |-> IF q.phase = "answered" THEN q.ids ELSE {}]}

Store == [o \in Owners |-> StoreOf(o)]

Calls == [s \in Slots |-> CallOf(request[s])]

Abstract == INSTANCE IdempotentCall WITH
    Requests <- Call, Results <- SUBSET ConflictIds, NoResult <- {},
    store <- Store, call <- Calls

ImplementsIdempotentCall == Abstract!Spec
=============================================================================
