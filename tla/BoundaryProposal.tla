-------------------------- MODULE BoundaryProposal --------------------------
(***************************************************************************)
(* The life of boundary proposals: service/boundary_proposal_service.go    *)
(* over repository/boundary_proposal_repository.go, with any number of     *)
(* HTTP requests in flight.                                                *)
(*                                                                         *)
(* A handler reads rows one SELECT at a time, decides on what it read, and *)
(* only then opens the transaction that writes the row and its audit_logs  *)
(* entry.  So a request here is a small process: `checked' means that it   *)
(* has read and passed its checks and holds a snapshot; the world may move *)
(* before it commits.  A transaction is one step: it commits as a whole or *)
(* changes nothing.                                                        *)
(*                                                                         *)
(* Step is what this component does; Env is what the other services commit *)
(* to the tables it reads (parcels, observations) or writes (proposals     *)
(* derived from a conflict's suggestion).                                  *)
(*                                                                         *)
(* Definitions named X_Y are not the code: they are plausible bugs of X    *)
(* that the properties are shown to catch.                                 *)
(***************************************************************************)
EXTENDS Naturals, Sequences, FiniteSets, Workflow

CONSTANTS
    Users,             \* the seeded accounts; RoleOf[u] is users.role
    RoleOf,
    NoUser,            \* NULL in boundary_proposals.reviewed_by
    Parcels,
    Observations,
    NoParcel,          \* an observation that has not been imported
    Proposals,         \* identifiers of rows of boundary_proposals
    Movers,            \* slots for POST /proposals/:id/transition requests
    Creators,          \* slots for POST /proposals requests
    ClaimedVersions,   \* what clients put in the "version" field of a transition
    MaxVersion,        \* bound: no move is started from a row at this version
    MaxParcelVersion   \* bound: no parcel is updated past this version

ASSUME Accounts ==
    /\ RoleOf \in [Users -> Roles]
    /\ NoUser \notin Users

ASSUME Identifiers == NoParcel \notin Parcels

ASSUME Bounds ==
    /\ ClaimedVersions \subseteq Nat \ {0}
    /\ MaxVersion \in Nat \ {0}
    /\ MaxParcelVersion \in Nat \ {0}

VARIABLES
    proposals,         \* table boundary_proposals
    trail,             \* audit_logs rows about each proposal, in commit order
    parcelVersion,     \* land_parcels.boundary_version, 0 while there is no row
    home,              \* survey_observations.parcel_id
    move,              \* TransitionProposal requests
    creation           \* CreateProposal requests

vars == <<proposals, trail, parcelVersion, home, move, creation>>

-----------------------------------------------------------------------------
(* Rows, audit entries, requests. *)

Nothing == [state |-> "none", version |-> 0]

NoRow ==
    [state |-> "none", version |-> 0, createdBy |-> NoUser, reviewedBy |-> NoUser,
     parcel |-> NoParcel, base |-> 0, evidence |-> {}]

Row ==
    [state : ProposalStates, version : Nat \ {0}, createdBy : Users,
     reviewedBy : Users \cup {NoUser}, parcel : Parcels, base : Nat \ {0},
     evidence : SUBSET Observations]

Summary == [state : ProposalStates, version : Nat \ {0}]

SummaryOf(row) == [state |-> row.state, version |-> row.version]

Entry == [actor : Users, before : Summary \cup {Nothing}, after : Summary]

Exists(p) == proposals[p] # NoRow

IdleMove ==
    [phase |-> "idle", status |-> 0, actor |-> NoUser, target |-> "none", to |-> "none",
     claimed |-> 0, seen |-> Nothing, author |-> NoUser]

AnsweredMove(status) == [IdleMove EXCEPT !.phase = "answered", !.status = status]

PassedMove(phase) ==
    [phase : {phase}, status : IF phase = "checked" THEN {0} ELSE {200}, actor : Users,
     target : Proposals, to : ProposalStates, claimed : ClaimedVersions,
     seen : Summary, author : Users]

MoveRequest ==
    {IdleMove} \cup {AnsweredMove(s) : s \in {403, 404, 409}}
        \cup PassedMove("checked") \cup PassedMove("answered")

IdleCreation ==
    [phase |-> "idle", status |-> 0, actor |-> NoUser, parcel |-> NoParcel, base |-> 0,
     evidence |-> {}, todo |-> {}]

AnsweredCreation(status) == [IdleCreation EXCEPT !.phase = "answered", !.status = status]

CheckedCreation ==
    [phase : {"checked"}, status : {0}, actor : Users, parcel : Parcels, base : Nat \ {0},
     evidence : SUBSET Observations, todo : SUBSET Observations]

CreationRequest ==
    {IdleCreation} \cup CheckedCreation
        \cup {AnsweredCreation(s) : s \in {201, 400, 403, 404, 409, 422, 500}}

-----------------------------------------------------------------------------
Init ==
    /\ proposals = [p \in Proposals |-> NoRow]
    /\ trail = [p \in Proposals |-> <<>>]
    /\ parcelVersion = [x \in Parcels |-> 0]
    /\ home = [o \in Observations |-> NoParcel]
    /\ move = [m \in Movers |-> IdleMove]
    /\ creation = [c \in Creators |-> IdleCreation]

-----------------------------------------------------------------------------
(* CreateProposal.  The parcel is read and the base version compared with  *)
(* it first, then each observation is read, and the insert comes last.     *)

CreationVerdict_AnyBase(actor, parcel, base, valid) ==
    IF RoleOf[actor] \notin FieldRoles THEN 403
    ELSE IF parcelVersion[parcel] = 0 THEN 404
    ELSE IF ~valid THEN 422
    ELSE 201

CreationVerdict(actor, parcel, base, valid) ==
    IF RoleOf[actor] \notin FieldRoles THEN 403
    ELSE IF parcelVersion[parcel] = 0 THEN 404
    ELSE IF base # parcelVersion[parcel] THEN 409
    ELSE IF ~valid THEN 422
    ELSE 201

BeginCreation(c, actor, parcel, base, evidence, valid) ==
    /\ creation[c].phase = "idle"
    /\ LET verdict == CreationVerdict(actor, parcel, base, valid)
       IN  creation' = [creation EXCEPT ![c] =
             IF verdict # 201 THEN AnsweredCreation(verdict)
             ELSE [phase |-> "checked", status |-> 0, actor |-> actor, parcel |-> parcel,
                   base |-> base, evidence |-> evidence, todo |-> evidence]]
    /\ UNCHANGED <<proposals, trail, parcelVersion, home, move>>

EvidenceFits_AnyParcel(o, parcel) == home[o] # NoParcel

EvidenceFits(o, parcel) == home[o] = parcel

Cleared(q, o) == [q EXCEPT !.todo = q.todo \ {o}]

CheckEvidence(c, o) ==
    /\ creation[c].phase = "checked"
    /\ o \in creation[c].todo
    /\ creation' = [creation EXCEPT ![c] =
         IF EvidenceFits(o, creation[c].parcel) THEN Cleared(@, o)
                                              ELSE AnsweredCreation(400)]
    /\ UNCHANGED <<proposals, trail, parcelVersion, home, move>>

Insert(p, row) ==
    /\ ~Exists(p)
    /\ proposals' = [proposals EXCEPT ![p] = row]
    /\ trail' = [trail EXCEPT ![p] =
         <<[actor |-> row.createdBy, before |-> Nothing, after |-> SummaryOf(row)]>>]

NewRow(q) ==
    [state |-> "draft", version |-> 1, createdBy |-> q.actor, reviewedBy |-> NoUser,
     parcel |-> q.parcel, base |-> q.base, evidence |-> q.evidence]

CommitCreation(c, p) ==
    /\ creation[c].phase = "checked"
    /\ creation[c].todo = {}
    /\ Insert(p, NewRow(creation[c]))
    /\ creation' = [creation EXCEPT ![c] = AnsweredCreation(201)]
    /\ UNCHANGED <<parcelVersion, home, move>>

\* The transaction fails (a lost connection, a refused audit row): nothing is written.
AbortCreation(c) ==
    /\ creation[c].phase = "checked"
    /\ creation[c].todo = {}
    /\ creation' = [creation EXCEPT ![c] = AnsweredCreation(500)]
    /\ UNCHANGED <<proposals, trail, parcelVersion, home, move>>

FinishCreation(c) ==
    /\ creation[c].phase = "answered"
    /\ creation' = [creation EXCEPT ![c] = IdleCreation]
    /\ UNCHANGED <<proposals, trail, parcelVersion, home, move>>

-----------------------------------------------------------------------------
(* TransitionProposal.  The row is read once; the checks and the           *)
(* conditional UPDATE both use that snapshot.                              *)

MoveVerdict(actor, row, to) ==
    IF RoleOf[actor] \notin ProposalMoveRoles THEN 403
    ELSE IF row = NoRow THEN 404
    ELSE IF ~CanProposalTransition(row.state, to) THEN 409
    ELSE IF ~AuthorizedMove(to, RoleOf[actor], actor = row.createdBy) THEN 403
    ELSE 200

\* The client's version is required and validated, and then compared with nothing.
CheckMove(m, actor, p, to, claimed) ==
    /\ move[m].phase = "idle"
    /\ proposals[p].version < MaxVersion
    /\ LET row == proposals[p]
           verdict == MoveVerdict(actor, row, to)
       IN  move' = [move EXCEPT ![m] =
             IF verdict # 200 THEN AnsweredMove(verdict)
             ELSE [phase |-> "checked", status |-> 0, actor |-> actor, target |-> p,
                   to |-> to, claimed |-> claimed, seen |-> SummaryOf(row),
                   author |-> row.createdBy]]
    /\ UNCHANGED <<proposals, trail, parcelVersion, home, creation>>

\* The conditional UPDATE: WHERE id = ? AND version = ? AND proposal_state = ?.
CasMatches_StateOnly(row, q) == row.state = q.seen.state

CasMatches_Unconditional(row, q) == TRUE

CasMatches(row, q) == row.version = q.seen.version /\ row.state = q.seen.state

Moved_KeepReviewer(row, q) ==
    [row EXCEPT !.state = q.to, !.version = @ + 1,
                !.reviewedBy = IF @ = NoUser /\ q.to \in ReviewStates THEN q.actor ELSE @]

Moved(row, q) ==
    [row EXCEPT !.state = q.to, !.version = @ + 1,
                !.reviewedBy = IF q.to \in ReviewStates THEN q.actor ELSE @]

MoveEntry_NoIncrement(q) ==
    [actor |-> q.actor, before |-> q.seen,
     after |-> [state |-> q.to, version |-> q.seen.version]]

MoveEntry(q) ==
    [actor |-> q.actor, before |-> q.seen,
     after |-> [state |-> q.to, version |-> q.seen.version + 1]]

RefuseStaleMove(m) ==
    /\ move[m].phase = "checked"
    /\ ~CasMatches(proposals[move[m].target], move[m])
    /\ move' = [move EXCEPT ![m] = AnsweredMove(409)]
    /\ UNCHANGED <<proposals, trail, parcelVersion, home, creation>>

\* A bug: the answer leaves before the audit row is durable.
CommitMove_AuditSkipped(m) ==
    LET q == move[m]
    IN  /\ q.phase = "checked"
        /\ CasMatches(proposals[q.target], q)
        /\ proposals' = [proposals EXCEPT ![q.target] = Moved(@, q)]
        /\ move' = [move EXCEPT ![m] = [q EXCEPT !.phase = "answered", !.status = 200]]
        /\ UNCHANGED <<trail, parcelVersion, home, creation>>

CommitMove(m) ==
    LET q == move[m]
    IN  /\ q.phase = "checked"
        /\ CasMatches(proposals[q.target], q)
        /\ proposals' = [proposals EXCEPT ![q.target] = Moved(@, q)]
        /\ trail' = [trail EXCEPT ![q.target] = Append(@, MoveEntry(q))]
        /\ move' = [move EXCEPT ![m] = [q EXCEPT !.phase = "answered", !.status = 200]]
        /\ UNCHANGED <<parcelVersion, home, creation>>

\* Any other error of the transaction rolls it back and is answered 409 as well.
AbortMove(m) ==
    /\ move[m].phase = "checked"
    /\ move' = [move EXCEPT ![m] = AnsweredMove(409)]
    /\ UNCHANGED <<proposals, trail, parcelVersion, home, creation>>

FinishMove(m) ==
    /\ move[m].phase = "answered"
    /\ move' = [move EXCEPT ![m] = IdleMove]
    /\ UNCHANGED <<proposals, trail, parcelVersion, home, creation>>

-----------------------------------------------------------------------------
\* The server stops: requests in flight are lost, committed rows are not.
Crash ==
    /\ move' = [m \in Movers |-> IdleMove]
    /\ creation' = [c \in Creators |-> IdleCreation]
    /\ UNCHANGED <<proposals, trail, parcelVersion, home>>

(* What the other services commit. *)

\* CreateParcel and UpdateParcel: boundary_version starts at 1 and grows by one.
ParcelCommitted(x) ==
    /\ parcelVersion[x] < MaxParcelVersion
    /\ parcelVersion' = [parcelVersion EXCEPT ![x] = @ + 1]
    /\ UNCHANGED <<proposals, trail, home, move, creation>>

\* ImportObservation: parcel_id is written once.
ObservationImported(o, x) ==
    /\ home[o] = NoParcel
    /\ parcelVersion[x] > 0
    /\ home' = [home EXCEPT ![o] = x]
    /\ UNCHANGED <<proposals, trail, parcelVersion, move, creation>>

\* ApplyConflictSuggestion: a new draft one version above a version the source
\* proposal had when it was read, based on a version the parcel had when it was read.
ProposalDerived(p, source, actor, version, base) ==
    /\ Exists(source)
    /\ RoleOf[actor] \in ConflictReviewRoles
    /\ version \in 2 .. (proposals[source].version + 1)
    /\ version <= MaxVersion
    /\ base \in 1 .. parcelVersion[proposals[source].parcel]
    /\ Insert(p, [state |-> "draft", version |-> version, createdBy |-> actor,
                  reviewedBy |-> NoUser, parcel |-> proposals[source].parcel,
                  base |-> base, evidence |-> proposals[source].evidence])
    /\ UNCHANGED <<parcelVersion, home, move, creation>>

Env ==
    \/ \E x \in Parcels : ParcelCommitted(x)
    \/ \E o \in Observations, x \in Parcels : ObservationImported(o, x)
    \/ \E p, source \in Proposals, u \in Users, v \in 2 .. MaxVersion,
          base \in 1 .. MaxParcelVersion : ProposalDerived(p, source, u, v, base)

MoveStep(m) ==
    \/ \E u \in Users, p \in Proposals, to \in ProposalStates, v \in ClaimedVersions :
          CheckMove(m, u, p, to, v)
    \/ RefuseStaleMove(m)
    \/ CommitMove(m)
    \/ AbortMove(m)
    \/ FinishMove(m)

CreationStep(c) ==
    \/ \E u \in Users, x \in Parcels, base \in 1 .. MaxParcelVersion,
          evidence \in SUBSET Observations, valid \in BOOLEAN :
          BeginCreation(c, u, x, base, evidence, valid)
    \/ \E o \in Observations : CheckEvidence(c, o)
    \/ \E p \in Proposals : CommitCreation(c, p)
    \/ AbortCreation(c)
    \/ FinishCreation(c)

Step ==
    \/ \E m \in Movers : MoveStep(m)
    \/ \E c \in Creators : CreationStep(c)
    \/ Crash

Next == Step \/ Env

Spec == Init /\ [][Next]_vars

-----------------------------------------------------------------------------
(* Properties. *)

\* Every table, trail and request holds values of its type: rows that exist
\* carry a valid state, a positive version and an account as author.
TypeOK ==
    /\ proposals \in [Proposals -> Row \cup {NoRow}]
    /\ trail \in [Proposals -> Seq(Entry)]
    /\ parcelVersion \in [Parcels -> Nat]
    /\ home \in [Observations -> Parcels \cup {NoParcel}]
    /\ move \in [Movers -> MoveRequest]
    /\ creation \in [Creators -> CreationRequest]

\* An author cannot review their own proposal (README, Workflow; enforced in
\* authorizeProposalTransition on a snapshot read before the commit): every review
\* move in a proposal's history was made by a reviewer or administrator who is not
\* the author in the row, and so was the move that set reviewed_by.
IndependentReview ==
    \A p \in Proposals : Exists(p) =>
        LET independent(u) ==
              u # proposals[p].createdBy /\ RoleOf[u] \in {"reviewer", "admin"}
        IN  /\ proposals[p].reviewedBy # NoUser => independent(proposals[p].reviewedBy)
            /\ \A i \in 1 .. Len(trail[p]) :
                 trail[p][i].after.state \in ReviewStates => independent(trail[p][i].actor)

\* The audit trail is the history of the row: it starts with the author's draft,
\* each entry starts where the one before it ended and takes a legal transition one
\* version up, and the last entry ends at the row as it is.  A proposal without a
\* row has no trail.
Chained(entries) ==
    /\ entries[1].before = Nothing
    /\ entries[1].after.state = "draft"
    /\ \A i \in 2 .. Len(entries) :
         /\ entries[i].before = entries[i - 1].after
         /\ CanProposalTransition(entries[i].before.state, entries[i].after.state)
         /\ entries[i].after.version = entries[i].before.version + 1

TrailExplainsRow ==
    \A p \in Proposals :
        IF Exists(p)
        THEN /\ trail[p] # <<>>
             /\ Chained(trail[p])
             /\ trail[p][1].actor = proposals[p].createdBy
             /\ trail[p][Len(trail[p])].after = SummaryOf(proposals[p])
        ELSE trail[p] = <<>>

\* reviewed_by names the actor of the latest review move of the trail, through
\* revision rounds too, and nobody while there was none.
ReviewMoves(p) == {i \in 1 .. Len(trail[p]) : trail[p][i].after.state \in ReviewStates}

ReviewerOfRecord ==
    \A p \in Proposals : Exists(p) =>
        IF ReviewMoves(p) = {} THEN proposals[p].reviewedBy = NoUser
        ELSE \E i \in ReviewMoves(p) :
               /\ \A j \in ReviewMoves(p) : j <= i
               /\ proposals[p].reviewedBy = trail[p][i].actor

\* A move that was answered 200 is in the trail as its client saw it, and two
\* requests that read the same version are never both answered 200.
Acknowledged(m) == move[m].phase = "answered" /\ move[m].status = 200

AcknowledgedIsRecorded ==
    \A m \in Movers : Acknowledged(m) =>
        /\ \E i \in 2 .. Len(trail[move[m].target]) :
             trail[move[m].target][i] = MoveEntry(move[m])
        /\ \A n \in Movers \ {m} :
             Acknowledged(n) /\ move[n].target = move[m].target
                => move[n].seen.version # move[m].seen.version

\* A proposal cites only observations of its own parcel, whoever wrote it and
\* whatever was imported while its evidence was being read.
EvidenceOnParcel ==
    \A p \in Proposals : Exists(p) =>
        \A o \in proposals[p].evidence : home[o] = proposals[p].parcel

\* The base version of a proposal is a version its parcel really had.
BaseVersionExisted ==
    \A p \in Proposals : Exists(p) =>
        proposals[p].base \in 1 .. parcelVersion[proposals[p].parcel]

\* What a step never does: change a decided proposal, take a version back, or change
\* who wrote a proposal, for which parcel, from which base and on what evidence.
Substance(row) == <<row.createdBy, row.parcel, row.base, row.evidence>>

DecisionFinal ==
    [][\A p \in Proposals : Exists(p) =>
         /\ proposals[p].state \in DecidedStates => proposals'[p] = proposals[p]
         /\ proposals'[p].version >= proposals[p].version
         /\ Substance(proposals'[p]) = Substance(proposals[p])]_vars

\* What a checked request knows and the world cannot take away while it waits: the
\* row it read still exists with the same author, the move it was allowed from the
\* state it saw is legal and authorised, and the row's version has not gone back.
SnapshotSound ==
    \A m \in Movers : move[m].phase = "checked" =>
        LET q == move[m]
            row == proposals[q.target]
        IN  /\ Exists(q.target)
            /\ q.author = row.createdBy
            /\ q.seen.version <= row.version
            /\ CanProposalTransition(q.seen.state, q.to)
            /\ RoleOf[q.actor] \in ProposalMoveRoles
            /\ AuthorizedMove(q.to, RoleOf[q.actor], q.actor = q.author)

\* The inductive strengthening of IndependentReview and TrailExplainsRow.
ReviewInv == TypeOK /\ SnapshotSound /\ TrailExplainsRow /\ IndependentReview

\* The service implements the atomic ledger: its requests, snapshots, races and
\* crashes add no history that one-at-a-time reviews could not have written.
Ledger == INSTANCE ReviewLedger
              WITH ledger <- trail, FirstVersions <- 1 .. MaxVersion

ImplementsLedger == Ledger!Spec
=============================================================================
