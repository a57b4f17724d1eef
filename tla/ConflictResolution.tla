------------------------- MODULE ConflictResolution -------------------------
(***************************************************************************)
(* The review of topology conflicts: TransitionConflict and                *)
(* ApplyConflictSuggestion in service/topology_conflict_service.go.        *)
(*                                                                         *)
(* Both read the conflict, decide on its state, and write under            *)
(* WHERE conflict_state = <the state read>.  Applying a suggestion reads   *)
(* three rows of three tables before its transaction, which inserts a new  *)
(* draft proposal and resolves the conflict, or does neither.              *)
(*                                                                         *)
(* Definitions named X_Y are not the code: they are plausible bugs of X    *)
(* that the properties are shown to catch.                                 *)
(***************************************************************************)
EXTENDS Naturals, Sequences, FiniteSets, Workflow

CONSTANTS
    Users, RoleOf,
    NoUser,            \* NULL in topology_conflicts.resolved_by
    Parcels, Proposals, Conflicts,
    NoParcel,
    NoProposal,        \* a conflict that has not been detected
    NoConflict,        \* the source of a proposal nobody derived
    Reviewers,         \* slots for POST /conflicts/:id/transition requests
    Appliers,          \* slots for POST /conflicts/:id/apply-suggestion requests
    MaxCreated,        \* bound: how many proposals are created that nobody derived
    MaxVersion,        \* bound: no proposal moves past this version
    MaxParcelVersion   \* bound: no parcel is updated past this version

ASSUME Accounts == RoleOf \in [Users -> Roles] /\ NoUser \notin Users

ASSUME Identifiers ==
    /\ NoParcel \notin Parcels
    /\ NoProposal \notin Proposals
    /\ NoConflict \notin Conflicts

ASSUME Bounds == {MaxCreated, MaxVersion, MaxParcelVersion} \subseteq Nat \ {0}

VARIABLES
    conflicts,         \* table topology_conflicts, the columns review writes
    trail,             \* audit_logs rows about each conflict, in commit order
    proposals,         \* table boundary_proposals, the columns applying reads and writes
    parcelVersion,     \* land_parcels.boundary_version
    review,            \* TransitionConflict requests
    apply              \* ApplyConflictSuggestion requests

vars == <<conflicts, trail, proposals, parcelVersion, review, apply>>

-----------------------------------------------------------------------------
(* Rows and requests. *)

NoRow == [state |-> "none", resolvedBy |-> NoUser, proposal |-> NoProposal]

ConflictRow ==
    [state : ConflictStates, resolvedBy : Users \cup {NoUser}, proposal : Proposals]

Detected(k) == conflicts[k] # NoRow

Entry == [actor : Users, before : ConflictStates \cup {"none"}, after : ConflictStates]

\* version is 0 while there is no row; first is the version the row was inserted with.
NoDraft ==
    [version |-> 0, first |-> 0, parcel |-> NoParcel, base |-> 0, author |-> NoUser,
     source |-> NoConflict]

ProposalRow ==
    [version : Nat \ {0}, first : Nat \ {0}, parcel : Parcels, base : Nat \ {0},
     author : Users, source : Conflicts \cup {NoConflict}]

Stored(p) == proposals[p] # NoDraft

IdleReview ==
    [phase |-> "idle", status |-> 0, actor |-> NoUser, conflict |-> NoConflict,
     to |-> "none", seen |-> "none"]

ReviewRequest ==
    [phase : {"idle", "checked", "answered"}, status : {0, 200, 403, 404, 409},
     actor : Users \cup {NoUser}, conflict : Conflicts \cup {NoConflict},
     to : ConflictStates \cup {"none"}, seen : ConflictStates \cup {"none"}]

IdleApply ==
    [phase |-> "idle", status |-> 0, actor |-> NoUser,
     conflict |-> NoConflict, version |-> 0, base |-> 0, draft |-> NoProposal]

ApplyRequest ==
    [phase : {"idle", "proposal", "parcel", "ready", "answered"},
     status : {0, 201, 403, 404, 409, 500},
     actor : Users \cup {NoUser}, conflict : Conflicts \cup {NoConflict},
     version : Nat, base : Nat, draft : Proposals \cup {NoProposal}]

AnsweredReview(status) == [IdleReview EXCEPT !.phase = "answered", !.status = status]

AnsweredApply(status) == [IdleApply EXCEPT !.phase = "answered", !.status = status]

AppliedAs(k, p) == [AnsweredApply(201) EXCEPT !.conflict = k, !.draft = p]

-----------------------------------------------------------------------------
Init ==
    /\ conflicts = [k \in Conflicts |-> NoRow]
    /\ trail = [k \in Conflicts |-> <<>>]
    /\ proposals = [p \in Proposals |-> NoDraft]
    /\ parcelVersion = [x \in Parcels |-> 1]
    /\ review = [r \in Reviewers |-> IdleReview]
    /\ apply = [a \in Appliers |-> IdleApply]

-----------------------------------------------------------------------------
(* The conditional UPDATE and its audit entry. *)

StateUnchanged(k, seen) == conflicts[k].state = seen

\* resolved_by is written on resolving and on closing, and kept otherwise.
Resolver_KeepFirst(k, u, to) ==
    IF to \in {"resolved", "closed"} /\ conflicts[k].resolvedBy = NoUser
    THEN u ELSE conflicts[k].resolvedBy

Resolver(k, u, to) ==
    IF to \in {"resolved", "closed"} THEN u ELSE conflicts[k].resolvedBy

Audited_FromRow(k, u, from, to) ==
    [trail EXCEPT ![k] = Append(@, [actor |-> u, before |-> to, after |-> to])]

Audited(k, u, from, to) ==
    [trail EXCEPT ![k] = Append(@, [actor |-> u, before |-> from, after |-> to])]

Transition(k, u, from, to) ==
    /\ StateUnchanged(k, from)
    /\ conflicts' = [conflicts EXCEPT ![k] =
         [@ EXCEPT !.state = to, !.resolvedBy = Resolver(k, u, to)]]
    /\ trail' = Audited(k, u, from, to)

-----------------------------------------------------------------------------
(* TransitionConflict. *)

ReviewVerdict(u, k, to) ==
    IF RoleOf[u] \notin ConflictReviewRoles THEN 403
    ELSE IF ~Detected(k) THEN 404
    ELSE IF ~CanConflictTransition(conflicts[k].state, to) THEN 409
    ELSE 200

CheckReview(r, u, k, to) ==
    /\ review[r].phase = "idle"
    /\ LET verdict == ReviewVerdict(u, k, to)
       IN  review' = [review EXCEPT ![r] =
             IF verdict # 200 THEN AnsweredReview(verdict)
             ELSE [phase |-> "checked", status |-> 0, actor |-> u, conflict |-> k,
                   to |-> to, seen |-> conflicts[k].state]]
    /\ UNCHANGED <<conflicts, trail, proposals, parcelVersion, apply>>

CommitReview(r) ==
    LET q == review[r]
    IN  /\ q.phase = "checked"
        /\ Transition(q.conflict, q.actor, q.seen, q.to)
        /\ review' = [review EXCEPT ![r] = AnsweredReview(200)]
        /\ UNCHANGED <<proposals, parcelVersion, apply>>

\* The row has moved, or the transaction failed otherwise: both are answered 409.
RefuseReview(r) ==
    /\ review[r].phase = "checked"
    /\ review' = [review EXCEPT ![r] = AnsweredReview(409)]
    /\ UNCHANGED <<conflicts, trail, proposals, parcelVersion, apply>>

FinishReview(r) ==
    /\ review[r].phase = "answered"
    /\ review' = [review EXCEPT ![r] = IdleReview]
    /\ UNCHANGED <<conflicts, trail, proposals, parcelVersion, apply>>

-----------------------------------------------------------------------------
(* ApplyConflictSuggestion. *)

ApplyVerdict(u, k) ==
    IF RoleOf[u] \notin ConflictReviewRoles THEN 403
    ELSE IF ~Detected(k) THEN 404
    ELSE IF conflicts[k].state # "resolution_proposed" THEN 409
    ELSE 201

Becomes(a, q) ==
    /\ apply' = [apply EXCEPT ![a] = q]
    /\ UNCHANGED <<conflicts, trail, proposals, parcelVersion, review>>

CheckApply(a, u, k) ==
    /\ apply[a].phase = "idle"
    /\ LET verdict == ApplyVerdict(u, k)
       IN  Becomes(a, IF verdict # 201 THEN AnsweredApply(verdict)
                      ELSE [IdleApply EXCEPT !.phase = "proposal", !.actor = u, !.conflict = k])

Source(a) == conflicts[apply[a].conflict].proposal

ReadProposal(a) ==
    /\ apply[a].phase = "proposal"
    /\ Becomes(a, [apply[a] EXCEPT !.phase = "parcel", !.version = proposals[Source(a)].version])

ReadParcel(a) ==
    /\ apply[a].phase = "parcel"
    /\ Becomes(a, [apply[a] EXCEPT !.phase = "ready", !.base = parcelVersion[proposals[Source(a)].parcel]])

\* The new draft: one version above the proposal as it was read, based on the parcel
\* as it was read, written by whoever applies.
DraftVersion_Same(a) == apply[a].version

DraftVersion(a) == apply[a].version + 1

Draft(a) ==
    [version |-> DraftVersion(a), first |-> DraftVersion(a), parcel |-> proposals[Source(a)].parcel,
     base |-> apply[a].base, author |-> apply[a].actor, source |-> apply[a].conflict]

CommitApply_DraftOnly(a, p) ==
    /\ apply[a].phase = "ready"
    /\ ~Stored(p)
    /\ proposals' = [proposals EXCEPT ![p] = Draft(a)]
    /\ apply' = [apply EXCEPT ![a] = AppliedAs(apply[a].conflict, p)]
    /\ IF StateUnchanged(apply[a].conflict, "resolution_proposed")
       THEN Transition(apply[a].conflict, apply[a].actor, "resolution_proposed", "resolved")
       ELSE UNCHANGED <<conflicts, trail>>
    /\ UNCHANGED <<parcelVersion, review>>

CommitApply_NotResolved(a, p) ==
    /\ apply[a].phase = "ready"
    /\ ~Stored(p)
    /\ StateUnchanged(apply[a].conflict, "resolution_proposed")
    /\ proposals' = [proposals EXCEPT ![p] = Draft(a)]
    /\ apply' = [apply EXCEPT ![a] = AppliedAs(apply[a].conflict, p)]
    /\ UNCHANGED <<conflicts, trail, parcelVersion, review>>

CommitApply(a, p) ==
    /\ apply[a].phase = "ready"
    /\ ~Stored(p)
    /\ Transition(apply[a].conflict, apply[a].actor, "resolution_proposed", "resolved")
    /\ proposals' = [proposals EXCEPT ![p] = Draft(a)]
    /\ apply' = [apply EXCEPT ![a] = AppliedAs(apply[a].conflict, p)]
    /\ UNCHANGED <<parcelVersion, review>>

\* The conflict has moved, and the insert is rolled back with the rest; or a query or the
\* transaction fails otherwise.  wrapCadastral answers 500 to all of it.  (The 404 and 409
\* of this stretch need rows that are never deleted and a suggestion detection always stores.)
FailApply(a) ==
    /\ apply[a].phase \in {"proposal", "parcel", "ready"}
    /\ Becomes(a, AnsweredApply(500))

FinishApply(a) ==
    /\ apply[a].phase = "answered"
    /\ Becomes(a, IdleApply)

-----------------------------------------------------------------------------
\* The server stops: requests in flight are lost, committed rows are not.
Crash ==
    /\ review' = [r \in Reviewers |-> IdleReview]
    /\ apply' = [a \in Appliers |-> IdleApply]
    /\ UNCHANGED <<conflicts, trail, proposals, parcelVersion>>

(* What the other services commit. *)

\* DetectConflicts inserts a conflict of a stored proposal with its first audit entry.
ConflictDetected(k, u, p) ==
    /\ ~Detected(k)
    /\ Stored(p)
    /\ RoleOf[u] \in DetectionRoles
    /\ conflicts' = [conflicts EXCEPT ![k] =
         [state |-> "detected", resolvedBy |-> NoUser, proposal |-> p]]
    /\ trail' = [trail EXCEPT ![k] = <<[actor |-> u, before |-> "none", after |-> "detected"]>>]
    /\ UNCHANGED <<proposals, parcelVersion, review, apply>>

ProposalCreated(p, u, x) ==
    /\ ~Stored(p)
    /\ Cardinality({d \in Proposals : Stored(d) /\ proposals[d].source = NoConflict}) < MaxCreated
    /\ RoleOf[u] \in FieldRoles
    /\ proposals' = [proposals EXCEPT ![p] =
         [version |-> 1, first |-> 1, parcel |-> x, base |-> parcelVersion[x],
          author |-> u, source |-> NoConflict]]
    /\ UNCHANGED <<conflicts, trail, parcelVersion, review, apply>>

ProposalMoved(p) ==
    /\ Stored(p)
    /\ proposals[p].version < MaxVersion
    /\ proposals' = [proposals EXCEPT ![p].version = @ + 1]
    /\ UNCHANGED <<conflicts, trail, parcelVersion, review, apply>>

ParcelUpdated(x) ==
    /\ parcelVersion[x] < MaxParcelVersion
    /\ parcelVersion' = [parcelVersion EXCEPT ![x] = @ + 1]
    /\ UNCHANGED <<conflicts, trail, proposals, review, apply>>

Env ==
    \/ \E k \in Conflicts, u \in Users, p \in Proposals : ConflictDetected(k, u, p)
    \/ \E p \in Proposals, u \in Users, x \in Parcels : ProposalCreated(p, u, x)
    \/ \E p \in Proposals : ProposalMoved(p)
    \/ \E x \in Parcels : ParcelUpdated(x)

ReviewStep(r) ==
    \/ \E u \in Users, k \in Conflicts, to \in ConflictStates : CheckReview(r, u, k, to)
    \/ CommitReview(r)
    \/ RefuseReview(r)
    \/ FinishReview(r)

ApplyStep(a) ==
    \/ \E u \in Users, k \in Conflicts : CheckApply(a, u, k)
    \/ ReadProposal(a)
    \/ ReadParcel(a)
    \/ \E p \in Proposals : CommitApply(a, p)
    \/ FailApply(a)
    \/ FinishApply(a)

Step ==
    \/ \E r \in Reviewers : ReviewStep(r)
    \/ \E a \in Appliers : ApplyStep(a)
    \/ Crash

Next == Step \/ Env

Spec == Init /\ [][Next]_vars

-----------------------------------------------------------------------------
(* Properties. *)

\* Tables, trails and requests hold values of their types.
TypeOK ==
    /\ conflicts \in [Conflicts -> ConflictRow \cup {NoRow}]
    /\ trail \in [Conflicts -> Seq(Entry)]
    /\ proposals \in [Proposals -> ProposalRow \cup {NoDraft}]
    /\ parcelVersion \in [Parcels -> 1 .. MaxParcelVersion]
    /\ review \in [Reviewers -> ReviewRequest]
    /\ apply \in [Appliers -> ApplyRequest]

\* The audit trail of a conflict is its history: from detected, by legal transitions of
\* reviewers or administrators, each starting where the one before it ended, to the
\* state in the row.
TrailExplainsConflict ==
    \A k \in Conflicts : LET t == trail[k] IN
        IF ~Detected(k) THEN t = <<>>
        ELSE /\ t # <<>>
             /\ t[1].before = "none" /\ t[1].after = "detected"
             /\ t[Len(t)].after = conflicts[k].state
             /\ \A i \in 2 .. Len(t) :
                  /\ t[i].before = t[i - 1].after
                  /\ CanConflictTransition(t[i].before, t[i].after)
                  /\ RoleOf[t[i].actor] \in ConflictReviewRoles

\* resolved_by names the actor of the latest resolving or closing entry: whoever closes
\* a conflict takes the place of whoever resolved it.
Resolutions(k) == {i \in 1 .. Len(trail[k]) : trail[k][i].after \in {"resolved", "closed"}}

ResolverOfRecord ==
    \A k \in Conflicts :
        IF Resolutions(k) = {} THEN conflicts[k].resolvedBy = NoUser
        ELSE \E i \in Resolutions(k) : /\ \A j \in Resolutions(k) : j <= i
                                       /\ conflicts[k].resolvedBy = trail[k][i].actor

\* A suggestion is applied at most once, by the person on record for it: a conflict has
\* at most one proposal derived from it, and one that has it was resolved by that
\* proposal's author.  A suggestion that lost a race leaves no proposal.
Derived(k) == {p \in Proposals : proposals[p].source = k}

AppliedAtMostOnce ==
    \A k \in Conflicts :
        /\ \A p, other \in Derived(k) : p = other
        /\ \A p \in Derived(k) :
             \E i \in 1 .. Len(trail[k]) :
               /\ trail[k][i].before = "resolution_proposed" /\ trail[k][i].after = "resolved"
               /\ trail[k][i].actor = proposals[p].author

\* An apply answered 201 did what it said: its draft exists, for the parcel of the
\* conflict's own proposal, and its conflict left resolution_proposed for good.
AppliedIsDone ==
    \A a \in Appliers : apply[a].phase = "answered" /\ apply[a].status = 201 =>
        LET p == apply[a].draft
        IN  /\ Stored(p) /\ proposals[p].source = apply[a].conflict
            /\ proposals[p].parcel = proposals[Source(a)].parcel
            /\ conflicts[apply[a].conflict].state \in {"resolved", "closed"}

\* A derived draft continues from something that existed: it starts above the first
\* version of the proposal the conflict was detected on and no further than one above
\* where that proposal is now, on a version its parcel has had.
DraftContinuesItsSource ==
    \A k \in Conflicts, p \in Proposals : proposals[p].source = k =>
        LET source == proposals[conflicts[k].proposal]
        IN  /\ proposals[p].first > source.first
            /\ proposals[p].first <= source.version + 1
            /\ proposals[p].base <= parcelVersion[proposals[p].parcel]

\* The two handlers implement the atomic ledger.
Drafted ==
    {[conflict |-> proposals[p].source, proposal |-> p, author |-> proposals[p].author] :
        p \in {d \in Proposals : proposals[d].source # NoConflict}}

Ledger == INSTANCE ConflictLedger WITH ledger <- trail, drafted <- Drafted

ImplementsLedger == Ledger!Spec
=============================================================================
