---------------------- MODULE BoundaryProposal_proofs ----------------------
(***************************************************************************)
(* Theorems about BoundaryProposal, for any sets of accounts, parcels,     *)
(* observations, proposals and concurrent requests and any bounds.         *)
(***************************************************************************)
EXTENDS BoundaryProposal, TLAPS

(* A request slot is told from its phase what it holds. *)
LEMMA CheckedMove ==
    ASSUME NEW q \in MoveRequest, q.phase = "checked"
    PROVE  q \in PassedMove("checked")
  <1>1. IdleMove.phase = "idle"
    BY DEF IdleMove
  <1>2. \A s : AnsweredMove(s).phase = "answered"
    BY DEF AnsweredMove, IdleMove
  <1>3. \A r \in PassedMove("answered") : r.phase = "answered"
    BY DEF PassedMove
  <1>4. QED
    BY <1>1, <1>2, <1>3 DEF MoveRequest

LEMMA CheckedCreationShape ==
    ASSUME NEW q \in CreationRequest, q.phase = "checked"
    PROVE  q \in CheckedCreation
  <1>1. IdleCreation.phase = "idle"
    BY DEF IdleCreation
  <1>2. \A s : AnsweredCreation(s).phase = "answered"
    BY DEF AnsweredCreation, IdleCreation
  <1>3. QED
    BY <1>1, <1>2 DEF CreationRequest

LEMMA RowExists ==
    ASSUME TypeOK, NEW p \in Proposals, Exists(p)
    PROVE  proposals[p] \in Row
  BY DEF TypeOK, Exists

LEMMA NoRowIsNotARow == NoRow \notin Row
  BY DEF NoRow, Row, ProposalStates

(* Whatever inserts a well-typed row keeps both tables well typed. *)
LEMMA InsertTypeOK ==
    ASSUME TypeOK, NEW p \in Proposals, NEW row \in Row, Insert(p, row)
    PROVE  /\ proposals' \in [Proposals -> Row \cup {NoRow}]
           /\ trail' \in [Proposals -> Seq(Entry)]
  <1>1. [actor |-> row.createdBy, before |-> Nothing, after |-> SummaryOf(row)] \in Entry
    BY DEF Row, Entry, Summary, SummaryOf
  <1>2. <<[actor |-> row.createdBy, before |-> Nothing, after |-> SummaryOf(row)]>>
          \in Seq(Entry)
    BY <1>1
  <1>3. QED
    BY <1>2 DEF TypeOK, Insert

LEMMA MoveTypeOK ==
    ASSUME TypeOK, NEW q \in PassedMove("checked"), NEW row \in Row
    PROVE  /\ Moved(row, q) \in Row
           /\ MoveEntry(q) \in Entry
           /\ [q EXCEPT !.phase = "answered", !.status = 200] \in MoveRequest
  <1>1. Moved(row, q) \in Row
    <2>1. row.version + 1 \in Nat \ {0}
      BY DEF Row
    <2>2. q.to \in ProposalStates /\ q.actor \in Users
      BY DEF PassedMove
    <2>3. (IF q.to \in ReviewStates THEN q.actor ELSE row.reviewedBy) \in Users \cup {NoUser}
      BY <2>2 DEF Row
    <2>4. QED
      BY <2>1, <2>2, <2>3 DEF Moved, Row
  <1>2. MoveEntry(q) \in Entry
    BY DEF MoveEntry, Entry, PassedMove, Summary
  <1>3. [q EXCEPT !.phase = "answered", !.status = 200] \in PassedMove("answered")
    <2>1. q \in [phase : {"checked"}, status : {0}, actor : Users, target : Proposals,
                 to : ProposalStates, claimed : ClaimedVersions, seen : Summary, author : Users]
      BY DEF PassedMove
    <2>2. PassedMove("answered") =
            [phase : {"answered"}, status : {200}, actor : Users, target : Proposals,
             to : ProposalStates, claimed : ClaimedVersions, seen : Summary, author : Users]
      BY DEF PassedMove
    <2>3. QED
      BY <2>1, <2>2
  <1>4. QED
    BY <1>1, <1>2, <1>3 DEF MoveRequest

LEMMA MoveStepTypeOK ==
    ASSUME TypeOK, NEW m \in Movers, MoveStep(m)
    PROVE  TypeOK'
  <1>1. ASSUME NEW u \in Users, NEW p \in Proposals, NEW to \in ProposalStates,
               NEW v \in ClaimedVersions, CheckMove(m, u, p, to, v)
        PROVE  TypeOK'
    <2> DEFINE verdict == MoveVerdict(u, proposals[p], to)
    <2>1. verdict \in {200, 403, 404, 409}
      BY DEF MoveVerdict
    <2>2. ASSUME verdict # 200
          PROVE  AnsweredMove(verdict) \in MoveRequest
      BY <2>1, <2>2 DEF MoveRequest
    <2>3. ASSUME verdict = 200
          PROVE  [phase |-> "checked", status |-> 0, actor |-> u, target |-> p,
                  to |-> to, claimed |-> v, seen |-> SummaryOf(proposals[p]),
                  author |-> proposals[p].createdBy] \in MoveRequest
      <3>1. proposals[p] \in Row
        BY <2>3, RowExists DEF MoveVerdict, Exists
      <3>2. QED
        BY <3>1 DEF MoveRequest, PassedMove, Row, Summary, SummaryOf
    <2>4. move' \in [Movers -> MoveRequest]
      BY <1>1, <2>2, <2>3 DEF CheckMove, TypeOK
    <2>5. QED
      BY <1>1, <2>4 DEF CheckMove, TypeOK
  <1>2. CASE RefuseStaleMove(m) \/ AbortMove(m)
    <2>1. AnsweredMove(409) \in MoveRequest
      BY DEF MoveRequest
    <2>2. /\ move' = [move EXCEPT ![m] = AnsweredMove(409)]
          /\ UNCHANGED <<proposals, trail, parcelVersion, home, creation>>
      BY <1>2 DEF RefuseStaleMove, AbortMove
    <2>3. move' \in [Movers -> MoveRequest]
      BY <2>1, <2>2 DEF TypeOK
    <2>4. QED
      BY <2>2, <2>3 DEF TypeOK
  <1>3. CASE CommitMove(m)
    <2> DEFINE q == move[m]
    <2>1. q \in PassedMove("checked")
      BY <1>3, CheckedMove DEF CommitMove, TypeOK
    <2>2. q.target \in Proposals
      BY <2>1 DEF PassedMove
    <2>3. proposals[q.target] \in Row
      BY <1>3, <2>1, <2>2 DEF CommitMove, CasMatches, PassedMove, Summary, NoRow, TypeOK, ProposalStates
    <2>4. /\ Moved(proposals[q.target], q) \in Row
          /\ MoveEntry(q) \in Entry
          /\ [q EXCEPT !.phase = "answered", !.status = 200] \in MoveRequest
      BY <2>1, <2>3, MoveTypeOK
    <2>5. Append(trail[q.target], MoveEntry(q)) \in Seq(Entry)
      BY <2>2, <2>4 DEF TypeOK
    <2>6. QED
      BY <1>3, <2>2, <2>4, <2>5 DEF CommitMove, TypeOK
  <1>4. CASE FinishMove(m)
    BY <1>4 DEF FinishMove, TypeOK, MoveRequest
  <1>5. QED
    BY <1>1, <1>2, <1>3, <1>4 DEF MoveStep

LEMMA CreationStepTypeOK ==
    ASSUME TypeOK, NEW c \in Creators, CreationStep(c)
    PROVE  TypeOK'
  <1>1. ASSUME NEW u \in Users, NEW x \in Parcels, NEW base \in 1 .. MaxParcelVersion,
               NEW evidence \in SUBSET Observations, NEW valid \in BOOLEAN,
               BeginCreation(c, u, x, base, evidence, valid)
        PROVE  TypeOK'
    <2>1. CreationVerdict(u, x, base, valid) \in {201, 403, 404, 409, 422}
      BY DEF CreationVerdict
    <2>2. [phase |-> "checked", status |-> 0, actor |-> u, parcel |-> x, base |-> base,
           evidence |-> evidence, todo |-> evidence] \in CreationRequest
      BY Bounds DEF CreationRequest, CheckedCreation
    <2>3. creation' \in [Creators -> CreationRequest]
      BY <1>1, <2>1, <2>2 DEF BeginCreation, TypeOK, CreationRequest
    <2>4. QED
      BY <1>1, <2>3 DEF BeginCreation, TypeOK
  <1>2. ASSUME NEW o \in Observations, CheckEvidence(c, o)
        PROVE  TypeOK'
    <2>1. creation[c] \in CheckedCreation
      BY <1>2, CheckedCreationShape DEF CheckEvidence, TypeOK
    <2>2. /\ Cleared(creation[c], o) \in CreationRequest
          /\ AnsweredCreation(400) \in CreationRequest
      BY <2>1 DEF Cleared, CreationRequest, CheckedCreation
    <2>3. creation' \in [Creators -> CreationRequest]
      BY <1>2, <2>2 DEF CheckEvidence, TypeOK
    <2>4. QED
      BY <1>2, <2>3 DEF CheckEvidence, TypeOK
  <1>3. ASSUME NEW p \in Proposals, CommitCreation(c, p)
        PROVE  TypeOK'
    <2>1. NewRow(creation[c]) \in Row
      BY <1>3, CheckedCreationShape
      DEF CommitCreation, TypeOK, CheckedCreation, NewRow, Row, ProposalStates
    <2>2. QED
      BY <1>3, <2>1, InsertTypeOK DEF CommitCreation, TypeOK, CreationRequest
  <1>4. CASE AbortCreation(c) \/ FinishCreation(c)
    BY <1>4 DEF AbortCreation, FinishCreation, TypeOK, CreationRequest
  <1>5. QED
    BY <1>1, <1>2, <1>3, <1>4 DEF CreationStep

LEMMA EnvTypeOK ==
    ASSUME TypeOK, Env
    PROVE  TypeOK'
  <1>1. ASSUME NEW x \in Parcels, ParcelCommitted(x)
        PROVE  TypeOK'
    BY <1>1 DEF ParcelCommitted, TypeOK
  <1>2. ASSUME NEW o \in Observations, NEW x \in Parcels, ObservationImported(o, x)
        PROVE  TypeOK'
    BY <1>2 DEF ObservationImported, TypeOK
  <1>3. ASSUME NEW p \in Proposals, NEW source \in Proposals, NEW u \in Users,
               NEW v \in 2 .. MaxVersion, NEW base \in 1 .. MaxParcelVersion,
               ProposalDerived(p, source, u, v, base)
        PROVE  TypeOK'
    <2> DEFINE row == [state |-> "draft", version |-> v, createdBy |-> u,
                       reviewedBy |-> NoUser, parcel |-> proposals[source].parcel,
                       base |-> base, evidence |-> proposals[source].evidence]
    <2>1. proposals[source] \in Row
      BY <1>3, RowExists DEF ProposalDerived
    <2>2. row \in Row
      BY <2>1, Bounds DEF Row, ProposalStates
    <2>3. Insert(p, row)
      BY <1>3 DEF ProposalDerived
    <2>4. QED
      BY <1>3, <2>2, <2>3, InsertTypeOK DEF ProposalDerived, TypeOK
  <1>4. QED
    BY <1>1, <1>2, <1>3 DEF Env

LEMMA TypeStep ==
    ASSUME TypeOK, [Next]_vars
    PROVE  TypeOK'
  <1>1. CASE \E m \in Movers : MoveStep(m)
    BY <1>1, MoveStepTypeOK
  <1>2. CASE \E c \in Creators : CreationStep(c)
    BY <1>2, CreationStepTypeOK
  <1>3. CASE Crash
    BY <1>3 DEF Crash, TypeOK, MoveRequest, CreationRequest
  <1>4. CASE Env
    BY <1>4, EnvTypeOK
  <1>5. CASE UNCHANGED vars
    BY <1>5 DEF vars, TypeOK
  <1>6. QED
    BY <1>1, <1>2, <1>3, <1>4, <1>5 DEF Next, Step

\* The types hold in every reachable state, whatever requests race and crash.
THEOREM TypeCorrect == Spec => []TypeOK
  <1>1. Init => TypeOK
    BY DEF Init, TypeOK, MoveRequest, CreationRequest
  <1>2. TypeOK /\ [Next]_vars => TypeOK'
    BY TypeStep
  <1>3. QED
    BY <1>1, <1>2, PTL DEF Spec

-----------------------------------------------------------------------------
(* What one step does to the tables: nothing, one new draft with its first *)
(* trail entry, or one committed move.  The invariants below are proved    *)
(* from these three shapes.                                                *)

Quiet == UNCHANGED <<proposals, trail>>

Drafted(p, row) ==
    /\ row.state = "draft"
    /\ row.reviewedBy = NoUser
    /\ row.version \in 1 .. MaxVersion
    /\ Insert(p, row)
    /\ UNCHANGED move

LEMMA StepShape ==
    ASSUME TypeOK, [Next]_vars
    PROVE  \/ Quiet
           \/ \E p \in Proposals, row \in Row : Drafted(p, row)
           \/ \E m \in Movers : CommitMove(m)
  <1>1. ASSUME NEW m \in Movers, MoveStep(m)
        PROVE  Quiet \/ CommitMove(m)
    BY <1>1 DEF MoveStep, CheckMove, RefuseStaleMove, AbortMove, FinishMove, Quiet
  <1>2. ASSUME NEW c \in Creators, NEW p \in Proposals, CommitCreation(c, p)
        PROVE  \E row \in Row : Drafted(p, row)
    <2>1. /\ NewRow(creation[c]) \in Row
          /\ NewRow(creation[c]).state = "draft"
          /\ NewRow(creation[c]).reviewedBy = NoUser
          /\ NewRow(creation[c]).version \in 1 .. MaxVersion
      BY <1>2, CheckedCreationShape, Bounds
      DEF CommitCreation, TypeOK, CheckedCreation, NewRow, Row, ProposalStates
    <2>2. QED
      BY <1>2, <2>1 DEF CommitCreation, Drafted
  <1>3. ASSUME NEW c \in Creators, CreationStep(c)
        PROVE  Quiet \/ \E p \in Proposals, row \in Row : Drafted(p, row)
    BY <1>2, <1>3
    DEF CreationStep, BeginCreation, CheckEvidence, AbortCreation, FinishCreation, Quiet
  <1>4. ASSUME NEW p \in Proposals, NEW source \in Proposals, NEW u \in Users,
               NEW v \in 2 .. MaxVersion, NEW base \in 1 .. MaxParcelVersion,
               ProposalDerived(p, source, u, v, base)
        PROVE  \E row \in Row : Drafted(p, row)
    <2> DEFINE row == [state |-> "draft", version |-> v, createdBy |-> u,
                       reviewedBy |-> NoUser, parcel |-> proposals[source].parcel,
                       base |-> base, evidence |-> proposals[source].evidence]
    <2>1. proposals[source] \in Row
      BY <1>4, RowExists DEF ProposalDerived
    <2>2. row \in Row /\ row.version \in 1 .. MaxVersion
      BY <2>1, Bounds DEF Row, ProposalStates
    <2>3. Insert(p, row) /\ UNCHANGED move
      BY <1>4 DEF ProposalDerived
    <2>4. QED
      BY <2>2, <2>3 DEF Drafted
  <1>5. ASSUME Env
        PROVE  Quiet \/ \E p \in Proposals, row \in Row : Drafted(p, row)
    BY <1>4, <1>5 DEF Env, ParcelCommitted, ObservationImported, Quiet
  <1>6. CASE Crash \/ UNCHANGED vars
    BY <1>6 DEF Crash, vars, Quiet
  <1>7. QED
    BY <1>1, <1>3, <1>5, <1>6 DEF Next, Step

(* The row a committing move finds, and what it leaves. *)
LEMMA CommitShape ==
    ASSUME TypeOK, NEW m \in Movers, CommitMove(m)
    PROVE  /\ move[m] \in PassedMove("checked")
           /\ move[m].target \in Proposals
           /\ proposals[move[m].target] \in Row
           /\ Exists(move[m].target)
           /\ move[m].seen = SummaryOf(proposals[move[m].target])
  <1>1. move[m] \in PassedMove("checked")
    BY CheckedMove DEF CommitMove, TypeOK
  <1>2. move[m].target \in Proposals /\ move[m].seen \in Summary
    BY <1>1 DEF PassedMove
  <1>3. /\ proposals[move[m].target].state = move[m].seen.state
        /\ proposals[move[m].target].version = move[m].seen.version
    BY DEF CommitMove, CasMatches
  <1>4. Exists(move[m].target)
    BY <1>2, <1>3 DEF Exists, NoRow, Summary, ProposalStates
  <1>5. proposals[move[m].target] \in Row
    BY <1>2, <1>4, RowExists
  <1>6. move[m].seen = SummaryOf(proposals[move[m].target])
    BY <1>2, <1>3 DEF SummaryOf, Summary
  <1>7. QED
    BY <1>1, <1>2, <1>4, <1>5, <1>6

(* No step takes a row away, changes its author or takes its version back. *)
LEMMA RowsPersist ==
    ASSUME TypeOK, [Next]_vars, NEW p \in Proposals, Exists(p)
    PROVE  /\ proposals'[p] # NoRow
           /\ proposals'[p].createdBy = proposals[p].createdBy
           /\ proposals'[p].version >= proposals[p].version
  <1>1. proposals[p] \in Row
    BY RowExists
  <1>2. CASE Quiet
    BY <1>1, <1>2 DEF Quiet, Exists, Row
  <1>3. ASSUME NEW r \in Proposals, NEW row \in Row, Drafted(r, row)
        PROVE  proposals'[p] = proposals[p]
    BY <1>3 DEF Drafted, Insert, TypeOK
  <1>4. ASSUME NEW m \in Movers, CommitMove(m)
        PROVE  /\ proposals'[p].createdBy = proposals[p].createdBy
               /\ proposals'[p].version >= proposals[p].version
               /\ proposals'[p] \in Row
    <2>1. CASE p = move[m].target
      <3>1. proposals'[p] = Moved(proposals[p], move[m])
        BY <1>4, <2>1 DEF CommitMove, TypeOK
      <3>2. Moved(proposals[p], move[m]) \in Row
        BY <1>1, <1>4, CommitShape, MoveTypeOK
      <3>3. QED
        BY <1>1, <3>1, <3>2 DEF Moved, Row
    <2>2. CASE p # move[m].target
      BY <1>1, <1>4, <2>2 DEF CommitMove, TypeOK, Row
    <2>3. QED
      BY <2>1, <2>2
  <1>5. QED
    BY <1>1, <1>2, <1>3, <1>4, StepShape, NoRowIsNotARow DEF Exists, Row

LEMMA SnapshotSoundKept ==
    ASSUME TypeOK, SnapshotSound, [Next]_vars
    PROVE  SnapshotSound'
  <1> SUFFICES ASSUME NEW n \in Movers, move'[n].phase = "checked"
               PROVE  /\ proposals'[move'[n].target] # NoRow
                      /\ move'[n].author = proposals'[move'[n].target].createdBy
                      /\ move'[n].seen.version <= proposals'[move'[n].target].version
                      /\ CanProposalTransition(move'[n].seen.state, move'[n].to)
                      /\ RoleOf[move'[n].actor] \in ProposalMoveRoles
                      /\ AuthorizedMove(move'[n].to, RoleOf[move'[n].actor],
                                        move'[n].actor = move'[n].author)
    BY DEF SnapshotSound, Exists
  <1>1. CASE move'[n] = move[n]
    <2>1. move[n] \in PassedMove("checked")
      BY <1>1, CheckedMove DEF TypeOK
    <2>2. move[n].target \in Proposals /\ move[n].seen.version \in Nat
      BY <2>1 DEF PassedMove, Summary
    <2>3. /\ Exists(move[n].target)
          /\ move[n].author = proposals[move[n].target].createdBy
          /\ move[n].seen.version <= proposals[move[n].target].version
          /\ CanProposalTransition(move[n].seen.state, move[n].to)
          /\ RoleOf[move[n].actor] \in ProposalMoveRoles
          /\ AuthorizedMove(move[n].to, RoleOf[move[n].actor],
                            move[n].actor = move[n].author)
      BY <1>1 DEF SnapshotSound
    <2>4. /\ proposals'[move[n].target] # NoRow
          /\ proposals'[move[n].target].createdBy = proposals[move[n].target].createdBy
          /\ proposals'[move[n].target].version >= proposals[move[n].target].version
      BY <2>2, <2>3, RowsPersist
    <2>5. /\ proposals[move[n].target].version \in Nat
          /\ proposals'[move[n].target].version \in Nat
      <3>1. proposals[move[n].target] \in Row
        BY <2>2, <2>3, RowExists
      <3>2. proposals' \in [Proposals -> Row \cup {NoRow}]
        BY TypeStep DEF TypeOK
      <3>3. QED
        BY <2>2, <3>1, <3>2 DEF Row, NoRow
    <2>6. QED
      BY <1>1, <2>2, <2>3, <2>4, <2>5 DEF Exists
  <1>2. ASSUME NEW u \in Users, NEW p \in Proposals, NEW to \in ProposalStates,
               NEW v \in ClaimedVersions, CheckMove(n, u, p, to, v)
        PROVE  /\ proposals'[move'[n].target] # NoRow
               /\ move'[n].author = proposals'[move'[n].target].createdBy
               /\ move'[n].seen.version <= proposals'[move'[n].target].version
               /\ CanProposalTransition(move'[n].seen.state, move'[n].to)
               /\ RoleOf[move'[n].actor] \in ProposalMoveRoles
               /\ AuthorizedMove(move'[n].to, RoleOf[move'[n].actor],
                                 move'[n].actor = move'[n].author)
    <2> DEFINE row == proposals[p]
               verdict == MoveVerdict(u, row, to)
    <2>1. AnsweredMove(verdict).phase # "checked"
      BY DEF AnsweredMove, IdleMove
    <2>2. verdict = 200
      BY <1>2, <2>1 DEF CheckMove, TypeOK
    <2>3. /\ RoleOf[u] \in ProposalMoveRoles
          /\ row # NoRow
          /\ CanProposalTransition(row.state, to)
          /\ AuthorizedMove(to, RoleOf[u], u = row.createdBy)
      BY <2>2 DEF MoveVerdict
    <2>4. row \in Row
      BY <2>3, RowExists DEF Exists
    <2>5. move'[n] = [phase |-> "checked", status |-> 0, actor |-> u, target |-> p,
                      to |-> to, claimed |-> v, seen |-> SummaryOf(row),
                      author |-> row.createdBy]
      BY <1>2, <2>2 DEF CheckMove, TypeOK
    <2>6. proposals' = proposals
      BY <1>2 DEF CheckMove
    <2>7. QED
      BY <2>3, <2>4, <2>5, <2>6 DEF Exists, SummaryOf, Row
  <1>3. \/ move'[n] = move[n]
        \/ \E u \in Users, p \in Proposals, to \in ProposalStates, v \in ClaimedVersions :
              CheckMove(n, u, p, to, v)
    <2>1. ASSUME NEW m \in Movers, MoveStep(m), m # n
          PROVE  move'[n] = move[n]
      BY <2>1 DEF MoveStep, CheckMove, RefuseStaleMove, CommitMove, AbortMove, FinishMove, TypeOK
    <2>2. CASE MoveStep(n)
      <3>1. \A s : AnsweredMove(s).phase # "checked" /\ IdleMove.phase # "checked"
        BY DEF AnsweredMove, IdleMove
      <3>2. CASE CommitMove(n)
        <4>1. move'[n] = [move[n] EXCEPT !.phase = "answered", !.status = 200]
          BY <3>2 DEF CommitMove, TypeOK
        <4>2. move[n] \in PassedMove("checked")
          BY <3>2, CommitShape
        <4>3. move'[n].phase = "answered"
          BY <4>1, <4>2 DEF PassedMove
        <4>4. QED
          BY <4>3
      <3>3. CASE RefuseStaleMove(n) \/ AbortMove(n) \/ FinishMove(n)
        <4>1. move'[n] = AnsweredMove(409) \/ move'[n] = IdleMove
          BY <3>3 DEF RefuseStaleMove, AbortMove, FinishMove, TypeOK
        <4>2. QED
          BY <3>1, <4>1
      <3>4. QED
        BY <2>2, <3>2, <3>3 DEF MoveStep
    <2>3. ASSUME NEW c \in Creators, CreationStep(c)
          PROVE  move' = move
      BY <2>3 DEF CreationStep, BeginCreation, CheckEvidence, CommitCreation, AbortCreation,
                  FinishCreation
    <2>4. CASE Env
      BY <2>4 DEF Env, ParcelCommitted, ObservationImported, ProposalDerived
    <2>5. CASE Crash
      BY <2>5 DEF Crash, IdleMove
    <2>6. CASE UNCHANGED vars
      BY <2>6 DEF vars
    <2>7. QED
      BY <2>1, <2>2, <2>3, <2>4, <2>5, <2>6 DEF Next, Step
  <1>4. QED
    BY <1>1, <1>2, <1>3

-----------------------------------------------------------------------------
(* The trail. *)

\* Appending an entry that starts where a chain ends makes a longer chain.
LEMMA ChainExtends ==
    ASSUME NEW entries \in Seq(Entry), entries # <<>>, Chained(entries),
           NEW e \in Entry,
           e.before = entries[Len(entries)].after,
           CanProposalTransition(e.before.state, e.after.state),
           e.after.version = e.before.version + 1
    PROVE  Chained(Append(entries, e))
  <1> DEFINE longer == Append(entries, e)
  <1>1. /\ Len(entries) \in Nat \ {0}
        /\ Len(longer) = Len(entries) + 1
        /\ \A i \in 1 .. Len(entries) : longer[i] = entries[i]
        /\ longer[Len(entries) + 1] = e
    OBVIOUS
  <1>2. longer[1].before = Nothing /\ longer[1].after.state = "draft"
    BY <1>1 DEF Chained
  <1>3. ASSUME NEW i \in 2 .. Len(longer)
        PROVE  /\ longer[i].before = longer[i - 1].after
               /\ CanProposalTransition(longer[i].before.state, longer[i].after.state)
               /\ longer[i].after.version = longer[i].before.version + 1
    <2>1. CASE i = Len(longer)
      BY <1>1, <2>1
    <2>2. CASE i # Len(longer)
      <3>1. i \in 2 .. Len(entries) /\ i \in 1 .. Len(entries) /\ i - 1 \in 1 .. Len(entries)
        BY <1>1, <1>3, <2>2
      <3>2. longer[i] = entries[i] /\ longer[i - 1] = entries[i - 1]
        BY <1>1, <3>1
      <3>3. QED
        BY <3>1, <3>2 DEF Chained
    <2>3. QED
      BY <2>1, <2>2
  <1>4. QED
    BY <1>2, <1>3 DEF Chained

LEMMA TrailExplainsRowKept ==
    ASSUME TypeOK, SnapshotSound, TrailExplainsRow, [Next]_vars
    PROVE  TrailExplainsRow'
  <1> SUFFICES ASSUME NEW p \in Proposals
               PROVE  IF proposals'[p] # NoRow
                      THEN /\ trail'[p] # <<>>
                           /\ Chained(trail'[p])
                           /\ trail'[p][1].actor = proposals'[p].createdBy
                           /\ trail'[p][Len(trail'[p])].after = SummaryOf(proposals'[p])
                      ELSE trail'[p] = <<>>
    BY DEF TrailExplainsRow, Exists, SummaryOf
  <1>1. IF proposals[p] # NoRow
        THEN /\ trail[p] # <<>>
             /\ Chained(trail[p])
             /\ trail[p][1].actor = proposals[p].createdBy
             /\ trail[p][Len(trail[p])].after = SummaryOf(proposals[p])
        ELSE trail[p] = <<>>
    BY DEF TrailExplainsRow, Exists
  <1>2. CASE proposals'[p] = proposals[p] /\ trail'[p] = trail[p]
    BY <1>1, <1>2
  <1>3. ASSUME NEW row \in Row, Drafted(p, row)
        PROVE  /\ proposals'[p] # NoRow
               /\ trail'[p] # <<>>
               /\ Chained(trail'[p])
               /\ trail'[p][1].actor = proposals'[p].createdBy
               /\ trail'[p][Len(trail'[p])].after = SummaryOf(proposals'[p])
    <2> DEFINE e == [actor |-> row.createdBy, before |-> Nothing, after |-> SummaryOf(row)]
    <2>1. proposals'[p] = row /\ trail'[p] = <<e>>
      BY <1>3 DEF Drafted, Insert, TypeOK
    <2>2. Len(<<e>>) = 1 /\ <<e>>[1] = e /\ <<e>> # <<>>
      OBVIOUS
    <2>3. Chained(<<e>>)
      BY <1>3, <2>2 DEF Chained, Drafted, SummaryOf
    <2>4. QED
      BY <2>1, <2>2, <2>3, NoRowIsNotARow
  <1>4. ASSUME NEW m \in Movers, CommitMove(m), p = move[m].target
        PROVE  /\ proposals'[p] # NoRow
               /\ trail'[p] # <<>>
               /\ Chained(trail'[p])
               /\ trail'[p][1].actor = proposals'[p].createdBy
               /\ trail'[p][Len(trail'[p])].after = SummaryOf(proposals'[p])
    <2> DEFINE q == move[m]
               e == MoveEntry(q)
    <2>1. /\ q \in PassedMove("checked")
          /\ proposals[p] \in Row
          /\ Exists(p)
          /\ q.seen = SummaryOf(proposals[p])
      BY <1>4, CommitShape
    <2>2. CanProposalTransition(q.seen.state, q.to)
      BY <1>4 DEF SnapshotSound, CommitMove
    <2>3. e \in Entry /\ Moved(proposals[p], q) \in Row
      BY <2>1, MoveTypeOK
    <2>4. /\ proposals'[p] = Moved(proposals[p], q)
          /\ trail'[p] = Append(trail[p], e)
      BY <1>4 DEF CommitMove, TypeOK
    <2>5. /\ trail[p] \in Seq(Entry)
          /\ trail[p] # <<>>
          /\ Chained(trail[p])
          /\ trail[p][1].actor = proposals[p].createdBy
          /\ trail[p][Len(trail[p])].after = SummaryOf(proposals[p])
      BY <1>1, <2>1 DEF Exists, TypeOK
    <2>6. /\ e.before = trail[p][Len(trail[p])].after
          /\ CanProposalTransition(e.before.state, e.after.state)
          /\ e.after.version = e.before.version + 1
      BY <2>1, <2>2, <2>5 DEF MoveEntry
    <2>7. Chained(trail'[p])
      BY <2>3, <2>4, <2>5, <2>6, ChainExtends
    <2>8. /\ trail'[p] # <<>>
          /\ trail'[p][1] = trail[p][1]
          /\ trail'[p][Len(trail'[p])] = e
      <3>1. Len(trail[p]) \in Nat \ {0}
        BY <2>5
      <3>2. /\ Len(Append(trail[p], e)) = Len(trail[p]) + 1
            /\ Append(trail[p], e)[1] = trail[p][1]
            /\ Append(trail[p], e)[Len(trail[p]) + 1] = e
        BY <2>3, <2>5, <3>1
      <3>3. QED
        BY <2>4, <3>1, <3>2
    <2>9. e.after = SummaryOf(Moved(proposals[p], q))
      BY <2>1 DEF MoveEntry, Moved, SummaryOf, Row
    <2>10. Moved(proposals[p], q).createdBy = proposals[p].createdBy
      BY <2>1 DEF Moved, Row
    <2>11. QED
      BY <2>3, <2>4, <2>5, <2>7, <2>8, <2>9, <2>10, NoRowIsNotARow
  <1>5. CASE Quiet
    BY <1>2, <1>5 DEF Quiet
  <1>6. ASSUME NEW r \in Proposals, NEW row \in Row, Drafted(r, row), r # p
        PROVE  proposals'[p] = proposals[p] /\ trail'[p] = trail[p]
    BY <1>6 DEF Drafted, Insert, TypeOK
  <1>7. ASSUME NEW m \in Movers, CommitMove(m), p # move[m].target
        PROVE  proposals'[p] = proposals[p] /\ trail'[p] = trail[p]
    BY <1>7 DEF CommitMove, TypeOK
  <1>8. QED
    BY <1>2, <1>3, <1>4, <1>5, <1>6, <1>7, StepShape

-----------------------------------------------------------------------------
(* Independent review. *)

LEMMA IndependentReviewKept ==
    ASSUME TypeOK, SnapshotSound, IndependentReview, [Next]_vars
    PROVE  IndependentReview'
  <1> DEFINE Independent(u, row) == u # row.createdBy /\ RoleOf[u] \in {"reviewer", "admin"}
             Reviewed(row, entries) ==
               /\ row.reviewedBy # NoUser => Independent(row.reviewedBy, row)
               /\ \A i \in 1 .. Len(entries) :
                    entries[i].after.state \in ReviewStates => Independent(entries[i].actor, row)
  <1> SUFFICES ASSUME NEW p \in Proposals, proposals'[p] # NoRow
               PROVE  Reviewed(proposals'[p], trail'[p])
    BY DEF IndependentReview, Exists
  <1>1. proposals[p] # NoRow => Reviewed(proposals[p], trail[p])
    BY DEF IndependentReview, Exists
  <1>2. CASE proposals'[p] = proposals[p] /\ trail'[p] = trail[p]
    BY <1>1, <1>2
  <1>3. ASSUME NEW row \in Row, Drafted(p, row)
        PROVE  Reviewed(proposals'[p], trail'[p])
    <2> DEFINE e == [actor |-> row.createdBy, before |-> Nothing, after |-> SummaryOf(row)]
    <2>1. proposals'[p] = row /\ trail'[p] = <<e>>
      BY <1>3 DEF Drafted, Insert, TypeOK
    <2>2. Len(<<e>>) = 1 /\ <<e>>[1] = e
      OBVIOUS
    <2>3. e.after.state \notin ReviewStates /\ row.reviewedBy = NoUser
      BY <1>3 DEF Drafted, SummaryOf, ReviewStates
    <2>4. QED
      BY <2>1, <2>2, <2>3
  <1>4. ASSUME NEW m \in Movers, CommitMove(m), p = move[m].target
        PROVE  Reviewed(proposals'[p], trail'[p])
    <2> DEFINE q == move[m]
               e == MoveEntry(q)
    <2>1. /\ q \in PassedMove("checked")
          /\ proposals[p] \in Row
          /\ Exists(p)
      BY <1>4, CommitShape
    <2>2. /\ q.author = proposals[p].createdBy
          /\ AuthorizedMove(q.to, RoleOf[q.actor], q.actor = q.author)
      BY <1>4 DEF SnapshotSound, CommitMove
    <2>3. q.to \in ReviewStates => Independent(q.actor, proposals[p])
      BY <2>2 DEF AuthorizedMove
    <2>4. /\ proposals'[p] = Moved(proposals[p], q)
          /\ trail'[p] = Append(trail[p], e)
      BY <1>4 DEF CommitMove, TypeOK
    <2>5. Reviewed(proposals[p], trail[p])
      BY <1>1, <2>1 DEF Exists
    <2>6. /\ proposals'[p].createdBy = proposals[p].createdBy
          /\ proposals'[p].reviewedBy =
               IF q.to \in ReviewStates THEN q.actor ELSE proposals[p].reviewedBy
      BY <2>1, <2>4 DEF Moved, Row
    <2>7. e.actor = q.actor /\ e.after.state = q.to
      BY DEF MoveEntry
    <2>8. ASSUME NEW i \in 1 .. Len(trail'[p])
          PROVE  trail'[p][i] = e \/ (i \in 1 .. Len(trail[p]) /\ trail'[p][i] = trail[p][i])
      <3>1. trail[p] \in Seq(Entry) /\ e \in Entry
        BY <2>1, MoveTypeOK DEF TypeOK
      <3>2. QED
        BY <2>4, <3>1
    <2>9. QED
      BY <2>3, <2>5, <2>6, <2>7, <2>8
  <1>5. CASE Quiet
    BY <1>2, <1>5 DEF Quiet
  <1>6. ASSUME NEW r \in Proposals, NEW row \in Row, Drafted(r, row), r # p
        PROVE  proposals'[p] = proposals[p] /\ trail'[p] = trail[p]
    BY <1>6 DEF Drafted, Insert, TypeOK
  <1>7. ASSUME NEW m \in Movers, CommitMove(m), p # move[m].target
        PROVE  proposals'[p] = proposals[p] /\ trail'[p] = trail[p]
    BY <1>7 DEF CommitMove, TypeOK
  <1>8. QED
    BY <1>2, <1>3, <1>4, <1>5, <1>6, <1>7, StepShape

-----------------------------------------------------------------------------
(* The theorems. *)

LEMMA ReviewInvInductive ==
    /\ Init => ReviewInv
    /\ ReviewInv /\ [Next]_vars => ReviewInv'
  <1>1. Init => ReviewInv
    BY DEF Init, ReviewInv, TypeOK, SnapshotSound, TrailExplainsRow, IndependentReview,
           Exists, IdleMove, MoveRequest, CreationRequest
  <1>2. ReviewInv /\ [Next]_vars => ReviewInv'
    BY TypeStep, SnapshotSoundKept, TrailExplainsRowKept, IndependentReviewKept
    DEF ReviewInv
  <1>3. QED
    BY <1>1, <1>2

\* However many requests race, whatever the other services commit and whenever the
\* server crashes, what a checked request knows stays true until it commits.
THEOREM SnapshotsAreSound == Spec => []SnapshotSound
  <1>1. ReviewInv => SnapshotSound
    BY DEF ReviewInv
  <1>2. QED
    BY <1>1, ReviewInvInductive, PTL DEF Spec

\* No proposal is ever reviewed by its author, nor by anyone who is not a reviewer
\* or administrator.
THEOREM ReviewIsIndependent == Spec => []IndependentReview
  <1>1. ReviewInv => IndependentReview
    BY DEF ReviewInv
  <1>2. QED
    BY <1>1, ReviewInvInductive, PTL DEF Spec

\* The audit trail of a proposal is always the complete legal history of its row.
THEOREM TrailIsComplete == Spec => []TrailExplainsRow
  <1>1. ReviewInv => TrailExplainsRow
    BY DEF ReviewInv
  <1>2. QED
    BY <1>1, ReviewInvInductive, PTL DEF Spec

-----------------------------------------------------------------------------
(* The refinement. *)

LEMMA CommitIsALedgerMove ==
    ASSUME ReviewInv, NEW m \in Movers, CommitMove(m)
    PROVE  Ledger!Move(move[m].target, move[m].actor, move[m].to)
  <1> DEFINE q == move[m]
             p == q.target
  <1>1. /\ q \in PassedMove("checked")
        /\ p \in Proposals
        /\ Exists(p)
        /\ q.seen = SummaryOf(proposals[p])
    BY CommitShape DEF ReviewInv
  <1>2. /\ trail[p] # <<>>
        /\ trail[p][1].actor = proposals[p].createdBy
        /\ trail[p][Len(trail[p])].after = SummaryOf(proposals[p])
    BY <1>1 DEF ReviewInv, TrailExplainsRow
  <1>3. /\ q.author = proposals[p].createdBy
        /\ CanProposalTransition(q.seen.state, q.to)
        /\ RoleOf[q.actor] \in ProposalMoveRoles
        /\ AuthorizedMove(q.to, RoleOf[q.actor], q.actor = q.author)
    BY DEF ReviewInv, SnapshotSound, CommitMove
  <1>4. /\ Ledger!Latest(trail[p]) = q.seen
        /\ Ledger!Author(trail[p]) = q.author
    BY <1>1, <1>2, <1>3 DEF Ledger!Latest, Ledger!Author
  <1>5. trail' = [trail EXCEPT ![p] = Append(trail[p],
                   [actor |-> q.actor, before |-> q.seen,
                    after |-> [state |-> q.to, version |-> q.seen.version + 1]])]
    BY DEF CommitMove, MoveEntry
  <1>6. /\ Ledger!CanProposalTransition(Ledger!Latest(trail[p]).state, q.to)
        /\ RoleOf[q.actor] \in Ledger!ProposalMoveRoles
        /\ Ledger!AuthorizedMove(q.to, RoleOf[q.actor], q.actor = Ledger!Author(trail[p]))
    BY <1>3, <1>4
    DEF CanProposalTransition, ProposalTransitions, ProposalMoveRoles, FieldRoles,
        AuthorizedMove, ReviewStates,
        Ledger!CanProposalTransition, Ledger!ProposalTransitions, Ledger!ProposalMoveRoles,
        Ledger!FieldRoles, Ledger!AuthorizedMove, Ledger!ReviewStates
  <1>7. QED
    BY <1>2, <1>4, <1>5, <1>6 DEF Ledger!Move

LEMMA DraftOpensALedger ==
    ASSUME ReviewInv, NEW p \in Proposals, NEW row \in Row, Drafted(p, row)
    PROVE  Ledger!Open(p, row.createdBy, row.version)
  <1>1. trail[p] = <<>>
    BY DEF ReviewInv, TrailExplainsRow, Drafted, Insert
  <1>2. trail' = [trail EXCEPT ![p] =
          <<[actor |-> row.createdBy, before |-> Nothing, after |-> SummaryOf(row)]>>]
    BY DEF Drafted, Insert
  <1>3. SummaryOf(row) = [state |-> "draft", version |-> row.version]
    BY DEF Drafted, SummaryOf
  <1>4. QED
    BY <1>1, <1>2, <1>3 DEF Ledger!Open, Ledger!Nothing, Nothing

\* The concurrent, crashing service implements the one-step-at-a-time ledger: every
\* committed move is a ledger move that was legal and authorised when it was written.
THEOREM ImplementsTheLedger == Spec => ImplementsLedger
  <1>1. Init => Ledger!Init
    BY DEF Init, Ledger!Init
  <1>2. ReviewInv /\ [Next]_vars => [Ledger!Next]_trail
    <2> SUFFICES ASSUME ReviewInv, [Next]_vars
                 PROVE  [Ledger!Next]_trail
      OBVIOUS
    <2>1. CASE Quiet
      BY <2>1 DEF Quiet
    <2>2. ASSUME NEW p \in Proposals, NEW row \in Row, Drafted(p, row)
          PROVE  Ledger!Next
      <3>1. row.createdBy \in Users /\ row.version \in 1 .. MaxVersion
        BY <2>2 DEF Row, Drafted
      <3>2. QED
        BY <2>2, <3>1, DraftOpensALedger DEF Ledger!Next
    <2>3. ASSUME NEW m \in Movers, CommitMove(m)
          PROVE  Ledger!Next
      <3>1. /\ move[m].target \in Proposals
            /\ move[m].actor \in Users
            /\ move[m].to \in Ledger!ProposalStates
        BY <2>3, CommitShape DEF ReviewInv, PassedMove, ProposalStates, Ledger!ProposalStates
      <3>2. QED
        BY <2>3, <3>1, CommitIsALedgerMove DEF Ledger!Next
    <2>4. QED
      BY <2>1, <2>2, <2>3, StepShape DEF ReviewInv
  <1>3. QED
    BY <1>1, <1>2, ReviewInvInductive, PTL DEF Spec, ImplementsLedger, Ledger!Spec

-----------------------------------------------------------------------------
(* Decisions, and who is on record for them. *)

LEMMA RowsKeep ==
    ASSUME ReviewInv, [Next]_vars, NEW p \in Proposals, Exists(p)
    PROVE  /\ proposals[p].state \in DecidedStates => proposals'[p] = proposals[p]
           /\ proposals'[p].version >= proposals[p].version
           /\ Substance(proposals'[p]) = Substance(proposals[p])
  <1>1. proposals[p] \in Row /\ proposals'[p].version >= proposals[p].version
    BY RowExists, RowsPersist DEF ReviewInv
  <1>2. CASE Quiet
    BY <1>1, <1>2 DEF Quiet
  <1>3. ASSUME NEW r \in Proposals, NEW row \in Row, Drafted(r, row)
        PROVE  proposals'[p] = proposals[p]
    BY <1>3 DEF Drafted, Insert, ReviewInv, TypeOK
  <1>4. ASSUME NEW m \in Movers, CommitMove(m)
        PROVE  /\ proposals[p].state \in DecidedStates => proposals'[p] = proposals[p]
               /\ Substance(proposals'[p]) = Substance(proposals[p])
    <2>1. CASE p = move[m].target
      <3>1. CanProposalTransition(proposals[p].state, move[m].to)
        BY <1>4, <2>1 DEF CommitMove, CasMatches, ReviewInv, SnapshotSound
      <3>2. proposals[p].state \notin DecidedStates
        BY <3>1 DEF CanProposalTransition, ProposalTransitions, DecidedStates
      <3>3. PICK row : row = Moved(proposals[p], move[m])
        OBVIOUS
      <3>4. row.createdBy = proposals[p].createdBy /\ row.parcel = proposals[p].parcel
        BY <1>1, <3>3 DEF Moved, Row
      <3>5. row.base = proposals[p].base /\ row.evidence = proposals[p].evidence
        BY <1>1, <3>3 DEF Moved, Row
      <3>6. proposals'[p] = row
        BY <1>4, <2>1, <3>3 DEF CommitMove, ReviewInv, TypeOK
      <3>7. QED
        BY <3>2, <3>4, <3>5, <3>6 DEF Substance
    <2>2. CASE p # move[m].target
      BY <1>4, <2>2 DEF CommitMove, ReviewInv, TypeOK
    <2>3. QED
      BY <2>1, <2>2
  <1>5. QED
    BY <1>1, <1>2, <1>3, <1>4, StepShape DEF ReviewInv

\* No step changes a decided proposal, takes a version back, or rewrites who proposed
\* what, from which base and on what evidence.
THEOREM DecisionsAreFinal == Spec => DecisionFinal
  <1>1. ReviewInv /\ [Next]_vars =>
          [\A p \in Proposals : Exists(p) =>
             /\ proposals[p].state \in DecidedStates => proposals'[p] = proposals[p]
             /\ proposals'[p].version >= proposals[p].version
             /\ Substance(proposals'[p]) = Substance(proposals[p])]_vars
    BY RowsKeep
  <1>2. QED
    BY <1>1, ReviewInvInductive, PTL DEF Spec, DecisionFinal

\* A step appends at most one entry to a trail and keeps what is in it.
LEMMA TrailGrows ==
    ASSUME ReviewInv, [Next]_vars, NEW p \in Proposals, Exists(p)
    PROVE  /\ Len(trail[p]) \in Nat /\ Len(trail'[p]) \in Nat /\ Len(trail'[p]) >= Len(trail[p])
           /\ \A i \in 1 .. Len(trail[p]) : trail'[p][i] = trail[p][i]
  <1>1. trail[p] \in Seq(Entry)
    BY DEF ReviewInv, TypeOK
  <1>2. CASE trail'[p] = trail[p]
    BY <1>1, <1>2
  <1>3. ASSUME NEW m \in Movers, CommitMove(m), p = move[m].target
        PROVE  /\ Len(trail'[p]) = Len(trail[p]) + 1
               /\ \A i \in 1 .. Len(trail[p]) : trail'[p][i] = trail[p][i]
    <2>1. PICK e : trail'[p] = Append(trail[p], e)
      BY <1>3 DEF CommitMove, ReviewInv, TypeOK
    <2>2. QED
      BY <1>1, <2>1
  <1>4. ASSUME NEW m \in Movers, CommitMove(m), p # move[m].target
        PROVE  trail'[p] = trail[p]
    BY <1>4 DEF CommitMove, ReviewInv, TypeOK
  <1>5. ASSUME NEW r \in Proposals, NEW row \in Row, Drafted(r, row)
        PROVE  trail'[p] = trail[p]
    BY <1>5 DEF Drafted, Insert, ReviewInv, TypeOK
  <1>6. QED
    BY <1>1, <1>2, <1>3, <1>4, <1>5, StepShape DEF Quiet, ReviewInv

LEMMA ReviewerOfRecordKept ==
    ASSUME ReviewInv, ReviewerOfRecord, [Next]_vars
    PROVE  ReviewerOfRecord'
  <1> DEFINE Reviews(t) == {i \in 1 .. Len(t) : t[i].after.state \in ReviewStates}
             OnRecord(row, t) ==
               IF Reviews(t) = {} THEN row.reviewedBy = NoUser
               ELSE \E i \in Reviews(t) : /\ \A j \in Reviews(t) : j <= i
                                          /\ row.reviewedBy = t[i].actor
  <1>1. \A p \in Proposals : proposals[p] # NoRow => OnRecord(proposals[p], trail[p])
    BY DEF ReviewerOfRecord, ReviewMoves, Exists
  <1>2. ASSUME NEW p \in Proposals, NEW row \in Row, Drafted(p, row)
        PROVE  OnRecord(proposals'[p], trail'[p])
    <2>1. PICK e : e = [actor |-> row.createdBy, before |-> Nothing, after |-> SummaryOf(row)]
      OBVIOUS
    <2>2. proposals'[p] = row /\ trail'[p] = <<e>>
      BY <1>2, <2>1 DEF Drafted, Insert, ReviewInv, TypeOK
    <2>3. Len(<<e>>) = 1 /\ <<e>>[1] = e
      OBVIOUS
    <2>4. e.after.state \notin ReviewStates /\ row.reviewedBy = NoUser
      BY <1>2, <2>1 DEF Drafted, SummaryOf, ReviewStates
    <2>5. Reviews(trail'[p]) = {}
      BY <2>2, <2>3, <2>4
    <2>6. QED
      BY <2>2, <2>4, <2>5
  <1>3. ASSUME NEW m \in Movers, CommitMove(m), NEW p \in Proposals, p = move[m].target
        PROVE  OnRecord(proposals'[p], trail'[p])
    <2>1. PICK q \in PassedMove("checked") : q = move[m] /\ proposals[p] \in Row /\ Exists(p)
      BY <1>3, CommitShape DEF ReviewInv
    <2>2. PICK e : e = MoveEntry(q)
      OBVIOUS
    <2>e. e.actor = q.actor /\ e.after.state = q.to
      BY <2>2 DEF MoveEntry
    <2>3. PICK t : t = trail[p] /\ t \in Seq(Entry) /\ Len(t) \in Nat
      BY DEF ReviewInv, TypeOK
    <2>4. proposals'[p] = Moved(proposals[p], q) /\ trail'[p] = Append(t, e)
      BY <1>3, <2>1, <2>2, <2>3 DEF CommitMove, ReviewInv, TypeOK
    <2>5. proposals'[p].reviewedBy = IF q.to \in ReviewStates THEN q.actor
                                     ELSE proposals[p].reviewedBy
      BY <2>1, <2>4 DEF Moved, Row
    <2>6. e \in Entry
      BY <2>1, <2>2, MoveTypeOK DEF ReviewInv
    <2>n. PICK n : n = Append(t, e)
      OBVIOUS
    <2>7. /\ Len(n) = Len(t) + 1 /\ n[Len(t) + 1] = e
          /\ \A i \in 1 .. Len(t) : n[i] = t[i]
      BY <2>3, <2>6, <2>n
    <2>8. OnRecord(proposals[p], t)
      BY <1>1, <2>1, <2>3 DEF Exists
    <2>9. CASE q.to \in ReviewStates
      <3>1. Len(t) + 1 \in Reviews(n) /\ \A j \in Reviews(n) : j <= Len(t) + 1
        BY <2>e, <2>3, <2>7, <2>9
      <3>2. proposals'[p].reviewedBy = n[Len(t) + 1].actor
        BY <2>e, <2>5, <2>7, <2>9
      <3>3. OnRecord(proposals'[p], n)
        BY <3>1, <3>2
      <3>4. QED
        BY <2>4, <2>n, <3>3
    <2>10. CASE q.to \notin ReviewStates
      <3>1. Reviews(n) = Reviews(t)
        BY <2>e, <2>3, <2>7, <2>10
      <3>2. \A i \in Reviews(t) : n[i] = t[i]
        BY <2>7
      <3>3. proposals'[p].reviewedBy = proposals[p].reviewedBy
        BY <2>5, <2>10
      <3>4. OnRecord(proposals'[p], n)
        BY <2>8, <3>1, <3>2, <3>3
      <3>5. QED
        BY <2>4, <2>n, <3>4
    <2>11. QED
      BY <2>9, <2>10
  <1>4. ASSUME NEW p \in Proposals, proposals'[p] # NoRow
        PROVE  OnRecord(proposals'[p], trail'[p])
    <2>1. CASE proposals'[p] = proposals[p] /\ trail'[p] = trail[p]
      BY <1>1, <1>4, <2>1
    <2>2. ASSUME NEW r \in Proposals, NEW row \in Row, Drafted(r, row), r # p
          PROVE  proposals'[p] = proposals[p] /\ trail'[p] = trail[p]
      BY <2>2 DEF Drafted, Insert, ReviewInv, TypeOK
    <2>3. ASSUME NEW m \in Movers, CommitMove(m), p # move[m].target
          PROVE  proposals'[p] = proposals[p] /\ trail'[p] = trail[p]
      BY <2>3 DEF CommitMove, ReviewInv, TypeOK
    <2>4. CASE Quiet
      BY <2>1, <2>4 DEF Quiet
    <2> HIDE DEF OnRecord
    <2>5. QED
      BY <1>2, <1>3, <2>1, <2>2, <2>3, <2>4, StepShape DEF ReviewInv
  <1>5. QED
    BY <1>4 DEF ReviewerOfRecord, ReviewMoves, Exists

\* reviewed_by is always the actor of the latest review move of the trail.
THEOREM ReviewerIsRecorded == Spec => []ReviewerOfRecord
  <1>1. Init => ReviewerOfRecord
    BY DEF Init, ReviewerOfRecord, Exists
  <1>2. ReviewInv /\ ReviewerOfRecord /\ [Next]_vars => ReviewerOfRecord'
    BY ReviewerOfRecordKept
  <1>3. QED
    BY <1>1, <1>2, ReviewInvInductive, PTL DEF Spec

-----------------------------------------------------------------------------
(* Acknowledged moves.  The row has moved on from the version each of them saw, so the *)
(* next one to commit saw another.                                                    *)

AcknowledgedSound ==
    /\ AcknowledgedIsRecorded
    /\ \A m \in Movers : Acknowledged(m) =>
         /\ move[m].target \in Proposals /\ Exists(move[m].target)
         /\ move[m].seen.version \in Nat
         /\ move[m].seen.version < proposals[move[m].target].version

Recorded(q) ==
    /\ \E i \in 2 .. Len(trail[q.target]) : trail[q.target][i] = MoveEntry(q)
    /\ q.target \in Proposals /\ Exists(q.target)
    /\ q.seen.version \in Nat /\ q.seen.version < proposals[q.target].version

LEMMA RecordedKept ==
    ASSUME ReviewInv, [Next]_vars, NEW q, Recorded(q)
    PROVE  Recorded(q)'
  <1>1. PICK p \in Proposals : p = q.target /\ Exists(p) /\ proposals[p] \in Row
    BY RowExists DEF Recorded, ReviewInv
  <1>2. PICK i \in 2 .. Len(trail[p]) : trail[p][i] = MoveEntry(q)
    BY <1>1 DEF Recorded
  <1>3. /\ proposals'[p] # NoRow /\ proposals'[p].version >= proposals[p].version
        /\ proposals'[p] \in Row
    BY <1>1, RowsPersist, TypeStep DEF ReviewInv, TypeOK
  <1>4. i \in 2 .. Len(trail'[p]) /\ trail'[p][i] = MoveEntry(q)
    BY <1>1, <1>2, TrailGrows
  <1>5. q.seen.version < proposals'[p].version
    <2>1. proposals[p].version \in Nat /\ proposals'[p].version \in Nat
      BY <1>1, <1>3 DEF Row
    <2>2. QED
      BY <1>1, <1>3, <2>1 DEF Recorded
  <1>6. QED
    BY <1>1, <1>3, <1>4, <1>5 DEF Recorded, Exists, MoveEntry

LEMMA CommitRecorded ==
    ASSUME ReviewInv, NEW m \in Movers, CommitMove(m), NEW a, a = move'[m]
    PROVE  /\ Recorded(a)' /\ a.phase = "answered" /\ move[m].phase = "checked"
           /\ a.target = move[m].target
           /\ a.seen.version = proposals[move[m].target].version
  <1>1. PICK q \in PassedMove("checked"), p \in Proposals :
           /\ q = move[m] /\ p = q.target /\ proposals[p] \in Row /\ Exists(p)
           /\ q.seen = SummaryOf(proposals[p])
    BY CommitShape DEF ReviewInv
  <1>2. a = [q EXCEPT !.phase = "answered", !.status = 200] /\ q.phase = "checked"
    BY <1>1 DEF CommitMove, ReviewInv, TypeOK
  <1>3. a.target = p /\ a.seen = q.seen /\ a.actor = q.actor /\ a.to = q.to
    BY <1>1, <1>2 DEF PassedMove
  <1>4. a.phase = "answered"
    BY <1>1, <1>2 DEF PassedMove
  <1>5. PICK t : t = trail[p] /\ t \in Seq(Entry) /\ Len(t) \in Nat /\ t # <<>> /\ Len(t) >= 1
    BY <1>1 DEF ReviewInv, TypeOK, TrailExplainsRow
  <1>6. PICK e \in Entry : e = MoveEntry(q) /\ MoveEntry(a) = e
    BY <1>1, <1>3, MoveTypeOK DEF ReviewInv, MoveEntry
  <1>7. trail'[p] = Append(t, e)
    BY <1>1, <1>5, <1>6 DEF CommitMove, ReviewInv, TypeOK
  <1>8. Len(trail'[p]) = Len(t) + 1 /\ trail'[p][Len(t) + 1] = e
    BY <1>5, <1>7
  <1>9. Len(t) + 1 \in 2 .. Len(trail'[p])
    BY <1>5, <1>8
  <1>10. proposals'[p].version = proposals[p].version + 1 /\ proposals[p].version \in Nat
         /\ proposals'[p] # NoRow
    <2>1. PICK row : row = Moved(proposals[p], q)
      OBVIOUS
    <2>2. row.version = proposals[p].version + 1
      BY <1>1, <2>1 DEF Moved, Row
    <2>r. row \in Row
      BY <1>1, <2>1, MoveTypeOK DEF ReviewInv
    <2>3. proposals'[p] = row
      BY <1>1, <2>1 DEF CommitMove, ReviewInv, TypeOK
    <2>4. QED
      BY <1>1, <2>2, <2>r, <2>3, NoRowIsNotARow DEF Row
  <1>11. a.seen.version = proposals[p].version
    BY <1>1, <1>3 DEF SummaryOf
  <1>12. Recorded(a)'
    BY <1>3, <1>6, <1>8, <1>9, <1>10, <1>11 DEF Recorded, Exists, MoveEntry
  <1>13. QED
    BY <1>1, <1>2, <1>3, <1>4, <1>11, <1>12

LEMMA AcknowledgedSoundKept ==
    ASSUME ReviewInv, AcknowledgedSound, [Next]_vars
    PROVE  AcknowledgedSound'
  <1>1. ASSUME NEW m \in Movers, Acknowledged(m)
        PROVE  Recorded(move[m])
    BY <1>1 DEF AcknowledgedSound, AcknowledgedIsRecorded, Recorded
  <1>2. ASSUME NEW m \in Movers, Acknowledged(m)'
        PROVE  (Acknowledged(m) /\ move'[m] = move[m]) \/ CommitMove(m)
    <2>1. CASE move'[m] = move[m]
      BY <1>2, <2>1 DEF Acknowledged
    <2>2. ASSUME NEW n \in Movers, MoveStep(n), move'[m] # move[m]
          PROVE  CommitMove(m)
      <3>1. n = m
        BY <2>2 DEF MoveStep, CheckMove, RefuseStaleMove, CommitMove, AbortMove, FinishMove,
                    ReviewInv, TypeOK
      <3>2. \A status : AnsweredMove(status).status = status
        BY DEF AnsweredMove, IdleMove
      <3>3. ASSUME NEW u \in Users, NEW p \in Proposals, NEW to \in ProposalStates,
                   NEW v \in ClaimedVersions, CheckMove(m, u, p, to, v)
            PROVE  FALSE
        <4>1. PICK c : c.phase = "checked"
                 /\ move' = [move EXCEPT ![m] = IF MoveVerdict(u, proposals[p], to) # 200
                                                THEN AnsweredMove(MoveVerdict(u, proposals[p], to))
                                                ELSE c]
          <5>1. PICK c : c = [phase |-> "checked", status |-> 0, actor |-> u, target |-> p,
                              to |-> to, claimed |-> v, seen |-> SummaryOf(proposals[p]),
                              author |-> proposals[p].createdBy]
            OBVIOUS
          <5>2. QED
            BY <3>3, <5>1 DEF CheckMove
        <4>2. move'[m] = c \/ \E status : status # 200 /\ move'[m] = AnsweredMove(status)
          BY <4>1 DEF ReviewInv, TypeOK
        <4>3. QED
          BY <1>2, <3>2, <4>1, <4>2 DEF Acknowledged
      <3>4. CASE RefuseStaleMove(m) \/ AbortMove(m)
        <4>1. move'[m] = AnsweredMove(409)
          BY <3>4 DEF RefuseStaleMove, AbortMove, ReviewInv, TypeOK
        <4>2. QED
          BY <1>2, <3>2, <4>1 DEF Acknowledged
      <3>5. CASE FinishMove(m)
        BY <1>2, <3>5 DEF FinishMove, IdleMove, Acknowledged, ReviewInv, TypeOK
      <3>6. QED
        BY <2>2, <3>1, <3>3, <3>4, <3>5 DEF MoveStep
    <2>3. CASE Crash
      BY <1>2, <2>3 DEF Crash, IdleMove, Acknowledged
    <2>4. ASSUME NEW c \in Creators, CreationStep(c)
          PROVE  UNCHANGED move
      BY <2>4 DEF CreationStep, BeginCreation, CheckEvidence, CommitCreation, AbortCreation,
                  FinishCreation
    <2>5. CASE Env \/ UNCHANGED vars
      BY <2>1, <2>5 DEF Env, ParcelCommitted, ObservationImported, ProposalDerived, vars
    <2>6. QED
      BY <2>1, <2>2, <2>3, <2>4, <2>5 DEF Next, Step
  <1>3. ASSUME NEW m \in Movers, Acknowledged(m)', NEW a, a = move'[m]
        PROVE  Recorded(a)'
    <2>1. CASE Acknowledged(m) /\ move'[m] = move[m]
      <3>1. Recorded(a)
        BY <1>1, <1>3, <2>1
      <3>2. QED
        BY <3>1, RecordedKept
    <2>2. CASE CommitMove(m)
      BY <1>3, <2>2, CommitRecorded
    <2>3. QED
      BY <1>2, <1>3, <2>1, <2>2
  <1>4. ASSUME NEW m \in Movers, NEW n \in Movers, n # m, CommitMove(m), Acknowledged(n)',
               NEW a, a = move'[m], NEW b, b = move'[n], b.target = a.target
        PROVE  b.seen.version # a.seen.version
    <2>1. ~CommitMove(n)
      <3>1. move'[n] = move[n]
        BY <1>4 DEF CommitMove, ReviewInv, TypeOK
      <3>2. CommitMove(n) => b.phase = "answered" /\ move[n].phase = "checked"
        BY <1>4, CommitRecorded
      <3>3. QED
        BY <1>4, <3>1, <3>2
    <2>2. Acknowledged(n) /\ b = move[n]
      BY <1>2, <1>4, <2>1
    <2>3. Recorded(b)
      BY <1>1, <2>2
    <2>4. b.seen.version \in Nat /\ b.seen.version < proposals[b.target].version
      BY <2>3 DEF Recorded
    <2>5. a.seen.version = proposals[b.target].version
      BY <1>4, CommitRecorded
    <2>6. QED
      BY <2>4, <2>5
  <1>5. ASSUME NEW m \in Movers, NEW n \in Movers, n # m, Acknowledged(m)', Acknowledged(n)',
               NEW a, a = move'[m], NEW b, b = move'[n], b.target = a.target
        PROVE  b.seen.version # a.seen.version
    <2>1. CASE CommitMove(m) \/ CommitMove(n)
      BY <1>4, <1>5, <2>1
    <2>2. CASE ~CommitMove(m) /\ ~CommitMove(n)
      BY <1>2, <1>5, <2>2 DEF AcknowledgedSound, AcknowledgedIsRecorded
    <2>3. QED
      BY <2>1, <2>2
  <1>6. ASSUME NEW m \in Movers, Acknowledged(m)'
        PROVE  /\ \E i \in 2 .. Len(trail'[move'[m].target]) :
                    trail'[move'[m].target][i] = MoveEntry(move'[m])
               /\ move'[m].target \in Proposals /\ proposals'[move'[m].target] # NoRow
               /\ move'[m].seen.version \in Nat
               /\ move'[m].seen.version < proposals'[move'[m].target].version
    <2>1. PICK a : a = move'[m] /\ Recorded(a)'
      BY <1>3, <1>6
    <2>2. QED
      BY <2>1 DEF Recorded, Exists, MoveEntry
  <1>7. \A m \in Movers : Acknowledged(m)' =>
          \A n \in Movers \ {m} :
             Acknowledged(n)' /\ move'[n].target = move'[m].target
                => move'[n].seen.version # move'[m].seen.version
    BY <1>5
  <1>8. QED
    BY <1>6, <1>7 DEF AcknowledgedSound, AcknowledgedIsRecorded, Exists, MoveEntry

\* A move that was answered 200 is in the trail as its client saw it, and of the moves
\* that saw one version at most one is answered 200.
THEOREM AcknowledgedMovesCount == Spec => []AcknowledgedIsRecorded
  <1>1. Init => AcknowledgedSound
    BY DEF Init, AcknowledgedSound, AcknowledgedIsRecorded, Acknowledged, IdleMove
  <1>2. ReviewInv /\ AcknowledgedSound /\ [Next]_vars => AcknowledgedSound'
    BY AcknowledgedSoundKept
  <1>3. AcknowledgedSound => AcknowledgedIsRecorded
    BY DEF AcknowledgedSound
  <1>4. QED
    BY <1>1, <1>2, <1>3, ReviewInvInductive, PTL DEF Spec

-----------------------------------------------------------------------------
(* Evidence and base.  What a creation has compared so far stays as it found it: *)
(* parcel_id is written once and versions only grow.                             *)

Cites(parcel, base, evidence) ==
    /\ base \in 1 .. parcelVersion[parcel]
    /\ \A o \in evidence : home[o] = parcel

CitesSound ==
    /\ \A p \in Proposals : Exists(p) =>
         Cites(proposals[p].parcel, proposals[p].base, proposals[p].evidence)
    /\ \A c \in Creators : creation[c].phase = "checked" =>
         Cites(creation[c].parcel, creation[c].base, creation[c].evidence \ creation[c].todo)

LEMMA CitesKept ==
    ASSUME TypeOK, [Next]_vars, NEW x \in Parcels, NEW base, NEW evidence \in SUBSET Observations,
           Cites(x, base, evidence)
    PROVE  Cites(x, base, evidence)'
  <1>1. parcelVersion[x] \in Nat
    BY DEF TypeOK
  <1>2. CASE UNCHANGED <<parcelVersion, home>>
    BY <1>2 DEF Cites
  <1>3. ASSUME NEW y \in Parcels, ParcelCommitted(y)
        PROVE  Cites(x, base, evidence)'
    <2>1. parcelVersion'[x] \in {parcelVersion[x], parcelVersion[x] + 1} /\ home' = home
      BY <1>3 DEF ParcelCommitted, TypeOK
    <2>2. QED
      BY <1>1, <2>1 DEF Cites
  <1>4. ASSUME NEW o \in Observations, NEW y \in Parcels, ObservationImported(o, y)
        PROVE  Cites(x, base, evidence)'
    <2>1. /\ parcelVersion' = parcelVersion /\ home[o] = NoParcel
          /\ \A n \in Observations : n # o => home'[n] = home[n]
      BY <1>4 DEF ObservationImported, TypeOK
    <2>2. o \notin evidence
      BY <2>1, Identifiers DEF Cites
    <2>3. QED
      BY <2>1, <2>2 DEF Cites
  <1>5. ASSUME NEW m \in Movers, MoveStep(m)
        PROVE  UNCHANGED <<parcelVersion, home>>
    BY <1>5 DEF MoveStep, CheckMove, RefuseStaleMove, CommitMove, AbortMove, FinishMove
  <1>6. ASSUME NEW c \in Creators, CreationStep(c)
        PROVE  UNCHANGED <<parcelVersion, home>>
    BY <1>6 DEF CreationStep, BeginCreation, CheckEvidence, CommitCreation, AbortCreation,
                FinishCreation
  <1>7. CASE Env
    BY <1>2, <1>3, <1>4, <1>7 DEF Env, ProposalDerived
  <1>8. CASE Crash \/ UNCHANGED vars
    BY <1>2, <1>8 DEF Crash, vars
  <1>9. QED
    BY <1>2, <1>5, <1>6, <1>7, <1>8 DEF Next, Step

\* Whatever inserts a proposal has compared what it cites.
LEMMA InsertedCites ==
    ASSUME TypeOK, CitesSound, [Next]_vars, NEW p \in Proposals, ~Exists(p), proposals'[p] # NoRow,
           NEW row, row = proposals'[p]
    PROVE  Cites(row.parcel, row.base, row.evidence)
  <1>1. ASSUME NEW c \in Creators, NEW r \in Proposals, CommitCreation(c, r)
        PROVE  Cites(row.parcel, row.base, row.evidence)
    <2>1. row = NewRow(creation[c])
      BY <1>1 DEF CommitCreation, Insert, TypeOK, Exists
    <2>2. /\ row.parcel = creation[c].parcel /\ row.base = creation[c].base
          /\ row.evidence = creation[c].evidence
      BY <2>1 DEF NewRow
    <2>3. Cites(creation[c].parcel, creation[c].base, creation[c].evidence \ {})
      BY <1>1 DEF CommitCreation, CitesSound
    <2>4. QED
      BY <2>2, <2>3 DEF Cites
  <1>2. ASSUME NEW r \in Proposals, NEW source \in Proposals, NEW u \in Users,
               NEW v \in 2 .. MaxVersion, NEW base \in 1 .. MaxParcelVersion,
               ProposalDerived(r, source, u, v, base)
        PROVE  Cites(row.parcel, row.base, row.evidence)
    <2>1. PICK d : d = [state |-> "draft", version |-> v, createdBy |-> u,
                        reviewedBy |-> NoUser, parcel |-> proposals[source].parcel,
                        base |-> base, evidence |-> proposals[source].evidence]
      OBVIOUS
    <2>2. row = d
      BY <1>2, <2>1 DEF ProposalDerived, Insert, TypeOK, Exists
    <2>3. /\ row.parcel = proposals[source].parcel /\ row.base = base
          /\ row.evidence = proposals[source].evidence
      BY <2>1, <2>2
    <2>4. Cites(proposals[source].parcel, proposals[source].base, proposals[source].evidence)
      BY <1>2 DEF ProposalDerived, CitesSound
    <2>5. base \in 1 .. parcelVersion[proposals[source].parcel]
      BY <1>2 DEF ProposalDerived
    <2>6. QED
      BY <2>3, <2>4, <2>5 DEF Cites
  <1>3. ASSUME UNCHANGED proposals
        PROVE  FALSE
    BY <1>3 DEF Exists
  <1>4. ASSUME NEW m \in Movers, MoveStep(m)
        PROVE  FALSE
    <2>1. CommitMove(m)
      BY <1>3, <1>4 DEF MoveStep, CheckMove, RefuseStaleMove, AbortMove, FinishMove
    <2>2. p = move[m].target
      BY <2>1 DEF CommitMove, TypeOK, Exists
    <2>3. QED
      BY <2>1, <2>2, CommitShape
  <1>5. ASSUME NEW c \in Creators, CreationStep(c)
        PROVE  Cites(row.parcel, row.base, row.evidence)
    BY <1>1, <1>3, <1>5 DEF CreationStep, BeginCreation, CheckEvidence, AbortCreation, FinishCreation
  <1>6. CASE Env
    BY <1>2, <1>3, <1>6 DEF Env, ParcelCommitted, ObservationImported
  <1>7. CASE Crash \/ UNCHANGED vars
    BY <1>3, <1>7 DEF Crash, vars
  <1>8. QED
    BY <1>4, <1>5, <1>6, <1>7 DEF Next, Step

\* What creations know after a step is known about the tables before it.
LEMMA CreationCites ==
    ASSUME TypeOK, CitesSound, [Next]_vars, NEW c \in Creators, NEW n, n = creation'[c],
           n.phase = "checked"
    PROVE  Cites(n.parcel, n.base, n.evidence \ n.todo)
  <1>1. ASSUME creation'[c] = creation[c]
        PROVE  Cites(n.parcel, n.base, n.evidence \ n.todo)
    BY <1>1 DEF CitesSound
  <1>2. \A status : AnsweredCreation(status).phase = "answered"
    BY DEF AnsweredCreation, IdleCreation
  <1>3. ASSUME NEW d \in Creators, CreationStep(d), creation'[c] # creation[c]
        PROVE  Cites(n.parcel, n.base, n.evidence \ n.todo)
    <2>1. d = c
      BY <1>3 DEF CreationStep, BeginCreation, CheckEvidence, CommitCreation, AbortCreation,
                  FinishCreation, TypeOK
    <2>2. ASSUME NEW u \in Users, NEW x \in Parcels, NEW base \in 1 .. MaxParcelVersion,
                 NEW evidence \in SUBSET Observations, NEW valid \in BOOLEAN,
                 BeginCreation(c, u, x, base, evidence, valid)
          PROVE  Cites(n.parcel, n.base, n.evidence \ n.todo)
      <3>1. PICK k : k = [phase |-> "checked", status |-> 0, actor |-> u, parcel |-> x,
                          base |-> base, evidence |-> evidence, todo |-> evidence]
        OBVIOUS
      <3>2. PICK verdict : verdict = CreationVerdict(u, x, base, valid)
        OBVIOUS
      <3>3. creation' = [creation EXCEPT ![c] = IF verdict # 201 THEN AnsweredCreation(verdict)
                                               ELSE k]
        BY <2>2, <3>1, <3>2 DEF BeginCreation
      <3>4. n = k /\ verdict = 201
        BY <1>2, <3>3 DEF TypeOK
      <3>5. base = parcelVersion[x]
        BY <3>2, <3>4 DEF CreationVerdict
      <3>6. n.parcel = x /\ n.base = base /\ n.evidence \ n.todo = {}
        BY <3>1, <3>4
      <3>7. QED
        BY <3>5, <3>6 DEF Cites, TypeOK
    <2>3. ASSUME NEW o \in Observations, CheckEvidence(c, o)
          PROVE  Cites(n.parcel, n.base, n.evidence \ n.todo)
      <3>1. PICK q \in CheckedCreation : q = creation[c] /\ q.phase = "checked"
        BY <2>3, CheckedCreationShape DEF CheckEvidence, TypeOK
      <3>2. creation' = [creation EXCEPT ![c] =
              IF EvidenceFits(o, q.parcel) THEN Cleared(q, o) ELSE AnsweredCreation(400)]
        BY <2>3, <3>1 DEF CheckEvidence, TypeOK
      <3>3. n = Cleared(q, o) /\ EvidenceFits(o, q.parcel)
        BY <1>2, <3>2 DEF TypeOK
      <3>4. /\ n.parcel = q.parcel /\ n.base = q.base
            /\ n.evidence = q.evidence /\ n.todo = q.todo \ {o}
        BY <3>1, <3>3 DEF Cleared, CheckedCreation
      <3>5. Cites(q.parcel, q.base, q.evidence \ q.todo)
        BY <3>1 DEF CitesSound
      <3>6. QED
        BY <3>3, <3>4, <3>5 DEF Cites, EvidenceFits
    <2>4. ASSUME NEW status \in {201, 500}, creation' = [creation EXCEPT ![c] = AnsweredCreation(status)]
          PROVE  FALSE
      BY <1>2, <2>4 DEF TypeOK
    <2>5. CASE (\E r \in Proposals : CommitCreation(c, r)) \/ AbortCreation(c)
      BY <2>4, <2>5 DEF CommitCreation, AbortCreation
    <2>6. CASE FinishCreation(c)
      BY <2>6 DEF FinishCreation, IdleCreation, TypeOK
    <2>7. QED
      BY <1>3, <2>1, <2>2, <2>3, <2>5, <2>6 DEF CreationStep
  <1>4. ASSUME NEW m \in Movers, MoveStep(m)
        PROVE  creation' = creation
    BY <1>4 DEF MoveStep, CheckMove, RefuseStaleMove, CommitMove, AbortMove, FinishMove
  <1>5. CASE Env \/ UNCHANGED vars
    BY <1>1, <1>5 DEF Env, ParcelCommitted, ObservationImported, ProposalDerived, vars
  <1>6. CASE Crash
    BY <1>6 DEF Crash, IdleCreation
  <1>7. QED
    BY <1>1, <1>3, <1>4, <1>5, <1>6 DEF Next, Step

LEMMA CitesSoundKept ==
    ASSUME ReviewInv, CitesSound, [Next]_vars
    PROVE  CitesSound'
  <1>1. TypeOK /\ TypeOK'
    BY TypeStep DEF ReviewInv
  <1>2. ASSUME NEW p \in Proposals, proposals'[p] # NoRow, NEW row, row = proposals'[p]
        PROVE  Cites(row.parcel, row.base, row.evidence)'
    <2>1. row.parcel \in Parcels /\ row.evidence \in SUBSET Observations
      BY <1>1, <1>2 DEF TypeOK, Row
    <2>2. Cites(row.parcel, row.base, row.evidence)
      <3>1. CASE Exists(p)
        <4>1. /\ row.parcel = proposals[p].parcel /\ row.base = proposals[p].base
              /\ row.evidence = proposals[p].evidence
          BY <1>2, <3>1, RowsKeep DEF Substance
        <4>2. QED
          BY <3>1, <4>1 DEF CitesSound
      <3>2. CASE ~Exists(p)
        BY <1>1, <1>2, <3>2, InsertedCites
      <3>3. QED
        BY <3>1, <3>2
    <2>3. QED
      BY <1>1, <2>1, <2>2, CitesKept
  <1>3. ASSUME NEW c \in Creators, NEW n, n = creation'[c], n.phase = "checked"
        PROVE  Cites(n.parcel, n.base, n.evidence \ n.todo)'
    <2>1. Cites(n.parcel, n.base, n.evidence \ n.todo)
      BY <1>1, <1>3, CreationCites
    <2>2. n \in CheckedCreation
      BY <1>1, <1>3, CheckedCreationShape DEF TypeOK
    <2>3. n.parcel \in Parcels /\ n.evidence \ n.todo \in SUBSET Observations
      BY <2>2 DEF CheckedCreation
    <2>4. QED
      BY <1>1, <2>1, <2>3, CitesKept
  <1>4. QED
    BY <1>2, <1>3 DEF CitesSound, Cites, Exists

LEMMA CitesInvariant == Spec => []CitesSound
  <1>1. Init => CitesSound
    BY DEF Init, CitesSound, Exists, IdleCreation
  <1>2. ReviewInv /\ CitesSound /\ [Next]_vars => CitesSound'
    BY CitesSoundKept
  <1>3. QED
    BY <1>1, <1>2, ReviewInvInductive, PTL DEF Spec

\* Whatever is imported while a creation reads its evidence, and whoever derives from
\* whom, a proposal cites only observations of its own parcel.
THEOREM EvidenceIsOfTheParcel == Spec => []EvidenceOnParcel
  <1>1. CitesSound => EvidenceOnParcel
    BY DEF CitesSound, Cites, EvidenceOnParcel
  <1>2. QED
    BY <1>1, CitesInvariant, PTL

\* The base of a proposal is a version its parcel has had, however parcels move on.
THEOREM BasesExisted == Spec => []BaseVersionExisted
  <1>1. CitesSound => BaseVersionExisted
    BY DEF CitesSound, Cites, BaseVersionExisted
  <1>2. QED
    BY <1>1, CitesInvariant, PTL
=============================================================================
