---------------------- MODULE ConflictResolution_proofs ----------------------
(***************************************************************************)
(* Theorems about ConflictResolution, for any accounts, parcels, proposals *)
(* and conflicts, any number of concurrent reviews and applies, and any    *)
(* bounds.                                                                 *)
(***************************************************************************)
EXTENDS ConflictResolution, TLAPS

Settled == {"resolved", "closed"}

OpenPhases == {"proposal", "parcel", "ready"}

LEMMA DetectedRow ==
    ASSUME TypeOK, NEW k \in Conflicts
    PROVE  /\ Detected(k) <=> conflicts[k] \in ConflictRow
           /\ Detected(k) <=> conflicts[k].state # "none"
           /\ conflicts[k].state \in ConflictStates \cup {"none"}
           /\ Detected(k) => conflicts[k].state \in ConflictStates
           /\ Detected(k) => conflicts[k].proposal \in Proposals
  <1>1. conflicts[k] \in ConflictRow \cup {NoRow}
    BY DEF TypeOK
  <1>2. NoRow.state = "none" /\ "none" \notin ConflictStates
    BY DEF NoRow, ConflictStates
  <1>3. \A row \in ConflictRow : row.state \in ConflictStates /\ row.proposal \in Proposals
    BY DEF ConflictRow
  <1>4. QED
    BY <1>1, <1>2, <1>3 DEF Detected

LEMMA StoredRow ==
    ASSUME TypeOK, NEW p \in Proposals
    PROVE  /\ Stored(p) <=> proposals[p] \in ProposalRow
           /\ ~Stored(p) => proposals[p].source = NoConflict
  <1>1. proposals[p] \in ProposalRow \cup {NoDraft}
    BY DEF TypeOK
  <1>2. NoDraft.version = 0 /\ NoDraft.source = NoConflict
    BY DEF NoDraft
  <1>3. \A row \in ProposalRow : row.version # 0
    BY DEF ProposalRow
  <1>4. QED
    BY <1>1, <1>2, <1>3 DEF Stored

ApplyPhases == {"idle", "proposal", "parcel", "ready", "answered"}

ApplyStatuses == {0, 201, 403, 404, 409, 500}

LEMMA ApplyFields ==
    ApplyRequest =
      [phase : ApplyPhases, status : ApplyStatuses, actor : Users \cup {NoUser},
       conflict : Conflicts \cup {NoConflict}, version : Nat, base : Nat,
       draft : Proposals \cup {NoProposal}]
  BY DEF ApplyRequest, ApplyPhases, ApplyStatuses

ReviewPhases == {"idle", "checked", "answered"}

ReviewStatuses == {0, 200, 403, 404, 409}

LEMMA ReviewFields ==
    ReviewRequest =
      [phase : ReviewPhases, status : ReviewStatuses, actor : Users \cup {NoUser},
       conflict : Conflicts \cup {NoConflict}, to : ConflictStates \cup {"none"},
       seen : ConflictStates \cup {"none"}]
  BY DEF ReviewRequest, ReviewPhases, ReviewStatuses

LEMMA QuietRequests ==
    /\ IdleReview \in ReviewRequest /\ IdleReview.phase = "idle"
    /\ IdleApply \in ApplyRequest /\ IdleApply.phase = "idle"
    /\ \A status \in ReviewStatuses :
          AnsweredReview(status) \in ReviewRequest /\ AnsweredReview(status).phase = "answered"
    /\ \A status \in ApplyStatuses :
          /\ AnsweredApply(status) \in ApplyRequest /\ AnsweredApply(status).phase = "answered"
          /\ AnsweredApply(status).status = status
  <1>1. IdleReview \in ReviewRequest /\ IdleReview.phase = "idle"
    BY DEF IdleReview, ReviewRequest
  <1>2. IdleApply \in ApplyRequest /\ IdleApply.phase = "idle"
    BY DEF IdleApply, ApplyRequest
  <1>3. ASSUME NEW status \in ReviewStatuses
        PROVE  AnsweredReview(status) \in ReviewRequest /\ AnsweredReview(status).phase = "answered"
    <2>0. "answered" \in ReviewPhases
      BY DEF ReviewPhases
    <2>1. AnsweredReview(status) \in ReviewRequest
      BY <1>1, <2>0, ReviewFields DEF AnsweredReview
    <2>2. AnsweredReview(status).phase = "answered"
      BY <1>1, ReviewFields DEF AnsweredReview
    <2>3. QED
      BY <2>1, <2>2
  <1>4. ASSUME NEW status \in ApplyStatuses
        PROVE  /\ AnsweredApply(status) \in ApplyRequest /\ AnsweredApply(status).phase = "answered"
               /\ AnsweredApply(status).status = status
    <2>0. "answered" \in ApplyPhases
      BY DEF ApplyPhases
    <2>1. AnsweredApply(status) \in ApplyRequest
      BY <1>2, <2>0, ApplyFields DEF AnsweredApply
    <2>2. AnsweredApply(status).phase = "answered"
      BY <1>2, ApplyFields DEF AnsweredApply
    <2>3. AnsweredApply(status).status = status
      BY <1>2, ApplyFields DEF AnsweredApply
    <2>4. QED
      BY <2>1, <2>2, <2>3
  <1>5. QED
    BY <1>1, <1>2, <1>3, <1>4

LEMMA AppliedShape ==
    ASSUME NEW k \in Conflicts, NEW p \in Proposals
    PROVE  /\ AppliedAs(k, p) \in ApplyRequest /\ AppliedAs(k, p).phase = "answered"
           /\ AppliedAs(k, p).conflict = k /\ AppliedAs(k, p).draft = p
  <1>1. PICK q \in ApplyRequest : q = AnsweredApply(201) /\ q.phase = "answered"
    <2>1. 201 \in ApplyStatuses
      BY DEF ApplyStatuses
    <2>2. QED
      BY <2>1, QuietRequests
  <1>2. AppliedAs(k, p) \in ApplyRequest
    <2>1. [q EXCEPT !.conflict = k] \in ApplyRequest
      BY ApplyFields
    <2>2. [[q EXCEPT !.conflict = k] EXCEPT !.draft = p] \in ApplyRequest
      BY <2>1, ApplyFields
    <2>3. QED
      BY <1>1, <2>2 DEF AppliedAs
  <1>3. AppliedAs(k, p).phase = "answered"
    BY <1>1, ApplyFields DEF AppliedAs
  <1>4. AppliedAs(k, p).conflict = k
    BY <1>1, ApplyFields DEF AppliedAs
  <1>5. AppliedAs(k, p).draft = p
    BY <1>1, ApplyFields DEF AppliedAs
  <1>6. QED
    BY <1>2, <1>3, <1>4, <1>5

LEMMA SettledStays ==
    \A from, to : CanConflictTransition(from, to) =>
        /\ from \in ConflictStates /\ to \in ConflictStates /\ from # to
        /\ from \in Settled => to \in Settled
  BY DEF CanConflictTransition, ConflictTransitions, ConflictStates, Settled

LEMMA Grown ==
    ASSUME NEW S, NEW s \in Seq(S), NEW e \in S
    PROVE  /\ Append(s, e) \in Seq(S)
           /\ Len(Append(s, e)) = Len(s) + 1
           /\ Append(s, e)[Len(s) + 1] = e
           /\ \A i \in 1 .. Len(s) : Append(s, e)[i] = s[i]
  OBVIOUS

-----------------------------------------------------------------------------
(* The inductive invariant.  Whoever is between its reads and its write knows that   *)
(* the conflict is there and that its own role may review; what an apply has read of *)
(* the proposal and the parcel are versions they have had.  A conflict a proposal was *)
(* derived from is settled, so nobody derives another.                               *)
ReviewSound(q) ==
    q.phase = "checked" =>
        /\ q.actor \in Users /\ RoleOf[q.actor] \in ConflictReviewRoles
        /\ q.conflict \in Conflicts /\ Detected(q.conflict)
        /\ CanConflictTransition(q.seen, q.to)

ApplySound(q) ==
    LET source == proposals[conflicts[q.conflict].proposal]
    IN  /\ q.phase \in OpenPhases =>
             /\ q.actor \in Users /\ RoleOf[q.actor] \in ConflictReviewRoles
             /\ q.conflict \in Conflicts /\ Detected(q.conflict)
        /\ q.phase \in {"parcel", "ready"} =>
             q.version >= source.first /\ q.version <= source.version
        /\ q.phase = "ready" => q.base \in 1 .. parcelVersion[source.parcel]
        /\ q.phase = "answered" /\ q.status = 201 =>
             /\ q.conflict \in Conflicts /\ q.draft \in Proposals
             /\ Detected(q.conflict) /\ conflicts[q.conflict].state \in Settled
             /\ Stored(q.draft) /\ proposals[q.draft].source = q.conflict
             /\ proposals[q.draft].parcel = source.parcel

RequestsSound ==
    /\ \A r \in Reviewers : ReviewSound(review[r])
    /\ \A a \in Appliers : ApplySound(apply[a])

RowsSound ==
    /\ \A k \in Conflicts : Detected(k) => Stored(conflicts[k].proposal)
    /\ \A p \in Proposals : Stored(p) =>
         /\ proposals[p].first <= proposals[p].version
         /\ proposals[p].source \in Conflicts =>
              Detected(proposals[p].source) /\ conflicts[proposals[p].source].state \in Settled

Inv ==
    /\ TypeOK
    /\ TrailExplainsConflict
    /\ ResolverOfRecord
    /\ AppliedAtMostOnce
    /\ DraftContinuesItsSource
    /\ RowsSound
    /\ RequestsSound

LEMMA InitInv == Init => Inv
  <1> SUFFICES ASSUME Init
               PROVE  Inv
    OBVIOUS
  <1>1. TypeOK
    BY QuietRequests, Bounds DEF Init, TypeOK
  <1>2. /\ \A k \in Conflicts : ~Detected(k) /\ trail[k] = <<>> /\ conflicts[k] = NoRow
        /\ \A p \in Proposals : ~Stored(p) /\ proposals[p].source = NoConflict
    BY DEF Init, Detected, Stored, NoDraft
  <1>3. TrailExplainsConflict
    BY <1>2 DEF TrailExplainsConflict
  <1>4. ResolverOfRecord
    <2>1. \A k \in Conflicts : Resolutions(k) = {} /\ conflicts[k].resolvedBy = NoUser
      BY <1>2 DEF Resolutions, NoRow
    <2>2. QED
      BY <2>1 DEF ResolverOfRecord
  <1>5. AppliedAtMostOnce /\ DraftContinuesItsSource
    BY <1>2, Identifiers DEF AppliedAtMostOnce, Derived, DraftContinuesItsSource
  <1>6. RowsSound
    BY <1>2 DEF RowsSound
  <1>7. RequestsSound
    <2>1. \A r \in Reviewers : review[r].phase = "idle"
      BY QuietRequests DEF Init
    <2>2. \A a \in Appliers : apply[a].phase = "idle"
      BY QuietRequests DEF Init
    <2>3. QED
      BY <2>1, <2>2 DEF RequestsSound, ReviewSound, ApplySound, OpenPhases
  <1>8. QED
    BY <1>1, <1>3, <1>4, <1>5, <1>6, <1>7 DEF Inv

(* Tables only move forward: rows stay, and what requests have read of them with them. *)

Forward ==
    /\ \A k \in Conflicts : Detected(k) =>
         /\ conflicts'[k] # NoRow /\ conflicts'[k].proposal = conflicts[k].proposal
         /\ conflicts[k].state \in Settled => conflicts'[k].state \in Settled
    /\ \A p \in Proposals : Stored(p) =>
         /\ proposals'[p] # NoDraft /\ proposals'[p].parcel = proposals[p].parcel
         /\ proposals'[p].first = proposals[p].first
         /\ proposals'[p].source = proposals[p].source
         /\ proposals'[p].version >= proposals[p].version
    /\ \A x \in Parcels : parcelVersion'[x] >= parcelVersion[x]

LEMMA ReviewKept ==
    ASSUME Forward, NEW q, ReviewSound(q)
    PROVE  ReviewSound(q)'
  BY DEF ReviewSound, Forward, Detected

LEMMA SourceOf ==
    ASSUME Inv, NEW k \in Conflicts, Detected(k)
    PROVE  /\ conflicts[k].proposal \in Proposals /\ Stored(conflicts[k].proposal)
           /\ proposals[conflicts[k].proposal] \in ProposalRow
  <1>1. conflicts[k].proposal \in Proposals
    BY DetectedRow DEF Inv
  <1>2. Stored(conflicts[k].proposal)
    BY DEF Inv, RowsSound
  <1>3. QED
    BY <1>1, <1>2, StoredRow DEF Inv

LEMMA ApplyKept ==
    ASSUME Inv, TypeOK', Forward, NEW q \in ApplyRequest, ApplySound(q)
    PROVE  ApplySound(q)'
  <1>1. CASE q.phase \in OpenPhases
    <2>1. q.conflict \in Conflicts /\ Detected(q.conflict)
      BY <1>1 DEF ApplySound
    <2>2. PICK p \in Proposals : p = conflicts[q.conflict].proposal /\ Stored(p)
            /\ proposals[p] \in ProposalRow
      BY <2>1, SourceOf
    <2>3. conflicts'[q.conflict] # NoRow /\ conflicts'[q.conflict].proposal = p
      BY <2>1, <2>2 DEF Forward
    <2>4. /\ proposals'[p] # NoDraft /\ proposals'[p].parcel = proposals[p].parcel
          /\ proposals'[p].first = proposals[p].first
          /\ proposals'[p].version >= proposals[p].version
      BY <2>2 DEF Forward
    <2>5. proposals'[p] \in ProposalRow
      BY <2>4 DEF TypeOK
    <2>6. /\ proposals[p].version \in Nat /\ proposals'[p].version \in Nat
          /\ q.version \in Nat /\ proposals[p].first \in Nat /\ proposals[p].parcel \in Parcels
      BY <2>2, <2>5 DEF ProposalRow, ApplyRequest
    <2>7. q.phase \in {"parcel", "ready"} =>
             q.version >= proposals'[p].first /\ q.version <= proposals'[p].version
      BY <2>2, <2>4, <2>6 DEF ApplySound
    <2>8. q.phase = "ready" => q.base \in 1 .. parcelVersion'[proposals'[p].parcel]
      <3>1. /\ parcelVersion[proposals[p].parcel] \in Nat
            /\ parcelVersion'[proposals[p].parcel] \in Nat
            /\ parcelVersion'[proposals[p].parcel] >= parcelVersion[proposals[p].parcel]
        BY <2>6, Bounds DEF Inv, TypeOK, Forward
      <3>2. QED
        BY <2>2, <2>4, <3>1 DEF ApplySound
    <2>9. /\ q.actor \in Users /\ RoleOf[q.actor] \in ConflictReviewRoles
          /\ q.phase # "answered"
      BY <1>1 DEF ApplySound, OpenPhases
    <2>10. QED
      BY <2>1, <2>3, <2>7, <2>8, <2>9 DEF ApplySound, Detected
  <1>2. CASE q.phase = "answered" /\ q.status = 201
    <2>1. /\ q.conflict \in Conflicts /\ q.draft \in Proposals
          /\ Detected(q.conflict) /\ conflicts[q.conflict].state \in Settled
          /\ Stored(q.draft) /\ proposals[q.draft].source = q.conflict
          /\ proposals[q.draft].parcel = proposals[conflicts[q.conflict].proposal].parcel
      BY <1>2 DEF ApplySound
    <2>2. PICK p \in Proposals : p = conflicts[q.conflict].proposal /\ Stored(p)
      BY <2>1, SourceOf
    <2>3. /\ conflicts'[q.conflict] # NoRow /\ conflicts'[q.conflict].proposal = p
          /\ conflicts'[q.conflict].state \in Settled
      BY <2>1, <2>2 DEF Forward
    <2>4. /\ proposals'[p].parcel = proposals[p].parcel
          /\ proposals'[q.draft].parcel = proposals[q.draft].parcel
          /\ proposals'[q.draft].source = q.conflict /\ proposals'[q.draft] # NoDraft
      BY <2>1, <2>2 DEF Forward
    <2>5. q.phase \notin OpenPhases /\ q.phase \notin {"parcel", "ready"} /\ q.phase # "ready"
      BY <1>2 DEF OpenPhases
    <2>6. QED
      BY <2>1, <2>2, <2>3, <2>4, <2>5 DEF ApplySound, Detected, Stored
  <1>3. CASE q.phase \notin OpenPhases /\ ~(q.phase = "answered" /\ q.status = 201)
    BY <1>3 DEF ApplySound, OpenPhases
  <1>4. QED
    BY <1>1, <1>2, <1>3

(* Steps that write no table. *)

LEMMA TablesKept ==
    ASSUME Inv, UNCHANGED <<conflicts, trail, proposals, parcelVersion>>
    PROVE  /\ TrailExplainsConflict' /\ ResolverOfRecord' /\ AppliedAtMostOnce'
           /\ DraftContinuesItsSource' /\ RowsSound' /\ Forward
  <1>1. TrailExplainsConflict'
    BY DEF Inv, TrailExplainsConflict, Detected
  <1>2. ResolverOfRecord'
    BY DEF Inv, ResolverOfRecord, Resolutions
  <1>3. AppliedAtMostOnce'
    BY DEF Inv, AppliedAtMostOnce, Derived
  <1>4. DraftContinuesItsSource'
    BY DEF Inv, DraftContinuesItsSource
  <1>5. RowsSound'
    BY DEF Inv, RowsSound, Detected, Stored
  <1>6. Forward
    <2>1. \A p \in Proposals : Stored(p) => proposals[p].version \in Nat
      BY StoredRow DEF Inv, ProposalRow
    <2>2. \A x \in Parcels : parcelVersion[x] \in Nat
      BY Bounds DEF Inv, TypeOK
    <2>3. QED
      BY <2>1, <2>2 DEF Forward, Detected, Stored
  <1>7. QED
    BY <1>1, <1>2, <1>3, <1>4, <1>5, <1>6

LEMMA QuietReview ==
    ASSUME Inv, NEW r \in Reviewers, NEW q \in ReviewRequest, ReviewSound(q),
           review' = [review EXCEPT ![r] = q],
           UNCHANGED <<conflicts, trail, proposals, parcelVersion, apply>>
    PROVE  Inv'
  <1>1. TypeOK'
    BY DEF Inv, TypeOK
  <1>2. UNCHANGED <<conflicts, trail, proposals, parcelVersion>>
    OBVIOUS
  <1>3. Forward
    BY <1>2, TablesKept
  <1>4. ASSUME NEW s \in Reviewers, NEW o, o = review'[s]
        PROVE  ReviewSound(o)'
    <2>1. ReviewSound(o)
      BY <1>4 DEF Inv, TypeOK, RequestsSound
    <2>2. QED
      BY <1>3, <2>1, ReviewKept
  <1>5. ASSUME NEW a \in Appliers, NEW o, o = apply'[a]
        PROVE  ApplySound(o)'
    <2>1. ApplySound(o) /\ o \in ApplyRequest
      BY <1>5 DEF Inv, TypeOK, RequestsSound
    <2>2. QED
      BY <1>1, <1>3, <2>1, ApplyKept
  <1>6. RequestsSound'
    BY <1>4, <1>5 DEF RequestsSound
  <1>7. QED
    BY <1>1, <1>2, <1>6, TablesKept DEF Inv

LEMMA QuietApply ==
    ASSUME Inv, NEW a \in Appliers, NEW q \in ApplyRequest, ApplySound(q), Becomes(a, q)
    PROVE  Inv'
  <1>1. TypeOK'
    BY DEF Inv, TypeOK, Becomes
  <1>2. UNCHANGED <<conflicts, trail, proposals, parcelVersion>>
    BY DEF Becomes
  <1>3. Forward
    BY <1>2, TablesKept
  <1>4. ASSUME NEW s \in Reviewers, NEW o, o = review'[s]
        PROVE  ReviewSound(o)'
    <2>1. ReviewSound(o)
      BY <1>4 DEF Inv, TypeOK, RequestsSound, Becomes
    <2>2. QED
      BY <1>3, <2>1, ReviewKept
  <1>5. ASSUME NEW b \in Appliers, NEW o, o = apply'[b]
        PROVE  ApplySound(o)'
    <2>1. o = IF b = a THEN q ELSE apply[b]
      BY <1>5 DEF Inv, TypeOK, Becomes
    <2>2. ApplySound(o) /\ o \in ApplyRequest
      BY <2>1 DEF Inv, TypeOK, RequestsSound
    <2>3. QED
      BY <1>1, <1>3, <2>2, ApplyKept
  <1>6. RequestsSound'
    BY <1>4, <1>5 DEF RequestsSound
  <1>7. QED
    BY <1>1, <1>2, <1>6, TablesKept DEF Inv

(* The conditional UPDATE with its audit entry, whoever runs it. *)

Decided(k, u, to) == [conflicts[k] EXCEPT !.state = to, !.resolvedBy = Resolver(k, u, to)]

Move(u, from, to) == [actor |-> u, before |-> from, after |-> to]

LEMMA DecidedRow ==
    ASSUME TypeOK, NEW k \in Conflicts, Detected(k), NEW u \in Users, NEW to \in ConflictStates
    PROVE  /\ Decided(k, u, to) \in ConflictRow
           /\ Decided(k, u, to).state = to
           /\ Decided(k, u, to).resolvedBy = Resolver(k, u, to)
           /\ Decided(k, u, to).proposal = conflicts[k].proposal
  <1>1. conflicts[k] \in ConflictRow
    BY DetectedRow
  <1>2. Resolver(k, u, to) \in Users \cup {NoUser}
    BY <1>1 DEF Resolver, ConflictRow
  <1>3. Decided(k, u, to) \in ConflictRow
    BY <1>1, <1>2 DEF Decided, ConflictRow
  <1>4. Decided(k, u, to).state = to
    BY <1>1 DEF Decided, ConflictRow
  <1>5. Decided(k, u, to).resolvedBy = Resolver(k, u, to)
    BY <1>1 DEF Decided, ConflictRow
  <1>6. Decided(k, u, to).proposal = conflicts[k].proposal
    BY <1>1 DEF Decided, ConflictRow
  <1>7. QED
    BY <1>3, <1>4, <1>5, <1>6

\* What it leaves of the two tables.
Rewritten(k, u, from, to) ==
    /\ conflicts[k].state = from /\ Move(u, from, to) \in Entry
    /\ Decided(k, u, to) \in ConflictRow
    /\ conflicts' \in [Conflicts -> ConflictRow \cup {NoRow}]
    /\ trail' \in [Conflicts -> Seq(Entry)]
    /\ \A j \in Conflicts :
         /\ conflicts'[j] = IF j = k THEN Decided(k, u, to) ELSE conflicts[j]
         /\ trail'[j] = IF j = k THEN Append(trail[k], Move(u, from, to)) ELSE trail[j]
         /\ trail[j] \in Seq(Entry) /\ Len(trail[j]) \in Nat
    /\ \A j \in Conflicts : Detected(j) =>
         /\ conflicts'[j] # NoRow /\ conflicts'[j].proposal = conflicts[j].proposal
         /\ conflicts[j].state \in Settled => conflicts'[j].state \in Settled
    /\ \A j \in Conflicts : conflicts'[j] # NoRow => Detected(j)
    /\ \A j \in Conflicts : \A i \in 1 .. Len(trail[j]) :
         i \in 1 .. Len(trail'[j]) /\ trail'[j][i] = trail[j][i]

LEMMA TransitionRows ==
    ASSUME Inv, NEW k \in Conflicts, Detected(k), NEW u \in Users,
           RoleOf[u] \in ConflictReviewRoles, NEW from, NEW to,
           CanConflictTransition(from, to), Transition(k, u, from, to)
    PROVE  Rewritten(k, u, from, to)
  <1>1. conflicts[k].state = from /\ from \in ConflictStates /\ to \in ConflictStates
    BY SettledStays DEF Transition, StateUnchanged
  <1>2. conflicts \in [Conflicts -> ConflictRow \cup {NoRow}] /\ trail \in [Conflicts -> Seq(Entry)]
    BY DEF Inv, TypeOK
  <1>3. Move(u, from, to) \in Entry
    BY <1>1 DEF Move, Entry
  <1>4. /\ Decided(k, u, to) \in ConflictRow /\ Decided(k, u, to).state = to
        /\ Decided(k, u, to).proposal = conflicts[k].proposal
    BY <1>1, DecidedRow DEF Inv
  <1>5. conflicts' = [conflicts EXCEPT ![k] = Decided(k, u, to)]
    BY <1>2 DEF Transition, Decided
  <1>6. trail' = [trail EXCEPT ![k] = Append(trail[k], Move(u, from, to))]
    BY <1>2 DEF Transition, Audited, Move
  <1>7. \A j \in Conflicts :
          /\ conflicts'[j] = IF j = k THEN Decided(k, u, to) ELSE conflicts[j]
          /\ trail'[j] = IF j = k THEN Append(trail[k], Move(u, from, to)) ELSE trail[j]
          /\ trail[j] \in Seq(Entry) /\ Len(trail[j]) \in Nat
    BY <1>2, <1>5, <1>6
  <1>8. Append(trail[k], Move(u, from, to)) \in Seq(Entry)
    BY <1>3, <1>7
  <1>9. conflicts' \in [Conflicts -> ConflictRow \cup {NoRow}]
    BY <1>2, <1>4, <1>5
  <1>10. trail' \in [Conflicts -> Seq(Entry)]
    BY <1>2, <1>6, <1>8
  <1>11. Decided(k, u, to) # NoRow
    BY <1>1, <1>4 DEF NoRow, ConflictStates
  <1>12. ASSUME NEW j \in Conflicts, Detected(j)
         PROVE  /\ conflicts'[j] # NoRow /\ conflicts'[j].proposal = conflicts[j].proposal
                /\ conflicts[j].state \in Settled => conflicts'[j].state \in Settled
    <2>1. CASE j = k
      BY <1>1, <1>4, <1>7, <1>11, <2>1, SettledStays
    <2>2. CASE j # k
      BY <1>7, <1>12, <2>2 DEF Detected
    <2>3. QED
      BY <2>1, <2>2
  <1>13. ASSUME NEW j \in Conflicts, conflicts'[j] # NoRow
         PROVE  Detected(j)
    BY <1>7, <1>13 DEF Detected
  <1>14. ASSUME NEW j \in Conflicts, NEW i \in 1 .. Len(trail[j])
         PROVE  i \in 1 .. Len(trail'[j]) /\ trail'[j][i] = trail[j][i]
    <2>1. CASE j = k
      <3>1. trail[k] \in Seq(Entry) /\ Len(trail[k]) \in Nat
        BY <1>7
      <3>2. /\ Len(Append(trail[k], Move(u, from, to))) = Len(trail[k]) + 1
            /\ Append(trail[k], Move(u, from, to))[i] = trail[k][i]
        BY <1>3, <2>1, <3>1, Grown
      <3>3. trail'[k] = Append(trail[k], Move(u, from, to))
        BY <1>7
      <3>4. QED
        BY <2>1, <3>1, <3>2, <3>3
    <2>2. CASE j # k
      BY <1>7, <2>2
    <2>3. QED
      BY <2>1, <2>2
  <1>15. QED
    BY <1>1, <1>3, <1>4, <1>7, <1>9, <1>10, <1>12, <1>13, <1>14 DEF Rewritten

LEMMA TransitionHistory ==
    ASSUME Inv, NEW k \in Conflicts, Detected(k), NEW u \in Users,
           RoleOf[u] \in ConflictReviewRoles, NEW from, NEW to,
           CanConflictTransition(from, to), Transition(k, u, from, to)
    PROVE  TrailExplainsConflict' /\ ResolverOfRecord'
  <1>1. PICK e \in Entry, row \in ConflictRow :
          e = Move(u, from, to) /\ row = Decided(k, u, to)
    BY TransitionRows DEF Rewritten
  <1>2. /\ e.actor = u /\ e.before = from /\ e.after = to
        /\ row.state = to /\ row.resolvedBy = Resolver(k, u, to)
    <2>1. to \in ConflictStates
      BY SettledStays
    <2>2. QED
      BY <1>1, <2>1, DecidedRow DEF Move, Inv
  <1>3. \A j \in Conflicts :
          /\ conflicts'[j] = IF j = k THEN row ELSE conflicts[j]
          /\ trail'[j] = IF j = k THEN Append(trail[k], e) ELSE trail[j]
          /\ trail[j] \in Seq(Entry) /\ Len(trail[j]) \in Nat
    BY <1>1, TransitionRows DEF Rewritten
  <1>4. /\ Append(trail[k], e) \in Seq(Entry) /\ Len(Append(trail[k], e)) = Len(trail[k]) + 1
        /\ Append(trail[k], e)[Len(trail[k]) + 1] = e
        /\ \A i \in 1 .. Len(trail[k]) : Append(trail[k], e)[i] = trail[k][i]
    <2>1. trail[k] \in Seq(Entry)
      BY <1>3
    <2>2. QED
      BY <2>1, Grown
  <1>5. PICK t : t = Append(trail[k], e)
    OBVIOUS
  <1>6. /\ trail'[k] = t /\ Len(t) = Len(trail[k]) + 1 /\ t[Len(t)] = e /\ t \in Seq(Entry)
        /\ \A i \in 1 .. Len(trail[k]) : t[i] = trail[k][i]
        /\ Len(trail[k]) \in Nat
    BY <1>3, <1>4, <1>5
  <1>7. /\ trail[k] # <<>> /\ trail[k][1].before = "none" /\ trail[k][1].after = "detected"
        /\ trail[k][Len(trail[k])].after = conflicts[k].state
        /\ \A i \in 2 .. Len(trail[k]) :
             /\ trail[k][i].before = trail[k][i - 1].after
             /\ CanConflictTransition(trail[k][i].before, trail[k][i].after)
             /\ RoleOf[trail[k][i].actor] \in ConflictReviewRoles
    BY DEF Inv, TrailExplainsConflict
  <1>8. Len(trail[k]) >= 1
    BY <1>3, <1>7
  <1>9. conflicts[k].state = from
    BY TransitionRows DEF Rewritten
  <1>10. TrailExplainsConflict'
    <2> SUFFICES ASSUME NEW j \in Conflicts, NEW s, s = trail'[j]
                 PROVE  IF conflicts'[j] = NoRow THEN s = <<>>
                        ELSE /\ s # <<>>
                             /\ s[1].before = "none" /\ s[1].after = "detected"
                             /\ s[Len(s)].after = conflicts'[j].state
                             /\ \A i \in 2 .. Len(s) :
                                  /\ s[i].before = s[i - 1].after
                                  /\ CanConflictTransition(s[i].before, s[i].after)
                                  /\ RoleOf[s[i].actor] \in ConflictReviewRoles
      BY DEF TrailExplainsConflict, Detected
    <2>1. CASE j # k
      <3>1. s = trail[j] /\ conflicts'[j] = conflicts[j]
        BY <1>3, <2>1
      <3>2. QED
        BY <3>1 DEF Inv, TrailExplainsConflict, Detected
    <2>2. CASE j = k
      <3>1. s = t /\ conflicts'[j] = row
        BY <1>3, <1>6, <2>2
      <3>2. row # NoRow /\ t # <<>>
        <4>1. t # <<>>
          BY <1>6, <1>8
        <4>2. QED
          BY <1>1, <1>3, <4>1, TransitionRows DEF Rewritten
      <3>3. t[1].before = "none" /\ t[1].after = "detected"
        BY <1>6, <1>7, <1>8
      <3>4. t[Len(t)].after = row.state
        BY <1>2, <1>6
      <3>5. ASSUME NEW i \in 2 .. Len(t)
            PROVE  /\ t[i].before = t[i - 1].after
                   /\ CanConflictTransition(t[i].before, t[i].after)
                   /\ RoleOf[t[i].actor] \in ConflictReviewRoles
        <4>1. CASE i \in 2 .. Len(trail[k])
          <5>1. t[i] = trail[k][i] /\ t[i - 1] = trail[k][i - 1]
            BY <1>6, <4>1
          <5>2. QED
            BY <1>7, <4>1, <5>1
        <4>2. CASE i = Len(t)
          <5>1. t[i] = e /\ t[i - 1] = trail[k][Len(trail[k])]
            BY <1>6, <1>8, <4>2
          <5>2. QED
            BY <1>2, <1>7, <1>9, <5>1
        <4>3. QED
          BY <1>6, <4>1, <4>2
      <3>6. QED
        BY <3>1, <3>2, <3>3, <3>4, <3>5
    <2>3. QED
      BY <2>1, <2>2
  <1>11. ResolverOfRecord'
    <2>1. ResolverOfRecord
      BY DEF Inv
    <2>2. ASSUME NEW j \in Conflicts, j # k
          PROVE  Resolutions(j)' = Resolutions(j) /\ conflicts'[j] = conflicts[j]
                   /\ trail'[j] = trail[j]
      BY <1>3, <2>2 DEF Resolutions
    <2>3. Resolutions(k)' = IF to \in Settled THEN Resolutions(k) \cup {Len(t)} ELSE Resolutions(k)
      <3>1. Resolutions(k)' = {i \in 1 .. Len(t) : t[i].after \in Settled}
        BY <1>6 DEF Resolutions, Settled
      <3>2. Resolutions(k) = {i \in 1 .. Len(trail[k]) : trail[k][i].after \in Settled}
        BY DEF Resolutions, Settled
      <3>3. 1 .. Len(t) = (1 .. Len(trail[k])) \cup {Len(t)}
        BY <1>6
      <3>4. t[Len(t)].after = to
        BY <1>2, <1>6
      <3>5. QED
        BY <1>6, <3>1, <3>2, <3>3, <3>4
    <2>4. conflicts'[k] = row /\ trail'[k] = t
      BY <1>3, <1>6
    <2>5. CASE to \in Settled
      <3>1. row.resolvedBy = u
        BY <1>2, <2>5 DEF Resolver, Settled
      <3>2. \A i \in Resolutions(k) : i \in 1 .. Len(trail[k])
        BY DEF Resolutions
      <3>3. /\ Len(t) \in Resolutions(k)' /\ t[Len(t)].actor = row.resolvedBy
            /\ \A i \in Resolutions(k)' : i <= Len(t)
        BY <1>2, <1>6, <2>3, <2>5, <3>1, <3>2
      <3>4. QED
        BY <2>1, <2>2, <2>4, <3>3 DEF ResolverOfRecord
    <2>6. CASE to \notin Settled
      <3>1. row.resolvedBy = conflicts[k].resolvedBy
        BY <1>2, <2>6 DEF Resolver, Settled
      <3>2. Resolutions(k)' = Resolutions(k)
        BY <2>3, <2>6
      <3>3. \A i \in Resolutions(k) : t[i] = trail[k][i]
        BY <1>6 DEF Resolutions
      <3>4. QED
        BY <2>1, <2>2, <2>4, <3>1, <3>2, <3>3 DEF ResolverOfRecord
    <2>7. QED
      BY <2>5, <2>6
  <1>12. QED
    BY <1>10, <1>11

\* A proposal derived from a conflict is stored, and its conflict is settled.
LEMMA DerivedRow ==
    ASSUME Inv, NEW k \in Conflicts, NEW p \in Proposals, proposals[p].source = k
    PROVE  /\ Stored(p) /\ Detected(k) /\ conflicts[k].state \in Settled
           /\ proposals[p] \in ProposalRow
  <1>1. Stored(p)
    BY StoredRow, Identifiers DEF Inv
  <1>2. QED
    BY <1>1, StoredRow DEF Inv, RowsSound

LEMMA TransitionKeepsDrafts ==
    ASSUME Inv, NEW k \in Conflicts, Detected(k), NEW u \in Users,
           RoleOf[u] \in ConflictReviewRoles, NEW from, NEW to,
           CanConflictTransition(from, to), Transition(k, u, from, to),
           UNCHANGED <<proposals, parcelVersion>>
    PROVE  /\ AppliedAtMostOnce' /\ DraftContinuesItsSource' /\ RowsSound' /\ Forward
  <1>1. \A j \in Conflicts : Detected(j) =>
          /\ conflicts'[j] # NoRow /\ conflicts'[j].proposal = conflicts[j].proposal
          /\ conflicts[j].state \in Settled => conflicts'[j].state \in Settled
    BY TransitionRows DEF Rewritten
  <1>2. \A j \in Conflicts : conflicts'[j] # NoRow => Detected(j)
    BY TransitionRows DEF Rewritten
  <1>3. \A j \in Conflicts : \A i \in 1 .. Len(trail[j]) :
          i \in 1 .. Len(trail'[j]) /\ trail'[j][i] = trail[j][i]
    BY TransitionRows DEF Rewritten
  <1>4. AppliedAtMostOnce'
    <2>1. \A j \in Conflicts : Derived(j)' = Derived(j)
      BY DEF Derived
    <2>2. QED
      BY <1>3, <2>1 DEF Inv, AppliedAtMostOnce
  <1>5. DraftContinuesItsSource'
    <2>1. \A j \in Conflicts, p \in Proposals : proposals[p].source = j =>
            conflicts'[j].proposal = conflicts[j].proposal
      BY <1>1, DerivedRow
    <2>2. QED
      BY <2>1 DEF Inv, DraftContinuesItsSource
  <1>6. RowsSound'
    BY <1>1, <1>2 DEF Inv, RowsSound, Detected, Stored
  <1>7. Forward
    <2>1. \A p \in Proposals : Stored(p) => proposals[p].version \in Nat
      BY StoredRow DEF Inv, ProposalRow
    <2>2. \A x \in Parcels : parcelVersion[x] \in Nat
      BY Bounds DEF Inv, TypeOK
    <2>3. QED
      BY <1>1, <2>1, <2>2 DEF Forward, Stored
  <1>8. QED
    BY <1>4, <1>5, <1>6, <1>7

(* Requests that the step does not answer keep what they know. *)

LEMMA OthersKept ==
    ASSUME Inv, TypeOK', Forward
    PROVE  /\ \A s \in Reviewers : \A o : o = review[s] => ReviewSound(o)'
           /\ \A b \in Appliers : \A o : o = apply[b] => ApplySound(o)'
  <1>1. ASSUME NEW s \in Reviewers, NEW o, o = review[s]
        PROVE  ReviewSound(o)'
    <2>1. ReviewSound(o)
      BY <1>1 DEF Inv, RequestsSound
    <2>2. QED
      BY <2>1, ReviewKept
  <1>2. ASSUME NEW b \in Appliers, NEW o, o = apply[b]
        PROVE  ApplySound(o)'
    <2>1. ApplySound(o) /\ o \in ApplyRequest
      BY <1>2 DEF Inv, TypeOK, RequestsSound
    <2>2. QED
      BY <2>1, ApplyKept
  <1>3. QED
    BY <1>1, <1>2

-----------------------------------------------------------------------------
(* TransitionConflict. *)

LEMMA AnsweredReviewSound ==
    \A status \in ReviewStatuses :
        \E q \in ReviewRequest : q = AnsweredReview(status) /\ ReviewSound(q)
  BY QuietRequests DEF ReviewSound

LEMMA CheckReviewInv ==
    ASSUME Inv, NEW r \in Reviewers, NEW u \in Users, NEW k \in Conflicts,
           NEW to \in ConflictStates, CheckReview(r, u, k, to)
    PROVE  Inv'
  <1>1. CASE ReviewVerdict(u, k, to) # 200
    <2>1. ReviewVerdict(u, k, to) \in ReviewStatuses
      BY DEF ReviewVerdict, ReviewStatuses
    <2>2. PICK q \in ReviewRequest : q = AnsweredReview(ReviewVerdict(u, k, to)) /\ ReviewSound(q)
      BY <2>1, AnsweredReviewSound
    <2>3. review' = [review EXCEPT ![r] = q]
      BY <1>1, <2>2 DEF CheckReview
    <2>4. UNCHANGED <<conflicts, trail, proposals, parcelVersion, apply>>
      BY DEF CheckReview
    <2>5. QED
      BY <2>2, <2>3, <2>4, QuietReview
  <1>2. CASE ReviewVerdict(u, k, to) = 200
    <2>1. /\ RoleOf[u] \in ConflictReviewRoles /\ Detected(k)
          /\ CanConflictTransition(conflicts[k].state, to)
      BY <1>2 DEF ReviewVerdict
    <2>2. PICK q : q = [phase |-> "checked", status |-> 0, actor |-> u, conflict |-> k,
                        to |-> to, seen |-> conflicts[k].state]
      OBVIOUS
    <2>3. conflicts[k].state \in ConflictStates
      BY <2>1, DetectedRow DEF Inv
    <2>4. q \in ReviewRequest
      BY <2>2, <2>3 DEF ReviewRequest
    <2>5. ReviewSound(q)
      BY <2>1, <2>2 DEF ReviewSound
    <2>6. review' = [review EXCEPT ![r] = q]
      BY <1>2, <2>2 DEF CheckReview
    <2>7. UNCHANGED <<conflicts, trail, proposals, parcelVersion, apply>>
      BY DEF CheckReview
    <2>8. QED
      BY <2>4, <2>5, <2>6, <2>7, QuietReview
  <1>3. QED
    BY <1>1, <1>2

LEMMA CommitReviewInv ==
    ASSUME Inv, NEW r \in Reviewers, CommitReview(r)
    PROVE  Inv'
  <1>1. PICK q \in ReviewRequest : q = review[r] /\ ReviewSound(q) /\ q.phase = "checked"
    BY DEF Inv, TypeOK, RequestsSound, CommitReview
  <1>a. PICK k \in Conflicts, u \in Users :
          \E from, to :
             /\ Detected(k) /\ RoleOf[u] \in ConflictReviewRoles
             /\ CanConflictTransition(from, to) /\ Transition(k, u, from, to)
    BY <1>1 DEF ReviewSound, CommitReview
  <1>2. PICK from, to :
          /\ Detected(k) /\ RoleOf[u] \in ConflictReviewRoles /\ CanConflictTransition(from, to)
          /\ Transition(k, u, from, to)
    BY <1>a
  <1>3. review' = [review EXCEPT ![r] = AnsweredReview(200)]
    BY DEF CommitReview
  <1>4. UNCHANGED <<proposals, parcelVersion>> /\ UNCHANGED apply
    BY DEF CommitReview
  <1>5. AnsweredReview(200) \in ReviewRequest /\ AnsweredReview(200).phase = "answered"
    <2>1. 200 \in ReviewStatuses
      BY DEF ReviewStatuses
    <2>2. QED
      BY <2>1, QuietRequests
  <1>6. TypeOK'
    <2>1. /\ conflicts' \in [Conflicts -> ConflictRow \cup {NoRow}]
          /\ trail' \in [Conflicts -> Seq(Entry)]
      BY <1>2, TransitionRows DEF Rewritten
    <2>2. QED
      BY <1>3, <1>4, <1>5, <2>1 DEF Inv, TypeOK
  <1>7. TrailExplainsConflict' /\ ResolverOfRecord'
    BY <1>2, TransitionHistory
  <1>8. AppliedAtMostOnce' /\ DraftContinuesItsSource' /\ RowsSound' /\ Forward
    BY <1>2, <1>4, TransitionKeepsDrafts
  <1>9. RequestsSound'
    <2>1. ASSUME NEW s \in Reviewers, NEW o, o = review'[s]
          PROVE  ReviewSound(o)'
      <3>1. CASE s = r
        <4>1. o.phase = "answered"
          BY <1>3, <1>5, <2>1, <3>1 DEF Inv, TypeOK
        <4>2. QED
          BY <4>1 DEF ReviewSound
      <3>2. CASE s # r
        <4>1. o = review[s]
          BY <1>3, <2>1, <3>2 DEF Inv, TypeOK
        <4>2. QED
          BY <1>6, <1>8, <4>1, OthersKept
      <3>3. QED
        BY <3>1, <3>2
    <2>2. ASSUME NEW b \in Appliers, NEW o, o = apply'[b]
          PROVE  ApplySound(o)'
      BY <1>4, <1>6, <1>8, <2>2, OthersKept
    <2>3. QED
      BY <2>1, <2>2 DEF RequestsSound
  <1>10. QED
    BY <1>6, <1>7, <1>8, <1>9 DEF Inv

LEMMA RefuseReviewInv ==
    ASSUME Inv, NEW r \in Reviewers, RefuseReview(r)
    PROVE  Inv'
  <1>1. 409 \in ReviewStatuses
    BY DEF ReviewStatuses
  <1>2. PICK q \in ReviewRequest : q = AnsweredReview(409) /\ ReviewSound(q)
    BY <1>1, AnsweredReviewSound
  <1>3. QED
    BY <1>2, QuietReview DEF RefuseReview

LEMMA FinishReviewInv ==
    ASSUME Inv, NEW r \in Reviewers, FinishReview(r)
    PROVE  Inv'
  <1>1. ReviewSound(IdleReview) /\ IdleReview \in ReviewRequest
    BY QuietRequests DEF ReviewSound
  <1>2. QED
    BY <1>1, QuietReview DEF FinishReview

-----------------------------------------------------------------------------
(* ApplyConflictSuggestion. *)

LEMMA RefusedApplySound ==
    \A status \in ApplyStatuses \ {201} :
        \E q \in ApplyRequest : q = AnsweredApply(status) /\ ApplySound(q)
  BY QuietRequests DEF ApplySound, OpenPhases

LEMMA CheckApplyInv ==
    ASSUME Inv, NEW a \in Appliers, NEW u \in Users, NEW k \in Conflicts, CheckApply(a, u, k)
    PROVE  Inv'
  <1>1. CASE ApplyVerdict(u, k) # 201
    <2>1. ApplyVerdict(u, k) \in ApplyStatuses \ {201}
      BY <1>1 DEF ApplyVerdict, ApplyStatuses
    <2>2. PICK q \in ApplyRequest : q = AnsweredApply(ApplyVerdict(u, k)) /\ ApplySound(q)
      BY <2>1, RefusedApplySound
    <2>3. Becomes(a, q)
      BY <1>1, <2>2 DEF CheckApply
    <2>4. QED
      BY <2>2, <2>3, QuietApply
  <1>2. CASE ApplyVerdict(u, k) = 201
    <2>1. RoleOf[u] \in ConflictReviewRoles /\ Detected(k)
      BY <1>2 DEF ApplyVerdict
    <2>2. PICK q : q = [IdleApply EXCEPT !.phase = "proposal", !.actor = u, !.conflict = k]
      OBVIOUS
    <2>3. "proposal" \in ApplyPhases
      BY DEF ApplyPhases
    <2>4. q \in ApplyRequest
      <3>1. IdleApply \in ApplyRequest
        BY QuietRequests
      <3>2. QED
        BY <2>2, <2>3, <3>1, ApplyFields
    <2>5. q.phase = "proposal" /\ q.actor = u /\ q.conflict = k
      <3>1. IdleApply \in ApplyRequest
        BY QuietRequests
      <3>2. QED
        BY <2>2, <3>1, ApplyFields
    <2>6. ApplySound(q)
      BY <2>1, <2>5 DEF ApplySound
    <2>7. Becomes(a, q)
      BY <1>2, <2>2 DEF CheckApply
    <2>8. QED
      BY <2>4, <2>6, <2>7, QuietApply
  <1>3. QED
    BY <1>1, <1>2

\* What an apply between its checks and its transaction knows.
LEMMA OpenApply ==
    ASSUME Inv, NEW a \in Appliers, apply[a].phase \in OpenPhases
    PROVE  \E q \in ApplyRequest, u \in Users, k \in Conflicts, p \in Proposals :
             /\ q = apply[a] /\ ApplySound(q) /\ u = q.actor /\ k = q.conflict
             /\ RoleOf[u] \in ConflictReviewRoles /\ Detected(k)
             /\ p = conflicts[k].proposal /\ p = Source(a)
             /\ Stored(p) /\ proposals[p] \in ProposalRow
             /\ proposals[p].first <= proposals[p].version
  <1>1. PICK q \in ApplyRequest : q = apply[a] /\ ApplySound(q)
    BY DEF Inv, TypeOK, RequestsSound
  <1>2. PICK u \in Users, k \in Conflicts :
          u = q.actor /\ k = q.conflict /\ RoleOf[u] \in ConflictReviewRoles /\ Detected(k)
    BY <1>1 DEF ApplySound
  <1>3. PICK p \in Proposals :
          p = conflicts[k].proposal /\ Stored(p) /\ proposals[p] \in ProposalRow
    BY <1>2, SourceOf
  <1>4. proposals[p].first <= proposals[p].version
    BY <1>3 DEF Inv, RowsSound
  <1>5. p = Source(a)
    BY <1>1, <1>2, <1>3 DEF Source
  <1>6. QED
    BY <1>1, <1>2, <1>3, <1>4, <1>5

LEMMA ReadProposalInv ==
    ASSUME Inv, NEW a \in Appliers, ReadProposal(a)
    PROVE  Inv'
  <1>1. apply[a].phase = "proposal"
    BY DEF ReadProposal
  <1>2. PICK o \in ApplyRequest, u \in Users, k \in Conflicts, p \in Proposals :
          /\ o = apply[a] /\ ApplySound(o) /\ u = o.actor /\ k = o.conflict
          /\ RoleOf[u] \in ConflictReviewRoles /\ Detected(k)
          /\ p = conflicts[k].proposal /\ p = Source(a)
          /\ Stored(p) /\ proposals[p] \in ProposalRow
          /\ proposals[p].first <= proposals[p].version
    BY <1>1, OpenApply DEF OpenPhases
  <1>3. PICK q : q = [o EXCEPT !.phase = "parcel", !.version = proposals[p].version]
    OBVIOUS
  <1>4. "parcel" \in ApplyPhases /\ proposals[p].version \in Nat /\ proposals[p].first \in Nat
    BY <1>2 DEF ApplyPhases, ProposalRow
  <1>5. q \in ApplyRequest
    BY <1>3, <1>4, ApplyFields
  <1>6. /\ q.phase = "parcel" /\ q.version = proposals[p].version
        /\ q.actor = u /\ q.conflict = k
    BY <1>2, <1>3, ApplyFields
  <1>7. ApplySound(q)
    <2>1. conflicts[q.conflict].proposal = p
      BY <1>2, <1>6
    <2>2. q.version >= proposals[p].first /\ q.version <= proposals[p].version
      BY <1>2, <1>4, <1>6
    <2>3. /\ q.actor \in Users /\ RoleOf[q.actor] \in ConflictReviewRoles
          /\ q.conflict \in Conflicts /\ Detected(q.conflict)
      BY <1>2, <1>6
    <2>4. q.phase # "ready" /\ q.phase # "answered"
      BY <1>6
    <2>5. QED
      BY <2>1, <2>2, <2>3, <2>4 DEF ApplySound
  <1>8. Becomes(a, q)
    BY <1>2, <1>3 DEF ReadProposal
  <1>9. QED
    BY <1>5, <1>7, <1>8, QuietApply

LEMMA ReadParcelInv ==
    ASSUME Inv, NEW a \in Appliers, ReadParcel(a)
    PROVE  Inv'
  <1>1. apply[a].phase = "parcel"
    BY DEF ReadParcel
  <1>2. PICK o \in ApplyRequest, u \in Users, k \in Conflicts, p \in Proposals :
          /\ o = apply[a] /\ ApplySound(o) /\ u = o.actor /\ k = o.conflict
          /\ RoleOf[u] \in ConflictReviewRoles /\ Detected(k)
          /\ p = conflicts[k].proposal /\ p = Source(a)
          /\ Stored(p) /\ proposals[p] \in ProposalRow
          /\ proposals[p].first <= proposals[p].version
    BY <1>1, OpenApply DEF OpenPhases
  <1>3. PICK b \in 1 .. MaxParcelVersion : b = parcelVersion[proposals[p].parcel]
    <2>1. proposals[p].parcel \in Parcels
      BY <1>2 DEF ProposalRow
    <2>2. QED
      BY <2>1 DEF Inv, TypeOK
  <1>4. PICK q : q = [o EXCEPT !.phase = "ready", !.base = b]
    OBVIOUS
  <1>5. "ready" \in ApplyPhases /\ b \in Nat /\ b >= 1
    BY <1>3, Bounds DEF ApplyPhases
  <1>6. q \in ApplyRequest
    BY <1>4, <1>5, ApplyFields
  <1>7. /\ q.phase = "ready" /\ q.base = b /\ q.version = o.version
        /\ q.actor = u /\ q.conflict = k
    BY <1>2, <1>4, ApplyFields
  <1>8. o.version >= proposals[p].first /\ o.version <= proposals[p].version
    BY <1>1, <1>2 DEF ApplySound
  <1>9. ApplySound(q)
    <2>1. conflicts[q.conflict].proposal = p
      BY <1>2, <1>7
    <2>2. q.version >= proposals[p].first /\ q.version <= proposals[p].version
      BY <1>7, <1>8
    <2>3. q.base \in 1 .. parcelVersion[proposals[p].parcel]
      BY <1>3, <1>5, <1>7
    <2>4. /\ q.actor \in Users /\ RoleOf[q.actor] \in ConflictReviewRoles
          /\ q.conflict \in Conflicts /\ Detected(q.conflict)
      BY <1>2, <1>7
    <2>5. q.phase # "answered"
      BY <1>7
    <2>6. QED
      BY <2>1, <2>2, <2>3, <2>4, <2>5 DEF ApplySound
  <1>10. Becomes(a, q)
    BY <1>2, <1>3, <1>4 DEF ReadParcel
  <1>11. QED
    BY <1>6, <1>9, <1>10, QuietApply

LEMMA FailApplyInv ==
    ASSUME Inv, NEW a \in Appliers, FailApply(a)
    PROVE  Inv'
  <1>1. 500 \in ApplyStatuses \ {201}
    BY DEF ApplyStatuses
  <1>2. PICK q \in ApplyRequest : q = AnsweredApply(500) /\ ApplySound(q)
    BY <1>1, RefusedApplySound
  <1>3. QED
    BY <1>2, QuietApply DEF FailApply

LEMMA FinishApplyInv ==
    ASSUME Inv, NEW a \in Appliers, FinishApply(a)
    PROVE  Inv'
  <1>1. ApplySound(IdleApply) /\ IdleApply \in ApplyRequest
    BY QuietRequests DEF ApplySound, OpenPhases
  <1>2. QED
    BY <1>1, QuietApply DEF FinishApply

\* The draft an apply inserts.
LEMMA DraftRow ==
    ASSUME Inv, NEW a \in Appliers, apply[a].phase = "ready"
    PROVE  \E d \in ProposalRow, u \in Users, k \in Conflicts, p \in Proposals :
             /\ d = Draft(a) /\ u = apply[a].actor /\ k = apply[a].conflict
             /\ p = conflicts[k].proposal /\ Detected(k) /\ Stored(p)
             /\ proposals[p] \in ProposalRow
             /\ RoleOf[u] \in ConflictReviewRoles
             /\ d.source = k /\ d.author = u /\ d.parcel = proposals[p].parcel
             /\ d.first = d.version /\ d.first > proposals[p].first
             /\ d.first <= proposals[p].version + 1
             /\ d.base <= parcelVersion[d.parcel]
  <1>1. PICK o \in ApplyRequest, u \in Users, k \in Conflicts, p \in Proposals :
          /\ o = apply[a] /\ ApplySound(o) /\ u = o.actor /\ k = o.conflict
          /\ RoleOf[u] \in ConflictReviewRoles /\ Detected(k)
          /\ p = conflicts[k].proposal /\ p = Source(a)
          /\ Stored(p) /\ proposals[p] \in ProposalRow
          /\ proposals[p].first <= proposals[p].version
    BY OpenApply DEF OpenPhases
  <1>2. /\ o.version >= proposals[p].first /\ o.version <= proposals[p].version
        /\ o.base \in 1 .. parcelVersion[proposals[p].parcel]
    BY <1>1 DEF ApplySound
  <1>3. /\ proposals[p].first \in Nat /\ proposals[p].version \in Nat /\ o.version \in Nat
        /\ proposals[p].parcel \in Parcels
    BY <1>1 DEF ProposalRow, ApplyRequest
  <1>4. parcelVersion[proposals[p].parcel] \in Nat
    BY <1>3, Bounds DEF Inv, TypeOK
  <1>5. PICK n \in Nat \ {0}, b \in Nat \ {0}, x \in Parcels :
          /\ n = o.version + 1 /\ b = o.base /\ x = proposals[p].parcel
    BY <1>2, <1>3, <1>4
  <1>6. Draft(a) = [version |-> n, first |-> n, parcel |-> x, base |-> b, author |-> u, source |-> k]
    BY <1>1, <1>5 DEF Draft, DraftVersion
  <1>7. Draft(a) \in ProposalRow
    BY <1>6 DEF ProposalRow
  <1>8. /\ Draft(a).source = k /\ Draft(a).author = u /\ Draft(a).parcel = x
        /\ Draft(a).version = n /\ Draft(a).first = n /\ Draft(a).base = b
    BY <1>6
  <1>9. n > proposals[p].first /\ n <= proposals[p].version + 1 /\ b <= parcelVersion[x]
    BY <1>2, <1>3, <1>4, <1>5
  <1>10. QED
    BY <1>1, <1>5, <1>7, <1>8, <1>9

\* The transaction of an apply.  Nothing was derived from its conflict before: a conflict
\* something was derived from is settled, and this one was still open.
LEMMA CommitApplyInv ==
    ASSUME Inv, NEW a \in Appliers, NEW n \in Proposals, CommitApply(a, n)
    PROVE  Inv'
  <1>1. apply[a].phase = "ready" /\ ~Stored(n)
    BY DEF CommitApply
  <1>2. PICK d \in ProposalRow, u \in Users, k \in Conflicts, p \in Proposals :
          /\ d = Draft(a) /\ u = apply[a].actor /\ k = apply[a].conflict
          /\ p = conflicts[k].proposal /\ Detected(k) /\ Stored(p)
          /\ proposals[p] \in ProposalRow
          /\ RoleOf[u] \in ConflictReviewRoles
          /\ d.source = k /\ d.author = u /\ d.parcel = proposals[p].parcel
          /\ d.first = d.version /\ d.first > proposals[p].first
          /\ d.first <= proposals[p].version + 1
          /\ d.base <= parcelVersion[d.parcel]
    BY <1>1, DraftRow
  <1>3. PICK from, to : from = "resolution_proposed" /\ to = "resolved"
    OBVIOUS
  <1>4. Transition(k, u, from, to)
    BY <1>2, <1>3 DEF CommitApply
  <1>5. CanConflictTransition(from, to) /\ from \notin Settled /\ to \in Settled
    BY <1>3 DEF CanConflictTransition, ConflictTransitions, Settled
  <1>6. PICK g \in ApplyRequest :
          g = AppliedAs(k, n) /\ g.phase = "answered" /\ g.conflict = k /\ g.draft = n
    BY AppliedShape
  <1>7. /\ proposals' = [proposals EXCEPT ![n] = d] /\ apply' = [apply EXCEPT ![a] = g]
        /\ UNCHANGED parcelVersion /\ UNCHANGED review
    BY <1>2, <1>6 DEF CommitApply
  <1>8. /\ proposals'[n] = d /\ \A q \in Proposals : q # n => proposals'[q] = proposals[q]
        /\ proposals' \in [Proposals -> ProposalRow \cup {NoDraft}]
    BY <1>7 DEF Inv, TypeOK
  <1>9. d # NoDraft /\ n # p
    <2>1. d.version # 0 /\ NoDraft.version = 0
      BY DEF NoDraft, ProposalRow
    <2>2. QED
      BY <1>1, <1>2, <2>1
  <1>rows. Rewritten(k, u, from, to)
    BY <1>2, <1>4, <1>5, TransitionRows
  <1>10. PICK e \in Entry, row \in ConflictRow :
           /\ e = Move(u, from, to) /\ row = Decided(k, u, to)
           /\ conflicts[k].state = from /\ conflicts'[k] = row
           /\ trail'[k] = Append(trail[k], e) /\ trail[k] \in Seq(Entry)
           /\ Len(trail[k]) \in Nat
    <2>1. /\ conflicts[k].state = from /\ Move(u, from, to) \in Entry
          /\ Decided(k, u, to) \in ConflictRow
      BY <1>rows DEF Rewritten
    <2>2. \A j \in Conflicts :
            /\ conflicts'[j] = IF j = k THEN Decided(k, u, to) ELSE conflicts[j]
            /\ trail'[j] = IF j = k THEN Append(trail[k], Move(u, from, to)) ELSE trail[j]
            /\ trail[j] \in Seq(Entry) /\ Len(trail[j]) \in Nat
      BY <1>rows DEF Rewritten
    <2>3. QED
      BY <2>1, <2>2
  <1>11. row.state = to
    <2>1. to \in ConflictStates
      BY <1>5, SettledStays
    <2>2. QED
      BY <1>2, <1>10, <2>1, DecidedRow DEF Inv
  <1>12. e.actor = u /\ e.before = from /\ e.after = to
    BY <1>10 DEF Move
  <1>13. \A j \in Conflicts : Detected(j) =>
           /\ conflicts'[j] # NoRow /\ conflicts'[j].proposal = conflicts[j].proposal
           /\ conflicts[j].state \in Settled => conflicts'[j].state \in Settled
    BY <1>rows DEF Rewritten
  <1>14. \A j \in Conflicts : conflicts'[j] # NoRow => Detected(j)
    BY <1>rows DEF Rewritten
  <1>15. \A j \in Conflicts : \A i \in 1 .. Len(trail[j]) :
           i \in 1 .. Len(trail'[j]) /\ trail'[j][i] = trail[j][i]
    BY <1>rows DEF Rewritten
  <1>16. TypeOK'
    <2>1. /\ conflicts' \in [Conflicts -> ConflictRow \cup {NoRow}]
          /\ trail' \in [Conflicts -> Seq(Entry)]
      BY <1>rows DEF Rewritten
    <2>2. apply' \in [Appliers -> ApplyRequest]
      BY <1>7 DEF Inv, TypeOK
    <2>3. QED
      BY <1>7, <1>8, <2>1, <2>2 DEF Inv, TypeOK
  <1>17. TrailExplainsConflict' /\ ResolverOfRecord'
    BY <1>2, <1>4, <1>5, TransitionHistory
  <1>18. AppliedAtMostOnce'
    <2>1. Derived(k) = {}
      BY <1>5, <1>10, DerivedRow DEF Derived
    <2>2. Derived(k)' = {n}
      BY <1>2, <1>8, <2>1 DEF Derived
    <2>3. \A j \in Conflicts : j # k => n \notin Derived(j)' /\ Derived(j)' \subseteq Derived(j)
      BY <1>2, <1>8 DEF Derived
    <2>4. ASSUME NEW j \in Conflicts
          PROVE  (/\ \A q, other \in Derived(j) : q = other
                  /\ \A q \in Derived(j) :
                       \E i \in 1 .. Len(trail[j]) :
                         /\ trail[j][i].before = "resolution_proposed" /\ trail[j][i].after = "resolved"
                         /\ trail[j][i].actor = proposals[q].author)'
      <3>1. CASE j = k
        <4>1. /\ Len(trail'[k]) = Len(trail[k]) + 1 /\ trail'[k][Len(trail[k]) + 1] = e
          BY <1>10, Grown
        <4>2. Len(trail[k]) + 1 \in 1 .. Len(trail'[k])
          BY <1>10, <4>1
        <4>3. /\ trail'[k][Len(trail[k]) + 1].before = "resolution_proposed"
              /\ trail'[k][Len(trail[k]) + 1].after = "resolved"
              /\ trail'[k][Len(trail[k]) + 1].actor = proposals'[n].author
          BY <1>2, <1>3, <1>8, <1>12, <4>1
        <4>4. QED
          BY <2>2, <3>1, <4>2, <4>3
      <3>2. CASE j # k
        <4>1. /\ \A q, other \in Derived(j) : q = other
              /\ \A q \in Derived(j) :
                   \E i \in 1 .. Len(trail[j]) :
                     /\ trail[j][i].before = "resolution_proposed" /\ trail[j][i].after = "resolved"
                     /\ trail[j][i].actor = proposals[q].author
          BY DEF Inv, AppliedAtMostOnce
        <4>2. \A q \in Derived(j)' : q \in Derived(j) /\ proposals'[q] = proposals[q]
          BY <1>8, <2>3, <3>2 DEF Derived
        <4>3. ASSUME NEW q \in Derived(j)'
              PROVE  \E i \in 1 .. Len(trail'[j]) :
                       /\ trail'[j][i].before = "resolution_proposed"
                       /\ trail'[j][i].after = "resolved"
                       /\ trail'[j][i].actor = proposals'[q].author
          <5>1. PICK i \in 1 .. Len(trail[j]) :
                  /\ trail[j][i].before = "resolution_proposed" /\ trail[j][i].after = "resolved"
                  /\ trail[j][i].actor = proposals[q].author
            BY <4>1, <4>2
          <5>2. i \in 1 .. Len(trail'[j]) /\ trail'[j][i] = trail[j][i]
            BY <1>15
          <5>3. QED
            BY <4>2, <5>1, <5>2
        <4>4. \A q, other \in Derived(j)' : q = other
          BY <4>1, <4>2
        <4>5. QED
          BY <4>3, <4>4
      <3>3. QED
        BY <3>1, <3>2
    <2>5. QED
      BY <2>4 DEF AppliedAtMostOnce
  <1>19. DraftContinuesItsSource'
    <2> SUFFICES ASSUME NEW j \in Conflicts, NEW q \in Proposals, proposals'[q].source = j,
                        NEW source, source = conflicts'[j].proposal
                 PROVE  /\ proposals'[q].first > proposals'[source].first
                        /\ proposals'[q].first <= proposals'[source].version + 1
                        /\ proposals'[q].base <= parcelVersion'[proposals'[q].parcel]
      BY DEF DraftContinuesItsSource
    <2>1. CASE q = n
      <3>1. j = k /\ proposals'[q] = d
        BY <1>2, <1>8, <2>1
      <3>2. source = p /\ proposals'[source] = proposals[p]
        BY <1>2, <1>8, <1>9, <1>13, <3>1
      <3>3. QED
        BY <1>2, <1>7, <3>1, <3>2
    <2>2. CASE q # n
      <3>1. proposals'[q] = proposals[q] /\ proposals[q].source = j
        BY <1>8, <2>2
      <3>2. Detected(j)
        BY <3>1, DerivedRow
      <3>3. source = conflicts[j].proposal /\ source \in Proposals /\ Stored(source)
        BY <1>13, <3>2, SourceOf
      <3>4. proposals'[source] = proposals[source]
        BY <1>1, <1>8, <3>3
      <3>5. QED
        BY <1>7, <3>1, <3>3, <3>4 DEF Inv, DraftContinuesItsSource
    <2>3. QED
      BY <2>1, <2>2
  <1>20. RowsSound'
    <2>1. ASSUME NEW j \in Conflicts, conflicts'[j] # NoRow
          PROVE  proposals'[conflicts'[j].proposal] # NoDraft
      <3>1. Detected(j) /\ conflicts'[j].proposal = conflicts[j].proposal
        BY <1>13, <1>14, <2>1
      <3>2. QED
        BY <1>1, <1>8, <3>1, SourceOf DEF Stored
    <2>2. ASSUME NEW q \in Proposals, proposals'[q] # NoDraft
          PROVE  /\ proposals'[q].first <= proposals'[q].version
                 /\ proposals'[q].source \in Conflicts =>
                      /\ conflicts'[proposals'[q].source] # NoRow
                      /\ conflicts'[proposals'[q].source].state \in Settled
      <3>1. CASE q = n
        <4>1. d.version \in Nat
          BY DEF ProposalRow
        <4>2. proposals'[q].first <= proposals'[q].version /\ proposals'[q].source = k
          <5>1. proposals'[q] = d
            BY <1>8, <3>1
          <5>2. d.first = d.version /\ d.source = k
            BY <1>2
          <5>3. QED
            BY <4>1, <5>1, <5>2
        <4>3. conflicts'[k] # NoRow /\ conflicts'[k].state \in Settled
          BY <1>2, <1>5, <1>10, <1>11, <1>13
        <4>4. QED
          BY <4>2, <4>3
      <3>2. CASE q # n
        <4>1. proposals'[q] = proposals[q] /\ Stored(q)
          BY <1>8, <2>2, <3>2 DEF Stored
        <4>2. QED
          BY <1>13, <4>1 DEF Inv, RowsSound
      <3>3. QED
        BY <3>1, <3>2
    <2>3. QED
      BY <2>1, <2>2 DEF RowsSound, Detected, Stored
  <1>21. Forward
    <2>1. ASSUME NEW q \in Proposals, Stored(q)
          PROVE  proposals'[q] = proposals[q] /\ proposals[q].version \in Nat
      <3>1. proposals'[q] = proposals[q]
        BY <1>1, <1>8, <2>1
      <3>2. QED
        BY <2>1, <3>1, StoredRow DEF Inv, ProposalRow
    <2>2. \A x \in Parcels : parcelVersion[x] \in Nat
      BY Bounds DEF Inv, TypeOK
    <2>3. QED
      BY <1>7, <1>13, <2>1, <2>2 DEF Forward, Stored
  <1>22. RequestsSound'
    <2>1. ASSUME NEW s \in Reviewers, NEW o, o = review'[s]
          PROVE  ReviewSound(o)'
      BY <1>7, <1>16, <1>21, <2>1, OthersKept
    <2>2. ASSUME NEW b \in Appliers, NEW o, o = apply'[b]
          PROVE  ApplySound(o)'
      <3>1. CASE b = a
        <4>1. o = g
          BY <1>7, <2>2, <3>1 DEF Inv, TypeOK
        <4>2. o.phase \notin OpenPhases /\ o.phase \notin {"parcel", "ready"} /\ o.phase # "ready"
          BY <1>6, <4>1 DEF OpenPhases
        <4>3. /\ o.conflict \in Conflicts /\ o.draft \in Proposals
              /\ Detected(o.conflict)' /\ conflicts'[o.conflict].state \in Settled
              /\ Stored(o.draft)' /\ proposals'[o.draft].source = o.conflict
          <5>1. o.conflict = k /\ o.draft = n
            BY <1>6, <4>1
          <5>2. conflicts'[k] # NoRow /\ conflicts'[k].state \in Settled
            BY <1>2, <1>5, <1>10, <1>11, <1>13
          <5>3. proposals'[n] # NoDraft /\ proposals'[n].source = k
            BY <1>2, <1>8, <1>9
          <5>4. QED
            BY <5>1, <5>2, <5>3 DEF Detected, Stored
        <4>4. proposals'[o.draft].parcel = proposals'[conflicts'[o.conflict].proposal].parcel
          <5>1. o.conflict = k /\ o.draft = n
            BY <1>6, <4>1
          <5>2. conflicts'[k].proposal = p /\ proposals'[p] = proposals[p]
            BY <1>2, <1>8, <1>9, <1>13
          <5>3. proposals'[n].parcel = proposals[p].parcel
            BY <1>2, <1>8
          <5>4. QED
            BY <5>1, <5>2, <5>3
        <4>5. QED
          BY <4>2, <4>3, <4>4 DEF ApplySound
      <3>2. CASE b # a
        <4>1. o = apply[b]
          BY <1>7, <2>2, <3>2 DEF Inv, TypeOK
        <4>2. QED
          BY <1>16, <1>21, <4>1, OthersKept
      <3>3. QED
        BY <3>1, <3>2
    <2>3. QED
      BY <2>1, <2>2 DEF RequestsSound
  <1>23. QED
    BY <1>16, <1>17, <1>18, <1>19, <1>20, <1>22 DEF Inv

-----------------------------------------------------------------------------
(* Crashes, and what the other services commit. *)

LEMMA CrashInv ==
    ASSUME Inv, Crash
    PROVE  Inv'
  <1>1. UNCHANGED <<conflicts, trail, proposals, parcelVersion>>
    BY DEF Crash
  <1>2. TypeOK'
    BY QuietRequests DEF Inv, TypeOK, Crash
  <1>3. ASSUME NEW s \in Reviewers, NEW o, o = review'[s]
        PROVE  ReviewSound(o)'
    <2>1. o.phase = "idle"
      BY <1>3, QuietRequests DEF Crash
    <2>2. QED
      BY <2>1 DEF ReviewSound
  <1>4. ASSUME NEW b \in Appliers, NEW o, o = apply'[b]
        PROVE  ApplySound(o)'
    <2>1. o.phase = "idle"
      BY <1>4, QuietRequests DEF Crash
    <2>2. QED
      BY <2>1 DEF ApplySound, OpenPhases
  <1>5. RequestsSound'
    BY <1>3, <1>4 DEF RequestsSound
  <1>6. QED
    BY <1>1, <1>2, <1>5, TablesKept DEF Inv

LEMMA ConflictDetectedInv ==
    ASSUME Inv, NEW k \in Conflicts, NEW u \in Users, NEW p \in Proposals,
           ConflictDetected(k, u, p)
    PROVE  Inv'
  <1>1. ~Detected(k) /\ Stored(p)
    BY DEF ConflictDetected
  <1>2. PICK row : row = [state |-> "detected", resolvedBy |-> NoUser, proposal |-> p]
    OBVIOUS
  <1>3. PICK e : e = [actor |-> u, before |-> "none", after |-> "detected"]
    OBVIOUS
  <1>4. /\ row \in ConflictRow /\ row # NoRow /\ row.state = "detected"
        /\ row.resolvedBy = NoUser /\ row.proposal = p
    <2>1. row \in ConflictRow
      BY <1>2 DEF ConflictRow, ConflictStates
    <2>2. row.state = "detected" /\ row.resolvedBy = NoUser /\ row.proposal = p
      BY <1>2
    <2>3. NoRow.state = "none"
      BY DEF NoRow
    <2>4. QED
      BY <2>1, <2>2, <2>3
  <1>5. e \in Entry /\ e.before = "none" /\ e.after = "detected"
    BY <1>3 DEF Entry, ConflictStates
  <1>6. /\ conflicts' = [conflicts EXCEPT ![k] = row] /\ trail' = [trail EXCEPT ![k] = <<e>>]
        /\ UNCHANGED <<proposals, parcelVersion>> /\ UNCHANGED review /\ UNCHANGED apply
    BY <1>2, <1>3 DEF ConflictDetected
  <1>7. /\ conflicts'[k] = row /\ trail'[k] = <<e>>
        /\ \A j \in Conflicts : j # k => conflicts'[j] = conflicts[j] /\ trail'[j] = trail[j]
    BY <1>6 DEF Inv, TypeOK
  <1>8. TypeOK'
    <2>1. <<e>> \in Seq(Entry)
      BY <1>5
    <2>2. QED
      BY <1>4, <1>6, <2>1 DEF Inv, TypeOK
  <1>9. \A j \in Conflicts : Detected(j) => conflicts'[j] = conflicts[j] /\ trail'[j] = trail[j]
    BY <1>1, <1>7
  <1>10. TrailExplainsConflict'
    <2>1. /\ conflicts'[k] # NoRow /\ trail'[k] # <<>> /\ Len(trail'[k]) = 1 /\ trail'[k][1] = e
      BY <1>4, <1>7
    <2>2. QED
      BY <1>4, <1>5, <1>7, <2>1 DEF Inv, TrailExplainsConflict, Detected
  <1>11. ResolverOfRecord'
    <2>1. Resolutions(k)' = {}
      BY <1>5, <1>7 DEF Resolutions
    <2>2. \A j \in Conflicts : j # k => Resolutions(j)' = Resolutions(j)
      BY <1>7 DEF Resolutions
    <2>3. QED
      BY <1>4, <1>7, <2>1, <2>2 DEF Inv, ResolverOfRecord
  <1>12. AppliedAtMostOnce'
    <2>1. \A j \in Conflicts : Derived(j)' = Derived(j)
      BY <1>6 DEF Derived
    <2>2. \A j \in Conflicts : \A q \in Derived(j) : trail'[j] = trail[j]
      BY <1>9, DerivedRow DEF Derived
    <2>3. QED
      BY <1>6, <2>1, <2>2 DEF Inv, AppliedAtMostOnce
  <1>13. DraftContinuesItsSource'
    <2>1. \A j \in Conflicts, q \in Proposals : proposals[q].source = j =>
            conflicts'[j] = conflicts[j]
      BY <1>9, DerivedRow
    <2>2. QED
      BY <1>6, <2>1 DEF Inv, DraftContinuesItsSource
  <1>14. RowsSound'
    BY <1>1, <1>4, <1>6, <1>7 DEF Inv, RowsSound, Detected, Stored
  <1>15. Forward
    <2>1. \A q \in Proposals : Stored(q) => proposals[q].version \in Nat
      BY StoredRow DEF Inv, ProposalRow
    <2>2. \A x \in Parcels : parcelVersion[x] \in Nat
      BY Bounds DEF Inv, TypeOK
    <2>3. QED
      BY <1>6, <1>9, <2>1, <2>2 DEF Forward, Detected, Stored
  <1>16. RequestsSound'
    <2>1. ASSUME NEW s \in Reviewers, NEW o, o = review'[s]
          PROVE  ReviewSound(o)'
      BY <1>6, <1>8, <1>15, <2>1, OthersKept
    <2>2. ASSUME NEW b \in Appliers, NEW o, o = apply'[b]
          PROVE  ApplySound(o)'
      BY <1>6, <1>8, <1>15, <2>2, OthersKept
    <2>3. QED
      BY <2>1, <2>2 DEF RequestsSound
  <1>17. QED
    BY <1>8, <1>10, <1>11, <1>12, <1>13, <1>14, <1>16 DEF Inv

\* Steps on proposals and parcels that derive nothing.
LEMMA RowsMoveInv ==
    ASSUME Inv, TypeOK', Forward, UNCHANGED <<conflicts, trail, review, apply>>,
           \A q \in Proposals : Stored(q)' => proposals'[q].first <= proposals'[q].version,
           \A q \in Proposals : proposals'[q].source \in Conflicts =>
             /\ Stored(q) /\ proposals[q].source = proposals'[q].source
             /\ proposals'[q].author = proposals[q].author
             /\ proposals'[q].base = proposals[q].base
    PROVE  Inv'
  <1>1. TrailExplainsConflict' /\ ResolverOfRecord'
    BY DEF Inv, TrailExplainsConflict, ResolverOfRecord, Resolutions, Detected
  <1>2. AppliedAtMostOnce'
    <2>1. \A j \in Conflicts : \A q \in Derived(j)' :
            q \in Derived(j) /\ proposals'[q].author = proposals[q].author
      BY DEF Derived
    <2>2. QED
      BY <2>1 DEF Inv, AppliedAtMostOnce
  <1>3. DraftContinuesItsSource'
    <2> SUFFICES ASSUME NEW j \in Conflicts, NEW q \in Proposals, proposals'[q].source = j,
                        NEW source, source = conflicts[j].proposal
                 PROVE  /\ proposals'[q].first > proposals'[source].first
                        /\ proposals'[q].first <= proposals'[source].version + 1
                        /\ proposals'[q].base <= parcelVersion'[proposals'[q].parcel]
      BY DEF DraftContinuesItsSource
    <2>1. /\ proposals[q].source = j /\ proposals'[q].base = proposals[q].base /\ Stored(q)
          /\ proposals[q] \in ProposalRow /\ Detected(j)
      BY DerivedRow
    <2>2. /\ proposals'[q].first = proposals[q].first /\ proposals'[q].parcel = proposals[q].parcel
      BY <2>1 DEF Forward
    <2>3. source \in Proposals /\ Stored(source) /\ proposals[source] \in ProposalRow
      BY <2>1, SourceOf
    <2>4. /\ proposals'[source].first = proposals[source].first /\ proposals'[source] # NoDraft
          /\ proposals'[source].version >= proposals[source].version
      BY <2>3 DEF Forward
    <2>5. proposals'[source] \in ProposalRow
      BY <2>3, <2>4 DEF TypeOK
    <2>6. /\ proposals[q].first > proposals[source].first
          /\ proposals[q].first <= proposals[source].version + 1
          /\ proposals[q].base <= parcelVersion[proposals[q].parcel]
      BY <2>1 DEF Inv, DraftContinuesItsSource
    <2>7. /\ proposals[q].first \in Nat /\ proposals[q].base \in Nat /\ proposals[q].parcel \in Parcels
          /\ proposals[source].version \in Nat /\ proposals'[source].version \in Nat
      BY <2>1, <2>3, <2>5 DEF ProposalRow
    <2>8. /\ parcelVersion[proposals[q].parcel] \in Nat /\ parcelVersion'[proposals[q].parcel] \in Nat
          /\ parcelVersion'[proposals[q].parcel] >= parcelVersion[proposals[q].parcel]
      BY <2>7, Bounds DEF Inv, TypeOK, Forward
    <2>9. QED
      BY <2>1, <2>2, <2>4, <2>6, <2>7, <2>8
  <1>4. RowsSound'
    <2>1. \A j \in Conflicts : Detected(j) => Stored(conflicts[j].proposal)'
      BY SourceOf DEF Forward, Stored
    <2>2. \A q \in Proposals : proposals'[q].source \in Conflicts =>
            /\ Detected(proposals'[q].source)
            /\ conflicts[proposals'[q].source].state \in Settled
      BY DerivedRow
    <2>3. QED
      BY <2>1, <2>2 DEF RowsSound, Detected, Stored
  <1>5. RequestsSound'
    <2>1. ASSUME NEW s \in Reviewers, NEW o, o = review'[s]
          PROVE  ReviewSound(o)'
      BY <2>1, OthersKept
    <2>2. ASSUME NEW b \in Appliers, NEW o, o = apply'[b]
          PROVE  ApplySound(o)'
      BY <2>2, OthersKept
    <2>3. QED
      BY <2>1, <2>2 DEF RequestsSound
  <1>6. QED
    BY <1>1, <1>2, <1>3, <1>4, <1>5 DEF Inv

LEMMA ProposalCreatedInv ==
    ASSUME Inv, NEW n \in Proposals, NEW u \in Users, NEW x \in Parcels, ProposalCreated(n, u, x)
    PROVE  Inv'
  <1>1. ~Stored(n) /\ UNCHANGED <<conflicts, trail, parcelVersion, review, apply>>
    BY DEF ProposalCreated
  <1>2. PICK b \in Nat \ {0} : b = parcelVersion[x]
    BY Bounds DEF Inv, TypeOK
  <1>3. PICK d : d = [version |-> 1, first |-> 1, parcel |-> x, base |-> b,
                      author |-> u, source |-> NoConflict]
    OBVIOUS
  <1>4. d \in ProposalRow /\ d.version = 1 /\ d.first = 1 /\ d.source = NoConflict
    BY <1>3 DEF ProposalRow
  <1>5. proposals' = [proposals EXCEPT ![n] = d]
    BY <1>2, <1>3 DEF ProposalCreated
  <1>6. /\ proposals'[n] = d /\ \A q \in Proposals : q # n => proposals'[q] = proposals[q]
    BY <1>5 DEF Inv, TypeOK
  <1>7. TypeOK'
    BY <1>1, <1>4, <1>5 DEF Inv, TypeOK
  <1>8. Forward
    <2>1. \A q \in Proposals : Stored(q) =>
            proposals'[q] = proposals[q] /\ proposals[q].version \in Nat
      BY <1>1, <1>6, StoredRow DEF Inv, ProposalRow
    <2>2. \A y \in Parcels : parcelVersion[y] \in Nat
      BY Bounds DEF Inv, TypeOK
    <2>3. QED
      BY <1>1, <2>1, <2>2 DEF Forward, Detected, Stored
  <1>9. \A q \in Proposals : Stored(q)' => proposals'[q].first <= proposals'[q].version
    BY <1>4, <1>6 DEF Inv, RowsSound, Stored
  <1>10. \A q \in Proposals : proposals'[q].source \in Conflicts =>
           /\ Stored(q) /\ proposals[q].source = proposals'[q].source
           /\ proposals'[q].author = proposals[q].author
           /\ proposals'[q].base = proposals[q].base
    BY <1>4, <1>6, DerivedRow, Identifiers
  <1>11. QED
    BY <1>1, <1>7, <1>8, <1>9, <1>10, RowsMoveInv

LEMMA ProposalMovedInv ==
    ASSUME Inv, NEW n \in Proposals, ProposalMoved(n)
    PROVE  Inv'
  <1>1. Stored(n) /\ UNCHANGED <<conflicts, trail, parcelVersion, review, apply>>
    BY DEF ProposalMoved
  <1>2. PICK o \in ProposalRow : o = proposals[n]
    BY <1>1, StoredRow DEF Inv
  <1>3. o.version \in Nat /\ o.version + 1 \in Nat \ {0}
    BY <1>2 DEF ProposalRow
  <1>4. PICK d : d = [o EXCEPT !.version = o.version + 1]
    OBVIOUS
  <1>5. /\ d \in ProposalRow /\ d.version = o.version + 1 /\ d.first = o.first
        /\ d.parcel = o.parcel /\ d.source = o.source /\ d.author = o.author /\ d.base = o.base
    <2>1. d \in ProposalRow
      BY <1>3, <1>4 DEF ProposalRow
    <2>2. d.version = o.version + 1 /\ d.first = o.first /\ d.parcel = o.parcel
      BY <1>4 DEF ProposalRow
    <2>3. d.source = o.source /\ d.author = o.author /\ d.base = o.base
      BY <1>4 DEF ProposalRow
    <2>4. QED
      BY <2>1, <2>2, <2>3
  <1>6. proposals' = [proposals EXCEPT ![n] = d]
    BY <1>2, <1>4 DEF ProposalMoved, Inv, TypeOK
  <1>7. /\ proposals'[n] = d /\ \A q \in Proposals : q # n => proposals'[q] = proposals[q]
    BY <1>6 DEF Inv, TypeOK
  <1>8. TypeOK'
    BY <1>1, <1>5, <1>6 DEF Inv, TypeOK
  <1>9. d # NoDraft
    BY <1>5 DEF ProposalRow, NoDraft
  <1>10. Forward
    <2>1. ASSUME NEW q \in Proposals, Stored(q)
          PROVE  /\ proposals'[q] # NoDraft /\ proposals'[q].parcel = proposals[q].parcel
                 /\ proposals'[q].first = proposals[q].first
                 /\ proposals'[q].source = proposals[q].source
                 /\ proposals'[q].version >= proposals[q].version
      <3>1. CASE q = n
        BY <1>2, <1>3, <1>5, <1>7, <1>9, <3>1
      <3>2. CASE q # n
        <4>1. proposals'[q] = proposals[q] /\ proposals[q].version \in Nat
          BY <1>7, <2>1, <3>2, StoredRow DEF Inv, ProposalRow
        <4>2. QED
          BY <2>1, <4>1 DEF Stored
      <3>3. QED
        BY <3>1, <3>2
    <2>2. \A y \in Parcels : parcelVersion[y] \in Nat
      BY Bounds DEF Inv, TypeOK
    <2>3. QED
      BY <1>1, <2>1, <2>2 DEF Forward, Detected
  <1>11. ASSUME NEW q \in Proposals, Stored(q)'
         PROVE  proposals'[q].first <= proposals'[q].version
    <2>1. CASE q = n
      <3>1. o.first <= o.version /\ o.first \in Nat
        BY <1>1, <1>2 DEF Inv, RowsSound, ProposalRow
      <3>2. QED
        BY <1>3, <1>5, <1>7, <2>1, <3>1
    <2>2. CASE q # n
      BY <1>7, <1>11, <2>2 DEF Inv, RowsSound, Stored
    <2>3. QED
      BY <2>1, <2>2
  <1>12. ASSUME NEW q \in Proposals, proposals'[q].source \in Conflicts
         PROVE  /\ Stored(q) /\ proposals[q].source = proposals'[q].source
                /\ proposals'[q].author = proposals[q].author
                /\ proposals'[q].base = proposals[q].base
    <2>1. CASE q = n
      BY <1>1, <1>2, <1>5, <1>7, <2>1
    <2>2. CASE q # n
      BY <1>7, <1>12, <2>2, DerivedRow
    <2>3. QED
      BY <2>1, <2>2
  <1>13. QED
    BY <1>1, <1>8, <1>10, <1>11, <1>12, RowsMoveInv

LEMMA ParcelUpdatedInv ==
    ASSUME Inv, NEW x \in Parcels, ParcelUpdated(x)
    PROVE  Inv'
  <1>1. PICK v \in 1 .. MaxParcelVersion : v = parcelVersion[x] /\ v < MaxParcelVersion
    BY DEF Inv, TypeOK, ParcelUpdated
  <1>2. v \in Nat /\ v + 1 \in 1 .. MaxParcelVersion
    BY <1>1, Bounds
  <1>3. parcelVersion' = [parcelVersion EXCEPT ![x] = v + 1]
    BY <1>1 DEF ParcelUpdated, Inv, TypeOK
  <1>4. UNCHANGED <<conflicts, trail, proposals, review, apply>>
    BY DEF ParcelUpdated
  <1>5. TypeOK'
    BY <1>2, <1>3, <1>4 DEF Inv, TypeOK
  <1>6. Forward
    <2>1. \A y \in Parcels : parcelVersion[y] \in Nat /\ parcelVersion'[y] >= parcelVersion[y]
      BY <1>1, <1>2, <1>3, Bounds DEF Inv, TypeOK
    <2>2. \A q \in Proposals : Stored(q) => proposals[q].version \in Nat
      BY StoredRow DEF Inv, ProposalRow
    <2>3. QED
      BY <1>4, <2>1, <2>2 DEF Forward, Detected, Stored
  <1>7. \A q \in Proposals : Stored(q)' => proposals'[q].first <= proposals'[q].version
    BY <1>4 DEF Inv, RowsSound, Stored
  <1>8. \A q \in Proposals : proposals'[q].source \in Conflicts =>
          /\ Stored(q) /\ proposals[q].source = proposals'[q].source
          /\ proposals'[q].author = proposals[q].author
          /\ proposals'[q].base = proposals[q].base
    BY <1>4, DerivedRow
  <1>9. QED
    BY <1>4, <1>5, <1>6, <1>7, <1>8, RowsMoveInv

-----------------------------------------------------------------------------
LEMMA NextInv == Inv /\ [Next]_vars => Inv'
  <1> SUFFICES ASSUME Inv, [Next]_vars
               PROVE  Inv'
    OBVIOUS
  <1>1. CASE \E r \in Reviewers : ReviewStep(r)
    BY <1>1, CheckReviewInv, CommitReviewInv, RefuseReviewInv, FinishReviewInv DEF ReviewStep
  <1>2. CASE \E a \in Appliers : ApplyStep(a)
    BY <1>2, CheckApplyInv, ReadProposalInv, ReadParcelInv, CommitApplyInv, FailApplyInv,
       FinishApplyInv DEF ApplyStep
  <1>3. CASE Crash
    BY <1>3, CrashInv
  <1>4. CASE Env
    BY <1>4, ConflictDetectedInv, ProposalCreatedInv, ProposalMovedInv, ParcelUpdatedInv DEF Env
  <1>5. CASE UNCHANGED vars
    <2>1. UNCHANGED <<conflicts, trail, review, apply>> /\ UNCHANGED proposals
            /\ UNCHANGED parcelVersion
      BY <1>5 DEF vars
    <2>2. TypeOK'
      BY <2>1 DEF Inv, TypeOK
    <2>3. Forward
      BY <2>1, TablesKept
    <2>4. \A q \in Proposals : Stored(q)' => proposals'[q].first <= proposals'[q].version
      BY <2>1 DEF Inv, RowsSound, Stored
    <2>5. \A q \in Proposals : proposals'[q].source \in Conflicts =>
            /\ Stored(q) /\ proposals[q].source = proposals'[q].source
            /\ proposals'[q].author = proposals[q].author
            /\ proposals'[q].base = proposals[q].base
      BY <2>1, DerivedRow
    <2>6. QED
      BY <2>1, <2>2, <2>3, <2>4, <2>5, RowsMoveInv
  <1>6. QED
    BY <1>1, <1>2, <1>3, <1>4, <1>5 DEF Next, Step

LEMMA Invariance == Spec => []Inv
  <1>1. QED
    BY InitInv, NextInv, PTL DEF Spec

\* Every table, trail and request holds values of its type.
THEOREM TypeCorrect == Spec => []TypeOK
  <1>1. Inv => TypeOK
    BY DEF Inv
  <1>2. QED
    BY <1>1, Invariance, PTL

\* The audit trail of a conflict is its history: legal transitions by reviewers, each from
\* where the one before it ended, up to the state in the row.
THEOREM HistoryIsComplete == Spec => []TrailExplainsConflict
  <1>1. Inv => TrailExplainsConflict
    BY DEF Inv
  <1>2. QED
    BY <1>1, Invariance, PTL

\* resolved_by is always the actor of the latest resolving or closing entry of the trail.
THEOREM ResolverIsRecorded == Spec => []ResolverOfRecord
  <1>1. Inv => ResolverOfRecord
    BY DEF Inv
  <1>2. QED
    BY <1>1, Invariance, PTL

\* However many reviewers apply one suggestion at once, at most one draft comes of it, and
\* its author is on record for resolving the conflict.
THEOREM OneDraftPerConflict == Spec => []AppliedAtMostOnce
  <1>1. Inv => AppliedAtMostOnce
    BY DEF Inv
  <1>2. QED
    BY <1>1, Invariance, PTL

\* An apply that was answered 201 is done: its draft is stored for the parcel of the
\* conflict's proposal, and the conflict is settled for good.
THEOREM AnswersAreKept == Spec => []AppliedIsDone
  <1>1. Inv => AppliedIsDone
    <2> SUFFICES ASSUME Inv, NEW a \in Appliers, apply[a].phase = "answered", apply[a].status = 201
                 PROVE  /\ Stored(apply[a].draft)
                        /\ proposals[apply[a].draft].source = apply[a].conflict
                        /\ proposals[apply[a].draft].parcel = proposals[Source(a)].parcel
                        /\ conflicts[apply[a].conflict].state \in {"resolved", "closed"}
      BY DEF AppliedIsDone
    <2>1. ApplySound(apply[a])
      BY DEF Inv, RequestsSound
    <2>2. QED
      BY <2>1 DEF ApplySound, Source, Settled
  <1>2. QED
    BY <1>1, Invariance, PTL

\* A derived draft starts above the first version of the proposal it continues, no further
\* than one above where that proposal is now, on a version its parcel has had.
THEOREM DraftsContinue == Spec => []DraftContinuesItsSource
  <1>1. Inv => DraftContinuesItsSource
    BY DEF Inv
  <1>2. QED
    BY <1>1, Invariance, PTL

-----------------------------------------------------------------------------
(* The refinement. *)

LEMMA DraftedStays ==
    ASSUME \A p \in Proposals : proposals'[p].source = proposals[p].source
                                /\ proposals'[p].author = proposals[p].author
    PROVE  Drafted' = Drafted
  BY DEF Drafted

\* A conditional update that takes effect is an entry that continues the ledger.
LEMMA TransitionAdvances ==
    ASSUME Inv, NEW k \in Conflicts, Detected(k), NEW u \in Users,
           RoleOf[u] \in ConflictReviewRoles, NEW from, NEW to,
           CanConflictTransition(from, to), Transition(k, u, from, to)
    PROVE  Ledger!Advance(k, u, to)
  <1>1. conflicts[k].state = from
    BY DEF Transition, StateUnchanged
  <1>2. trail[k] # <<>> /\ Ledger!Latest(k) = from
    BY <1>1 DEF Inv, TrailExplainsConflict, Ledger!Latest
  <1>3. trail' = [trail EXCEPT ![k] = Append(@, Ledger!Entry(u, from, to))]
    BY DEF Transition, Audited, Ledger!Entry
  <1>4. RoleOf[u] \in Ledger!ConflictReviewRoles /\ Ledger!CanConflictTransition(from, to)
    BY DEF Ledger!ConflictReviewRoles, ConflictReviewRoles, Ledger!CanConflictTransition,
           CanConflictTransition, Ledger!ConflictTransitions, ConflictTransitions
  <1>5. QED
    BY <1>2, <1>3, <1>4 DEF Ledger!Advance

LEMMA CommitReviewMoves ==
    ASSUME Inv, NEW r \in Reviewers, CommitReview(r)
    PROVE  Ledger!Next
  <1>1. PICK q \in ReviewRequest : q = review[r] /\ ReviewSound(q) /\ q.phase = "checked"
    BY DEF Inv, TypeOK, RequestsSound, CommitReview
  <1>2. PICK k \in Conflicts, u \in Users, from \in ConflictStates, to \in ConflictStates :
           /\ k = q.conflict /\ u = q.actor /\ from = q.seen /\ to = q.to
           /\ Detected(k) /\ RoleOf[u] \in ConflictReviewRoles
           /\ CanConflictTransition(from, to)
    BY <1>1, SettledStays DEF ReviewSound
  <1>3. Transition(k, u, from, to) /\ UNCHANGED proposals
    BY <1>1, <1>2 DEF CommitReview
  <1>4. Ledger!Advance(k, u, to) /\ Drafted' = Drafted
    BY <1>2, <1>3, TransitionAdvances, DraftedStays
  <1>5. Ledger!Move(k, u, to)
    BY <1>4 DEF Ledger!Move
  <1>6. QED
    BY <1>5 DEF Ledger!Next, Ledger!ConflictStates, ConflictStates

LEMMA CommitApplyApplies ==
    ASSUME Inv, NEW a \in Appliers, NEW n \in Proposals, CommitApply(a, n)
    PROVE  Ledger!Next
  <1>1. apply[a].phase = "ready" /\ ~Stored(n)
    BY DEF CommitApply
  <1>2. PICK d \in ProposalRow, u \in Users, k \in Conflicts :
          /\ d = Draft(a) /\ u = apply[a].actor /\ k = apply[a].conflict
          /\ Detected(k) /\ RoleOf[u] \in ConflictReviewRoles
          /\ d.source = k /\ d.author = u
    BY <1>1, DraftRow
  <1>3. PICK from, to : from = "resolution_proposed" /\ to = "resolved"
    OBVIOUS
  <1>4. Transition(k, u, from, to) /\ CanConflictTransition(from, to)
    BY <1>2, <1>3 DEF CommitApply, CanConflictTransition, ConflictTransitions
  <1>5. Ledger!Advance(k, u, "resolved")
    BY <1>2, <1>3, <1>4, TransitionAdvances
  <1>6. /\ proposals'[n] = d /\ \A q \in Proposals : q # n => proposals'[q] = proposals[q]
    BY <1>2 DEF CommitApply, Inv, TypeOK
  <1>7. proposals[n].source = NoConflict /\ k # NoConflict
    BY <1>1, StoredRow, Identifiers DEF Inv
  <1>8. Drafted' = Drafted \cup {[conflict |-> k, proposal |-> n, author |-> u]}
    BY <1>2, <1>6, <1>7 DEF Drafted
  <1>9. \A x \in Drafted : x.proposal # n
    BY <1>7 DEF Drafted
  <1>10. Ledger!Apply(k, u, n)
    BY <1>5, <1>8, <1>9 DEF Ledger!Apply
  <1>11. QED
    BY <1>10 DEF Ledger!Next

LEMMA DetectionDetects ==
    ASSUME Inv, NEW k \in Conflicts, NEW u \in Users, NEW p \in Proposals, ConflictDetected(k, u, p)
    PROVE  Ledger!Next
  <1>1. trail[k] = <<>>
    BY DEF ConflictDetected, Inv, TrailExplainsConflict
  <1>2. /\ trail' = [trail EXCEPT ![k] = <<Ledger!Entry(u, "none", "detected")>>]
        /\ Drafted' = Drafted
    BY DraftedStays DEF ConflictDetected, Ledger!Entry
  <1>3. Ledger!Detect(k, u)
    BY <1>1, <1>2 DEF Ledger!Detect
  <1>4. QED
    BY <1>3 DEF Ledger!Next

LEMMA ProposalStutters ==
    ASSUME Inv, NEW n \in Proposals,
           \/ \E u \in Users, x \in Parcels : ProposalCreated(n, u, x)
           \/ ProposalMoved(n)
    PROVE  UNCHANGED <<trail, Drafted>>
  <1>1. CASE \E u \in Users, x \in Parcels : ProposalCreated(n, u, x)
    <2>1. proposals[n].source = NoConflict
      BY <1>1, StoredRow DEF ProposalCreated, Inv
    <2>2. PICK row : proposals' = [proposals EXCEPT ![n] = row] /\ row.source = NoConflict
      <3>1. PICK u \in Users, x \in Parcels : ProposalCreated(n, u, x)
        BY <1>1
      <3>2. PICK d : d = [version |-> 1, first |-> 1, parcel |-> x, base |-> parcelVersion[x],
                          author |-> u, source |-> NoConflict]
        OBVIOUS
      <3>3. d.source = NoConflict /\ proposals' = [proposals EXCEPT ![n] = d]
        BY <3>1, <3>2 DEF ProposalCreated
      <3>4. QED
        BY <3>3
    <2>3. /\ proposals'[n].source = NoConflict
          /\ \A q \in Proposals : q # n => proposals'[q] = proposals[q]
      BY <2>2 DEF Inv, TypeOK
    <2>4. Drafted' = Drafted
      BY <2>1, <2>3 DEF Drafted
    <2>5. QED
      BY <1>1, <2>4 DEF ProposalCreated
  <1>2. CASE ProposalMoved(n)
    <2>1. PICK o \in ProposalRow : o = proposals[n]
      BY <1>2, StoredRow DEF ProposalMoved, Inv
    <2>2. PICK row : row = [o EXCEPT !.version = o.version + 1]
      OBVIOUS
    <2>3. row.source = o.source /\ row.author = o.author
      BY <2>2 DEF ProposalRow
    <2>4. proposals' = [proposals EXCEPT ![n] = row]
      BY <1>2, <2>1, <2>2 DEF ProposalMoved, Inv, TypeOK
    <2>5. /\ proposals'[n] = row /\ \A q \in Proposals : q # n => proposals'[q] = proposals[q]
      BY <2>4 DEF Inv, TypeOK
    <2>6. Drafted' = Drafted
      BY <2>1, <2>3, <2>5, DraftedStays
    <2>7. QED
      BY <1>2, <2>6 DEF ProposalMoved
  <1>3. QED
    BY <1>1, <1>2

\* Every step of the handlers is a step of the ledger, or changes nothing in it.
LEMMA StepIsStep == Inv /\ [Next]_vars => [Ledger!Next]_<<trail, Drafted>>
  <1> SUFFICES ASSUME Inv, [Next]_vars
               PROVE  Ledger!Next \/ UNCHANGED <<trail, Drafted>>
    OBVIOUS
  <1>1. ASSUME UNCHANGED <<trail, proposals>>
        PROVE  UNCHANGED <<trail, Drafted>>
    BY <1>1, DraftedStays
  <1>2. ASSUME NEW r \in Reviewers, ReviewStep(r)
        PROVE  Ledger!Next \/ UNCHANGED <<trail, Drafted>>
    <2>1. CASE CommitReview(r)
      BY <2>1, CommitReviewMoves
    <2>2. CASE ~CommitReview(r)
      BY <1>1, <1>2, <2>2 DEF ReviewStep, CheckReview, RefuseReview, FinishReview
    <2>3. QED
      BY <2>1, <2>2
  <1>3. ASSUME NEW a \in Appliers, ApplyStep(a)
        PROVE  Ledger!Next \/ UNCHANGED <<trail, Drafted>>
    <2>1. CASE \E p \in Proposals : CommitApply(a, p)
      BY <2>1, CommitApplyApplies
    <2>2. CASE ~\E p \in Proposals : CommitApply(a, p)
      <3>1. \E q : Becomes(a, q)
        BY <1>3, <2>2 DEF ApplyStep, CheckApply, ReadProposal, ReadParcel, FailApply, FinishApply
      <3>2. QED
        BY <1>1, <3>1 DEF Becomes
    <2>3. QED
      BY <2>1, <2>2
  <1>4. CASE Env
    BY <1>1, <1>4, DetectionDetects, ProposalStutters DEF Env, ParcelUpdated
  <1>5. CASE Crash \/ UNCHANGED vars
    BY <1>1, <1>5 DEF Crash, vars
  <1>6. QED
    BY <1>2, <1>3, <1>4, <1>5 DEF Next, Step

\* The two handlers with their reads, races and crashes do what the one-step ledger does:
\* a draft and the move that resolves its conflict appear together.
THEOREM ImplementsTheLedger == Spec => ImplementsLedger
  <1>1. Init => Ledger!Init
    <2> SUFFICES ASSUME Init PROVE Ledger!Init
      OBVIOUS
    <2>1. \A p \in Proposals : proposals[p].source = NoConflict
      BY DEF Init, NoDraft
    <2>2. Drafted = {}
      BY <2>1 DEF Drafted
    <2>3. QED
      BY <2>2 DEF Init, Ledger!Init
  <1>2. Inv /\ [Next]_vars => [Ledger!Next]_<<trail, Drafted>>
    BY StepIsStep
  <1>3. QED
    BY <1>1, <1>2, Invariance, PTL DEF Spec, ImplementsLedger, Ledger!Spec
=============================================================================
