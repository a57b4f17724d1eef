----------------------- MODULE SurveyObservation_proofs -----------------------
(***************************************************************************)
(* Theorems about SurveyObservation, for any parcels, observations and     *)
(* codes and any number of concurrent imports and transitions.             *)
(***************************************************************************)
EXTENDS SurveyObservation, TLAPS

(* What a phase says of the request that is in it. *)

CheckedImport == [phase : {"checked"}, parcel : Parcels, code : Codes, state : ObservationStates]

OpenMove ==
    [phase : {"replacing", "checked"}, target : Observations, seen : Summary,
     to : ObservationStates, replacement : Observations \cup {NoObservation}]

WonMove ==
    [phase : {"moved"}, target : Observations, version : Nat \ {0},
     state : ObservationStates, replacement : Observations \cup {NoObservation}]

LEMMA ImportShape ==
    ASSUME NEW q \in ImportRequest, q.phase = "checked"
    PROVE  q \in CheckedImport
  BY DEF ImportRequest, Idle, Answers, CheckedImport

LEMMA OpenShape ==
    ASSUME NEW q \in MoveRequest, q.phase \in {"replacing", "checked"}
    PROVE  q \in OpenMove
  BY DEF MoveRequest, Idle, Answers, OpenMove

LEMMA WonShape ==
    ASSUME NEW q \in MoveRequest, q.phase = "moved"
    PROVE  q \in WonMove
  BY DEF MoveRequest, Idle, Answers, WonMove

LEMMA QuietRequests ==
    /\ Idle \in ImportRequest /\ Idle \in MoveRequest /\ Idle.phase = "idle"
    /\ \A status \in {200, 201, 400, 403, 404, 409, 422, 500} :
          /\ Answered(status) \in ImportRequest
          /\ Answered(status) \in MoveRequest
          /\ Answered(status).phase = "answered"
  BY DEF Idle, Answered, Answers, ImportRequest, MoveRequest

LEMMA ImportRefusals ==
    ASSUME NEW status \in {403, 404, 422, 500}
    PROVE  Answered(status) \in ImportRequest
  BY QuietRequests

LEMMA ExistingRow ==
    ASSUME TypeOK, NEW o \in Observations
    PROVE  /\ Exists(o) <=> observations[o] \in Row
           /\ Exists(o) <=> observations[o].version # 0
           /\ observations[o].version \in Nat
  <1>1. observations[o] \in Row \cup {NoRow}
    BY DEF TypeOK
  <1>2. \A row \in Row : row.version \in Nat \ {0}
    BY DEF Row
  <1>3. NoRow.version = 0
    BY DEF NoRow
  <1>4. QED
    BY <1>1, <1>2, <1>3 DEF Exists

LEMMA SummaryOfRow ==
    ASSUME NEW row \in Row
    PROVE  SummaryOf(row) \in Summary
  BY DEF Row, SummaryOf, Summary

LEMMA SupersededIsTheEnd ==
    /\ \A to : ~CanObservationTransition("superseded", to)
    /\ \A from, to : CanObservationTransition(from, to) /\ to = "superseded" => from # to
  BY DEF CanObservationTransition, ObservationTransitions

LEMMA Grown ==
    ASSUME NEW S, NEW s \in Seq(S), NEW e \in S
    PROVE  /\ Append(s, e) \in Seq(S)
           /\ Len(Append(s, e)) = Len(s) + 1
           /\ Append(s, e)[Len(s) + 1] = e
           /\ \A i \in 1 .. Len(s) : Append(s, e)[i] = s[i]
  OBVIOUS

-----------------------------------------------------------------------------
(* The inductive invariant.  What a transition read of its own row is what the   *)
(* trail has at that version, for good; and what it read of its replacement, that *)
(* the row exists and for which parcel, is what no one ever changes.  Whether the *)
(* replacement is still active is not part of it, because it is not so.           *)
OpenSound(q) ==
    /\ q.seen.version \in 1 .. Len(trail[q.target])
    /\ trail[q.target][q.seen.version].after = q.seen
    /\ CanObservationTransition(q.seen.state, q.to)
    /\ ReplacementNamed(q.target, q.to, q.replacement)
    /\ q.phase = "checked" /\ q.to = "superseded" =>
         /\ Exists(q.target) /\ Exists(q.replacement)
         /\ observations[q.replacement].parcel = observations[q.target].parcel

MovesSound ==
    \A m \in Movers : move[m].phase \in {"replacing", "checked"} => OpenSound(move[m])

Inv ==
    /\ TypeOK
    /\ TrailExplainsObservation
    /\ WinnersDiffer
    /\ ReplacementOnParcel
    /\ MovesSound

LEMMA InitInv == Init => Inv
  <1> SUFFICES ASSUME Init
               PROVE  Inv
    OBVIOUS
  <1>1. \A o \in Observations : observations[o] = NoRow /\ trail[o] = <<>>
    BY DEF Init
  <1>2. \A m \in Movers : move[m].phase = "idle"
    BY QuietRequests DEF Init
  <1>3. TypeOK
    BY QuietRequests DEF Init, TypeOK
  <1>4. \A o \in Observations : ~Exists(o) /\ observations[o].version = 0
    BY <1>1 DEF Exists, NoRow
  <1>5. TrailExplainsObservation /\ ReplacementOnParcel
    BY <1>1, <1>4 DEF TrailExplainsObservation, ReplacementOnParcel
  <1>6. MovesSound /\ WinnersDiffer
    BY <1>2 DEF MovesSound, WinnersDiffer
  <1>7. QED
    BY <1>3, <1>5, <1>6 DEF Inv

(* Steps that write nothing. *)

LEMMA QuietImport ==
    ASSUME Inv, NEW i \in Importers, NEW q \in ImportRequest,
           import' = [import EXCEPT ![i] = q], UNCHANGED <<observations, trail, move>>
    PROVE  Inv'
  <1>1. TypeOK'
    BY DEF Inv, TypeOK
  <1>2. TrailExplainsObservation' /\ ReplacementOnParcel'
    BY DEF Inv, TrailExplainsObservation, ReplacementOnParcel, Exists
  <1>3. WinnersDiffer'
    BY DEF Inv, WinnersDiffer
  <1>4. MovesSound'
    <2>1. ASSUME NEW m \in Movers, OpenSound(move[m])
          PROVE  OpenSound(move[m])'
      BY <2>1 DEF OpenSound, ReplacementNamed, Exists
    <2>2. QED
      BY <2>1 DEF Inv, MovesSound
  <1>5. QED
    BY <1>1, <1>2, <1>3, <1>4 DEF Inv

LEMMA QuietMove ==
    ASSUME Inv, NEW m \in Movers, NEW q \in MoveRequest, Becomes(m, q), q.phase # "moved",
           q.phase \in {"replacing", "checked"} => OpenSound(q)
    PROVE  Inv'
  <1>1. TypeOK'
    BY DEF Inv, TypeOK, Becomes
  <1>2. TrailExplainsObservation' /\ ReplacementOnParcel'
    BY DEF Inv, TrailExplainsObservation, ReplacementOnParcel, Exists, Becomes
  <1>3. \A n \in Movers : move'[n] = IF n = m THEN q ELSE move[n]
    BY DEF Inv, TypeOK, Becomes
  <1>4. observations' = observations /\ trail' = trail
    BY DEF Becomes
  <1>5. WinnersDiffer'
    <2>1. \A n \in Movers : move'[n].phase = "moved" => n # m /\ move'[n] = move[n]
      BY <1>3
    <2>2. WinnersDiffer
      BY DEF Inv
    <2>3. QED
      BY <1>4, <2>1, <2>2 DEF WinnersDiffer
  <1>6. MovesSound'
    <2>1. ASSUME NEW n \in Movers, move'[n].phase \in {"replacing", "checked"}
          PROVE  OpenSound(move[n])'
      <3>1. CASE n = m
        <4>1. move'[n] = q
          BY <1>3, <3>1
        <4>2. OpenSound(q)
          BY <2>1, <4>1
        <4>3. QED
          BY <1>4, <4>1, <4>2 DEF OpenSound, Exists, ReplacementNamed
      <3>2. CASE n # m
        <4>1. move'[n] = move[n]
          BY <1>3, <3>2
        <4>2. OpenSound(move[n])
          BY <2>1, <4>1 DEF Inv, MovesSound
        <4>3. QED
          BY <1>4, <4>1, <4>2 DEF OpenSound, Exists, ReplacementNamed
      <3>3. QED
        BY <3>1, <3>2
    <2>2. QED
      BY <2>1 DEF MovesSound
  <1>7. QED
    BY <1>1, <1>2, <1>5, <1>6 DEF Inv

LEMMA AnsweredMoveInv ==
    ASSUME Inv, NEW m \in Movers, NEW status \in {200, 201, 400, 403, 404, 409, 422, 500},
           Becomes(m, Answered(status))
    PROVE  Inv'
  BY QuietRequests, QuietMove

LEMMA CheckImportInv ==
    ASSUME Inv, NEW i \in Importers, NEW role, NEW parcel \in Parcels \cup {UnknownParcel},
           NEW code \in Codes, NEW state \in ObservationStates \cup {"none"},
           NEW valid \in BOOLEAN, CheckImport(i, role, parcel, code, state, valid)
    PROVE  Inv'
  <1> DEFINE q == [phase |-> "checked", parcel |-> parcel, code |-> code,
                   state |-> StateOrDefault(state)]
  <1>1. parcel \in Parcels => q \in ImportRequest
    <2>1. StateOrDefault(state) \in ObservationStates
      BY DEF StateOrDefault, ObservationStates
    <2>2. QED
      BY <2>1 DEF ImportRequest
  <1>2. UNCHANGED <<observations, trail, move>>
    BY DEF CheckImport
  <1>3. ASSUME NEW r \in ImportRequest, import' = [import EXCEPT ![i] = r]
        PROVE  Inv'
    BY <1>2, <1>3, QuietImport
  <1>4. \/ \E status \in {403, 404, 422, 500} :
                 import' = [import EXCEPT ![i] = Answered(status)]
        \/ parcel \in Parcels /\ import' = [import EXCEPT ![i] = q]
    <2>1. CASE role \notin FieldRoles
      BY <2>1 DEF CheckImport
    <2>2. CASE role \in FieldRoles /\ parcel \notin Parcels
      BY <2>2 DEF CheckImport
    <2>3. CASE role \in FieldRoles /\ parcel \in Parcels /\ ~valid
      BY <2>3 DEF CheckImport
    <2>4. CASE role \in FieldRoles /\ parcel \in Parcels /\ valid
      BY <2>4 DEF CheckImport
    <2>5. QED
      BY <2>1, <2>2, <2>3, <2>4
  <1> HIDE DEF q
  <1>5. CASE parcel \in Parcels /\ import' = [import EXCEPT ![i] = q]
    <2>1. q \in ImportRequest
      BY <1>1, <1>5
    <2>2. QED
      BY <1>3, <1>5, <2>1
  <1>6. QED
    <2>1. ASSUME NEW status \in {403, 404, 422, 500},
                 import' = [import EXCEPT ![i] = Answered(status)]
          PROVE  Inv'
      <3>1. Answered(status) \in ImportRequest
        BY ImportRefusals
      <3>2. QED
        BY <1>3, <2>1, <3>1
    <2>2. QED
      BY <1>4, <1>5, <2>1

LEMMA CheckMoveInv ==
    ASSUME Inv, NEW m \in Movers, NEW role, NEW o \in Observations,
           NEW to \in ObservationStates, NEW claimed \in ClaimedVersions,
           NEW replacement \in Observations \cup {NoObservation},
           CheckMove(m, role, o, to, claimed, replacement)
    PROVE  Inv'
  <1> DEFINE verdict == MoveVerdict(role, o, to, claimed, replacement)
             q == [phase |-> IF to = "superseded" THEN "replacing" ELSE "checked",
                   target |-> o, seen |-> SummaryOf(observations[o]), to |-> to,
                   replacement |-> replacement]
  <1>1. CASE verdict # 200
    <2>1. verdict \in {200, 400, 403, 404, 409}
      BY DEF MoveVerdict
    <2>2. Becomes(m, Answered(verdict))
      BY <1>1 DEF CheckMove
    <2>3. QED
      BY <2>1, <2>2, AnsweredMoveInv
  <1>2. CASE verdict = 200
    <2>1. /\ Exists(o)
          /\ CanObservationTransition(observations[o].state, to)
          /\ ReplacementNamed(o, to, replacement)
      BY <1>2 DEF MoveVerdict
    <2>2. observations[o] \in Row /\ SummaryOf(observations[o]) \in Summary
      BY <2>1, ExistingRow, SummaryOfRow DEF Inv
    <2>3. q \in MoveRequest /\ q.phase # "moved"
      BY <2>2 DEF MoveRequest
    <2>4. /\ Len(trail[o]) = observations[o].version
          /\ trail[o][Len(trail[o])].after = SummaryOf(observations[o])
      BY <2>1 DEF Inv, TrailExplainsObservation
    <2>5. observations[o].version \in Nat \ {0}
      BY <2>2 DEF Row
    <2>6. OpenSound(q)
      BY <2>1, <2>4, <2>5 DEF OpenSound, SummaryOf
    <2>7. Becomes(m, q)
      BY <1>2 DEF CheckMove
    <2>8. QED
      BY <2>3, <2>6, <2>7, QuietMove
  <1>3. QED
    BY <1>1, <1>2

LEMMA ReadReplacementInv ==
    ASSUME Inv, NEW m \in Movers, ReadReplacement(m)
    PROVE  Inv'
  <1> DEFINE q == move[m]
             r == [q EXCEPT !.phase = "checked"]
  <1>1. CASE Becomes(m, Answered(404)) \/ Becomes(m, Answered(409))
    BY <1>1, AnsweredMoveInv
  <1>2. CASE Exists(q.replacement) /\ Suitable(q.target, q.replacement) /\ Becomes(m, r)
    <2>1. q \in OpenMove /\ OpenSound(q)
      BY OpenShape DEF Inv, TypeOK, MovesSound, ReadReplacement
    <2>2. /\ r \in OpenMove /\ r.phase = "checked" /\ r.target = q.target
          /\ r.seen = q.seen /\ r.to = q.to /\ r.replacement = q.replacement
      BY <2>1 DEF OpenMove
    <2>3. r \in MoveRequest
      BY <2>2 DEF OpenMove, MoveRequest
    <2>4. Exists(q.target)
      <3>1. Len(trail[q.target]) = observations[q.target].version
        BY <2>1 DEF OpenMove, Inv, TrailExplainsObservation
      <3>2. q.target \in Observations /\ q.seen.version \in 1 .. Len(trail[q.target])
        BY <2>1 DEF OpenMove, OpenSound
      <3>3. observations[q.target].version # 0
        BY <3>1, <3>2
      <3>4. QED
        BY <3>2, <3>3, ExistingRow DEF Inv
    <2>5. OpenSound(r)
      BY <1>2, <2>1, <2>2, <2>4 DEF OpenSound, Suitable
    <2>6. QED
      BY <1>2, <2>2, <2>3, <2>5, QuietMove
  <1>3. QED
    BY <1>1, <1>2 DEF ReadReplacement

LEMMA ClosedImportInv ==
    ASSUME Inv, NEW i \in Importers, FailImport(i) \/ FinishImport(i)
    PROVE  Inv'
  <1>1. Answered(500) \in ImportRequest /\ Idle \in ImportRequest
    BY QuietRequests
  <1>2. PICK q \in ImportRequest : import' = [import EXCEPT ![i] = q]
    BY <1>1 DEF FailImport, FinishImport
  <1>3. UNCHANGED <<observations, trail, move>>
    BY DEF FailImport, FinishImport
  <1>4. QED
    BY <1>2, <1>3, QuietImport

(* An import writes the row and the first entry of an observation no one can know.  *)

LEMMA CommitImportInv ==
    ASSUME Inv, NEW i \in Importers, NEW o \in Observations, CommitImport(i, o)
    PROVE  Inv'
  <1> DEFINE q == import[i]
             new == [version |-> 1, parcel |-> q.parcel, code |-> q.code, state |-> q.state,
                     replacedBy |-> NoObservation]
             entry == [before |-> Nothing, after |-> [version |-> 1, state |-> q.state],
                       replacement |-> NoObservation]
  <1>1. /\ observations' = [observations EXCEPT ![o] = new]
        /\ trail' = [trail EXCEPT ![o] = <<entry>>]
        /\ import' = [import EXCEPT ![i] = Answered(201)]
        /\ move' = move /\ q.phase = "checked" /\ ~Exists(o)
    BY DEF CommitImport
  <1>2. /\ observations \in [Observations -> Row \cup {NoRow}]
        /\ trail \in [Observations -> Seq(Entry)]
        /\ import \in [Importers -> ImportRequest]
        /\ move \in [Movers -> MoveRequest]
    BY DEF Inv, TypeOK
  <1>3. q \in CheckedImport
    BY <1>1, <1>2, ImportShape
  <1>4. new \in Row /\ new.version = 1 /\ new.replacedBy = NoObservation
          /\ SummaryOf(new) = entry.after
    BY <1>3 DEF CheckedImport, Row, SummaryOf
  <1>5. entry \in Entry
    BY <1>3 DEF CheckedImport, Entry, Summary
  <1>6. \A x \in Observations : /\ observations'[x] = IF x = o THEN new ELSE observations[x]
                               /\ trail'[x] = IF x = o THEN <<entry>> ELSE trail[x]
    BY <1>1, <1>2
  <1>7. trail[o] \in Seq(Entry) /\ Len(trail[o]) = 0
    <2>1. Len(trail[o]) = observations[o].version
      BY DEF Inv, TrailExplainsObservation
    <2>2. observations[o].version = 0
      BY <1>1, ExistingRow DEF Inv
    <2>3. QED
      BY <1>2, <2>1, <2>2
  <1>8. new # NoRow
    BY <1>4 DEF NoRow
  <1> HIDE DEF new
  <1>9. Exists(o)' /\ \A x \in Observations : x # o => Exists(x)' = Exists(x)
    BY <1>6, <1>8 DEF Exists
  <1>10. TypeOK'
    <2>1. observations' \in [Observations -> Row \cup {NoRow}]
      BY <1>1, <1>2, <1>4
    <2>2. <<entry>> \in Seq(Entry)
      BY <1>5
    <2>3. trail' \in [Observations -> Seq(Entry)]
      BY <1>1, <1>2, <2>2
    <2>4. import' \in [Importers -> ImportRequest]
      BY <1>1, <1>2, QuietRequests
    <2>5. QED
      BY <1>1, <1>2, <2>1, <2>3, <2>4 DEF TypeOK
  <1>11. TrailExplainsObservation'
    <2> SUFFICES ASSUME NEW x \in Observations
                 PROVE  (/\ Len(trail[x]) = observations[x].version
                         /\ \A k \in 2 .. Len(trail[x]) :
                              /\ trail[x][k].before = trail[x][k - 1].after
                              /\ CanObservationTransition(trail[x][k].before.state,
                                                          trail[x][k].after.state)
                         /\ Exists(x) =>
                              /\ trail[x][Len(trail[x])].after = SummaryOf(observations[x])
                              /\ trail[x][Len(trail[x])].replacement
                                   = observations[x].replacedBy)'
      BY DEF TrailExplainsObservation
    <2>1. CASE x = o
      <3>1. trail'[x] = <<entry>> /\ observations'[x] = new
        BY <1>6, <2>1
      <3>2. Len(<<entry>>) = 1 /\ <<entry>>[1] = entry /\ entry.replacement = NoObservation
        OBVIOUS
      <3> HIDE DEF entry
      <3>3. QED
        BY <1>4, <3>1, <3>2
    <2>2. CASE x # o
      BY <1>6, <1>9, <2>2 DEF Inv, TrailExplainsObservation
    <2>3. QED
      BY <2>1, <2>2
  <1>12. WinnersDiffer'
    <2>1. \A m \in Movers : move[m].phase = "moved" =>
             /\ move[m].target \in Observations /\ move[m].target # o
             /\ trail'[move[m].target] = trail[move[m].target]
      <3> SUFFICES ASSUME NEW m \in Movers, move[m].phase = "moved"
                   PROVE  /\ move[m].target \in Observations /\ move[m].target # o
                          /\ trail'[move[m].target] = trail[move[m].target]
        OBVIOUS
      <3>1. move[m].target \in Observations /\ move[m].version \in Nat \ {0}
        BY <1>2, WonShape DEF WonMove
      <3>2. move[m].version <= Len(trail[move[m].target])
        BY DEF Inv, WinnersDiffer
      <3>3. move[m].target # o
        BY <1>7, <3>1, <3>2
      <3>4. QED
        BY <1>6, <3>1, <3>3
    <2>2. WinnersDiffer
      BY DEF Inv
    <2>3. QED
      BY <1>1, <2>1, <2>2 DEF WinnersDiffer
  <1>13. ReplacementOnParcel'
    <2>1. ASSUME NEW x \in Observations, x # o, Exists(x),
                 observations[x].replacedBy # NoObservation
          PROVE  /\ observations[x].replacedBy \in Observations
                 /\ observations[x].replacedBy # o
      <3>1. observations[x].replacedBy \in Observations
        BY <2>1, ExistingRow DEF Inv, Row
      <3>2. Exists(observations[x].replacedBy)
        BY <2>1 DEF Inv, ReplacementOnParcel
      <3>3. QED
        BY <1>1, <3>1, <3>2
    <2>2. ReplacementOnParcel
      BY DEF Inv
    <2> SUFFICES ASSUME NEW x \in Observations, Exists(x)', x # o,
                        observations[x].replacedBy # NoObservation
                 PROVE  /\ observations'[x].state = "superseded"
                        /\ observations'[x].replacedBy # x
                        /\ observations'[observations'[x].replacedBy] # NoRow
                        /\ observations'[observations'[x].replacedBy].parcel
                             = observations'[x].parcel
      BY <1>4, <1>6 DEF ReplacementOnParcel, Exists
    <2>3. observations'[x] = observations[x] /\ Exists(x)
      BY <1>6, <1>9
    <2>4. observations[x].replacedBy \in Observations /\ observations[x].replacedBy # o
      BY <2>1, <2>3
    <2>5. observations'[observations[x].replacedBy] = observations[observations[x].replacedBy]
      BY <1>6, <2>4
    <2>6. QED
      BY <2>2, <2>3, <2>5 DEF ReplacementOnParcel, Exists
  <1>14. MovesSound'
    <2> SUFFICES ASSUME NEW m \in Movers, NEW r, r = move[m],
                        r.phase \in {"replacing", "checked"}
                 PROVE  OpenSound(r)'
      BY <1>1 DEF MovesSound
    <2>1. r \in OpenMove /\ OpenSound(r)
      BY <1>2, OpenShape DEF Inv, MovesSound
    <2>2. r.target \in Observations /\ r.replacement \in Observations \cup {NoObservation}
      BY <2>1 DEF OpenMove
    <2>3. r.target # o
      BY <1>7, <2>1 DEF OpenSound
    <2>4. /\ trail'[r.target] = trail[r.target]
          /\ observations'[r.target] = observations[r.target]
      BY <1>6, <2>2, <2>3
    <2>5. r.to = "superseded" => r.replacement \in Observations
      BY <2>1, <2>2 DEF OpenSound, ReplacementNamed
    <2>6. r.phase = "checked" /\ r.to = "superseded" =>
             observations'[r.replacement] = observations[r.replacement]
      BY <1>1, <1>6, <2>1, <2>5 DEF OpenSound
    <2>7. QED
      BY <2>1, <2>4, <2>6 DEF OpenSound, ReplacementNamed, Exists
  <1>15. QED
    BY <1>10, <1>11, <1>12, <1>13, <1>14 DEF Inv

LEMMA CrashInv ==
    ASSUME Inv, Crash
    PROVE  Inv'
  <1>1. TypeOK'
    BY QuietRequests DEF Inv, TypeOK, Crash
  <1>2. TrailExplainsObservation' /\ ReplacementOnParcel'
    BY DEF Inv, TrailExplainsObservation, ReplacementOnParcel, Exists, Crash
  <1>3. \A m \in Movers : move'[m].phase = "idle"
    BY QuietRequests DEF Crash
  <1>4. WinnersDiffer' /\ MovesSound'
    BY <1>3 DEF WinnersDiffer, MovesSound
  <1>5. QED
    BY <1>1, <1>2, <1>4 DEF Inv

(* A transition writes the version after the one it read.  That one is still the    *)
(* row's, so what the request holds is the row as it is: not superseded, and hence  *)
(* without a replacement, because there is no way out of superseded.                *)

LEMMA MovedRow ==
    ASSUME NEW row \in Row, NEW q \in OpenMove
    PROVE  /\ Moved(row, q) \in Row
           /\ Moved(row, q).version = row.version + 1
           /\ Moved(row, q).state = q.to
           /\ Moved(row, q).parcel = row.parcel
           /\ Moved(row, q).code = row.code
           /\ Moved(row, q).replacedBy
                = IF q.replacement = NoObservation THEN row.replacedBy ELSE q.replacement
  <1> DEFINE by == IF q.replacement = NoObservation THEN row.replacedBy ELSE q.replacement
  <1>1. row.version + 1 \in Nat \ {0} /\ q.to \in ObservationStates
    BY DEF Row, OpenMove
  <1>2. by \in Observations \cup {NoObservation}
    BY DEF Row, OpenMove
  <1>3. Moved(row, q) = [row EXCEPT !.version = row.version + 1, !.state = q.to,
                                    !.replacedBy = by]
    BY DEF Moved, Row
  <1> HIDE DEF by
  <1>4. Moved(row, q) \in Row
    BY <1>1, <1>2, <1>3 DEF Row
  <1>5. Moved(row, q).version = row.version + 1 /\ Moved(row, q).state = q.to
    BY <1>3 DEF Row
  <1>6. Moved(row, q).parcel = row.parcel /\ Moved(row, q).code = row.code
    BY <1>3 DEF Row
  <1>7. Moved(row, q).replacedBy = by
    BY <1>3 DEF Row
  <1>8. QED
    BY <1>4, <1>5, <1>6, <1>7 DEF by

LEMMA MatchedRead ==
    ASSUME Inv, NEW q \in OpenMove, OpenSound(q), VersionMatches(q)
    PROVE  /\ observations[q.target] \in Row /\ Exists(q.target)
           /\ q.seen = SummaryOf(observations[q.target])
           /\ Len(trail[q.target]) = q.seen.version
           /\ q.seen.version = observations[q.target].version
           /\ observations[q.target].state # "superseded"
           /\ observations[q.target].replacedBy = NoObservation
  <1>1. q.target \in Observations /\ q.seen.version \in Nat \ {0}
    BY DEF OpenMove, Summary
  <1>2. /\ Len(trail[q.target]) = observations[q.target].version
        /\ Exists(q.target) => trail[q.target][Len(trail[q.target])].after
                                  = SummaryOf(observations[q.target])
    BY <1>1 DEF Inv, TrailExplainsObservation
  <1>3. observations[q.target].version = q.seen.version
    BY DEF VersionMatches
  <1>4. observations[q.target] \in Row /\ Exists(q.target)
    BY <1>1, <1>3, ExistingRow DEF Inv
  <1>5. q.seen = SummaryOf(observations[q.target])
    BY <1>2, <1>3, <1>4 DEF OpenSound
  <1>6. observations[q.target].state # "superseded"
    <2>1. CanObservationTransition(q.seen.state, q.to)
      BY DEF OpenSound
    <2>2. q.seen.state = observations[q.target].state
      BY <1>5 DEF SummaryOf
    <2>3. QED
      BY <2>1, <2>2, SupersededIsTheEnd
  <1>7. observations[q.target].replacedBy = NoObservation
    BY <1>1, <1>4, <1>6 DEF Inv, ReplacementOnParcel
  <1>8. QED
    BY <1>2, <1>3, <1>4, <1>5, <1>6, <1>7

LEMMA WrittenMove ==
    ASSUME Inv, NEW m \in Movers, CommitMove(m)
    PROVE  LET q == move[m]
               new == Moved(observations[q.target], q)
               won == [phase |-> "moved", target |-> q.target, version |-> q.seen.version + 1,
                       state |-> q.to, replacement |-> q.replacement]
           IN  /\ q \in OpenMove /\ q.phase = "checked" /\ OpenSound(q) /\ VersionMatches(q)
               /\ observations' = [observations EXCEPT ![q.target] = new]
               /\ trail' = [trail EXCEPT ![q.target] = Append(trail[q.target], MoveEntry(q))]
               /\ move' = [move EXCEPT ![m] = won]
               /\ won \in WonMove /\ won \in MoveRequest
               /\ import' = import
               /\ \A x \in Observations :
                    /\ observations'[x] = IF x = q.target THEN new ELSE observations[x]
                    /\ trail'[x] = IF x = q.target THEN Append(trail[x], MoveEntry(q))
                                                   ELSE trail[x]
               /\ \A n \in Movers : move'[n] = IF n = m THEN won ELSE move[n]
  <1> DEFINE q == move[m]
             won == [phase |-> "moved", target |-> q.target, version |-> q.seen.version + 1,
                     state |-> q.to, replacement |-> q.replacement]
  <1>1. /\ observations \in [Observations -> Row \cup {NoRow}]
        /\ trail \in [Observations -> Seq(Entry)]
        /\ move \in [Movers -> MoveRequest]
    BY DEF Inv, TypeOK
  <1>2. q.phase = "checked" /\ VersionMatches(q)
    BY DEF CommitMove
  <1>3. q \in OpenMove /\ OpenSound(q)
    BY <1>1, <1>2, OpenShape DEF Inv, MovesSound
  <1>4. won \in WonMove
    BY <1>3 DEF OpenMove, Summary, WonMove
  <1>5. won \in MoveRequest
    BY <1>4 DEF WonMove, MoveRequest
  <1>6. /\ observations' = [observations EXCEPT ![q.target] = Moved(observations[q.target], q)]
        /\ trail' = [trail EXCEPT ![q.target] = Append(trail[q.target], MoveEntry(q))]
        /\ move' = [move EXCEPT ![m] = won]
        /\ import' = import
    BY DEF CommitMove
  <1>7. q.target \in Observations
    BY <1>3 DEF OpenMove
  <1>8. \A x \in Observations :
          /\ observations'[x] = IF x = q.target THEN Moved(observations[q.target], q)
                                                ELSE observations[x]
          /\ trail'[x] = IF x = q.target THEN Append(trail[x], MoveEntry(q)) ELSE trail[x]
    BY <1>1, <1>6
  <1>9. \A n \in Movers : move'[n] = IF n = m THEN won ELSE move[n]
    BY <1>1, <1>6
  <1>10. QED
    BY <1>2, <1>3, <1>4, <1>5, <1>6, <1>8, <1>9

(* What CommitMove(m) writes, by name: the request, its observation, the row and the *)
(* answer.                                                                           *)
MoveWritten(m, q, x, new, won) ==
    /\ q = move[m] /\ x = q.target /\ OpenSound(q) /\ VersionMatches(q)
    /\ q.phase = "checked" /\ new = Moved(observations[x], q)
    /\ won = [phase |-> "moved", target |-> q.target, version |-> q.seen.version + 1,
              state |-> q.to, replacement |-> q.replacement]
    /\ won \in MoveRequest /\ import' = import
    /\ observations' = [observations EXCEPT ![x] = new]
    /\ trail' = [trail EXCEPT ![x] = Append(trail[x], MoveEntry(q))]
    /\ move' = [move EXCEPT ![m] = won]
    /\ \A y \in Observations :
         /\ observations'[y] = IF y = x THEN new ELSE observations[y]
         /\ trail'[y] = IF y = x THEN Append(trail[y], MoveEntry(q)) ELSE trail[y]
    /\ \A n \in Movers : move'[n] = IF n = m THEN won ELSE move[n]

LEMMA NamedMove ==
    ASSUME Inv, NEW m \in Movers, CommitMove(m)
    PROVE  \E q \in OpenMove, x \in Observations, new \in Row, won \in WonMove :
             MoveWritten(m, q, x, new, won)
  <1> DEFINE q == move[m]
             x == q.target
             new == Moved(observations[x], q)
             won == [phase |-> "moved", target |-> q.target, version |-> q.seen.version + 1,
                     state |-> q.to, replacement |-> q.replacement]
  <1>1. q \in OpenMove /\ won \in WonMove /\ OpenSound(q) /\ VersionMatches(q)
    BY WrittenMove
  <1>2. MoveWritten(m, q, x, new, won)
    BY WrittenMove DEF MoveWritten
  <1>3. x \in Observations
    BY <1>1 DEF OpenMove
  <1>4. new \in Row
    BY <1>1, MatchedRead, MovedRow
  <1> HIDE DEF q, x, new, won
  <1>5. QED
    BY <1>1, <1>2, <1>3, <1>4

LEMMA CommitMoveInv ==
    ASSUME Inv, NEW m \in Movers, CommitMove(m)
    PROVE  Inv'
  <1>0. PICK q \in OpenMove, x \in Observations, new \in Row, won \in WonMove :
          MoveWritten(m, q, x, new, won)
    BY NamedMove
  <1>1. /\ q = move[m] /\ x = q.target /\ OpenSound(q) /\ VersionMatches(q)
        /\ q.phase = "checked" /\ new = Moved(observations[x], q)
        /\ won = [phase |-> "moved", target |-> q.target, version |-> q.seen.version + 1,
                  state |-> q.to, replacement |-> q.replacement]
        /\ won \in MoveRequest /\ import' = import
        /\ observations' = [observations EXCEPT ![x] = new]
        /\ trail' = [trail EXCEPT ![x] = Append(trail[x], MoveEntry(q))]
        /\ move' = [move EXCEPT ![m] = won]
        /\ \A y \in Observations :
             /\ observations'[y] = IF y = x THEN new ELSE observations[y]
             /\ trail'[y] = IF y = x THEN Append(trail[y], MoveEntry(q)) ELSE trail[y]
        /\ \A n \in Movers : move'[n] = IF n = m THEN won ELSE move[n]
    BY <1>0 DEF MoveWritten
  <1>2. /\ observations \in [Observations -> Row \cup {NoRow}]
        /\ trail \in [Observations -> Seq(Entry)]
        /\ import \in [Importers -> ImportRequest]
        /\ move \in [Movers -> MoveRequest]
    BY DEF Inv, TypeOK
  <1>3. /\ observations[x] \in Row /\ Exists(x)
        /\ q.seen = SummaryOf(observations[x])
        /\ Len(trail[x]) = q.seen.version
        /\ observations[x].version = q.seen.version
        /\ observations[x].state # "superseded"
        /\ observations[x].replacedBy = NoObservation
    BY <1>1, MatchedRead
  <1>4. /\ q.seen \in Summary /\ q.seen.version \in Nat \ {0} /\ q.to \in ObservationStates
        /\ q.replacement \in Observations \cup {NoObservation}
    BY DEF OpenMove, Summary
  <1>5. /\ new.version = q.seen.version + 1 /\ new.state = q.to
        /\ new.parcel = observations[x].parcel /\ new.code = observations[x].code
        /\ new.replacedBy = q.replacement
    BY <1>1, <1>3, <1>4, MovedRow
  <1>6. PICK e \in Entry :
          /\ e = MoveEntry(q) /\ e.before = q.seen /\ e.replacement = q.replacement
          /\ e.after = [version |-> q.seen.version + 1, state |-> q.to]
          /\ e.after = SummaryOf(new)
    <2>1. [version |-> q.seen.version + 1, state |-> q.to] \in Summary
      BY <1>4 DEF Summary
    <2>2. MoveEntry(q) \in Entry
      BY <1>4, <2>1 DEF MoveEntry, Entry
    <2>3. QED
      BY <1>5, <2>2 DEF MoveEntry, SummaryOf
  <1>7. \A y \in Observations :
          /\ observations'[y] = IF y = x THEN new ELSE observations[y]
          /\ trail'[y] = IF y = x THEN Append(trail[y], e) ELSE trail[y]
    BY <1>1, <1>6
  <1>8. \A n \in Movers : move'[n] = IF n = m THEN won ELSE move[n]
    BY <1>1
  <1>9. new # NoRow
    BY DEF Row, NoRow
  <1>10. \A y \in Observations : /\ Exists(y)' <=> Exists(y)
                                 /\ Exists(y) => observations'[y].parcel = observations[y].parcel
    BY <1>3, <1>5, <1>7, <1>9 DEF Exists
  <1>11. /\ \A y \in Observations : \A k \in 1 .. Len(trail[y]) : trail'[y][k] = trail[y][k]
         /\ \A y \in Observations : trail'[y] \in Seq(Entry) /\ Len(trail'[y]) >= Len(trail[y])
         /\ Len(trail'[x]) = Len(trail[x]) + 1 /\ trail'[x][Len(trail[x]) + 1] = e
    <2>1. /\ Append(trail[x], e) \in Seq(Entry) /\ Len(Append(trail[x], e)) = Len(trail[x]) + 1
          /\ Append(trail[x], e)[Len(trail[x]) + 1] = e
          /\ \A k \in 1 .. Len(trail[x]) : Append(trail[x], e)[k] = trail[x][k]
      <3>1. trail[x] \in Seq(Entry)
        BY <1>2
      <3>2. QED
        BY <3>1, Grown
    <2>2. trail'[x] = Append(trail[x], e) /\ \A y \in Observations : y # x => trail'[y] = trail[y]
      BY <1>7
    <2>3. \A y \in Observations : trail[y] \in Seq(Entry) /\ Len(trail[y]) \in Nat
      BY <1>2
    <2>4. ASSUME NEW y \in Observations
          PROVE  /\ \A k \in 1 .. Len(trail[y]) : trail'[y][k] = trail[y][k]
                 /\ trail'[y] \in Seq(Entry) /\ Len(trail'[y]) >= Len(trail[y])
      <3>1. CASE y = x
        <4>1. trail'[y] = Append(trail[x], e) /\ trail[y] = trail[x] /\ Len(trail[x]) \in Nat
          BY <2>2, <2>3, <3>1
        <4>2. \A k \in 1 .. Len(trail[y]) : trail'[y][k] = trail[y][k]
          BY <2>1, <4>1
        <4>3. trail'[y] \in Seq(Entry)
          BY <2>1, <4>1
        <4>4. Len(trail'[y]) >= Len(trail[y])
          BY <2>1, <4>1
        <4>5. QED
          BY <4>2, <4>3, <4>4
      <3>2. CASE y # x
        BY <2>2, <2>3, <3>2
      <3>3. QED
        BY <3>1, <3>2
    <2>5. QED
      BY <2>1, <2>2, <2>4
  <1>12. TypeOK'
    <2>1. observations' \in [Observations -> Row \cup {NoRow}]
      BY <1>1, <1>2
    <2>2. trail' \in [Observations -> Seq(Entry)]
      BY <1>1, <1>2, <1>11
    <2>3. move' \in [Movers -> MoveRequest]
      BY <1>1, <1>2
    <2>4. import' \in [Importers -> ImportRequest]
      BY <1>1, <1>2
    <2>5. QED
      BY <2>1, <2>2, <2>3, <2>4 DEF TypeOK
  <1>13. TrailExplainsObservation'
    <2>1. TrailExplainsObservation
      BY DEF Inv
    <2> SUFFICES ASSUME NEW y \in Observations
                 PROVE  /\ Len(trail'[y]) = observations'[y].version
                        /\ \A k \in 2 .. Len(trail'[y]) :
                             /\ trail'[y][k].before = trail'[y][k - 1].after
                             /\ CanObservationTransition(trail'[y][k].before.state,
                                                         trail'[y][k].after.state)
                        /\ Exists(y) =>
                             /\ trail'[y][Len(trail'[y])].after = SummaryOf(observations'[y])
                             /\ trail'[y][Len(trail'[y])].replacement
                                  = observations'[y].replacedBy
      <3>1. \A y \in Observations : Exists(y)' => Exists(y)
        BY <1>10
      <3>2. QED
        BY <3>1 DEF TrailExplainsObservation
    <2>2. CASE y # x
      <3>1. trail'[y] = trail[y] /\ observations'[y] = observations[y]
        BY <1>7, <2>2
      <3>2. QED
        BY <2>1, <3>1 DEF TrailExplainsObservation
    <2>3. CASE y = x
      <3>1. Len(trail'[x]) = new.version /\ observations'[x] = new
        BY <1>3, <1>5, <1>7, <1>11
      <3>2. trail'[x][Len(trail'[x])] = e
        BY <1>11
      <3>3. ASSUME NEW k \in 2 .. Len(trail'[x])
            PROVE  /\ trail'[x][k].before = trail'[x][k - 1].after
                   /\ CanObservationTransition(trail'[x][k].before.state,
                                               trail'[x][k].after.state)
        <4>1. CASE k \in 2 .. Len(trail[x])
          <5>1. k - 1 \in 1 .. Len(trail[x]) /\ k \in 1 .. Len(trail[x])
            BY <1>3, <1>4, <4>1
          <5>2. trail'[x][k] = trail[x][k] /\ trail'[x][k - 1] = trail[x][k - 1]
            BY <1>11, <5>1
          <5>3. QED
            BY <2>1, <4>1, <5>2 DEF TrailExplainsObservation
        <4>2. CASE k = Len(trail[x]) + 1
          <5>1. Len(trail[x]) \in 1 .. Len(trail[x]) /\ k - 1 = Len(trail[x])
            BY <1>3, <1>4, <4>2
          <5>2. trail'[x][k - 1] = trail[x][Len(trail[x])] /\ trail'[x][k] = e
            BY <1>11, <4>2, <5>1
          <5>3. trail[x][Len(trail[x])].after = q.seen
            BY <1>3, <2>1 DEF TrailExplainsObservation
          <5>4. CanObservationTransition(q.seen.state, q.to)
            BY <1>1 DEF OpenSound
          <5>5. e.before = q.seen /\ e.after.state = q.to
            BY <1>6
          <5>6. QED
            BY <5>2, <5>3, <5>4, <5>5
        <4>3. QED
          BY <1>3, <1>4, <1>11, <4>1, <4>2
      <3>4. e.after = SummaryOf(new) /\ e.replacement = new.replacedBy
        BY <1>5, <1>6
      <3>5. QED
        BY <2>3, <3>1, <3>2, <3>3, <3>4
    <2>4. QED
      BY <2>2, <2>3
  <1>14. WinnersDiffer'
    <2>1. WinnersDiffer
      BY DEF Inv
    <2>2. /\ won.phase = "moved" /\ won.target = x /\ won.version = Len(trail[x]) + 1
          /\ won.state = q.to /\ won.replacement = q.replacement
      BY <1>1, <1>3
    <2>3. ASSUME NEW n \in Movers, n # m, move'[n].phase = "moved"
          PROVE  /\ move'[n] = move[n] /\ move[n].target \in Observations
                 /\ move[n].version \in 1 .. Len(trail[move[n].target])
                 /\ move[n].version \in Nat
      <3>1. move'[n] = move[n]
        BY <1>8, <2>3
      <3>2. move[n] \in WonMove
        BY <1>2, <2>3, <3>1, WonShape
      <3>3. move[n].version <= Len(trail[move[n].target])
        BY <2>1, <2>3, <3>1 DEF WinnersDiffer
      <3>4. move[n].target \in Observations /\ move[n].version \in Nat \ {0}
        BY <3>2 DEF WonMove
      <3>5. Len(trail[move[n].target]) \in Nat
        BY <1>2, <3>4
      <3>6. QED
        BY <3>1, <3>3, <3>4, <3>5
    <2>4. ASSUME NEW n \in Movers, NEW r, r = move'[n], r.phase = "moved"
          PROVE  /\ r.version <= Len(trail'[r.target])
                 /\ trail'[r.target][r.version].after = [version |-> r.version, state |-> r.state]
                 /\ trail'[r.target][r.version].replacement = r.replacement
                 /\ \A other \in Movers \ {n} :
                      move'[other].phase = "moved" /\ move'[other].target = r.target
                        => move'[other].version # r.version
      <3>1. CASE n = m
        <4>1. r = won
          BY <1>8, <2>4, <3>1
        <4>2. Len(trail[x]) \in Nat
          BY <1>3, <1>4
        <4>3. \A other \in Movers \ {n} :
                 move'[other].phase = "moved" /\ move'[other].target = r.target
                   => move'[other].version # r.version
          BY <2>2, <2>3, <3>1, <4>1, <4>2
        <4>4. trail'[x][won.version] = e /\ won.version <= Len(trail'[x])
          BY <1>11, <2>2, <4>2
        <4>5. e.after = [version |-> won.version, state |-> won.state]
          BY <1>3, <1>6, <2>2
        <4>6. e.replacement = won.replacement
          BY <1>6, <2>2
        <4>7. QED
          BY <2>2, <4>1, <4>3, <4>4, <4>5, <4>6
      <3>2. CASE n # m
        <4>1. /\ r = move[n] /\ r.target \in Observations
              /\ r.version \in 1 .. Len(trail[r.target]) /\ r.version \in Nat
          BY <2>3, <2>4, <3>2
        <4>2. trail'[r.target][r.version] = trail[r.target][r.version]
          BY <1>11, <4>1
        <4>3. Len(trail[r.target]) \in Nat /\ Len(trail'[r.target]) >= Len(trail[r.target])
                /\ Len(trail'[r.target]) \in Nat
          BY <1>2, <1>11, <4>1
        <4>4. r.version <= Len(trail'[r.target])
          BY <4>1, <4>3
        <4>5. /\ trail[r.target][r.version].after = [version |-> r.version, state |-> r.state]
              /\ trail[r.target][r.version].replacement = r.replacement
          BY <2>1, <2>4, <4>1 DEF WinnersDiffer
        <4>6. ASSUME NEW other \in Movers \ {n}, move'[other].phase = "moved",
                     move'[other].target = r.target
              PROVE  move'[other].version # r.version
          <5>1. CASE other = m
            <6>1. move'[other] = won
              BY <1>8, <5>1
            <6>2. r.target = x /\ r.version <= Len(trail[x]) /\ Len(trail[x]) \in Nat
              BY <2>2, <4>1, <4>3, <4>6, <6>1
            <6>3. QED
              BY <2>2, <4>1, <6>1, <6>2
          <5>2. CASE other # m
            <6>1. move'[other] = move[other]
              BY <1>8, <5>2
            <6>2. /\ move[n].phase = "moved" /\ move[other].phase = "moved"
                  /\ move[other].target = move[n].target
              BY <2>4, <4>1, <4>6, <6>1
            <6>3. move[other].version # move[n].version
              BY <2>1, <6>2 DEF WinnersDiffer
            <6>4. QED
              BY <4>1, <6>1, <6>3
          <5>3. QED
            BY <5>1, <5>2
        <4>7. QED
          BY <4>2, <4>4, <4>5, <4>6
      <3>3. QED
        BY <3>1, <3>2
    <2>5. QED
      BY <2>4 DEF WinnersDiffer
  <1>15. ReplacementOnParcel'
    <2>1. ReplacementOnParcel
      BY DEF Inv
    <2> SUFFICES ASSUME NEW y \in Observations, Exists(y), NEW by, by = observations'[y].replacedBy,
                        by # NoObservation
                 PROVE  /\ observations'[y].state = "superseded"
                        /\ by # y /\ by \in Observations /\ Exists(by)
                        /\ observations[by].parcel = observations[y].parcel
      BY <1>10 DEF ReplacementOnParcel, Exists
    <2>2. CASE y = x
      <3>1. observations'[y] = new /\ by = q.replacement
        BY <1>5, <1>7, <2>2
      <3>2. q.to = "superseded" /\ by # x /\ by \in Observations
        BY <1>1, <1>4, <3>1 DEF OpenSound, ReplacementNamed
      <3>3. Exists(by) /\ observations[by].parcel = observations[x].parcel
        BY <1>1, <3>1, <3>2 DEF OpenSound
      <3>4. QED
        BY <1>5, <2>2, <3>1, <3>2, <3>3
    <2>3. CASE y # x
      <3>1. observations'[y] = observations[y]
        BY <1>7, <2>3
      <3>2. by \in Observations
        BY <3>1, ExistingRow DEF Inv, Row
      <3>3. QED
        BY <2>1, <3>1, <3>2 DEF ReplacementOnParcel
    <2>4. QED
      BY <2>2, <2>3
  <1>16. MovesSound'
    <2> SUFFICES ASSUME NEW n \in Movers, NEW r, r = move'[n],
                        r.phase \in {"replacing", "checked"}
                 PROVE  OpenSound(r)'
      BY DEF MovesSound
    <2>1. r = move[n]
      BY <1>1, <1>8
    <2>2. r \in OpenMove /\ OpenSound(r)
      BY <1>2, <2>1, OpenShape DEF Inv, MovesSound
    <2>3. /\ r.target \in Observations /\ r.seen.version \in 1 .. Len(trail[r.target])
          /\ Len(trail[r.target]) \in Nat
      BY <1>2, <2>2 DEF OpenMove, OpenSound
    <2>4. /\ trail'[r.target][r.seen.version] = trail[r.target][r.seen.version]
          /\ Len(trail'[r.target]) >= Len(trail[r.target]) /\ Len(trail'[r.target]) \in Nat
      BY <1>11, <2>3
    <2>5. r.seen.version \in 1 .. Len(trail'[r.target])
      BY <2>3, <2>4
    <2>6. ASSUME r.phase = "checked", r.to = "superseded"
          PROVE  /\ observations'[r.target] # NoRow
                 /\ observations'[r.replacement] # NoRow
                 /\ observations'[r.replacement].parcel = observations'[r.target].parcel
      <3>1. r.replacement \in Observations
        BY <2>2, <2>6 DEF OpenMove, OpenSound, ReplacementNamed
      <3>2. /\ Exists(r.target) /\ Exists(r.replacement)
            /\ observations[r.replacement].parcel = observations[r.target].parcel
        BY <2>2, <2>6 DEF OpenSound
      <3>3. ASSUME NEW y \in Observations, Exists(y)
            PROVE  observations'[y] # NoRow /\ observations'[y].parcel = observations[y].parcel
        BY <1>10, <3>3 DEF Exists
      <3>4. QED
        BY <2>3, <3>1, <3>2, <3>3
    <2>7. QED
      BY <2>2, <2>4, <2>5, <2>6 DEF OpenSound, ReplacementNamed, Exists
  <1>17. QED
    BY <1>12, <1>13, <1>14, <1>15, <1>16 DEF Inv

LEMMA ClosedMoveInv ==
    ASSUME Inv, NEW m \in Movers, RefuseMove(m) \/ FailMove(m) \/ FinishMove(m)
    PROVE  Inv'
  <1>1. CASE RefuseMove(m) \/ FailMove(m)
    BY <1>1, AnsweredMoveInv DEF RefuseMove, FailMove
  <1>2. CASE FinishMove(m)
    BY <1>2, QuietRequests, QuietMove DEF FinishMove
  <1>3. QED
    BY <1>1, <1>2

LEMMA NextInv ==
    ASSUME Inv, [Next]_vars
    PROVE  Inv'
  <1>1. ASSUME NEW i \in Importers, ImportStep(i)
        PROVE  Inv'
    <2>1. CASE \E role \in Roles, parcel \in Parcels \cup {UnknownParcel}, code \in Codes,
                 state \in ObservationStates \cup {"none"}, valid \in BOOLEAN :
                   CheckImport(i, role, parcel, code, state, valid)
      BY <2>1, CheckImportInv
    <2>2. CASE \E o \in Observations : CommitImport(i, o)
      BY <2>2, CommitImportInv
    <2>3. CASE FailImport(i) \/ FinishImport(i)
      BY <2>3, ClosedImportInv
    <2>4. QED
      BY <1>1, <2>1, <2>2, <2>3 DEF ImportStep
  <1>2. ASSUME NEW m \in Movers, MoveStep(m)
        PROVE  Inv'
    <2>1. CASE \E role \in Roles, o \in Observations, to \in ObservationStates,
                 claimed \in ClaimedVersions,
                 replacement \in Observations \cup {NoObservation} :
                   CheckMove(m, role, o, to, claimed, replacement)
      BY <2>1, CheckMoveInv
    <2>2. CASE ReadReplacement(m)
      BY <2>2, ReadReplacementInv
    <2>3. CASE CommitMove(m)
      BY <2>3, CommitMoveInv
    <2>4. CASE RefuseMove(m) \/ FailMove(m) \/ FinishMove(m)
      BY <2>4, ClosedMoveInv
    <2>5. QED
      BY <1>2, <2>1, <2>2, <2>3, <2>4 DEF MoveStep
  <1>3. CASE Crash
    BY <1>3, CrashInv
  <1>4. CASE UNCHANGED vars
    <2>1. /\ observations' = observations /\ trail' = trail
          /\ import' = import /\ move' = move
      BY <1>4 DEF vars
    <2>2. TypeOK'
      BY <2>1 DEF Inv, TypeOK
    <2>3. TrailExplainsObservation' /\ ReplacementOnParcel'
      BY <2>1 DEF Inv, TrailExplainsObservation, ReplacementOnParcel, Exists
    <2>4. WinnersDiffer'
      BY <2>1 DEF Inv, WinnersDiffer
    <2>5. MovesSound'
      <3>1. ASSUME NEW m \in Movers, OpenSound(move[m])
            PROVE  OpenSound(move[m])'
        BY <2>1, <3>1 DEF OpenSound, ReplacementNamed, Exists
      <3>2. QED
        BY <2>1, <3>1 DEF Inv, MovesSound
    <2>6. QED
      BY <2>2, <2>3, <2>4, <2>5 DEF Inv
  <1>5. QED
    BY <1>1, <1>2, <1>3, <1>4 DEF Next

LEMMA SpecInv == Spec => []Inv
  BY InitInv, NextInv, PTL DEF Spec

-----------------------------------------------------------------------------
(* Theorems. *)

\* Tables, trails and requests hold values of their types, however imports and
\* transitions interleave.
THEOREM TypeCorrect == Spec => []TypeOK
  <1>1. Inv => TypeOK
    BY DEF Inv
  <1>2. QED
    BY <1>1, SpecInv, PTL

\* The audit trail is the history of its observation: one entry per version, no gap, no
\* illegal transition, the last one naming the state and the replacement of the row.
THEOREM HistoryIsComplete == Spec => []TrailExplainsObservation
  <1>1. Inv => TrailExplainsObservation
    BY DEF Inv
  <1>2. QED
    BY <1>1, SpecInv, PTL

\* No two transitions of an observation win one version, and what a winner was told is
\* what the trail has at its version.
THEOREM OneWinnerPerVersion == Spec => []WinnersDiffer
  <1>1. Inv => WinnersDiffer
    BY DEF Inv
  <1>2. QED
    BY <1>1, SpecInv, PTL

\* The replacement that was checked before the transaction is still there, on the same
\* parcel, when the transaction has committed and ever after; only superseded
\* observations have one.
THEOREM ReplacementsHold == Spec => []ReplacementOnParcel
  <1>1. Inv => ReplacementOnParcel
    BY DEF Inv
  <1>2. QED
    BY <1>1, SpecInv, PTL

\* A superseded row is never written again, and no row changes its parcel or its code:
\* a snapshot read before the row was superseded is a version behind when it is used.
LEMMA RowsChange ==
    ASSUME Inv, [Next]_vars, NEW o \in Observations, Exists(o)
    PROVE  /\ observations[o].state = "superseded" => observations'[o] = observations[o]
           /\ observations'[o].parcel = observations[o].parcel
           /\ observations'[o].code = observations[o].code
  <1>1. CASE observations'[o] = observations[o]
    BY <1>1
  <1>2. ASSUME NEW i \in Importers, NEW p \in Observations, CommitImport(i, p)
        PROVE  observations'[o] = observations[o]
    BY <1>2 DEF CommitImport, Inv, TypeOK
  <1>3. ASSUME NEW m \in Movers, CommitMove(m)
        PROVE  /\ observations[o].state = "superseded" => observations'[o] = observations[o]
               /\ observations'[o].parcel = observations[o].parcel
               /\ observations'[o].code = observations[o].code
    <2> DEFINE q == move[m]
    <2>1. /\ q \in OpenMove /\ OpenSound(q) /\ VersionMatches(q)
          /\ observations'[o] = IF o = q.target THEN Moved(observations[q.target], q)
                                               ELSE observations[o]
      BY <1>3, WrittenMove
    <2>2. observations[q.target] \in Row /\ observations[q.target].state # "superseded"
      BY <2>1, MatchedRead
    <2>3. /\ Moved(observations[q.target], q).parcel = observations[q.target].parcel
          /\ Moved(observations[q.target], q).code = observations[q.target].code
      BY <2>1, <2>2, MovedRow
    <2> HIDE DEF q
    <2>4. QED
      BY <2>1, <2>2, <2>3
  <1>4. CASE UNCHANGED observations
    BY <1>4
  <1>5. ASSUME NEW i \in Importers, ImportStep(i)
        PROVE  UNCHANGED observations \/ \E p \in Observations : CommitImport(i, p)
    BY <1>5 DEF ImportStep, CheckImport, FailImport, FinishImport
  <1>6. ASSUME NEW m \in Movers, MoveStep(m)
        PROVE  UNCHANGED observations \/ CommitMove(m)
    BY <1>6 DEF MoveStep, CheckMove, ReadReplacement, RefuseMove, FailMove, FinishMove, Becomes
  <1>7. QED
    BY <1>2, <1>3, <1>4, <1>5, <1>6 DEF Next, vars, Crash

THEOREM SupersededStays == Spec => SupersededIsFinal
  <1>1. Inv /\ [Next]_vars =>
          [\A o \in Observations : Exists(o) =>
             /\ observations[o].state = "superseded" => observations'[o] = observations[o]
             /\ observations'[o].parcel = observations[o].parcel
             /\ observations'[o].code = observations[o].code]_vars
    BY RowsChange
  <1>2. QED
    BY <1>1, SpecInv, PTL DEF Spec, SupersededIsFinal
=============================================================================
