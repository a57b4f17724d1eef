-------------------------- MODULE SurveyObservation --------------------------
(***************************************************************************)
(* Survey observations: ImportObservation and TransitionObservation of     *)
(* service/survey_observation_service.go over                              *)
(* repository/survey_observation_repository.go, requests interleaved.      *)
(*                                                                         *)
(* An observation is evidence for one parcel and may be superseded by      *)
(* another one of that parcel.  A transition reads its row, compares the   *)
(* client's version with it, reads the replacement, and only then writes,  *)
(* under WHERE version = the version read; nothing guards the replacement  *)
(* between its read and that write.                                        *)
(*                                                                         *)
(* Definitions named X_Y are not the code: they are plausible bugs of X    *)
(* that the properties are shown to catch.                                 *)
(***************************************************************************)
EXTENDS Naturals, Sequences, Workflow

CONSTANTS
    Parcels,           \* stored parcels: they are never deleted
    UnknownParcel,     \* a parcel_id that names no row
    Observations,      \* identifiers of rows of survey_observations
    NoObservation,     \* replaced_by NULL, or a request without a replacement
    Codes,             \* observation_code after trimming
    Importers,         \* slots for POST /observations/import requests
    Movers,            \* slots for POST /observations/:id/transition requests
    ClaimedVersions,   \* what clients put in "version"
    MaxVersion         \* bound: no transition starts from a row at this version

ASSUME Identifiers == UnknownParcel \notin Parcels /\ NoObservation \notin Observations

ASSUME Bounds == ClaimedVersions \subseteq Nat \ {0} /\ MaxVersion \in Nat \ {0}

VARIABLES
    observations,      \* table survey_observations
    trail,             \* audit_logs rows about each observation, in commit order
    import,            \* ImportObservation requests
    move               \* TransitionObservation requests

vars == <<observations, trail, import, move>>

-----------------------------------------------------------------------------
(* Rows, audit entries, requests. *)

NoRow == [version |-> 0]

Row ==
    [version : Nat \ {0}, parcel : Parcels, code : Codes, state : ObservationStates,
     replacedBy : Observations \cup {NoObservation}]

Exists(o) == observations[o] # NoRow

Taken(code) == \E o \in Observations : Exists(o) /\ observations[o].code = code

\* before is what was read, after what was written.
Nothing == [version |-> 0, state |-> "none"]

Summary == [version : Nat \ {0}, state : ObservationStates]

SummaryOf(row) == [version |-> row.version, state |-> row.state]

Entry ==
    [before : Summary \cup {Nothing}, after : Summary,
     replacement : Observations \cup {NoObservation}]

Idle == [phase |-> "idle"]

Answered(status) == [phase |-> "answered", status |-> status]

Answers == [phase : {"answered"}, status : {200, 201, 400, 403, 404, 409, 422, 500}]

ImportRequest ==
    {Idle} \cup Answers
        \cup [phase : {"checked"}, parcel : Parcels, code : Codes, state : ObservationStates]

\* replacing: the replacement is still to be read; checked: only the write is left.
MoveRequest ==
    {Idle} \cup Answers
        \cup [phase : {"replacing", "checked"}, target : Observations, seen : Summary,
              to : ObservationStates, replacement : Observations \cup {NoObservation}]
        \cup [phase : {"moved"}, target : Observations, version : Nat \ {0},
              state : ObservationStates, replacement : Observations \cup {NoObservation}]

-----------------------------------------------------------------------------
Init ==
    /\ observations = [o \in Observations |-> NoRow]
    /\ trail = [o \in Observations |-> <<>>]
    /\ import = [i \in Importers |-> Idle]
    /\ move = [m \in Movers |-> Idle]

-----------------------------------------------------------------------------
(* ImportObservation.  Evidence may be imported in any state, superseded   *)
(* included; a request that names none (the empty string of the code)      *)
(* imports it as accepted.                                                 *)

StateOrDefault(state) == IF state = "none" THEN "accepted" ELSE state

CheckImport(i, role, parcel, code, state, valid) ==
    /\ import[i] = Idle
    /\ import' = [import EXCEPT ![i] =
         IF role \notin FieldRoles THEN Answered(403)
         ELSE IF parcel \notin Parcels THEN Answered(404)
         ELSE IF ~valid THEN Answered(422)
         ELSE [phase |-> "checked", parcel |-> parcel, code |-> code,
               state |-> StateOrDefault(state)]]
    /\ UNCHANGED <<observations, trail, move>>

\* The unique index on observation_code is the only guard of the code.
IndexAdmits(code) == ~Taken(code)

CommitImport(i, o) ==
    LET q == import[i]
    IN  /\ q.phase = "checked"
        /\ IndexAdmits(q.code)
        /\ ~Exists(o)
        /\ observations' = [observations EXCEPT ![o] =
             [version |-> 1, parcel |-> q.parcel, code |-> q.code, state |-> q.state,
              replacedBy |-> NoObservation]]
        /\ trail' = [trail EXCEPT ![o] =
             <<[before |-> Nothing, after |-> [version |-> 1, state |-> q.state],
                replacement |-> NoObservation]>>]
        /\ import' = [import EXCEPT ![i] = Answered(201)]
        /\ UNCHANGED move

FailImport(i) ==
    /\ import[i].phase = "checked"
    /\ import' = [import EXCEPT ![i] = Answered(500)]
    /\ UNCHANGED <<observations, trail, move>>

FinishImport(i) ==
    /\ import[i].phase = "answered"
    /\ import' = [import EXCEPT ![i] = Idle]
    /\ UNCHANGED <<observations, trail, move>>

-----------------------------------------------------------------------------
(* TransitionObservation. *)

Becomes(m, q) ==
    /\ move' = [move EXCEPT ![m] = q]
    /\ UNCHANGED <<observations, trail, import>>

\* What the request may name as replacement.
ReplacementNamed(o, to, replacement) ==
    IF to = "superseded" THEN replacement \notin {NoObservation, o}
                         ELSE replacement = NoObservation

MoveVerdict(role, o, to, claimed, replacement) ==
    IF role \notin FieldRoles THEN 403
    ELSE IF ~Exists(o) THEN 404
    ELSE IF observations[o].version # claimed THEN 409
    ELSE IF ~CanObservationTransition(observations[o].state, to) THEN 409
    ELSE IF ~ReplacementNamed(o, to, replacement) THEN 400
    ELSE 200

CheckMove(m, role, o, to, claimed, replacement) ==
    /\ move[m] = Idle
    /\ observations[o].version < MaxVersion
    /\ LET verdict == MoveVerdict(role, o, to, claimed, replacement)
       IN  Becomes(m, IF verdict # 200 THEN Answered(verdict)
                      ELSE [phase |-> IF to = "superseded" THEN "replacing" ELSE "checked",
                            target |-> o, seen |-> SummaryOf(observations[o]), to |-> to,
                            replacement |-> replacement])

Suitable_AnyParcel(o, replacement) == observations[replacement].state # "superseded"

Suitable(o, replacement) ==
    /\ observations[replacement].parcel = observations[o].parcel
    /\ observations[replacement].state # "superseded"

ReadReplacement(m) ==
    LET q == move[m]
    IN  /\ q.phase = "replacing"
        /\ Becomes(m, IF ~Exists(q.replacement) THEN Answered(404)
                      ELSE IF ~Suitable(q.target, q.replacement) THEN Answered(409)
                      ELSE [q EXCEPT !.phase = "checked"])

VersionMatches_Unconditional(q) == TRUE

VersionMatches(q) == observations[q.target].version = q.seen.version

\* replaced_by is written only when the request has a replacement.
Moved(row, q) ==
    [row EXCEPT !.version = @ + 1, !.state = q.to,
                !.replacedBy = IF q.replacement = NoObservation THEN @ ELSE q.replacement]

MoveEntry_SnapshotAfter(q) ==
    [before |-> q.seen, after |-> q.seen, replacement |-> q.replacement]

MoveEntry(q) ==
    [before |-> q.seen, after |-> [version |-> q.seen.version + 1, state |-> q.to],
     replacement |-> q.replacement]

CommitMove(m) ==
    LET q == move[m]
    IN  /\ q.phase = "checked"
        /\ VersionMatches(q)
        /\ observations' = [observations EXCEPT ![q.target] = Moved(@, q)]
        /\ trail' = [trail EXCEPT ![q.target] = Append(@, MoveEntry(q))]
        /\ move' = [move EXCEPT ![m] =
             [phase |-> "moved", target |-> q.target, version |-> q.seen.version + 1,
              state |-> q.to, replacement |-> q.replacement]]
        /\ UNCHANGED import

\* The version has moved, or the transaction failed otherwise: both are answered 409.
RefuseMove(m) ==
    /\ move[m].phase = "checked"
    /\ Becomes(m, Answered(409))

\* Reading the replacement fails.
FailMove(m) ==
    /\ move[m].phase = "replacing"
    /\ Becomes(m, Answered(500))

FinishMove(m) ==
    /\ move[m].phase \in {"answered", "moved"}
    /\ Becomes(m, Idle)

\* The server stops: requests in flight are lost, committed rows are not.
Crash ==
    /\ import' = [i \in Importers |-> Idle]
    /\ move' = [m \in Movers |-> Idle]
    /\ UNCHANGED <<observations, trail>>

ImportStep(i) ==
    \/ \E role \in Roles, parcel \in Parcels \cup {UnknownParcel}, code \in Codes,
          state \in ObservationStates \cup {"none"}, valid \in BOOLEAN :
            CheckImport(i, role, parcel, code, state, valid)
    \/ \E o \in Observations : CommitImport(i, o)
    \/ FailImport(i)
    \/ FinishImport(i)

MoveStep(m) ==
    \/ \E role \in Roles, o \in Observations, to \in ObservationStates,
          claimed \in ClaimedVersions, replacement \in Observations \cup {NoObservation} :
            CheckMove(m, role, o, to, claimed, replacement)
    \/ ReadReplacement(m)
    \/ CommitMove(m)
    \/ RefuseMove(m)
    \/ FailMove(m)
    \/ FinishMove(m)

Next ==
    \/ \E i \in Importers : ImportStep(i)
    \/ \E m \in Movers : MoveStep(m)
    \/ Crash

Spec == Init /\ [][Next]_vars

-----------------------------------------------------------------------------
(* Properties. *)

\* Tables, trails and requests hold values of their types.
TypeOK ==
    /\ observations \in [Observations -> Row \cup {NoRow}]
    /\ trail \in [Observations -> Seq(Entry)]
    /\ import \in [Importers -> ImportRequest]
    /\ move \in [Movers -> MoveRequest]

\* The audit trail of an observation is its history: one entry per version, each
\* starting where the one before it ended, each a legal transition, the last one naming
\* the row's state and the latest replacement the row's replaced_by.
TrailExplainsObservation ==
    \A o \in Observations : LET t == trail[o] IN
        /\ Len(t) = observations[o].version
        /\ \A i \in 2 .. Len(t) :
             /\ t[i].before = t[i - 1].after
             /\ CanObservationTransition(t[i].before.state, t[i].after.state)
        /\ Exists(o) => /\ t[Len(t)].after = SummaryOf(observations[o])
                        /\ t[Len(t)].replacement = observations[o].replacedBy

\* Two requests about one observation never both win the same version, and a winner's
\* answer is what the trail has at that version.
WinnersDiffer ==
    \A m \in Movers : move[m].phase = "moved" =>
        LET q == move[m]
        IN  /\ q.version <= Len(trail[q.target])
            /\ trail[q.target][q.version].after = [version |-> q.version, state |-> q.state]
            /\ trail[q.target][q.version].replacement = q.replacement
            /\ \A other \in Movers \ {m} :
                 move[other].phase = "moved" /\ move[other].target = q.target
                    => move[other].version # q.version

\* A superseded observation points to another observation, which exists and belongs to
\* the same parcel; only superseded ones point anywhere.
ReplacementOnParcel ==
    \A o \in Observations : Exists(o) /\ observations[o].replacedBy # NoObservation =>
        LET other == observations[o].replacedBy
        IN  /\ observations[o].state = "superseded"
            /\ other # o /\ Exists(other)
            /\ observations[other].parcel = observations[o].parcel

\* Superseded is final: the row never changes again, whoever still holds a snapshot of it.
\* An observation never changes parcel or code.
SupersededIsFinal ==
    [][\A o \in Observations : Exists(o) =>
         /\ observations[o].state = "superseded" => observations'[o] = observations[o]
         /\ observations'[o].parcel = observations[o].parcel
         /\ observations'[o].code = observations[o].code]_vars

\* survey_observation_service.go:94: "replacement observation must be an active
\* observation on the same parcel".  Whoever commits a supersession leaves a replacement
\* that was active when it took over: no two observations replace one another.
NotEachOther ==
    \A o, other \in Observations :
        ~(/\ Exists(o) /\ observations[o].replacedBy = other
          /\ Exists(other) /\ observations[other].replacedBy = o)
=============================================================================
