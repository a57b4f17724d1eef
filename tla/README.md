# ParcelGraph in TLA+

TLA+ models of the ParcelGraph backend (`src/backend`), TLC configurations that
check them on small instances, and TLAPS proofs of what the services promise for
every number of accounts, parcels, proposals and requests.  `PROJECT.json` maps
every definition to the lines it stands for and lists the runs, the mutants, the
hazards and the theorems.

## 1. The system

ParcelGraph keeps land parcels, survey observations, boundary proposals and topology
conflicts in one SQL database behind a Gin HTTP server.  Each HTTP request runs in its
own goroutine.  There is no lock in the services: whatever coordination there is comes
from the database, as unique indexes, conditional `UPDATE ... WHERE`, and transactions.
The rate limiters are the one exception, a map under a mutex.

| Component | State | Operations that change it | Model |
| --- | --- | --- | --- |
| Workflow tables and roles (`constants/`) | none | none; three transition tables, five roles | `Workflow` |
| Boundary proposals | `boundary_proposals`, their audit entries | `CreateProposal`, `TransitionProposal` | `BoundaryProposal`, `ReviewLedger` |
| Conflict detection | `topology_conflicts`, `topology_detection_runs`, audit entries | `DetectConflicts` (+ `replayDetectionRun`) | `TopologyDetection`, `IdempotentCall` |
| Conflict review | `topology_conflicts`, `boundary_proposals`, audit entries | `TransitionConflict`, `ApplyConflictSuggestion` | `ConflictResolution`, `ConflictLedger` |
| Land parcels | `land_parcels`, audit entries | `CreateParcel`, `UpdateParcel` | `LandParcel` |
| Survey observations | `survey_observations`, audit entries | `ImportObservation`, `TransitionObservation` | `SurveyObservation` |
| Login, tokens, role checks | `users`, which the program reads and an administrator writes; signed tokens, which clients keep | `Login`, `Parse`, `RBACMiddleware` | `Admission` |
| Rate limiter | map of windows, last sweep | `Allow` | `RateLimiter` |
| Geometry | none | snapping, comparison with neighbours, deduplication | `SnapAndDetect` on a grid |
| Migration, seeding, start | tables, role constraint, triggers, spatial columns, accounts | `MigrateAndSeed` at every start | `ServerStart` |
| Transactions and audit log | connection pool, `audit_logs` | `Transaction`, `Audits.Create` | one atomic step of each service |
| Shutdown | requests in flight | at the end | `Crash`, `Restart`, `Stop` |
| Configuration, context and error middleware | none shared | | not modelled |
| Frontend stores, API client, pages | lists in memory, token | fetch, create, transition | not modelled |

How they interact:

- A request passes token check, limiter and role check (`Admission`) before its handler
  runs; the account is read once, on the way in.
- A proposal names a parcel and its version, and observations of that parcel.  It reads
  those rows, by separate statements, before its own transaction.
- Detection reads a proposal, its parcel and the parcel's neighbours, snaps and compares
  them, and writes conflicts.
- Applying a conflict's suggestion reads three tables and writes two: a new draft
  proposal, and the conflict's resolution.
- Every write adds its audit entry in its transaction, so an audit trail is as atomic
  as the row it describes.
- Each start migrates the database that other servers may be using.
- No row of the four entities is ever deleted.

What is hard here.  Every operation reads, decides, and writes later, so its decision is
about a row that may have moved.  Five mechanisms are meant to make that safe, and they
differ from one service to the next: proposals write `WHERE version AND state = what was
read`; conflicts `WHERE state = what was read`; parcels `WHERE version = what the client
sent`; observations compare the client's version first and write `WHERE version = that`;
detection has a unique index and a second lookup after a failed transaction.  Requests
may fail between any two statements, and the server may stop.  Migration runs no
transaction at all: each of its statements commits by itself.  The limiter reads the
clock before it takes its mutex, so its calls are not in time order.

What makes each component correct:

- proposals: no author reviews their own work whatever races; the trail is the complete
  legal history of the row; a move that was answered is in the trail; decided is final;
- detection: an (actor, key) has one run, every answer is that run's, a failed attempt
  leaves nothing behind, a waiting insert gets through;
- conflict review: a suggestion is applied once, by the person on record; no conflict reopens;
- parcels: codes unique, one audited write per version, columns nobody named stay;
- observations: one winner per version, superseded is final, replacements make sense;
- admission: the role a handler goes by is one the account has now, not one it had at login;
- limiter: bounded admissions per window, nobody refused for nothing, no open window forgotten;
- start: whatever interleaves, the schema is whole once every server serves, and they all
  come to serve;
- geometry: corners go to the nearest target, applying suggestions comes to rest, every
  trouble with a neighbour is found.

## 2. The modules

A request is a slot (an element of `Movers`, `Requests`, `Updaters`, ...) holding a record
with its `phase` and what the goroutine knows: the row it read, what it decided on, what
it answered.  Reading and deciding is one action, committing the transaction another, so
everything else can happen between.  `Finish...` frees a slot, `Crash` frees all of them;
both forget what the request knew, while committed rows stay.  Definitions named `X_Y`
are not the code.  They are plausible bugs of `X`, and each property below is shown to
fail when one of them replaces the code.

**`Workflow`** holds the transition tables, `authorizeProposalTransition`, and the roles
each route admits.  The other modules extend it.

**`BoundaryProposal`** models both handlers of `boundary_proposal_service.go`.
`BeginCreation` checks role, parcel and base version; `CheckEvidence` reads one
observation per step, because `CreateProposal` queries them one at a time;
`CommitCreation` inserts row and audit entry.  `CheckMove` is everything
`TransitionProposal` does before its transaction, `CommitMove` the conditional update
with its entry, `RefuseStaleMove` the update that changes no row, `AbortMove` any other
failure.  `ParcelCommitted`, `ObservationImported` and `ProposalDerived` are what the
other services commit.  A move carries the version its client sent (`claimed`), which
the code requires and never uses.

**`ReviewLedger`** is what review promises, with no requests and no races: a ledger per
proposal, opened by its author, growing by one legal and authorised move at a time.
`BoundaryProposal` implements it with its audit trail as the ledger.

**`TopologyDetection`** takes `DetectConflicts` statement by statement, the transaction
included: rows inserted and not committed are the request's own, the unique index makes
an insert wait for an uncommitted row with its key (`KeyHeld`) and fail on a committed
one (`DuplicateKey`).  Waiting is PostgreSQL's; the SQLite of the smoke test has one
writer at a time, whose behaviours are among these.  Geometry is abstract: the input hash
is the tuple of what was read, and the algorithm returns some number of findings.

**`IdempotentCall`** says what an idempotency key promises and nothing of how: the first
successful call of an owner stores its request and result, later calls are answered from
the store or refused, a failed call stores nothing.  `TopologyDetection` implements it.

**`ConflictResolution`** models manual transitions of a conflict against
`ApplyConflictSuggestion`, whose reads (`CheckApply`, `ReadProposal`, `ReadParcel`)
and one transaction (`CommitApply`) are separate steps.  Detection, and what happens to
the proposal and the parcel meanwhile, are environment actions.  **`ConflictLedger`** is
its abstract specification: applying is one atomic move that drafts one proposal.

**`LandParcel`** gives a row some abstract columns, of which a PATCH names a subset.
`CheckUpdate` reads the row and merges, `CommitUpdate` writes *every* column at the
version the client named (or the version read when it named none).  `CheckCreate` and
`CommitCreate` are the lookup and the insert of one transaction: under read committed
another creation fits between them, and the unique index decides.

**`SurveyObservation`** models imports, with the default state and the unique code, and
the accept / reject / supersede transitions.  `ReadReplacement` is the separate read of
the observation that takes over.

**`Admission`** is the way of a request to its handler, in the order the routers install
it: `VerifyToken` and `ReadAccount` are the two halves of `Parse`, `PassLimiter` the
limiter where a route has one, `CheckRole` the role middleware.  `LookUpAccount` and
`SignToken` are `Login`.  The program never writes an account once it is seeded, so
`ChangeAccount` is an administrator at the table.  A call carries, as history, the roles
its account has held while active since the call arrived.

**`RateLimiter`** is one limiter.  `ReadClock` is the middleware's `time.Now()`, evaluated
before `Allow` waits for the mutex; `Allow` is one step, sweep included.  `visitors[a] =
NoVisitor` is an address without an entry, which is what indexing the map returns for it.
`admitted[a]` is history: the windows opened for the address, each the times that the
requests admitted in it carried.

**`ServerStart`** runs the script of `MigrateAndSeed` and `migratePostGIS` statement by
statement on several servers, over an empty database or one from before the spatial
columns and the newer roles.  The script is a sequence put together from the orders in
which the code lists tables and accounts; `ForEach` is the pair of statements it has for
each.  A statement that fails ends the process, and the restart
policy starts it again.  Servers that serve already write rows, whose spatial column the
trigger keeps, when there is a trigger.

**`SnapAndDetect`** is `geometry.go` over integers: parcels are upright rectangles, a
candidate is four corners, distances are compared by their squares.  `Snap` is
`SnapToReferences` with the validation of the result, `Detect` is `DetectTopology`,
`ApplySuggestion` makes the snapped boundary the candidate of the next detection.  The
order of the references (the parcel first) and of ties is the code's.  The loops over
targets and neighbours are recursive functions of the number of passes, `Closer` and
`Compared` one pass of each; `Noted` keeps a finding or drops it as a duplicate when it is
found, which leaves what the code's last loop leaves.  What the overlay library answers
about two rectangles is a handful of external operators.

`MC*` modules give the constants their values and define symmetry sets.  `*_proofs`
modules hold the theorems; `TopologyDetection_proofs` is about all of conflict detection,
the service and the algorithms of `SnapAndDetect`.

## 3. What the runs check

| Run | Question | Result |
| --- | --- | --- |
| `BoundaryProposal_review` | two moves of one proposal race through a revision round | holds: `IndependentReview`, `TrailExplainsRow`, `ReviewerOfRecord`, `AcknowledgedIsRecorded`, `DecisionFinal`, `ImplementsLedger` |
| `BoundaryProposal_creation` | two creations race with imports and parcel updates | holds: `EvidenceOnParcel`, `BaseVersionExisted` |
| `TopologyDetection_races` | two detections race, with one key or two, one request or two | holds: `OneRunPerKey`, `AnswersComeFromTheRun`, `NoOrphans`, `InputsAreReal`, `ImplementsIdempotentCall` |
| `TopologyDetection_fair` | does every accepted detection return? | holds: `EveryCallReturns` |
| `ConflictResolution_race` | two appliers and a reviewer race while proposal and parcel move on | holds: `TrailExplainsConflict`, `ResolverOfRecord`, `AppliedAtMostOnce`, `AppliedIsDone`, `DraftContinuesItsSource`, `ImplementsLedger` |
| `LandParcel_races` | two creations for one code, two updates for one parcel | holds: `CodeUnique`, `TrailCountsVersions`, `ReplyWasTheRow`, `OnlyNamedColumns` |
| `SurveyObservation_races` | two transitions race over observations of two parcels | holds: `TrailExplainsObservation`, `WinnersDiffer`, `ReplacementOnParcel`, `SupersededIsFinal` |
| `SurveyObservation_crossing` | may two supersessions cross? | `NotEachOther` is violated |
| `RateLimiter_windows` | requests overtake each other while windows roll over | holds: `AdmittedPerSpan`, `RefusalEarned`, `OpenWindowKept` |
| `Admission_revocation` | an account is demoted, deactivated, reactivated under its requests | holds: `HandledWithAuthority` |
| `ServerStart_together` | two migrating servers and a third start over one database | holds: `TypeOK`, `SettledIsComplete`, `StartKeepsAccounts`, `EveryServerServes` |
| `SnapAndDetect_grid` | every upright candidate among two neighbours, up to three rounds | holds: `GeometryTypeOK`, `SnapsToNearest`, `SnappingSettles`, `FindingsExact` |

A type invariant is a property of a run in `ServerStart`, where the role check can be lost,
and in `SnapAndDetect`, where it says that snapping stays on the grid and that a finding
names a neighbour that is there.  For every module it is a theorem (section 4), which says
more than a run would.

### Bounds

Every bound is a named constant given in the `.cfg`, and guards one
environment or entry action.  None cuts a request short once it is under way.

- Two requests of each racing kind.  Every check here is one read and one conditional
  write; the interesting schedules are two requests that hold the same snapshot, which
  two slots produce, and slots are reused, so histories are longer than two.
- `MaxVersion = 9` in `BoundaryProposal_review` lets a proposal reach `reviewed`, go back
  through `revision` to `draft`, and be reviewed again: the second round is where
  `reviewed_by` of the first could survive.
- `ClaimedVersions = {1}` where claimed versions are irrelevant (the code ignores them),
  `{1, 2}` where the property is about them.
- Three proposals in `ConflictResolution_race`: the source and the two drafts that two
  successful applies would leave.  `MaxCreated = 1` admits one proposal that nobody
  derived; a second one would be about no conflict of the instance.
- Three conflict ids in detection and `SpareIds = 2`: a detection starts only while two
  ids are unused, so two detections of one finding each always finish.  With more ids the
  runs repeat.  `FindingCounts = {0, 1}` includes the empty result set, whose run has no
  conflict to hang on.
- `MaxVersion = 4` for observations: accepted, rejected, accepted, superseded.
- `Limit = 2`, `Window = 2`, times up to six and a delay of up to one: two windows in a
  row and most of a third, sweeps, and requests late by half a window.
- `TokenLife = 2` of four instants: a token expires within the run, and the account
  changes role and activity as often as it likes.
- Two tables and two accounts in `ServerStart_together`, one account whose role the older
  constraint refuses: each kind of statement runs twice, and more tables add only more of
  the same.  `MaxStops = 1` kill at any point, on top of every failure that servers cause
  each other.  `MaxVersion = 2`: inserted, and updated once.
- A grid of seven by seven points with a parcel of two by two: every upright candidate
  with corners in the ranges of `MCCandidates`, every ordered pair of six neighbours that
  touch, overlap, meet at a corner or lie one away, and tolerances 0, 1 and 2.

Symmetry is used over request slots and over identifiers that no definition tells apart,
never in a run with a liveness property.  `SnapAndDetect_grid` does not check for
deadlock, because its computation ends; every other run does.

### Fairness

`TopologyDetection!FairSpec` assumes `WF(Work(s))`: a goroutine that can run does, and the
database answers.  It assumes `SF(InsertRun(s))` because an insert that waits for another
transaction's key is enabled and disabled by whoever holds it; the database's lock queue
grants it in turn, and weak fairness would allow it to starve.  Nothing is assumed of
clients, of failures (`Mishap`), of `Crash` or of the other services.  `EveryCallReturns`
says `answered` or `idle`, the second because a crash takes the request with it.

`ServerStart!FairSpec` assumes `WF(Start(s) \/ Statement(s))`: a process runs, and the
policy `unless-stopped` starts it again.  That alone is not enough.  Two servers can make
each other exit at the first `CREATE TABLE`, at `ADD CONSTRAINT` and at `CREATE TRIGGER`
again and again.  What ends it is that Docker doubles the wait before each restart: after
`Patience` failed starts a server waits until nobody else is starting.  The number is
small in the run; any other would do.

### Finding

The replacement of a superseded observation is checked outside the transaction and
guarded by nothing.  Two supersessions that cross both commit, and each observation is
replaced by the other, against the rule quoted in `survey_observation_service.go:94`.

### What else the models record of the code

Boundary proposals and parcels:

- A move names the version its client saw (`dto/boundary_proposal.go:21`), and
  `TransitionProposal` conditions its update on the version it has just read itself: a
  reviewer who looked at version 1 approves version 3 with a 200.  `README.md:151` says
  that 409 means a stale version.
- `CreateProposal` compares the base version before its transaction; a proposal can be
  born on a base that is no longer current.  What holds is `BaseVersionExisted`.
- `UpdateParcel` merges into the row it read and writes at the version the client named.
  A client who names a version yet to come can revert columns nobody named, and audit as
  `before` an image it did not replace (`gb-540.md:52`).  `OnlyNamedColumns` is about the
  clients who send the version the handler read, or none.
- The audited `after` image of a parcel update carries the version before the update.

Detection and conflicts:

- Detection looks up actor and key, never the input hash: the same input under a second
  key stores a second set of conflicts (`gb-540.md:36` speaks of idempotency by input
  hash).  The web client makes a new key for every call.
- Detection reads parcel and neighbours by separate statements; its input can mix versions
  that never existed together.  What holds is `InputsAreReal`.
- The evidence of a gap is the candidate's whole boundary, so of several neighbours with a
  gap only the first survives deduplication and is named (`gb-540.md:34`).
- A neighbour that overlaps along less than the tolerance is reported as dangling too.
- Applying a suggestion twice can move one corner by up to two tolerances, first to an
  edge and then to a corner of the reference; there it stays (`SnappingSettles`).
- A lost race in `ApplyConflictSuggestion` (line 247) and in `UpdateParcel` (line 119) is
  answered 500: the repository's error is no `AppError`.  The other handlers answer 409.
- Closing a conflict overwrites `resolved_by` (`ResolverOfRecord` states what holds).
- Two conflicts of one proposal may each be applied and give two drafts of one version.

Limiter, admission, start:

- A fixed window admits up to twice its limit within one window's time, as fixed windows
  do.  Requests that overtake each other before the mutex add to that: a sweep in the name
  of a later request forgets a window, and an earlier one then opens the next window in
  the past.  `AdmittedPerSpan` is what remains: at most twice the limit in a span of a
  window and two instants, less one delay at either end, in the times requests carry.
- A limiter is in memory: a restart forgets it, and `admitted` starts anew with it.
- A database error while the account is read is answered like an inactive account, 401.
- Without Docker's growing waits, servers that start together can fail each other forever.
- An update between a server's `DROP TRIGGER` and its `CREATE TRIGGER` leaves the spatial
  column behind the row, and the later `UPDATE ... WHERE ... IS NULL` does not repair it.
  `exposed` marks those rows, and `SettledIsComplete` excepts them; `README.md:63` says the
  triggers keep the columns synchronised.

## 4. What is proved

The theorems hold for any accounts and roles, parcels, observations, proposals, conflicts
and numbers of requests, and any bounds the assumptions admit; those about geometry for any
upright integer rectangles, any number of neighbours, any tolerance below 100 and any number
of rounds.  The assumptions are those the modules declare of their constants; TLC evaluates
them on each run.

| Module | Theorem | Statement |
| --- | --- | --- |
| `BoundaryProposal_proofs` | `TypeCorrect` | `Spec => []TypeOK` |
| | `SnapshotsAreSound` | `Spec => []SnapshotSound` |
| | `ReviewIsIndependent` | `Spec => []IndependentReview` |
| | `TrailIsComplete` | `Spec => []TrailExplainsRow` |
| | `ImplementsTheLedger` | `Spec => ImplementsLedger` |
| | `DecisionsAreFinal` | `Spec => DecisionFinal` |
| | `ReviewerIsRecorded` | `Spec => []ReviewerOfRecord` |
| | `AcknowledgedMovesCount` | `Spec => []AcknowledgedIsRecorded` |
| | `EvidenceIsOfTheParcel` | `Spec => []EvidenceOnParcel` |
| | `BasesExisted` | `Spec => []BaseVersionExisted` |
| `ConflictResolution_proofs` | `TypeCorrect` | `Spec => []TypeOK` |
| | `HistoryIsComplete` | `Spec => []TrailExplainsConflict` |
| | `ResolverIsRecorded` | `Spec => []ResolverOfRecord` |
| | `OneDraftPerConflict` | `Spec => []AppliedAtMostOnce` |
| | `AnswersAreKept` | `Spec => []AppliedIsDone` |
| | `DraftsContinue` | `Spec => []DraftContinuesItsSource` |
| | `ImplementsTheLedger` | `Spec => ImplementsLedger` |
| `LandParcel_proofs` | `TypeCorrect` | `Spec => []TypeOK` |
| | `CodesAreUnique` | `Spec => []CodeUnique` |
| | `EveryVersionIsAudited` | `Spec => []TrailCountsVersions` |
| | `RepliesAreTrue` | `Spec => []ReplyWasTheRow` |
| | `UpdatesAreNarrow` | `Spec => OnlyNamedColumns` |
| `SurveyObservation_proofs` | `TypeCorrect` | `Spec => []TypeOK` |
| | `HistoryIsComplete` | `Spec => []TrailExplainsObservation` |
| | `OneWinnerPerVersion` | `Spec => []WinnersDiffer` |
| | `ReplacementsHold` | `Spec => []ReplacementOnParcel` |
| | `SupersededStays` | `Spec => SupersededIsFinal` |
| `TopologyDetection_proofs` | `TypeCorrect` | `Spec => []TypeOK` |
| | `KeysNameOneRun` | `Spec => []OneRunPerKey` |
| | `AnswersAreStored` | `Spec => []AnswersComeFromTheRun` |
| | `DetectionIsAtomic` | `Spec => []NoOrphans` |
| | `InputsWereRead` | `Spec => []InputsAreReal` |
| | `DetectionIsIdempotent` | `Spec => ImplementsIdempotentCall` |
| | `GeometryInvariance` | `GeometrySpec => []GeometryInv` |
| | `GeometryTypesHold` | `GeometrySpec => []GeometryTypeOK` |
| | `NearestIsTaken` | `GeometrySpec => []SnapsToNearest` |
| | `SnappingIsFinal` | `GeometrySpec => []SnappingSettles` |
| | `FindingsAreExact` | `GeometrySpec => []FindingsExact` |
| `RateLimiter_proofs` | `TypeCorrect` | `Spec => []TypeOK` |
| | `OpenWindowsAreKept` | `Spec => OpenWindowKept` |
| | `SpansAreBounded` | `Spec => []AdmittedPerSpan` |
| | `RefusalsAreEarned` | `Spec => []RefusalEarned` |
| `Admission_proofs` | `TypeCorrect` | `Spec => []TypeOK` |
| | `AuthorityIsCurrent` | `Spec => []HandledWithAuthority` |
| `ServerStart_proofs` | `TypeCorrect` | `Spec => []TypeOK` |
| | `SettledStartsAreComplete` | `Spec => []SettledIsComplete` |
| | `StartsKeepAccounts` | `Spec => StartKeepsAccounts` |

In each module the property is not inductive, because it says nothing of the requests
between their read and their write.  The inductive invariant adds what such a request
knows that nobody can take away.

**Proposals.**  A request that was authorised and waits could, as far as
`IndependentReview` knows, hold an author who is not the row's author, and its commit
would break it.  `SnapshotSound` says of a waiting request that the row exists, has the
author that was read, the move is legal from the state that was read, its actor may make
it, and the row's version has not gone back.  `TrailExplainsRow` needs it too: that an
appended entry is a legal transition is known from the check, and that it starts where
the trail ends follows from the `WHERE` clause.

    ReviewInv == TypeOK /\ SnapshotSound /\ TrailExplainsRow /\ IndependentReview

The lemma `StepShape` reduces every step to one of three kinds as far as rows and trails
go: quiet, one draft inserted, one move committed.  For the refinement a quiet step is a
stutter, an inserted draft `Ledger!Open`, a committed move `Ledger!Move`.

`AcknowledgedSound` adds to an answered move that its row has passed the version it saw,
so whoever commits next saw another.  `CitesSound` says of a creation that is still
reading that the base was a version of its parcel and that the observations it has
compared so far are of that parcel; `parcel_id` is written once and versions only grow,
so both survive what is imported and updated meanwhile.

**Conflicts.**  `RowsSound` says what an apply and a review know after each of their reads,
and that a conflict some proposal was derived from is resolved or closed.  The second is
what makes `AppliedAtMostOnce` inductive: from resolved and closed no move leads back
(`SettledStays`), and the transaction writes only `WHERE state = 'resolution_proposed'`.
The lemmas `Forward` and `TablesKept` say once that no step takes anything back from the
tables, so each action's proof is left with the request it is about.  `TransitionAdvances`
carries the refinement: a conditional update that takes effect found the state its ledger
ends with.

**Parcels.**  `SeenSound`: the columns an update has read are those the trail has at the
version it read.  The trail only grows, so this survives any number of other updates.
With `TrailCountsVersions` it gives `OnlyNamedColumns`: an update that finds the version
it read also finds the columns it read, so the ones it rewrites unasked are unchanged.

**Observations.**  `MovesSound` is the same for what a transition read of its own row, and
says of its replacement that it exists and for which parcel.  Whether the replacement is
still active is not part of it, because it is not so: that is the finding above.

**Detection.**  `Sound` says what one request knows: in its transaction it holds ids of rows
that nobody has written and an input whose boundaries were real; past the index its key
names no run.  `Apart` says what two requests cannot both have: the same unwritten row, or
the same key past the index.  Together they make the commit harmless, which adds rows, a
run and entries in one step.

    Inv == TypeOK /\ OneRunPerKey /\ NoOrphans /\ InputsAreReal /\ RequestsSound

For the refinement a commit is `Abstract!Perform`, whose guard (nothing stored yet) is what
`Sound` knows past the index; an answer from a run is `Replay` or `Refuse`, any other answer
is `Fail`, an accepted request `Begin`, a client that leaves and a crash are `Forget`, and
every other statement is a stutter.

**Geometry.**  The state is small and the algorithms are not, so the invariant only says where
each value comes from, and the rest is lemmas about operators.

    GeometryInv == Given /\ Typed /\ Snaps /\ Finds

`Given`: the inputs are upright rectangles, and a tolerance.  `Snaps`: the candidate is the
proposed ring moved once per round, and from the second round on moved twice.  It is
inductive because moving is idempotent after two moves.  `Finds`: findings are what
`DetectTopology` returns for the rectangle that was drawn.

The loops need an induction over their passes.  `Counting` provides it for a set of numbers:
a least number outside the set would have a predecessor inside, and a least number exists
because `<` is well-founded (`LeastNumber`, from `WFMin` of the library).  `LoopExists` shows
in the same way that a function over the passes exists, which is what makes the recursive
definitions of `Nearest` and `DetectTopology` usable at all.  From there:

- `NearestFound`: the loop of `nearestSnapTarget` returns a nearest target within the
  tolerance, and nothing exactly if none is within it.
- `ProjectNearest`: the projection on a side, clamped to it, is nowhere farther than any
  grid point of the side.  With `VerticesAreCorners` and `ProjectionsOnBorder`, which undo
  the index arithmetic of the flattened references, a snapped point is where
  `SnapsToNearest` says.
- `SnapTwice`: a corner of the references stays; a point on their border either stays or
  goes to a corner.  So two moves reach a point that a third leaves (`SnappedThrice`), and
  `TwoMoves` adds the two distances.
- `DetectedKept`: after any number of neighbours, the kept findings of a kind are those that
  hold and whose evidence no earlier neighbour gave.  `OverlapIsCells`, `SameOverlap` and
  `NearIsDistance` translate its terms into counting: an intersection has an area exactly if
  the two share a cell, two intersections are equal exactly if they have the same cells, and
  the gap between two rectangles is the least distance between points of theirs.  The length
  and the shape of a shared boundary are in the code and in the property the same sets.

**Limiter.**  `StampsPassed`: a waiting request carries a time that has passed.  A sweep in
its name therefore deletes only windows that are over on the clock as well.

The two counts need the whole history of an address, window by window.

    HistoryInv == TypeOK /\ Timing /\ \A a : History(admitted[a], clock) /\ Stored(...)

`Counted`: a window has at most `Limit` times, none before its first by more than a delay.
`Spaced`: a window opens later than the one before it ended, less a delay, since only a
sweep in the name of a later request can have forgotten that one.  `Third`: a third window
opens only once the second has ended on the clock, swept or not, so nothing counted in it
carries a time more than a delay before that end; spacing alone would allow one delay
more for a late request that joins a window opened after its time.  `Stored` ties the
history to the map: its entry is the last window, or a sweep has deleted that
window after its end.  So a span as long as `AdmittedPerSpan` says meets two neighbouring
windows at most, and a lemma on cardinalities counts them.  For `RefusalEarned` a refusal
is tied to the full window that it met (`FullWindow`), which time only leaves behind.

**Admission.**  `CallsSound`: the roles held since arrival include the one held now; a call
past `VerifyToken` had a valid token on arrival; a role that was read is among those held.

**Server start.**  First the script, for any tables and accounts, since everything depends on
its order: `ScriptFacts` says that it creates every table and account, each after the
look-up of the same name, that a `DROP` is followed by what puts the thing back, and that
a column is filled after its trigger is created.  It is proved part by part and carried
through the concatenations by `Within`; from there on the script is opaque.

    StartInv == TypeOK /\ Starters /\ Done /\ Pending /\ Lagging

`Done`: what a migrating process has passed exists.  `Pending`: whatever is missing (the
role check, a trigger, the spatial column of a row) is a statement that some migrating
process has still to run, or will run when it is started again.  It holds although
processes drop what others have created, because the one that drops is itself the one
that owes; and a row written while there is no trigger is owed its column by whoever owes
the trigger, since filling comes later.  Once all serve, nobody owes anything.  `Lagging`:
a column differs from its row only if the row is in `exposed`.  `Starters`: a look-up that
found a table or an account is still right when the process acts on it, since neither is
ever removed; `StartKeepsAccounts` follows from it.  The lemma `KeepsPassed` says that a
step of one process settles no statement but its own.

Every invariant and every action property of a passing run is a theorem above, and so are
the three refinements.  Only model-checked are `EveryCallReturns` and `EveryServerServes`:
liveness under fairness needs `ENABLED`, which is out of the prover's reach.

## 5. What is not modelled

- Reading endpoints: they change nothing.
- Malformed requests answered 400 before a service runs, except the idempotency key,
  whose check is in the service.
- Floating point, polygons with more than four corners or holes, GeoJSON parsing and the
  coordinate-system check.  The grid shows the decisions of the algorithms, not their
  rounding; a snapped candidate that is no rectangle is validated and snapped on, but no
  longer compared with its neighbours.
- The audit snapshot's encoding and redaction, and which metadata an entry carries beside
  actor, before and after.
- Signatures of tokens and hashes of passwords: booleans.
- Statements of the migration that are repeated without effect (the extension, columns,
  spatial indexes, functions), and the SQLite path, which ends after seeding.
- The graceful shutdown: its timeout makes it a crash for requests that are still running.
- Configuration, request ids, recovery and error middleware: no state two requests share.
- The frontend.  Its stores replace a list by the last answer to arrive, keep no version
  and promise no order; the server decides on its own row whatever they show.
