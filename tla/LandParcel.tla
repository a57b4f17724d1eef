----------------------------- MODULE LandParcel -----------------------------
(***************************************************************************)
(* Parcels: CreateParcel and UpdateParcel of service/land_parcel_service.go *)
(* over repository/land_parcel_repository.go, requests interleaved.        *)
(*                                                                         *)
(* A PATCH names some columns.  The handler reads the row, merges the      *)
(* named columns into what it read, and writes every column of the result  *)
(* WHERE boundary_version = the version the client sent, or the version    *)
(* read when the client sent none.  A creation looks its code up inside    *)
(* its transaction and relies on the unique index for what it did not see. *)
(*                                                                         *)
(* Definitions named X_Y are not the code: they are plausible bugs of X    *)
(* that the properties are shown to catch.                                 *)
(***************************************************************************)
EXTENDS Naturals, Sequences, Workflow

CONSTANTS
    Parcels,           \* identifiers of rows of land_parcels
    Codes,             \* parcel_code after trimming
    Columns,           \* the columns a PATCH may name
    Values,            \* what a column may hold
    Creators,          \* slots for POST /parcels requests
    Updaters,          \* slots for PATCH /parcels/:id requests
    ClaimedVersions,   \* what clients put in "boundary_version"
    MaxVersion         \* bound: no update starts from a row at this version

ASSUME Bounds == ClaimedVersions \subseteq Nat \ {0} /\ MaxVersion \in Nat \ {0}

VARIABLES
    parcels,           \* table land_parcels
    trail,             \* audit_logs rows about each parcel, in commit order
    create,            \* CreateParcel requests
    update             \* UpdateParcel requests

vars == <<parcels, trail, create, update>>

-----------------------------------------------------------------------------
(* Rows, audit entries, requests. *)

Contents == [Columns -> Values]

Patches == UNION {[named -> Values] : named \in SUBSET Columns}

NoRow == [version |-> 0]

Row == [version : Nat \ {0}, code : Codes, data : Contents]

Exists(x) == parcels[x] # NoRow

Taken(code) == \E x \in Parcels : Exists(x) /\ parcels[x].code = code

\* An audited image is the snapshot of a row; a creation has none before it.
Nothing == [version |-> 0]

Image == [version : Nat \ {0}, data : Contents]

ImageOf(row) == [version |-> row.version, data |-> row.data]

Entry == [before : Image \cup {Nothing}, after : Image]

Idle == [phase |-> "idle"]

Failed(status) == [phase |-> "failed", status |-> status]

Refusals == [phase : {"failed"}, status : {403, 404, 409, 422, 500}]

CreateRequest == {Idle} \cup Refusals \cup [phase : {"free"}, code : Codes, data : Contents]
                    \cup [phase : {"created"}, parcel : Parcels]

\* at is the version in the WHERE clause.
UpdateRequest ==
    {Idle} \cup Refusals
        \cup [phase : {"merged"}, parcel : Parcels, patch : Patches, seen : Image,
              at : Nat \ {0}]
        \cup [phase : {"updated"}, parcel : Parcels, reply : Image]

-----------------------------------------------------------------------------
Init ==
    /\ parcels = [x \in Parcels |-> NoRow]
    /\ trail = [x \in Parcels |-> <<>>]
    /\ create = [c \in Creators |-> Idle]
    /\ update = [u \in Updaters |-> Idle]

-----------------------------------------------------------------------------
(* CreateParcel. *)

Creating(c, q) ==
    /\ create' = [create EXCEPT ![c] = q]
    /\ UNCHANGED update

\* RBAC, the coordinate system and the polygon, then the code.
CheckCreate(c, role, code, data, valid) ==
    /\ create[c] = Idle
    /\ Creating(c, IF role \notin FieldRoles THEN Failed(403)
                   ELSE IF ~valid THEN Failed(422)
                   ELSE IF Taken(code) THEN Failed(409)
                   ELSE [phase |-> "free", code |-> code, data |-> data])
    /\ UNCHANGED <<parcels, trail>>

\* The unique index on parcel_code.
IndexAdmits_NoIndex(code) == TRUE

IndexAdmits(code) == ~Taken(code)

FirstEntry_NotAudited(row) == <<>>

FirstEntry(row) == <<[before |-> Nothing, after |-> ImageOf(row)]>>

CommitCreate(c, x) ==
    /\ create[c].phase = "free"
    /\ IndexAdmits(create[c].code)
    /\ ~Exists(x)
    /\ LET row == [version |-> 1, code |-> create[c].code, data |-> create[c].data]
       IN  /\ parcels' = [parcels EXCEPT ![x] = row]
           /\ trail' = [trail EXCEPT ![x] = FirstEntry(row)]
    /\ Creating(c, [phase |-> "created", parcel |-> x])

\* The index refuses, or the transaction fails otherwise: 500 either way.
FailCreate(c) ==
    /\ create[c].phase = "free"
    /\ Creating(c, Failed(500))
    /\ UNCHANGED <<parcels, trail>>

FinishCreate(c) ==
    /\ create[c].phase \in {"failed", "created"}
    /\ Creating(c, Idle)
    /\ UNCHANGED <<parcels, trail>>

-----------------------------------------------------------------------------
(* UpdateParcel. *)

Updating(u, q) ==
    /\ update' = [update EXCEPT ![u] = q]
    /\ UNCHANGED create

\* claimed is the client's version, or 0 when the request has none.
CheckUpdate(u, role, x, patch, claimed, valid) ==
    /\ update[u] = Idle
    /\ parcels[x].version < MaxVersion
    /\ Updating(u, IF role \notin FieldRoles THEN Failed(403)
                   ELSE IF ~Exists(x) THEN Failed(404)
                   ELSE IF ~valid /\ DOMAIN patch # {} THEN Failed(422)
                   ELSE [phase |-> "merged", parcel |-> x, patch |-> patch,
                         seen |-> ImageOf(parcels[x]),
                         at |-> IF claimed = 0 THEN parcels[x].version ELSE claimed])
    /\ UNCHANGED <<parcels, trail>>

\* after: the columns read, with the named ones replaced.
Merged(q) == [col \in Columns |-> IF col \in DOMAIN q.patch THEN q.patch[col] ELSE q.seen.data[col]]

VersionMatches_Unconditional(q) == TRUE

VersionMatches(q) == parcels[q.parcel].version = q.at

Written(q) ==
    [parcels EXCEPT ![q.parcel].version = @ + 1, ![q.parcel].data = Merged(q)]

\* Both images carry the version that was read: after is a copy of before whose version
\* is changed only once the transaction is over.
UpdateEntry(q) == [before |-> q.seen, after |-> [version |-> q.seen.version, data |-> Merged(q)]]

\* The response names the version after the one in the WHERE clause.
Reply_FromSnapshot(q) == [version |-> q.at + 1, data |-> q.seen.data]

Reply(q) == [version |-> q.at + 1, data |-> Merged(q)]

CommitUpdate(u) ==
    LET q == update[u]
    IN  /\ q.phase = "merged"
        /\ VersionMatches(q)
        /\ parcels' = Written(q)
        /\ trail' = [trail EXCEPT ![q.parcel] = Append(@, UpdateEntry(q))]
        /\ Updating(u, [phase |-> "updated", parcel |-> q.parcel, reply |-> Reply(q)])

\* No row has the version, or the transaction fails otherwise: neither error is an AppError,
\* so both become a 500.
FailUpdate(u) ==
    /\ update[u].phase = "merged"
    /\ Updating(u, Failed(500))
    /\ UNCHANGED <<parcels, trail>>

FinishUpdate(u) ==
    /\ update[u].phase \in {"failed", "updated"}
    /\ Updating(u, Idle)
    /\ UNCHANGED <<parcels, trail>>

\* The server stops: requests in flight are lost, committed rows are not.
Crash ==
    /\ create' = [c \in Creators |-> Idle]
    /\ update' = [u \in Updaters |-> Idle]
    /\ UNCHANGED <<parcels, trail>>

CreateStep(c) ==
    \/ \E role \in Roles, code \in Codes, data \in Contents, valid \in BOOLEAN :
         CheckCreate(c, role, code, data, valid)
    \/ \E x \in Parcels : CommitCreate(c, x)
    \/ FailCreate(c)
    \/ FinishCreate(c)

UpdateStep(u) ==
    \/ \E role \in Roles, x \in Parcels, patch \in Patches, claimed \in ClaimedVersions \cup {0},
          valid \in BOOLEAN : CheckUpdate(u, role, x, patch, claimed, valid)
    \/ CommitUpdate(u)
    \/ FailUpdate(u)
    \/ FinishUpdate(u)

Next ==
    \/ \E c \in Creators : CreateStep(c)
    \/ \E u \in Updaters : UpdateStep(u)
    \/ Crash

Spec == Init /\ [][Next]_vars

-----------------------------------------------------------------------------
(* Properties. *)

\* Tables, trails and requests hold values of their types.
TypeOK ==
    /\ parcels \in [Parcels -> Row \cup {NoRow}]
    /\ trail \in [Parcels -> Seq(Entry)]
    /\ create \in [Creators -> CreateRequest]
    /\ update \in [Updaters -> UpdateRequest]

\* Two creations that both saw a code free never both get it.
CodeUnique ==
    \A x, y \in Parcels : Exists(x) /\ Exists(y) /\ parcels[x].code = parcels[y].code => x = y

\* Each version of a parcel was written by one audited write: the trail has as many
\* entries as the row has versions, and the last one wrote what the row holds.
TrailCountsVersions ==
    \A x \in Parcels :
        /\ Len(trail[x]) = parcels[x].version
        /\ Exists(x) => trail[x][Len(trail[x])].after.data = parcels[x].data

\* The body of a 200 was the stored row at the version the body names: no other request
\* wrote that version, and none slipped in between.
ReplyWasTheRow ==
    \A u \in Updaters : update[u].phase = "updated" =>
        LET q == update[u]
        IN  /\ q.reply.version <= parcels[q.parcel].version
            /\ trail[q.parcel][q.reply.version].after.data = q.reply.data
            /\ \A other \in Updaters \ {u} :
                 update[other].phase = "updated" /\ update[other].parcel = q.parcel =>
                    update[other].reply.version # q.reply.version

\* An update conditioned on the version it read (the client sent that one or none) touches
\* only the columns it names, although it writes them all.
OnlyNamedColumns ==
    [][\A u \in Updaters :
         LET q == update[u]
         IN  /\ q.phase = "merged" /\ update'[u].phase = "updated"
             /\ q.at = q.seen.version
             => \A col \in Columns \ DOMAIN q.patch :
                  parcels'[q.parcel].data[col] = parcels[q.parcel].data[col]]_vars
=============================================================================
