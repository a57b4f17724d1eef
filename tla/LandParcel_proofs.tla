-------------------------- MODULE LandParcel_proofs --------------------------
(***************************************************************************)
(* Theorems about LandParcel, for any parcels, codes, columns and values   *)
(* and any number of concurrent requests.                                  *)
(***************************************************************************)
EXTENDS LandParcel, TLAPS

(* What a phase says of the request that is in it. *)

FreeCreate == [phase : {"free"}, code : Codes, data : Contents]

MergedUpdate ==
    [phase : {"merged"}, parcel : Parcels, patch : Patches, seen : Image, at : Nat \ {0}]

UpdatedReply == [phase : {"updated"}, parcel : Parcels, reply : Image]

LEMMA FreeShape ==
    ASSUME NEW q \in CreateRequest, q.phase = "free"
    PROVE  q \in FreeCreate
  BY DEF CreateRequest, Idle, Refusals, FreeCreate

LEMMA MergedShape ==
    ASSUME NEW q \in UpdateRequest, q.phase = "merged"
    PROVE  q \in MergedUpdate
  BY DEF UpdateRequest, Idle, Refusals, MergedUpdate

LEMMA UpdatedShape ==
    ASSUME NEW q \in UpdateRequest, q.phase = "updated"
    PROVE  q \in UpdatedReply
  BY DEF UpdateRequest, Idle, Refusals, UpdatedReply

LEMMA ExistingRow ==
    ASSUME TypeOK, NEW x \in Parcels
    PROVE  /\ Exists(x) <=> parcels[x] \in Row
           /\ Exists(x) <=> parcels[x].version # 0
           /\ parcels[x].version \in Nat
  <1>1. parcels[x] \in Row \cup {NoRow}
    BY DEF TypeOK
  <1>2. \A row \in Row : row.version \in Nat \ {0}
    BY DEF Row
  <1>3. NoRow.version = 0
    BY DEF NoRow
  <1>4. QED
    BY <1>1, <1>2, <1>3 DEF Exists

LEMMA ImageOfRow ==
    ASSUME NEW row \in Row
    PROVE  ImageOf(row) \in Image
  BY DEF Row, ImageOf, Image

(* Merging takes a column from the patch or from what was read. *)
LEMMA MergedContents ==
    ASSUME NEW q \in MergedUpdate
    PROVE  /\ Merged(q) \in Contents
           /\ \A col \in Columns \ DOMAIN q.patch : Merged(q)[col] = q.seen.data[col]
  <1>1. q.patch \in Patches /\ q.seen \in Image
    BY DEF MergedUpdate
  <1>2. PICK named \in SUBSET Columns : q.patch \in [named -> Values]
    BY <1>1 DEF Patches
  <1>3. q.seen.data \in Contents
    BY <1>1 DEF Image
  <1>4. ASSUME NEW col \in Columns
        PROVE  (IF col \in DOMAIN q.patch THEN q.patch[col] ELSE q.seen.data[col]) \in Values
    BY <1>2, <1>3 DEF Contents
  <1>5. QED
    BY <1>4 DEF Merged, Contents

-----------------------------------------------------------------------------
(* The inductive invariant.  What a handler read is what the trail has at the      *)
(* version it read: the trail only grows, so this survives any number of updates   *)
(* by others, and with TrailCountsVersions it says that an update which finds the  *)
(* version it read also finds the columns it read.                                 *)
SeenSound ==
    \A u \in Updaters : update[u].phase = "merged" =>
        LET q == update[u]
        IN  /\ q.seen.version \in 1 .. Len(trail[q.parcel])
            /\ trail[q.parcel][q.seen.version].after.data = q.seen.data

Inv == TypeOK /\ CodeUnique /\ TrailCountsVersions /\ SeenSound /\ ReplyWasTheRow

LEMMA InitInv == Init => Inv
  <1> SUFFICES ASSUME Init
               PROVE  Inv
    OBVIOUS
  <1>1. \A x \in Parcels : parcels[x] = NoRow /\ trail[x] = <<>>
    BY DEF Init
  <1>2. \A u \in Updaters : update[u].phase = "idle"
    BY DEF Init, Idle
  <1>3. TypeOK
    BY DEF Init, TypeOK, CreateRequest, UpdateRequest
  <1>4. \A x \in Parcels : ~Exists(x) /\ parcels[x].version = 0
    BY <1>1 DEF Exists, NoRow
  <1>5. CodeUnique /\ TrailCountsVersions
    BY <1>1, <1>4 DEF CodeUnique, TrailCountsVersions
  <1>6. SeenSound /\ ReplyWasTheRow
    BY <1>2 DEF SeenSound, ReplyWasTheRow
  <1>7. QED
    BY <1>3, <1>5, <1>6 DEF Inv

(* Steps that write nothing. *)

LEMMA QuietCreating ==
    ASSUME Inv, NEW c \in Creators, NEW q \in CreateRequest, Creating(c, q),
           UNCHANGED <<parcels, trail>>
    PROVE  Inv'
  <1>1. create' \in [Creators -> CreateRequest] /\ update' = update
    BY DEF Inv, TypeOK, Creating
  <1>2. TypeOK'
    BY <1>1 DEF Inv, TypeOK
  <1>3. CodeUnique' /\ TrailCountsVersions'
    BY DEF Inv, CodeUnique, TrailCountsVersions, Exists
  <1>4. SeenSound' /\ ReplyWasTheRow'
    BY <1>1 DEF Inv, SeenSound, ReplyWasTheRow
  <1>5. QED
    BY <1>2, <1>3, <1>4 DEF Inv

LEMMA QuietUpdating ==
    ASSUME Inv, NEW u \in Updaters, NEW q \in UpdateRequest, Updating(u, q),
           UNCHANGED <<parcels, trail>>, q.phase # "updated",
           q.phase = "merged" =>
              /\ q.seen.version \in 1 .. Len(trail[q.parcel])
              /\ trail[q.parcel][q.seen.version].after.data = q.seen.data
    PROVE  Inv'
  <1>1. update' \in [Updaters -> UpdateRequest] /\ create' = create
    BY DEF Inv, TypeOK, Updating
  <1>2. TypeOK'
    BY <1>1 DEF Inv, TypeOK
  <1>3. CodeUnique' /\ TrailCountsVersions'
    BY DEF Inv, CodeUnique, TrailCountsVersions, Exists
  <1>4. \A o \in Updaters : update'[o] = IF o = u THEN q ELSE update[o]
    BY DEF Inv, TypeOK, Updating
  <1>5. SeenSound'
    BY <1>4 DEF Inv, SeenSound
  <1>6. ReplyWasTheRow'
    BY <1>4 DEF Inv, ReplyWasTheRow
  <1>7. QED
    BY <1>2, <1>3, <1>5, <1>6 DEF Inv

LEMMA FailedRequests ==
    ASSUME NEW status \in {403, 404, 409, 422, 500}
    PROVE  /\ Failed(status) \in CreateRequest
           /\ Failed(status) \in UpdateRequest
           /\ Failed(status).phase = "failed"
  BY DEF Failed, CreateRequest, UpdateRequest, Refusals

LEMMA CheckCreateInv ==
    ASSUME Inv, NEW c \in Creators, NEW role, NEW code \in Codes, NEW data \in Contents,
           NEW valid \in BOOLEAN, CheckCreate(c, role, code, data, valid)
    PROVE  Inv'
  <1>1. [phase |-> "free", code |-> code, data |-> data] \in CreateRequest
    BY DEF CreateRequest
  <1>2. PICK q \in CreateRequest : Creating(c, q)
    BY <1>1, FailedRequests DEF CheckCreate
  <1>3. QED
    BY <1>2, QuietCreating DEF CheckCreate

LEMMA CheckUpdateInv ==
    ASSUME Inv, NEW u \in Updaters, NEW role, NEW x \in Parcels, NEW patch \in Patches,
           NEW claimed \in ClaimedVersions \cup {0}, NEW valid \in BOOLEAN,
           CheckUpdate(u, role, x, patch, claimed, valid)
    PROVE  Inv'
  <1> DEFINE q == [phase |-> "merged", parcel |-> x, patch |-> patch,
                   seen |-> ImageOf(parcels[x]),
                   at |-> IF claimed = 0 THEN parcels[x].version ELSE claimed]
  <1>1. CASE \E status \in {403, 404, 409, 422, 500} : Updating(u, Failed(status))
    BY <1>1, FailedRequests, QuietUpdating DEF CheckUpdate
  <1>2. CASE Exists(x) /\ Updating(u, q)
    <2>1. TypeOK /\ TrailCountsVersions
      BY DEF Inv
    <2>2. parcels[x] \in Row
      BY <1>2, <2>1, ExistingRow
    <2>3. parcels[x].version \in Nat \ {0}
      BY <2>2 DEF Row
    <2>4. q \in UpdateRequest
      BY <2>2, <2>3, ImageOfRow, Bounds DEF UpdateRequest
    <2>5. Len(trail[x]) = parcels[x].version
             /\ trail[x][Len(trail[x])].after.data = parcels[x].data
      BY <1>2, <2>1 DEF TrailCountsVersions
    <2>6. q.seen.version = parcels[x].version /\ q.seen.data = parcels[x].data
      BY DEF ImageOf
    <2>7. q.seen.version \in 1 .. Len(trail[q.parcel])
             /\ trail[q.parcel][q.seen.version].after.data = q.seen.data
      BY <2>3, <2>5, <2>6
    <2>8. QED
      BY <1>2, <2>4, <2>7, QuietUpdating DEF CheckUpdate
  <1>3. QED
    BY <1>1, <1>2 DEF CheckUpdate

LEMMA CrashInv ==
    ASSUME Inv, Crash
    PROVE  Inv'
  <1>1. TypeOK'
    BY DEF Inv, TypeOK, Crash, CreateRequest, UpdateRequest
  <1>2. CodeUnique' /\ TrailCountsVersions'
    BY DEF Inv, CodeUnique, TrailCountsVersions, Exists, Crash
  <1>3. SeenSound' /\ ReplyWasTheRow'
    BY DEF SeenSound, ReplyWasTheRow, Crash, Idle
  <1>4. QED
    BY <1>1, <1>2, <1>3 DEF Inv

-----------------------------------------------------------------------------
(* The two steps that write. *)

LEMMA CommitCreateInv ==
    ASSUME Inv, NEW c \in Creators, NEW x \in Parcels, CommitCreate(c, x)
    PROVE  Inv'
  <1> DEFINE row == [version |-> 1, code |-> create[c].code, data |-> create[c].data]
  <1>1. create[c] \in FreeCreate
    BY FreeShape DEF Inv, TypeOK, CommitCreate
  <1>2. row \in Row
    BY <1>1 DEF FreeCreate, Row
  <1>3. FirstEntry(row) \in Seq(Entry)
    <2>1. [before |-> Nothing, after |-> ImageOf(row)] \in Entry
      BY <1>2, ImageOfRow DEF Entry
    <2>2. QED
      BY <2>1 DEF FirstEntry
  <1>4. \A y \in Parcels : /\ parcels'[y] = IF y = x THEN row ELSE parcels[y]
                           /\ trail'[y] = IF y = x THEN FirstEntry(row) ELSE trail[y]
    BY DEF CommitCreate, Inv, TypeOK
  <1>5. update' = update
    BY DEF CommitCreate, Creating
  <1>6. TypeOK'
    <2>1. create' \in [Creators -> CreateRequest]
      BY DEF CommitCreate, Creating, Inv, TypeOK, CreateRequest
    <2>2. parcels' \in [Parcels -> Row \cup {NoRow}]
      BY <1>2 DEF CommitCreate, Inv, TypeOK
    <2>3. trail' \in [Parcels -> Seq(Entry)]
      BY <1>3 DEF CommitCreate, Inv, TypeOK
    <2>4. QED
      BY <1>5, <2>1, <2>2, <2>3 DEF Inv, TypeOK
  <1>7. CodeUnique'
    <2>1. \A y \in Parcels : y # x /\ Exists(y) => parcels[y].code # row.code
      BY DEF CommitCreate, IndexAdmits, Taken
    <2>2. \A y \in Parcels \ {x} : Exists(y)' <=> Exists(y)
      BY <1>4 DEF Exists
    <2>3. \A y, z \in Parcels : Exists(y) /\ Exists(z) /\ parcels[y].code = parcels[z].code
                                   => y = z
      BY DEF Inv, CodeUnique
    <2>4. QED
      BY <1>4, <2>1, <2>2, <2>3 DEF CodeUnique
  <1>8. TrailCountsVersions'
    <2>1. ASSUME NEW y \in Parcels
          PROVE  /\ Len(trail'[y]) = parcels'[y].version
                 /\ Exists(y)' => trail'[y][Len(trail'[y])].after.data = parcels'[y].data
      <3>1. CASE y = x
        BY <1>4, <3>1 DEF FirstEntry, ImageOf
      <3>2. CASE y # x
        BY <1>4, <3>2 DEF Inv, TrailCountsVersions, Exists
      <3>3. QED
        BY <3>1, <3>2
    <2>2. QED
      BY <2>1 DEF TrailCountsVersions
  <1>9. trail[x] = <<>> /\ parcels[x].version = 0
    <2>1. parcels[x].version = 0
      BY ExistingRow DEF Inv, CommitCreate
    <2>2. Len(trail[x]) = 0 /\ trail[x] \in Seq(Entry)
      BY <2>1 DEF Inv, TypeOK, TrailCountsVersions
    <2>3. QED
      BY <2>1, <2>2
  <1>10. SeenSound'
    <2>1. ASSUME NEW u \in Updaters, update[u].phase = "merged"
          PROVE  update[u].parcel # x
      BY <1>9, <2>1 DEF Inv, SeenSound
    <2>2. ASSUME NEW u \in Updaters, update[u].phase = "merged"
          PROVE  update[u].parcel \in Parcels
      BY <2>2, MergedShape DEF Inv, TypeOK, MergedUpdate
    <2>3. QED
      BY <1>4, <1>5, <2>1, <2>2 DEF Inv, SeenSound
  <1>11. ReplyWasTheRow'
    <2>1. ASSUME NEW u \in Updaters, update[u].phase = "updated"
          PROVE  update[u].parcel \in Parcels /\ update[u].reply.version \in Nat \ {0}
      BY <2>1, UpdatedShape DEF Inv, TypeOK, UpdatedReply, Image
    <2>2. ASSUME NEW u \in Updaters, update[u].phase = "updated"
          PROVE  update[u].parcel # x
      BY <1>9, <2>1, <2>2 DEF Inv, ReplyWasTheRow
    <2>3. QED
      BY <1>4, <1>5, <2>1, <2>2 DEF Inv, ReplyWasTheRow
  <1>12. QED
    BY <1>6, <1>7, <1>8, <1>10, <1>11 DEF Inv

(* A trail that has grown holds what it held. *)
LEMMA Grown ==
    ASSUME NEW S, NEW s \in Seq(S), NEW e \in S
    PROVE  /\ Append(s, e) \in Seq(S)
           /\ Len(Append(s, e)) = Len(s) + 1
           /\ Append(s, e)[Len(s) + 1] = e
           /\ \A i \in 1 .. Len(s) : Append(s, e)[i] = s[i]
  OBVIOUS

(* The row an update leaves. *)
Rewritten(row, data) == [row EXCEPT !.version = @ + 1, !.data = data]

LEMMA RewrittenRow ==
    ASSUME NEW row \in Row, NEW data \in Contents
    PROVE  /\ Rewritten(row, data) \in Row
           /\ Rewritten(row, data).version = row.version + 1
           /\ Rewritten(row, data).code = row.code
           /\ Rewritten(row, data).data = data
  <1>1. row.version + 1 \in Nat \ {0}
    BY DEF Row
  <1>2. Rewritten(row, data) \in Row
    BY <1>1 DEF Row, Rewritten
  <1>3. Rewritten(row, data).version = row.version + 1
    BY DEF Row, Rewritten
  <1>4. Rewritten(row, data).code = row.code
    BY DEF Row, Rewritten
  <1>5. Rewritten(row, data).data = data
    BY DEF Row, Rewritten
  <1>6. QED
    BY <1>2, <1>3, <1>4, <1>5

LEMMA CommitUpdateInv ==
    ASSUME Inv, NEW u \in Updaters, CommitUpdate(u)
    PROVE  Inv'
  <1> DEFINE q == update[u]
             x == q.parcel
             row == Rewritten(parcels[x], Merged(q))
             entry == UpdateEntry(q)
             reply == [phase |-> "updated", parcel |-> x, reply |-> Reply(q)]
  <1>1. q \in MergedUpdate
    BY MergedShape DEF Inv, TypeOK, CommitUpdate
  <1>2. /\ x \in Parcels /\ q.seen \in Image /\ q.at \in Nat \ {0}
        /\ Merged(q) \in Contents
    BY <1>1, MergedContents DEF MergedUpdate
  <1>3. parcels[x].version = q.at /\ parcels[x] \in Row
    BY <1>2, ExistingRow DEF Inv, CommitUpdate, VersionMatches
  <1>4. row \in Row /\ row.version = q.at + 1 /\ row.code = parcels[x].code
          /\ row.data = Merged(q)
    BY <1>2, <1>3, RewrittenRow
  <1>5. entry \in Entry /\ entry.after.data = Merged(q)
    BY <1>2 DEF UpdateEntry, Entry, Image
  <1>6. parcels' = [parcels EXCEPT ![x] = row]
    BY <1>2, <1>3 DEF CommitUpdate, Written, Rewritten, Inv, TypeOK
  <1>7. \A y \in Parcels : parcels'[y] = IF y = x THEN row ELSE parcels[y]
    BY <1>6 DEF Inv, TypeOK
  <1>8. \A y \in Parcels : trail'[y] = IF y = x THEN Append(trail[x], entry) ELSE trail[y]
    BY DEF CommitUpdate, Inv, TypeOK
  <1>9. \A o \in Updaters : update'[o] = IF o = u THEN reply ELSE update[o]
    BY DEF CommitUpdate, Updating, Inv, TypeOK
  <1>10. /\ trail[x] \in Seq(Entry) /\ Len(trail[x]) = q.at
         /\ Append(trail[x], entry) \in Seq(Entry)
         /\ Len(Append(trail[x], entry)) = q.at + 1
         /\ Append(trail[x], entry)[q.at + 1] = entry
         /\ \A i \in 1 .. q.at : Append(trail[x], entry)[i] = trail[x][i]
    <2>1. trail[x] \in Seq(Entry) /\ Len(trail[x]) = q.at
      BY <1>2, <1>3 DEF Inv, TypeOK, TrailCountsVersions
    <2>2. QED
      BY <1>5, <2>1, Grown
  <1>11. reply \in UpdateRequest
    BY <1>2 DEF Reply, Image, UpdateRequest
  <1>12. TypeOK'
    <2>1. parcels' \in [Parcels -> Row \cup {NoRow}]
      BY <1>4, <1>6 DEF Inv, TypeOK
    <2>2. trail' \in [Parcels -> Seq(Entry)]
      BY <1>2, <1>10 DEF CommitUpdate, Inv, TypeOK
    <2>3. update' \in [Updaters -> UpdateRequest] /\ create' = create
      BY <1>11 DEF CommitUpdate, Updating, Inv, TypeOK
    <2>4. QED
      BY <2>1, <2>2, <2>3 DEF Inv, TypeOK
  <1>13. CodeUnique'
    <2>1. \A y \in Parcels : Exists(y)' <=> Exists(y)
      <3>1. \A y \in Parcels \ {x} : Exists(y)' <=> Exists(y)
        BY <1>7 DEF Exists
      <3>2. ASSUME NEW y \in Parcels, y = x
            PROVE  Exists(y)' /\ Exists(y)
        <4>1. parcels'[y] = row
          BY <1>7, <3>2
        <4>2. parcels'[y].version # 0 /\ parcels[y].version # 0
          BY <1>2, <1>3, <1>4, <3>2, <4>1
        <4>3. QED
          BY <4>2 DEF Exists, NoRow
      <3>3. QED
        BY <3>1, <3>2
    <2>2. \A y \in Parcels : parcels'[y].code = parcels[y].code
      BY <1>4, <1>7
    <2>3. QED
      BY <2>1, <2>2 DEF Inv, CodeUnique
  <1>14. TrailCountsVersions'
    <2>1. ASSUME NEW y \in Parcels
          PROVE  /\ Len(trail'[y]) = parcels'[y].version
                 /\ Exists(y)' => trail'[y][Len(trail'[y])].after.data = parcels'[y].data
      <3>1. CASE y = x
        <4>1. trail'[y] = Append(trail[x], entry) /\ parcels'[y] = row
          BY <1>7, <1>8, <3>1
        <4>2. Len(trail'[y]) = q.at + 1 /\ trail'[y][q.at + 1] = entry
          BY <1>10, <4>1
        <4>3. parcels'[y].version = q.at + 1 /\ parcels'[y].data = Merged(q)
          BY <1>4, <4>1
        <4>4. QED
          BY <1>5, <4>2, <4>3
      <3>2. CASE y # x
        BY <1>7, <1>8, <3>2 DEF Inv, TrailCountsVersions, Exists
      <3>3. QED
        BY <3>1, <3>2
    <2>2. QED
      BY <2>1 DEF TrailCountsVersions
  <1>15. SeenSound'
    <2>1. ASSUME NEW o \in Updaters, update'[o].phase = "merged"
          PROVE  /\ update'[o].seen.version \in 1 .. Len(trail'[update'[o].parcel])
                 /\ trail'[update'[o].parcel][update'[o].seen.version].after.data
                      = update'[o].seen.data
      <3>1. update'[o] = update[o] /\ update[o].phase = "merged"
        BY <1>9, <2>1
      <3>2. update[o] \in MergedUpdate
        BY <3>1, MergedShape DEF Inv, TypeOK
      <3>3. /\ update[o].seen.version \in 1 .. Len(trail[update[o].parcel])
            /\ trail[update[o].parcel][update[o].seen.version].after.data
                 = update[o].seen.data
        BY <3>1 DEF Inv, SeenSound
      <3>4. update[o].parcel \in Parcels /\ update[o].seen.version \in Nat
        BY <3>2 DEF MergedUpdate, Image
      <3>5. CASE update[o].parcel = x
        <4>1. update[o].seen.version \in 1 .. q.at
          BY <1>10, <3>3, <3>5
        <4>2. trail'[x][update[o].seen.version] = trail[x][update[o].seen.version]
                /\ Len(trail'[x]) = q.at + 1
          BY <1>2, <1>8, <1>10, <4>1
        <4>3. update[o].seen.version \in 1 .. q.at + 1
          BY <1>2, <4>1
        <4>4. QED
          BY <3>1, <3>3, <3>5, <4>2, <4>3
      <3>6. CASE update[o].parcel # x
        BY <1>8, <3>1, <3>3, <3>4, <3>6
      <3>7. QED
        BY <3>5, <3>6
    <2>2. QED
      BY <2>1 DEF SeenSound
  <1>16. ReplyWasTheRow'
    <2>1. ASSUME NEW o \in Updaters, o # u, update'[o].phase = "updated"
          PROVE  /\ update'[o] = update[o] /\ update[o].phase = "updated"
                 /\ update[o].parcel \in Parcels
                 /\ update[o].reply.version \in Nat \ {0}
                 /\ update[o].parcel = x => update[o].reply.version \in 1 .. q.at
                 /\ update[o].reply.version <= parcels'[update[o].parcel].version
                 /\ trail'[update[o].parcel][update[o].reply.version].after.data
                      = update[o].reply.data
      <3>1. update'[o] = update[o] /\ update[o].phase = "updated"
        BY <1>9, <2>1
      <3>2. update[o].parcel \in Parcels /\ update[o].reply.version \in Nat \ {0}
        BY <3>1, UpdatedShape DEF Inv, TypeOK, UpdatedReply, Image
      <3>3. /\ update[o].reply.version <= parcels[update[o].parcel].version
            /\ trail[update[o].parcel][update[o].reply.version].after.data
                 = update[o].reply.data
        BY <3>1 DEF Inv, ReplyWasTheRow
      <3>4. CASE update[o].parcel = x
        <4>1. update[o].reply.version \in 1 .. q.at
          BY <1>2, <1>3, <3>2, <3>3, <3>4
        <4>2. trail'[x][update[o].reply.version] = trail[x][update[o].reply.version]
          BY <1>2, <1>8, <1>10, <4>1
        <4>3. parcels'[x].version = q.at + 1
          BY <1>2, <1>4, <1>7
        <4>4. update[o].reply.version <= q.at + 1
          BY <1>2, <4>1
        <4>5. QED
          BY <3>1, <3>2, <3>3, <3>4, <4>1, <4>2, <4>3, <4>4
      <3>5. CASE update[o].parcel # x
        BY <1>7, <1>8, <3>1, <3>2, <3>3, <3>5
      <3>6. QED
        BY <3>4, <3>5
    <2>2. update'[u] = reply /\ reply.parcel = x /\ reply.reply.version = q.at + 1
            /\ reply.reply.data = Merged(q) /\ reply.phase = "updated"
      BY <1>9 DEF Reply
    <2>3. /\ parcels'[x].version = q.at + 1
          /\ trail'[x][q.at + 1].after.data = Merged(q)
      <3>1. parcels'[x] = row /\ trail'[x] = Append(trail[x], entry)
        BY <1>2, <1>7, <1>8
      <3>2. QED
        BY <1>4, <1>5, <1>10, <3>1
    <2>4. ASSUME NEW o \in Updaters, update'[o].phase = "updated"
          PROVE  /\ update'[o].reply.version <= parcels'[update'[o].parcel].version
                 /\ trail'[update'[o].parcel][update'[o].reply.version].after.data
                      = update'[o].reply.data
      <3>1. CASE o = u
        BY <1>2, <2>2, <2>3, <3>1
      <3>2. CASE o # u
        BY <2>1, <2>4, <3>2
      <3>3. QED
        BY <3>1, <3>2
    <2>5. ASSUME NEW o \in Updaters, NEW other \in Updaters \ {o},
                 update'[o].phase = "updated", update'[other].phase = "updated",
                 update'[other].parcel = update'[o].parcel
          PROVE  update'[other].reply.version # update'[o].reply.version
      <3>1. CASE o = u
        BY <1>2, <2>1, <2>2, <2>5, <3>1
      <3>2. CASE other = u
        BY <1>2, <2>1, <2>2, <2>5, <3>2
      <3>3. CASE o # u /\ other # u
        <4>1. /\ update'[o] = update[o] /\ update[o].phase = "updated"
              /\ update'[other] = update[other] /\ update[other].phase = "updated"
          BY <2>1, <2>5, <3>3
        <4>2. update[other].parcel = update[o].parcel
          BY <2>5, <4>1
        <4>3. update[other].reply.version # update[o].reply.version
          BY <4>1, <4>2 DEF Inv, ReplyWasTheRow
        <4>4. QED
          BY <4>1, <4>3
      <3>4. QED
        BY <3>1, <3>2, <3>3
    <2>6. QED
      BY <2>4, <2>5 DEF ReplyWasTheRow
  <1>17. QED
    BY <1>12, <1>13, <1>14, <1>15, <1>16 DEF Inv

LEMMA NextInv == Inv /\ [Next]_vars => Inv'
  <1> SUFFICES ASSUME Inv, [Next]_vars
               PROVE  Inv'
    OBVIOUS
  <1>1. ASSUME NEW c \in Creators, CreateStep(c)
        PROVE  Inv'
    <2>1. CASE FailCreate(c)
      BY <2>1, FailedRequests, QuietCreating DEF FailCreate
    <2>2. CASE FinishCreate(c)
      <3>1. Idle \in CreateRequest
        BY DEF CreateRequest
      <3>2. QED
        BY <2>2, <3>1, QuietCreating DEF FinishCreate
    <2>3. QED
      BY <1>1, <2>1, <2>2, CheckCreateInv, CommitCreateInv DEF CreateStep
  <1>2. ASSUME NEW u \in Updaters, UpdateStep(u)
        PROVE  Inv'
    <2>1. CASE FailUpdate(u)
      BY <2>1, FailedRequests, QuietUpdating DEF FailUpdate
    <2>2. CASE FinishUpdate(u)
      <3>1. Idle \in UpdateRequest /\ Idle.phase = "idle"
        BY DEF UpdateRequest, Idle
      <3>2. QED
        BY <2>2, <3>1, QuietUpdating DEF FinishUpdate
    <2>3. QED
      BY <1>2, <2>1, <2>2, CheckUpdateInv, CommitUpdateInv DEF UpdateStep
  <1>3. CASE Crash
    BY <1>3, CrashInv
  <1>4. CASE UNCHANGED vars
    BY <1>4 DEF vars, Inv, TypeOK, CodeUnique, TrailCountsVersions, SeenSound,
                ReplyWasTheRow, Exists
  <1>5. QED
    BY <1>1, <1>2, <1>3, <1>4 DEF Next

LEMMA SpecInv == Spec => []Inv
  BY InitInv, NextInv, PTL DEF Spec

-----------------------------------------------------------------------------
\* Tables, trails and requests hold values of their types (TypeOK): merging a patch
\* into a row, and the version a client names, never make a row of another shape.
THEOREM TypeCorrect == Spec => []TypeOK
  <1>1. Inv => TypeOK
    BY DEF Inv
  <1>2. QED
    BY <1>1, SpecInv, PTL

\* However many creations saw a code free, one parcel gets it (CodeUnique).
THEOREM CodesAreUnique == Spec => []CodeUnique
  <1>1. Inv => CodeUnique
    BY DEF Inv
  <1>2. QED
    BY <1>1, SpecInv, PTL

\* Every version of every parcel was written by one audited write
\* (TrailCountsVersions), whatever versions clients name.
THEOREM EveryVersionIsAudited == Spec => []TrailCountsVersions
  <1>1. Inv => TrailCountsVersions
    BY DEF Inv
  <1>2. QED
    BY <1>1, SpecInv, PTL

\* The body of a 200 was the row at the version it names, and no two requests were
\* told the same version (ReplyWasTheRow).
THEOREM RepliesAreTrue == Spec => []ReplyWasTheRow
  <1>1. Inv => ReplyWasTheRow
    BY DEF Inv
  <1>2. QED
    BY <1>1, SpecInv, PTL

\* An update that is conditioned on the version it read touches only the columns it
\* names (OnlyNamedColumns), although it writes every column of a row it read before
\* its transaction: what the trail has at that version is what it read.
THEOREM UpdatesAreNarrow == Spec => OnlyNamedColumns
  <1> DEFINE Narrow ==
        \A u \in Updaters :
          LET q == update[u]
          IN  /\ q.phase = "merged" /\ update'[u].phase = "updated"
              /\ q.at = q.seen.version
              => \A col \in Columns \ DOMAIN q.patch :
                   parcels'[q.parcel].data[col] = parcels[q.parcel].data[col]
  <1>1. Inv /\ [Next]_vars => [Narrow]_vars
    <2> SUFFICES ASSUME Inv, Next, NEW u \in Updaters, update[u].phase = "merged",
                        update'[u].phase = "updated", update[u].at = update[u].seen.version,
                        NEW col \in Columns \ DOMAIN update[u].patch
                 PROVE  parcels'[update[u].parcel].data[col]
                          = parcels[update[u].parcel].data[col]
      BY Zenon
    <2> DEFINE q == update[u]
               x == q.parcel
    <2>1. CommitUpdate(u)
      <3>1. ASSUME NEW c \in Creators, CreateStep(c)
            PROVE  update' = update
        BY <3>1 DEF CreateStep, CheckCreate, CommitCreate, FailCreate, FinishCreate, Creating
      <3>2. ASSUME NEW o \in Updaters, UpdateStep(o), o # u
            PROVE  update'[u] = update[u]
        BY <3>2 DEF UpdateStep, CheckUpdate, CommitUpdate, FailUpdate, FinishUpdate,
                    Updating, Inv, TypeOK
      <3>3. ~Crash
        BY DEF Crash, Idle
      <3>4. UpdateStep(u)
        BY <3>1, <3>2, <3>3 DEF Next
      <3>5. ASSUME NEW status, Updating(u, Failed(status))
            PROVE  FALSE
        BY <3>5 DEF Updating, Failed, Inv, TypeOK
      <3>6. ~FailUpdate(u) /\ ~FinishUpdate(u)
        BY <3>5 DEF FailUpdate, FinishUpdate
      <3>7. ASSUME NEW role, NEW y, NEW patch, NEW claimed, NEW valid,
                   CheckUpdate(u, role, y, patch, claimed, valid)
            PROVE  FALSE
        BY <3>7 DEF CheckUpdate, Idle
      <3>8. QED
        BY <3>4, <3>6, <3>7 DEF UpdateStep
    <2>2. q \in MergedUpdate
      BY MergedShape DEF Inv, TypeOK
    <2>3. x \in Parcels /\ q.at \in Nat \ {0} /\ Merged(q)[col] = q.seen.data[col]
      BY <2>2, MergedContents DEF MergedUpdate
    <2>4. parcels[x].version = q.at /\ parcels[x] \in Row
      BY <2>1, <2>3, ExistingRow DEF Inv, CommitUpdate, VersionMatches
    <2>5. parcels[x].data = q.seen.data
      <3>1. Exists(x)
        BY <2>3, <2>4, ExistingRow DEF Inv
      <3>2. Len(trail[x]) = q.at /\ trail[x][q.at].after.data = parcels[x].data
        BY <2>3, <2>4, <3>1 DEF Inv, TrailCountsVersions
      <3>3. trail[x][q.at].after.data = q.seen.data
        BY DEF Inv, SeenSound
      <3>4. QED
        BY <3>2, <3>3
    <2>6. parcels'[x].data = Merged(q)
      BY <2>1, <2>3, <2>4 DEF CommitUpdate, Written, Inv, TypeOK, Row
    <2>7. QED
      BY <2>3, <2>5, <2>6
  <1>2. QED
    BY <1>1, SpecInv, PTL DEF Spec, OnlyNamedColumns
=============================================================================
