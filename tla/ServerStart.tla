---------------------------- MODULE ServerStart ----------------------------
(***************************************************************************)
(* Servers that start, one or several, over one database: MigrateAndSeed   *)
(* and migratePostGIS (repository/support_repository.go), which main runs  *)
(* before it serves, on PostgreSQL.                                        *)
(*                                                                         *)
(* Every statement of the script commits by itself.  One that fails ends   *)
(* the process, which Compose starts again from the top.  So a statement   *)
(* runs among those of other servers, and among the writes of servers      *)
(* that serve already.                                                     *)
(*                                                                         *)
(* Statements that are repeated without effect (extension, columns,        *)
(* spatial indexes, functions) are left out: a table's spatial column is   *)
(* NULL before its trigger is first installed, there or not.               *)
(***************************************************************************)
EXTENDS Integers, Sequences, Workflow

CONSTANTS Servers,
          Migrating,    \* the servers with DB_AUTO_MIGRATE set
          TableOrder,   \* tables with a spatial column, as the script lists them
          AccountOrder, \* accounts to seed, as the script lists them
          SeedRole,     \* SeedRole[u] is the role account u is seeded with
          LegacyRoles,  \* the roles the users table admitted before these existed
          MaxVersion,   \* bound on the versions of a boundary
          Patience,     \* failed starts after which Docker waits longer than a start takes
          MaxStops      \* bound: how often servers are stopped or lose the database

Tables == {TableOrder[i] : i \in DOMAIN TableOrder}
Accounts == {AccountOrder[i] : i \in DOMAIN AccountOrder}

ASSUME StartAssumption ==
    /\ Migrating \subseteq Servers
    /\ TableOrder \in Seq(Tables) /\ AccountOrder \in Seq(Accounts)
    /\ "users" \notin Tables
    /\ SeedRole \in [Accounts -> Roles]
    /\ LegacyRoles \subseteq Roles
    /\ MaxVersion \in Nat \ {0} /\ Patience \in Nat /\ MaxStops \in Nat

-----------------------------------------------------------------------------
(* The script. *)

\* Two statements for each name, in turn.
ForEach(first, second, names) ==
    [i \in 1 .. 2 * Len(names) |->
        [op |-> IF i % 2 = 1 THEN first ELSE second, of |-> names[(i + 1) \div 2]]]

\* AutoMigrate looks for a table and then creates what is missing of it.
CreatingTables == ForEach("find_table", "create_table", <<"users">> \o TableOrder)

CheckingRoles == <<[op |-> "drop_check", of |-> "users"], [op |-> "add_check", of |-> "users"]>>

InstallingTriggers == ForEach("drop_trigger", "create_trigger", TableOrder)

FillingColumns == [i \in 1 .. Len(TableOrder) |-> [op |-> "fill_column", of |-> TableOrder[i]]]

\* Seeding looks for an account by name and creates it when there is none.
Seeding == ForEach("find_account", "create_account", AccountOrder)

Script_SeedFirst ==
    CreatingTables \o Seeding \o CheckingRoles \o InstallingTriggers \o FillingColumns

Script_FillFirst ==
    CreatingTables \o CheckingRoles \o FillingColumns \o InstallingTriggers \o Seeding

Script ==
    CreatingTables \o CheckingRoles \o InstallingTriggers \o FillingColumns \o Seeding

-----------------------------------------------------------------------------
VARIABLES tables,    \* tables that exist
          roleCheck, \* constraint user_role_allowed: the roles it admits, or NoCheck
          triggers,  \* tables whose sync trigger exists
          rows,      \* a row of each table: its GeoJSON and its spatial column
          accounts,  \* table users
          servers,   \* processes
          failed,    \* failed starts of a process since it last served, up to Patience
          stops,     \* stops and lost connections so far
          exposed    \* history: rows whose boundary was updated with no trigger there

db == <<tables, roleCheck, triggers, rows, accounts>>
vars == <<db, servers, failed, stops, exposed>>

NoCheck == {"none"}
NoRow == [geojson |-> 0, geom |-> 0]

\* geom is the version of the GeoJSON the column was computed from, 0 for NULL.
Row == [geojson : 0 .. MaxVersion, geom : 0 .. MaxVersion]

Down == [phase |-> "down"]
Serving == [phase |-> "serving"]
Starting(at, found) == [phase |-> "starting", at |-> at, found |-> found]

\* What the last look-up found of its subject.
Findings == {"none", "part", "all"}

Server == {Down, Serving} \cup {Starting(at, found) : at \in DOMAIN Script, found \in Findings}

\* An empty database, or one from before the spatial columns and the newer roles.
Init ==
    /\ \/ /\ tables = {} /\ roleCheck = NoCheck
          /\ rows = [t \in Tables |-> NoRow]
          /\ accounts = [u \in Accounts |-> "none"]
       \/ /\ tables = Tables \cup {"users"} /\ roleCheck = LegacyRoles
          /\ rows = [t \in Tables |-> [geojson |-> 1, geom |-> 0]]
          /\ accounts \in [Accounts -> {"none", "active", "inactive"}]
          /\ \A u \in Accounts : accounts[u] # "none" => SeedRole[u] \in LegacyRoles
    /\ triggers = {}
    /\ servers = [s \in Servers |-> Down]
    /\ failed = [s \in Servers |-> 0]
    /\ stops = 0
    /\ exposed = {}

-----------------------------------------------------------------------------
(* Statements.  Each is a condition for success and what it then does. *)

At(s, op) == servers[s].phase = "starting" /\ Script[servers[s].at].op = op

Subject(s) == Script[servers[s].at].of

\* On to the next statement, or to ListenAndServe.
Advance(s, found) ==
    IF servers[s].at < Len(Script)
    THEN /\ servers' = [servers EXCEPT ![s] = Starting(@.at + 1, found)]
         /\ UNCHANGED failed
    ELSE /\ servers' = [servers EXCEPT ![s] = Serving]
         /\ failed' = [failed EXCEPT ![s] = 0]

GoDown(s) ==
    /\ servers' = [servers EXCEPT ![s] = Down]
    /\ failed' = [failed EXCEPT ![s] = IF @ < Patience THEN @ + 1 ELSE @]

\* os.Exit(1)
Exit(s) == GoDown(s) /\ UNCHANGED <<db, stops, exposed>>

\* AutoMigrate misses a table, or the check on roles of a users table that is there.
FindTable(s) ==
    /\ At(s, "find_table")
    /\ Advance(s, IF Subject(s) \notin tables THEN "none"
                  ELSE IF Subject(s) = "users" /\ roleCheck = NoCheck THEN "part"
                  ELSE "all")
    /\ UNCHANGED <<db, stops, exposed>>

\* CREATE TABLE or ADD CONSTRAINT; either fails when another server has been faster.
CreateTable(s) ==
    LET t == Subject(s)
        found == servers[s].found
    IN  /\ At(s, "create_table")
        /\ IF found = "all"
           THEN Advance(s, "none") /\ UNCHANGED <<db, stops, exposed>>
           ELSE IF (found = "none" /\ t \in tables) \/ (found = "part" /\ roleCheck # NoCheck)
           THEN Exit(s)
           ELSE /\ tables' = tables \cup {t}
                /\ roleCheck' = IF t = "users" THEN Roles ELSE roleCheck
                /\ Advance(s, "none")
                /\ UNCHANGED <<triggers, rows, accounts, stops, exposed>>

DropCheck(s) ==
    /\ At(s, "drop_check")
    /\ roleCheck' = NoCheck
    /\ Advance(s, "none")
    /\ UNCHANGED <<tables, triggers, rows, accounts, stops, exposed>>

\* A bug: a constraint that misses a role.
AddCheck_NoAuditor(s) ==
    /\ At(s, "add_check")
    /\ IF roleCheck # NoCheck
       THEN Exit(s)
       ELSE /\ roleCheck' = Roles \ {"auditor"}
            /\ Advance(s, "none")
            /\ UNCHANGED <<tables, triggers, rows, accounts, stops, exposed>>

AddCheck(s) ==
    /\ At(s, "add_check")
    /\ IF roleCheck # NoCheck
       THEN Exit(s)
       ELSE /\ roleCheck' = Roles
            /\ Advance(s, "none")
            /\ UNCHANGED <<tables, triggers, rows, accounts, stops, exposed>>

DropTrigger(s) ==
    /\ At(s, "drop_trigger")
    /\ triggers' = triggers \ {Subject(s)}
    /\ Advance(s, "none")
    /\ UNCHANGED <<tables, roleCheck, rows, accounts, stops, exposed>>

CreateTrigger(s) ==
    /\ At(s, "create_trigger")
    /\ IF Subject(s) \in triggers
       THEN Exit(s)
       ELSE /\ triggers' = triggers \cup {Subject(s)}
            /\ Advance(s, "none")
            /\ UNCHANGED <<tables, roleCheck, rows, accounts, stops, exposed>>

\* UPDATE ... SET geom = ... WHERE geom IS NULL
FillColumn(s) ==
    /\ At(s, "fill_column")
    /\ rows' = [rows EXCEPT ![Subject(s)].geom = IF @ = 0 THEN rows[Subject(s)].geojson ELSE @]
    /\ Advance(s, "none")
    /\ UNCHANGED <<tables, roleCheck, triggers, accounts, stops, exposed>>

FindAccount(s) ==
    /\ At(s, "find_account")
    /\ Advance(s, IF accounts[Subject(s)] = "none" THEN "none" ELSE "all")
    /\ UNCHANGED <<db, stops, exposed>>

\* The unique index on username, and the check on role.
CreateAccount_Upsert(s) ==
    /\ At(s, "create_account")
    /\ IF servers[s].found = "all"
       THEN Advance(s, "none") /\ UNCHANGED <<db, stops, exposed>>
       ELSE /\ accounts' = [accounts EXCEPT ![Subject(s)] = "active"]
            /\ Advance(s, "none")
            /\ UNCHANGED <<tables, roleCheck, triggers, rows, stops, exposed>>

CreateAccount(s) ==
    LET u == Subject(s)
    IN  /\ At(s, "create_account")
        /\ IF servers[s].found = "all"
           THEN Advance(s, "none") /\ UNCHANGED <<db, stops, exposed>>
           ELSE IF accounts[u] # "none" \/ (roleCheck # NoCheck /\ SeedRole[u] \notin roleCheck)
           THEN Exit(s)
           ELSE /\ accounts' = [accounts EXCEPT ![u] = "active"]
                /\ Advance(s, "none")
                /\ UNCHANGED <<tables, roleCheck, triggers, rows, stops, exposed>>

Statement(s) ==
    \/ FindTable(s) \/ CreateTable(s)
    \/ DropCheck(s) \/ AddCheck(s)
    \/ DropTrigger(s) \/ CreateTrigger(s) \/ FillColumn(s)
    \/ FindAccount(s) \/ CreateAccount(s)

-----------------------------------------------------------------------------
(* Processes, and what serving ones and administrators write. *)

\* main, and the restart policy of Compose: Docker doubles its wait with every failed
\* start, until another server's start has had time to end.
Start(s) ==
    /\ servers[s] = Down
    /\ failed[s] = Patience => \A other \in Servers : servers[other].phase # "starting"
    /\ servers' = [servers EXCEPT ![s] = IF s \in Migrating THEN Starting(1, "none") ELSE Serving]
    /\ UNCHANGED <<db, failed, stops, exposed>>

\* The process is killed, or a statement fails for a reason of its own.
Stop(s) ==
    /\ servers[s] # Down /\ stops < MaxStops
    /\ GoDown(s)
    /\ stops' = stops + 1
    /\ UNCHANGED <<db, exposed>>

\* The trigger, BEFORE INSERT OR UPDATE OF the GeoJSON.
Synced(t, row) == IF t \in triggers THEN row.geojson ELSE row.geom

\* A handler inserts the row, or updates its boundary; the program does not know
\* of the spatial column.
Write(s, t) ==
    LET written == [rows[t] EXCEPT !.geojson = @ + 1]
    IN  /\ servers[s] = Serving
        /\ t \in tables
        /\ rows[t].geojson < MaxVersion
        /\ rows' = [rows EXCEPT ![t] = [written EXCEPT !.geom = Synced(t, written)]]
        /\ exposed' = IF rows[t] # NoRow /\ t \notin triggers THEN exposed \cup {t} ELSE exposed
        /\ UNCHANGED <<tables, roleCheck, triggers, accounts, servers, failed, stops>>

ChangeAccount(u) ==
    /\ accounts[u] # "none"
    /\ accounts' = [accounts EXCEPT ![u] = IF @ = "active" THEN "inactive" ELSE "active"]
    /\ UNCHANGED <<tables, roleCheck, triggers, rows, servers, failed, stops, exposed>>

Next ==
    \/ \E s \in Servers : Start(s) \/ Statement(s) \/ Stop(s)
    \/ \E s \in Servers, t \in Tables : Write(s, t)
    \/ \E u \in Accounts : ChangeAccount(u)

Spec == Init /\ [][Next]_vars

\* Processes run and are restarted.
FairSpec == Spec /\ \A s \in Servers : WF_vars(Start(s) \/ Statement(s))

-----------------------------------------------------------------------------
(* Properties. *)

TypeOK ==
    /\ tables \subseteq Tables \cup {"users"}
    /\ roleCheck \in {NoCheck, LegacyRoles, Roles}
    /\ triggers \subseteq Tables
    /\ rows \in [Tables -> Row]
    /\ accounts \in [Accounts -> {"none", "active", "inactive"}]
    /\ servers \in [Servers -> Server]
    /\ failed \in [Servers -> 0 .. Patience]
    /\ stops \in 0 .. MaxStops
    /\ exposed \subseteq Tables

\* However starts, stops and writes have interleaved: once every server serves, and
\* one of them has migrated, everything the script installs is there, whichever
\* server installed it.  Every row has its spatial column, and the column is of the
\* row's current GeoJSON unless an update slipped between a server's DROP TRIGGER
\* and its CREATE TRIGGER.
SettledIsComplete ==
    (Migrating # {} /\ \A s \in Servers : servers[s] = Serving) =>
        /\ tables = Tables \cup {"users"}
        /\ roleCheck = Roles
        /\ triggers = Tables
        /\ \A u \in Accounts : accounts[u] # "none"
        /\ \A t \in Tables : rows[t] # NoRow =>
               rows[t].geom # 0 /\ (t \notin exposed => rows[t].geom = rows[t].geojson)

\* A start never changes an account that is there: one that was deactivated stays so.
StartKeepsAccounts ==
    [][ servers' # servers =>
            \A u \in Accounts : accounts[u] # "none" => accounts'[u] = accounts[u] ]_vars

\* Servers that start together may make each other fail, at every statement that
\* does not tolerate a second one; with Docker's growing waits they all come to serve,
\* for good.
EveryServerServes == \A s \in Servers : <>[](servers[s] = Serving)
=============================================================================
