----------------------------- MODULE HostUpdate -----------------------------
(***************************************************************************)
(* vulna update, rollback, backup and restore on one host                  *)
(* (cli/cmd/vulna/update.go, backup.go, cli/internal/update and deploy):   *)
(* the version pinned in .env, the containers, the database schema, the    *)
(* data in the database and in the volumes, the archives and the recorded  *)
(* rollback point.                                                         *)
(*                                                                         *)
(* A command is a sequence of steps; each external call may fail, and the  *)
(* process may be killed between any two.  The application writes while it *)
(* runs and migrates the schema after it starts.  One command runs at a    *)
(* time, and its writes to .env succeed.  Signatures, free disk, postgres's *)
(* own container and encryption are left out; a manifest announces a       *)
(* migration whenever its schema differs from that of the release the CLI  *)
(* was built for.                                                          *)
(***************************************************************************)
EXTENDS Naturals

CONSTANTS
    Releases,       \* versions, positive numbers, the CLI's own the least
    Migrating,      \* those that change the schema of the one before
    MaxWrites,      \* bound on the writes of the application
    MaxArchives,    \* bound on the archives
    None

VARIABLES
    pinned,     \* VULNA_VERSION in .env
    app,        \* the version of the containers, and whether they run
    schema,     \* of the database: the migrations that it has seen
    db, vol,    \* the write last seen by the database and by the volumes
    archives,   \* what each archive holds
    taken,      \* how many there are
    state,      \* .vulna-update.json
    cmd,        \* the command under way, or None
    outcome,    \* what the last command has reported
    astray,     \* one was killed, or failed to recover or to save the state
    replaced    \* a backup restore has brought in the data of another moment

vars == <<pinned, app, schema, db, vol, archives, taken, state, cmd, outcome, astray, replaced>>

Version == CHOOSE v \in Releases : \A w \in Releases : v <= w
Schema(v) == {w \in Migrating : w <= v}
HasMigrations(v) == Schema(v) # Schema(Version)

Idle == [name |-> "none", pc |-> "none", version |-> None, from |-> None, was |-> [v |-> None, up |-> FALSE],
         archive |-> 0, snap |-> None, failed |-> FALSE, undo |-> FALSE]

TypeOK ==
    /\ pinned \in Releases
    /\ app \in [v : Releases, up : BOOLEAN]
    /\ schema \subseteq Migrating /\ db \in 0 .. MaxWrites /\ vol \in 0 .. MaxWrites
    /\ taken \in 0 .. MaxArchives
    /\ \A b \in 1 .. taken :
          archives[b] \in [db : Nat, vol : Nat, schema : SUBSET Migrating, pinned : Releases]
    /\ state \in [current : Releases \cup {None}, prior : Releases \cup {None},
                  backup : Nat, migrated : BOOLEAN]
    /\ astray \in BOOLEAN /\ replaced \in BOOLEAN

Init ==
    /\ pinned = Version /\ app = [v |-> Version, up |-> TRUE] /\ schema = Schema(Version)
    /\ db = 0 /\ vol = 0 /\ archives = [b \in 1 .. MaxArchives |-> None] /\ taken = 0
    /\ state = [current |-> None, prior |-> None, backup |-> 0, migrated |-> FALSE]
    /\ cmd = Idle /\ outcome = "none" /\ astray = FALSE /\ replaced = FALSE

----------------------------------------------------------------------------
(* The application.                                                        *)

Healthy == app.up /\ schema = Schema(app.v)

write ==
    /\ Healthy /\ db < MaxWrites /\ vol = db
    /\ db' = db + 1 /\ vol' = vol + 1
    /\ UNCHANGED <<pinned, app, schema, archives, taken, state, cmd, outcome, astray, replaced>>

(* alembic upgrade head, when the API starts.                              *)
migrate ==
    /\ app.up /\ schema # Schema(app.v) /\ schema \subseteq Schema(app.v) /\ schema' = Schema(app.v)
    /\ UNCHANGED <<pinned, app, db, vol, archives, taken, state, cmd, outcome, astray, replaced>>

----------------------------------------------------------------------------
(* Steps of a command.                                                     *)

At(pc) == cmd.pc = pc
Goto(pc) == cmd' = [cmd EXCEPT !.pc = pc] /\ UNCHANGED outcome
End(o) == cmd' = Idle /\ outcome' = o

Data == <<schema, db, vol>>
Kept == <<archives, taken, state, astray, replaced>>

(* docker compose up: the pinned version runs, or it fails with the        *)
(* containers of either version left up or down.                           *)
UpOk == app' = [v |-> pinned, up |-> TRUE]
UpFails == \E v \in {app.v, pinned}, up \in BOOLEAN : app' = [v |-> v, up |-> up]

begin(name, version, pc) ==
    /\ cmd = Idle
    /\ cmd' = [Idle EXCEPT !.name = name, !.pc = pc, !.version = version, !.from = pinned, !.was = app]
    /\ outcome' = "none"
    /\ UNCHANGED <<pinned, app>> /\ UNCHANGED Kept /\ UNCHANGED Data

cmdUpdateApply(v) ==
    /\ v > Version
    /\ begin("update", v, "quiesce") \/ begin("update", v, "pin")

cmdBackup == begin("backup", None, "quiesce")

(* An existing deployment is backed up first.                              *)
cmdBackupRestore(b) ==
    /\ b \in 1 .. taken /\ cmd = Idle
    /\ cmd' = [Idle EXCEPT !.name = "restore", !.pc = "quiesce", !.from = pinned, !.was = app,
                           !.version = b]
    /\ outcome' = "none" /\ UNCHANGED <<pinned, app>> /\ UNCHANGED Kept /\ UNCHANGED Data

----------------------------------------------------------------------------
(* runBackup and composeSnapshot.                                          *)

quiesce ==
    /\ At("quiesce")
    /\ \/ app' = [app EXCEPT !.up = FALSE] /\ Goto("dump")
       \/ /\ \E up \in {app.up, FALSE} : app' = [app EXCEPT !.up = up]
          /\ cmd' = [cmd EXCEPT !.pc = "resume", !.failed = TRUE] /\ UNCHANGED outcome
    /\ UNCHANGED pinned /\ UNCHANGED Data /\ UNCHANGED Kept

dump ==
    /\ At("dump")
    /\ \/ cmd' = [cmd EXCEPT !.pc = "copy",
                    !.snap = [db |-> db, vol |-> 0, schema |-> schema, pinned |-> pinned]]
       \/ cmd' = [cmd EXCEPT !.pc = "resume", !.failed = TRUE]
    /\ UNCHANGED <<pinned, app, outcome>> /\ UNCHANGED Data /\ UNCHANGED Kept

copy ==
    /\ At("copy")
    /\ \/ cmd' = [cmd EXCEPT !.pc = "resume", !.snap.vol = vol]
       \/ cmd' = [cmd EXCEPT !.pc = "resume", !.failed = TRUE]
    /\ UNCHANGED <<pinned, app, outcome>> /\ UNCHANGED Data /\ UNCHANGED Kept

(* What was running is started again, whatever has failed.                 *)
resume ==
    /\ At("resume")
    /\ \/ /\ app' = cmd.was
          /\ IF cmd.failed THEN End("unchanged") ELSE Goto("assemble")
       \/ cmd.was.up /\ app' = [app EXCEPT !.up = FALSE] /\ End("failed")
    /\ UNCHANGED pinned /\ UNCHANGED Data /\ UNCHANGED Kept

assemble ==
    /\ At("assemble") /\ UNCHANGED <<pinned, app, state, astray, replaced>> /\ UNCHANGED Data
    /\ \/ End("unchanged") /\ UNCHANGED <<archives, taken>>
       \/ /\ taken < MaxArchives /\ taken' = taken + 1
          /\ archives' = [archives EXCEPT ![taken + 1] = cmd.snap]
          /\ \/ cmd.name = "backup" /\ End("backed up")
             \/ /\ cmd.name = "restore" /\ UNCHANGED outcome
                /\ cmd' = [cmd EXCEPT !.pc = "down", !.archive = cmd.version]
             \/ /\ cmd.name = "update" /\ UNCHANGED outcome
                /\ cmd' = [cmd EXCEPT !.pc = "pin", !.archive = taken + 1]

----------------------------------------------------------------------------
(* The update.                                                             *)

pin ==
    /\ At("pin") /\ pinned' = cmd.version /\ Goto("pull")
    /\ UNCHANGED app /\ UNCHANGED Data /\ UNCHANGED Kept

revertVersion == pinned' = cmd.from

(* Nothing has been started yet; the images of both versions are pulled    *)
(* here, those of the version before when the update is undone.            *)
pull ==
    /\ At("pull") /\ UNCHANGED app /\ UNCHANGED Data
    /\ \/ Goto("up") /\ UNCHANGED pinned /\ UNCHANGED Kept
       \/ /\ ~cmd.undo /\ revertVersion /\ End("unchanged") /\ UNCHANGED Kept
       \/ /\ cmd.undo /\ End("failed") /\ astray' = TRUE
          /\ UNCHANGED <<pinned, archives, taken, state, replaced>>

Fail == End("failed") /\ astray' = TRUE

(* recoverPrior: with a migration the backup is restored, otherwise the    *)
(* version before is pinned and started again.                             *)
recoverPrior ==
    IF ~HasMigrations(cmd.version)
    THEN /\ revertVersion /\ cmd' = [cmd EXCEPT !.pc = "pull", !.undo = TRUE]
         /\ UNCHANGED <<outcome, astray>>
    ELSE /\ UNCHANGED pinned
         /\ IF cmd.archive = 0 THEN Fail
            ELSE /\ cmd' = [cmd EXCEPT !.pc = "down", !.undo = TRUE]
                 /\ UNCHANGED <<outcome, astray>>

up ==
    /\ At("up") /\ cmd.name = "update" /\ UNCHANGED Data /\ UNCHANGED <<archives, taken, state, replaced>>
    /\ IF cmd.undo
       THEN /\ UNCHANGED pinned
            /\ \/ UpOk /\ End("restored") /\ UNCHANGED astray
               \/ UpFails /\ Fail
       ELSE \/ UpOk /\ Goto("wait") /\ UNCHANGED <<pinned, astray>>
            \/ UpFails /\ recoverPrior

WaitHealthy == Healthy

wait ==
    /\ At("wait") /\ UNCHANGED <<app, archives, taken, state, replaced>> /\ UNCHANGED Data
    /\ \/ WaitHealthy /\ Goto("record") /\ UNCHANGED <<pinned, astray>>
       \/ recoverPrior

(* Mutant of RecordApplied: an older backup is kept as the rollback point.  *)
RecordApplied_First ==
    [current |-> cmd.version, prior |-> IF state.current = None THEN Version ELSE state.current,
     backup |-> IF state.backup # 0 THEN state.backup ELSE cmd.archive, migrated |-> FALSE]

RecordApplied ==
    [current |-> cmd.version, prior |-> IF state.current = None THEN Version ELSE state.current,
     backup |-> cmd.archive, migrated |-> HasMigrations(cmd.version)]

record ==
    /\ At("record") /\ cmd.name = "update"
    /\ \/ state' = RecordApplied /\ End("updated") /\ UNCHANGED astray
       \/ UNCHANGED state /\ Fail
    /\ UNCHANGED <<pinned, app, archives, taken, replaced>> /\ UNCHANGED Data

----------------------------------------------------------------------------
(* safeRestore: the stack is removed, the database restored in one         *)
(* transaction, every volume and .env after it, and the stack started.     *)

Source == archives[cmd.archive]

down ==
    /\ At("down") /\ UNCHANGED pinned /\ UNCHANGED Data /\ UNCHANGED <<archives, taken, state, replaced>>
    /\ \/ app' = [app EXCEPT !.up = FALSE] /\ Goto("database") /\ UNCHANGED astray
       \/ \E b \in {app.up, FALSE} : app' = [app EXCEPT !.up = b] /\ Fail

database ==
    /\ At("database") /\ UNCHANGED <<pinned, app, vol, archives, taken, state, replaced>>
    /\ \/ schema' = Source.schema /\ db' = Source.db /\ Goto("volumes") /\ UNCHANGED astray
       \/ UNCHANGED <<schema, db>> /\ Fail

volumes ==
    /\ At("volumes") /\ UNCHANGED <<pinned, app, schema, db, archives, taken, state, replaced>>
    /\ \/ vol' = Source.vol /\ Goto("env") /\ UNCHANGED astray
       \/ vol' \in {vol, Source.vol} /\ Fail

env ==
    /\ At("env") /\ UNCHANGED app /\ UNCHANGED Data /\ UNCHANGED <<archives, taken, state, replaced>>
    /\ \/ pinned' = Source.pinned /\ Goto("start") /\ UNCHANGED astray
       \/ UNCHANGED pinned /\ Fail

start ==
    /\ At("start") /\ UNCHANGED pinned /\ UNCHANGED Data /\ UNCHANGED <<archives, taken, state, replaced>>
    /\ \/ UpOk /\ Goto("ready") /\ UNCHANGED astray
       \/ UpFails /\ Fail

ready ==
    /\ At("ready") /\ UNCHANGED <<app, archives, taken, state>> /\ UNCHANGED Data
    /\ \/ /\ WaitHealthy /\ cmd.name = "rollback"
          /\ pinned' = cmd.version /\ Goto("activate") /\ UNCHANGED <<astray, replaced>>
       \/ /\ WaitHealthy /\ cmd.name # "rollback" /\ End("restored")
          /\ replaced' = (replaced \/ cmd.name = "restore") /\ UNCHANGED <<pinned, astray>>
       \/ Fail /\ UNCHANGED <<pinned, replaced>>

----------------------------------------------------------------------------
(* The rollback: the images first, then the data if there was a migration. *)

NeedsBackup == state.migrated

cmdRollback ==
    /\ cmd = Idle /\ state.prior # None /\ (NeedsBackup => state.backup # 0)
    /\ pinned' = state.prior
    /\ cmd' = [Idle EXCEPT !.name = "rollback", !.pc = "images", !.version = state.prior,
                           !.from = pinned, !.was = app, !.archive = state.backup]
    /\ outcome' = "none" /\ UNCHANGED app /\ UNCHANGED Data /\ UNCHANGED Kept

images ==
    /\ At("images") /\ UNCHANGED app /\ UNCHANGED Data /\ UNCHANGED Kept
    /\ \/ Goto(IF NeedsBackup THEN "down" ELSE "activate") /\ UNCHANGED pinned
       \/ revertVersion /\ End("unchanged")

activate ==
    /\ At("activate") /\ UNCHANGED pinned /\ UNCHANGED Data /\ UNCHANGED <<archives, taken, state, replaced>>
    /\ \/ UpOk /\ Goto("forget") /\ UNCHANGED astray
       \/ UpFails /\ Fail

forget ==
    /\ At("forget")
    /\ \/ /\ state' = [current |-> cmd.version, prior |-> None, backup |-> 0, migrated |-> FALSE]
          /\ End("rolled back") /\ UNCHANGED astray
       \/ UNCHANGED state /\ Fail
    /\ UNCHANGED <<pinned, app, archives, taken, replaced>> /\ UNCHANGED Data

(* Ctrl-C or a power cut: nothing deferred runs.                           *)
killed ==
    /\ cmd # Idle /\ End("none") /\ astray' = TRUE
    /\ UNCHANGED <<pinned, app, archives, taken, state, replaced>> /\ UNCHANGED Data

Next ==
    \/ write \/ migrate \/ killed
    \/ \E v \in Releases : cmdUpdateApply(v)
    \/ \E b \in 1 .. MaxArchives : cmdBackupRestore(b)
    \/ cmdBackup \/ cmdRollback
    \/ quiesce \/ dump \/ copy \/ resume \/ assemble
    \/ pin \/ pull \/ up \/ wait \/ record
    \/ down \/ database \/ volumes \/ env \/ start \/ ready
    \/ images \/ activate \/ forget

Spec == Init /\ [][Next]_vars

----------------------------------------------------------------------------
(* "A rollback never leaves the database on an incompatible schema": the   *)
(* prior version can start on the database, or on the backup that is       *)
(* restored with it.                                                       *)
RollbackPointUsable ==
    cmd = Idle /\ state.prior # None =>
        IF ~state.migrated THEN schema \subseteq Schema(state.prior)
        ELSE state.backup # 0 => archives[state.backup].schema \subseteq Schema(state.prior)

(* The same also after a backup restore, which the documents do not except:*)
(* safeRestore brings in the data of another release and leaves the        *)
(* recorded rollback point as it is.                                       *)
RollbackStaysCompatible == ~astray => RollbackPointUsable

(* What a command reports is so.  It leaves a rollback that is usable;     *)
(* "restored the prior release" is said only when a version is started that*)
(* is pinned, on a schema it can use, with database and volumes of one     *)
(* moment; both unless a command was killed, or failed to recover or to    *)
(* record what it had done, before.  "Nothing was changed" is said only    *)
(* when version and containers are those that the command has found.       *)
OutcomeIsTrue ==
    [][/\ ~astray' /\ ~replaced' => RollbackPointUsable'
       /\ cmd # Idle =>
          /\ outcome' = "restored" /\ ~astray /\ ~replaced =>
                /\ app' = [v |-> pinned', up |-> TRUE] /\ schema' \subseteq Schema(pinned')
                /\ db' = vol' /\ (cmd.name = "update" => pinned' = cmd.from)
          /\ outcome' = "unchanged" => pinned' = cmd.from /\ app' = cmd.was]_vars
=============================================================================
