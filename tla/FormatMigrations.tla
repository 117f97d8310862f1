--------------------------- MODULE FormatMigrations ---------------------------
(***************************************************************************)
(* Opening, creating, binding and migrating one database file.             *)
(*                                                                         *)
(* SqliteStorageDriver.open creates the file, or reads its identity and    *)
(* refuses what is not the current format; it never migrates.  migrate     *)
(* takes a verified backup and then carries out the missing format         *)
(* migrations, each in two transactions: one that registers the attempt in *)
(* the ledger, one that applies it.  Nothing but SQLite's write            *)
(* transactions keeps processes apart: each read of the file is a step, as *)
(* is each transaction.                                                    *)
(***************************************************************************)
EXTENDS Naturals

CONSTANTS
  Procs,         \* processes that open the database
  Migrators,     \* those of them that migrate it
  Bindings,      \* scope bindings callers expect
  Directories,   \* backup artifact directories callers name
  Target,        \* the format version of this engine
  Empty,         \* a file SQLite has created and nobody has initialised
  Nil            \* no file, no binding, no row, no artifact

ASSUME MigrationAssumption ==
  /\ Migrators \subseteq Procs
  /\ Target \in Nat \ {0}
  /\ Nil \notin Bindings \cup Directories

Versions == 1..Target

\* The installed migrations, named by the version they start from.
Migrations == 1..(Target - 1)

States == {"in_progress", "failed", "completed"}

Rows == [state : States, artifact : Directories]

\* An initialised database: its format version, its scope binding, and the
\* migration ledger.
Images ==
  [version : Versions,
   binding : Bindings \cup {Nil},
   ledger  : [Migrations -> Rows \cup {Nil}]]

ASSUME DistinctImages ==
  /\ Empty \notin Images
  /\ Nil \notin Images \cup {Empty}
  /\ Nil \notin Rows

\* A backup: the format and binding of the database in it, and whether its
\* manifest and receipt have been written and verified.
Artifacts ==
  [version : Versions \cup {0}, binding : Bindings \cup {Nil}, sealed : BOOLEAN]

ASSUME DistinctArtifacts == Nil \notin Artifacts

VARIABLES
  file,         \* the database file
  artifacts,    \* the backup directories
  quarantined,  \* the .quarantine.json marker exists
  damaged,      \* the file's bytes are not a sound SQLite database
  thrown,       \* a read of the file has thrown although its bytes were sound
  pc,           \* where each process stands
  call          \* the open or migrate call each process runs

vars == <<file, artifacts, quarantined, damaged, thrown, pc, call>>

Locations ==
  {"idle", "connect", "probe", "bootstrap", "read", "identity", "inspect",
   "integrity", "bind", "reread", "open",
   "directory", "copy", "seal", "register", "apply", "mark", "check", "recheck"}

\* existed is what the call saw of the file before it opened it; version and
\* binding are the metadata rows it has read; step is the migration it is at.
Calls ==
  [op       : {"open", "migrate"},
   create   : BOOLEAN,
   expected : Bindings \cup {Nil},
   existed  : BOOLEAN,
   version  : Versions \cup {0},
   binding  : Bindings \cup {Nil},
   dir      : Directories \cup {Nil},
   step     : Nat]

NoCall ==
  [op |-> "open", create |-> FALSE, expected |-> Nil, existed |-> FALSE,
   version |-> 0, binding |-> Nil, dir |-> Nil, step |-> 0]

NoRows == [m \in Migrations |-> Nil]

NewArtifact == [version |-> 0, binding |-> Nil, sealed |-> FALSE]

TypeOK ==
  /\ file \in Images \cup {Empty, Nil}
  /\ artifacts \in [Directories -> Artifacts \cup {Nil}]
  /\ quarantined \in BOOLEAN
  /\ damaged \in BOOLEAN
  /\ thrown \in BOOLEAN
  /\ pc \in [Procs -> Locations]
  /\ call \in [Procs -> Calls]

\* No database yet, or one of this format or an older one, bound or not.
Init ==
  /\ file \in {Nil} \cup
       [version : Versions, binding : Bindings \cup {Nil}, ledger : {NoRows}]
  /\ artifacts = [d \in Directories |-> Nil]
  /\ quarantined = FALSE
  /\ damaged = FALSE
  /\ thrown = FALSE
  /\ pc = [p \in Procs |-> "idle"]
  /\ call = [p \in Procs |-> NoCall]

Initialised == file \in Images

Goto(p, loc) == pc' = [pc EXCEPT ![p] = loc]

\* The call throws, or returns; its connection is closed.
End(p) ==
  /\ Goto(p, "idle")
  /\ call' = [call EXCEPT ![p] = NoCall]

(***************************************************************************)
(* Both calls look at the marker and at the file, open it, and read its    *)
(* identity.                                                               *)
(***************************************************************************)
Open(p) ==
  /\ pc[p] = "idle"
  /\ ~quarantined
  /\ \E create \in BOOLEAN, expected \in Bindings \cup {Nil} :
       /\ file = Nil => create
       /\ call' = [call EXCEPT ![p] =
                     [NoCall EXCEPT !.create = create, !.expected = expected,
                                    !.existed = file # Nil]]
  /\ Goto(p, "connect")
  /\ UNCHANGED <<file, artifacts, quarantined, damaged, thrown>>

Migrate(p) ==
  /\ pc[p] = "idle"
  /\ p \in Migrators
  /\ ~quarantined
  /\ file # Nil
  /\ \E expected \in Bindings \cup {Nil}, d \in Directories :
       call' = [call EXCEPT ![p] =
                  [NoCall EXCEPT !.op = "migrate", !.expected = expected,
                                 !.existed = TRUE, !.dir = d]]
  /\ Goto(p, "connect")
  /\ UNCHANGED <<file, artifacts, quarantined, damaged, thrown>>

\* SQLite creates the file when it is not there.
Connect(p) ==
  /\ pc[p] = "connect"
  /\ file' = IF file = Nil THEN Empty ELSE file
  /\ Goto(p, "probe")
  /\ UNCHANGED <<artifacts, quarantined, damaged, thrown, call>>

\* Mutant: a file that is not initialised is taken for a corrupt one.
ProbeMarking(p) ==
  /\ pc[p] = "probe"
  /\ \/ Initialised /\ Goto(p, "read") /\ UNCHANGED <<quarantined, call>>
     \/ /\ ~Initialised
        /\ IF call[p].create /\ ~call[p].existed
             THEN Goto(p, "bootstrap") /\ UNCHANGED <<quarantined, call>>
             ELSE quarantined' = TRUE /\ End(p)
  /\ UNCHANGED <<file, artifacts, damaged, thrown>>

\* hasMetaTable: a file that was there and is not initialised is refused.  (The
\* reads that follow may find a table of a process that got in between: refused
\* as well, as Bootstrap's second case.)
Probe(p) ==
  /\ pc[p] = "probe"
  /\ \/ Initialised /\ Goto(p, "read") /\ UNCHANGED call
     \/ /\ ~Initialised
        /\ IF call[p].create /\ ~call[p].existed
             THEN Goto(p, "bootstrap") /\ UNCHANGED call
             ELSE End(p)
  /\ UNCHANGED <<file, artifacts, quarantined, damaged, thrown>>

\* Mutant: CREATE TABLE IF NOT EXISTS, and rows that are replaced.
BootstrapOver(p) ==
  /\ pc[p] = "bootstrap"
  /\ file' = [version |-> Target, binding |-> call[p].expected, ledger |-> NoRows]
  /\ Goto(p, "read")
  /\ UNCHANGED <<artifacts, quarantined, damaged, thrown, call>>

\* One transaction; its CREATE TABLE fails if another process was first.
Bootstrap(p) ==
  /\ pc[p] = "bootstrap"
  /\ \/ /\ ~Initialised
        /\ file' = [version |-> Target, binding |-> call[p].expected,
                    ledger |-> NoRows]
        /\ Goto(p, "read")
        /\ UNCHANGED call
     \/ Initialised /\ End(p) /\ UNCHANGED file
  /\ UNCHANGED <<artifacts, quarantined, damaged, thrown>>

\* A call that finds semantic corruption: open marks a database that was there
\* before it, migrate only throws.
Corrupt(p) ==
  /\ quarantined' = (quarantined \/ (call[p].op = "open" /\ call[p].existed))
  /\ End(p)

\* A read of the file throws: over its bytes, or, when these are sound, because
\* the file stays locked (SQLITE_BUSY) or cannot be read just now.
ReadThrows == thrown' = (thrown \/ ~damaged)

\* readMetadata, first read: the rows of _aiverse_meta.  Whatever is thrown is
\* rethrown as DATABASE_CORRUPT.
ReadRows(p) ==
  /\ pc[p] = "read"
  /\ \/ /\ call' = [call EXCEPT ![p].version = file.version,
                               ![p].binding = file.binding]
        /\ Goto(p, "identity")
        /\ UNCHANGED <<quarantined, thrown>>
     \/ ReadThrows /\ Corrupt(p)
  /\ UNCHANGED <<file, artifacts, damaged>>

\* readMetadata, second read: user_version, which a difference makes corrupt.
CheckIdentity(p) ==
  /\ pc[p] = "identity"
  /\ IF file.version = call[p].version
       THEN Goto(p, "inspect") /\ UNCHANGED <<quarantined, call>>
       ELSE Corrupt(p)
  /\ UNCHANGED <<file, artifacts, damaged, thrown>>

(***************************************************************************)
(* inspectSqliteMigrationState: the ledger against the version read before.*)
(***************************************************************************)
Incomplete ==
  {m \in Migrations : file.ledger[m] # Nil /\ file.ledger[m].state # "completed"}

\* The stored binding is not another than the expected one.
BindingAllowed(p) == call[p].expected = Nil \/ call[p].binding \in {Nil, call[p].expected}

\* open goes on with a database of this format and a complete ledger.
InspectOpen(p) ==
  /\ pc[p] = "inspect"
  /\ call[p].op = "open"
  /\ IF call[p].version = Target /\ Incomplete = {}
       THEN Goto(p, "integrity") /\ UNCHANGED call
       ELSE End(p)
  /\ UNCHANGED <<file, artifacts, quarantined, damaged, thrown>>

\* migrate returns at once when there is nothing to do, refuses a ledger that
\* is incomplete at the target version, and otherwise starts with the backup.
InspectMigrate(p) ==
  /\ pc[p] = "inspect"
  /\ call[p].op = "migrate"
  /\ IF BindingAllowed(p) /\ call[p].version < Target
       THEN /\ Goto(p, "directory")
            /\ call' = [call EXCEPT ![p].step = call[p].version]
       ELSE End(p)
  /\ UNCHANGED <<file, artifacts, quarantined, damaged, thrown>>

(***************************************************************************)
(* open: the integrity check, then the one-time binding.                   *)
(***************************************************************************)
\* A check that finds something, or that throws, quarantines in either case,
\* also a file this very call has created.
CheckIntegrity(p) ==
  /\ pc[p] = "integrity"
  /\ \/ ~damaged /\ Goto(p, "bind") /\ UNCHANGED <<quarantined, thrown, call>>
     \/ ReadThrows /\ quarantined' = TRUE /\ End(p)
  /\ UNCHANGED <<file, artifacts, damaged>>

\* Mutant: the rows are replaced instead of inserted.
BindOver(p) ==
  /\ pc[p] = "bind"
  /\ IF call[p].binding = Nil /\ call[p].expected # Nil
       THEN /\ file' = [file EXCEPT !.binding = call[p].expected]
            /\ Goto(p, "reread")
            /\ UNCHANGED call
       ELSE /\ UNCHANGED file
            /\ IF BindingAllowed(p) THEN Goto(p, "open") /\ UNCHANGED call ELSE End(p)
  /\ UNCHANGED <<artifacts, quarantined, damaged, thrown>>

\* An unbound database takes the expected binding; the insert fails when
\* another process has bound it since its rows were read.
Bind(p) ==
  /\ pc[p] = "bind"
  /\ IF call[p].binding = Nil /\ call[p].expected # Nil
       THEN IF file.binding = Nil
              THEN /\ file' = [file EXCEPT !.binding = call[p].expected]
                   /\ Goto(p, "reread")
                   /\ UNCHANGED call
              ELSE UNCHANGED file /\ End(p)
       ELSE /\ UNCHANGED file
            /\ IF BindingAllowed(p) THEN Goto(p, "open") /\ UNCHANGED call ELSE End(p)
  /\ UNCHANGED <<artifacts, quarantined, damaged, thrown>>

\* The metadata is read back after the insert.  (Its two reads agree: the
\* format is this engine's, which no migration leaves.)
Reread(p) ==
  /\ pc[p] = "reread"
  /\ \/ Goto(p, "open") /\ UNCHANGED <<quarantined, thrown, call>>
     \/ ReadThrows /\ Corrupt(p)
  /\ UNCHANGED <<file, artifacts, damaged>>

Close(p) ==
  /\ pc[p] = "open"
  /\ End(p)
  /\ UNCHANGED <<file, artifacts, quarantined, damaged, thrown>>

(***************************************************************************)
(* migrate: createMigrationBackup.                                         *)
(***************************************************************************)
\* Mutant: an existing directory is used again.
ReuseDirectory(p) ==
  /\ pc[p] = "directory"
  /\ artifacts' = [artifacts EXCEPT ![call[p].dir] = NewArtifact]
  /\ Goto(p, "copy")
  /\ UNCHANGED <<file, quarantined, damaged, thrown, call>>

\* mkdir is exclusive: MIGRATION_BACKUP_EXISTS removes nothing.
MakeDirectory(p) ==
  /\ pc[p] = "directory"
  /\ IF artifacts[call[p].dir] = Nil
       THEN /\ artifacts' = [artifacts EXCEPT ![call[p].dir] = NewArtifact]
            /\ Goto(p, "copy")
            /\ UNCHANGED call
       ELSE UNCHANGED artifacts /\ End(p)
  /\ UNCHANGED <<file, quarantined, damaged, thrown>>

\* The online backup copies one committed state.  A copy of a damaged file is
\* refused when it is verified, at the latest.
CopyPayload(p) ==
  /\ pc[p] = "copy"
  /\ ~damaged
  /\ artifacts' = [artifacts EXCEPT ![call[p].dir] =
       [version |-> file.version, binding |-> file.binding, sealed |-> FALSE]]
  /\ Goto(p, "seal")
  /\ UNCHANGED <<file, quarantined, damaged, thrown, call>>

\* The copy must be of the format and binding that were read before it.
CopyMatches(p) ==
  /\ artifacts[call[p].dir].version = call[p].version
  /\ artifacts[call[p].dir].binding = call[p].binding

Seal(p) ==
  /\ pc[p] = "seal"
  /\ CopyMatches(p)
  /\ artifacts' = [artifacts EXCEPT ![call[p].dir].sealed = TRUE]
  /\ Goto(p, "register")
  /\ UNCHANGED <<file, quarantined, damaged, thrown, call>>

\* A step of the backup throws: the directory is removed.
BackupFails(p) ==
  /\ pc[p] \in {"copy", "seal"}
  /\ artifacts' = [artifacts EXCEPT ![call[p].dir] = Nil]
  /\ End(p)
  /\ UNCHANGED <<file, quarantined, damaged, thrown>>

(***************************************************************************)
(* migrate: each missing migration is registered, then applied.            *)
(***************************************************************************)
RowOf(p) == file.ledger[call[p].step]

\* registerMigrationStart: a completed row is refused, any other taken over.
Register(p) ==
  /\ pc[p] = "register"
  /\ ~(RowOf(p) # Nil /\ RowOf(p).state = "completed")
  /\ file' = [file EXCEPT !.ledger[call[p].step] =
                [state |-> "in_progress", artifact |-> call[p].dir]]
  /\ Goto(p, "apply")
  /\ UNCHANGED <<artifacts, quarantined, damaged, thrown, call>>

\* The version is still the migration's, and its row still in progress.
MayApply(p) ==
  /\ file.version = call[p].step
  /\ RowOf(p) # Nil
  /\ RowOf(p).state = "in_progress"

Apply(p) ==
  /\ pc[p] = "apply"
  /\ MayApply(p)
  /\ file' = [file EXCEPT !.version = call[p].step + 1,
                          !.ledger[call[p].step].state = "completed"]
  /\ call' = [call EXCEPT ![p].step = @ + 1]
  /\ Goto(p, IF call[p].step + 1 < Target THEN "register" ELSE "check")
  /\ UNCHANGED <<artifacts, quarantined, damaged, thrown>>

\* Either transaction throws, for what it finds or for any other reason, and
\* is rolled back.
MigrationFails(p) ==
  /\ pc[p] \in {"register", "apply"}
  /\ Goto(p, "mark")
  /\ UNCHANGED <<file, artifacts, quarantined, damaged, thrown, call>>

\* markMigrationFailed looks at the migration's id only; its own failure is
\* swallowed.
MarkFailed(p) ==
  /\ pc[p] = "mark"
  /\ \/ UNCHANGED file
     \/ /\ RowOf(p) # Nil
        /\ file' = [file EXCEPT !.ledger[call[p].step].state = "failed"]
  /\ End(p)
  /\ UNCHANGED <<artifacts, quarantined, damaged, thrown>>

\* The integrity check after the last migration; call.step is past it.
CheckMigrated(p) ==
  /\ pc[p] = "check"
  /\ \/ /\ ~damaged
        /\ Goto(p, "recheck")
        /\ UNCHANGED <<file, call>>
     \/ /\ damaged
        /\ \/ UNCHANGED file
           \/ file' = [file EXCEPT !.ledger[call[p].step - 1].state = "failed"]
        /\ End(p)
  /\ UNCHANGED <<artifacts, quarantined, damaged, thrown>>

\* The identity and the ledger once more; whatever they show, nothing changes.
Recheck(p) ==
  /\ pc[p] = "recheck"
  /\ End(p)
  /\ UNCHANGED <<file, artifacts, quarantined, damaged, thrown>>

(***************************************************************************)
(* The environment.                                                        *)
(***************************************************************************)
Crash(p) ==
  /\ pc[p] # "idle"
  /\ End(p)
  /\ UNCHANGED <<file, artifacts, quarantined, damaged, thrown>>

Damage ==
  /\ Initialised
  /\ ~damaged
  /\ damaged' = TRUE
  /\ UNCHANGED <<file, artifacts, quarantined, thrown, pc, call>>

Step(p) ==
  \/ Open(p) \/ Migrate(p) \/ Connect(p) \/ Probe(p) \/ Bootstrap(p)
  \/ ReadRows(p) \/ CheckIdentity(p) \/ InspectOpen(p) \/ InspectMigrate(p)
  \/ CheckIntegrity(p) \/ Bind(p) \/ Reread(p) \/ Close(p)
  \/ MakeDirectory(p) \/ CopyPayload(p) \/ Seal(p) \/ BackupFails(p)
  \/ Register(p) \/ Apply(p) \/ MigrationFails(p) \/ MarkFailed(p)
  \/ CheckMigrated(p) \/ Recheck(p)

Next == Damage \/ \E p \in Procs : Step(p) \/ Crash(p)

Spec == Init /\ [][Next]_vars

(***************************************************************************)
(* Properties.                                                             *)
(***************************************************************************)
\* A format migration never runs without a verified backup of the database in
\* the format it migrates from: whatever other migrators did with the same
\* directory, the artifact a ledger row names is there, sealed, and not newer
\* than the migration.
BackupsBehindLedger ==
  Initialised =>
    \A m \in Migrations : file.ledger[m] # Nil =>
      LET artifact == artifacts[file.ledger[m].artifact]
      IN  artifact # Nil /\ artifact.sealed /\ artifact.version <= m

\* The format is never behind a migration its ledger calls completed: version
\* and row change in one transaction, also when two migrators run the same
\* path.
LedgerFollowsFormat ==
  Initialised =>
    \A m \in Migrations :
      file.ledger[m] # Nil /\ file.ledger[m].state = "completed" => file.version > m

\* What the ledger says holds of the files, whoever migrates, fails, dies or
\* starts over: every row has its backup behind it, and every completed row its
\* format.
LedgerSound == BackupsBehindLedger /\ LedgerFollowsFormat

\* Whoever has the database open has it in this engine's format and in the
\* scope it expected, although both were checked several reads ago.
HandlesSound ==
  \A p \in Procs : pc[p] = "open" =>
    /\ Initialised
    /\ file.version = Target
    /\ call[p].expected # Nil => file.binding = call[p].expected

\* An initialised database is never started again as an empty one, loses no
\* format and is never bound to another scope, whoever else was creating,
\* binding or migrating it at the same time.
DatabaseKept ==
  [][Initialised =>
       /\ file' \in Images
       /\ file'.version >= file.version
       /\ file.binding # Nil => file'.binding = file.binding]_vars

\* A migration that failed or was interrupted has left the old format in
\* place, so that it can be tried again.  (A sound file: the integrity check
\* after a migration may mark its row.)
FailedKeepsOldFormat ==
  Initialised /\ ~damaged => \A m \in Incomplete : file.version <= m

\* As long as every read of a sound file gets its answer, only a migration
\* makes open quarantine one: creators and binders never take one another's
\* half-done work for corruption.  (A read that throws, for whatever reason, is
\* taken for corruption: readMetadata and runIntegrityCheck do not look at what
\* was thrown.)
OnlyMigrationsMislead ==
  quarantined /\ ~damaged /\ ~thrown =>
    Initialised /\ \E m \in Migrations : file.ledger[m] # Nil
===============================================================================
