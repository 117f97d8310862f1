# A verification project for AI-Verse Data

AI-Verse Data is a TypeScript library that keeps structured records of a
workspace in one SQLite file and lets several processes (apps, bots, a command
line, adapters) change them through one protocol. This directory holds TLA+
models of its engines, the TLC configurations that check them on small
instances, and TLAPS proofs about them for every instance. Paths below are
relative to the repository; the implementation is under `src/`.

## 1. The system's parts

| Part (source) | State it keeps | Operations | What makes it correct |
| --- | --- | --- | --- |
| Record engine (`records/`) | rows: version, schema version, data, tombstone | create, update, softDelete, get | versions grow by one from what the caller named; deleted stays deleted; a row always hydrates under its own schema version |
| Relation index (`records/relations.ts`, `storage/sqlite-relation-store.ts`) | one row per reference value | replace on write, consult on delete | index = what the data say; no dangling reference |
| Transaction engine (`transactions/`) | none of its own | execute a list of mutations with clientRefs | all or nothing; one contiguous block of events |
| Idempotency (`idempotency/`) | key -> operation, fingerprint, result | prepare, complete | one effect per key; replay = stored result; another request under a bound key is refused |
| Provenance (`provenance/`) | append-only events, receipts | record, close a transaction, list, look up | log and ledger agree; nothing is rewritten |
| Catalog (`catalog/`) | spaces, schema versions | create, updateSchema, ensureStructure (client) | a later version keeps every declared field, unless a user migration was approved |
| Storage driver (`storage/sqlite-driver.ts`, `sqlite-quarantine.ts`) | SQLite file, handle, marker file | transaction(immediate), integrity check | once the marker exists no call gets past its check of it any more |
| Bulk (`bulk/`) | a key in the ledger | preview, execute with a digest, replay | what is committed is what was reviewed |
| Extension lifecycle (`native/extension-*.ts`, `lifecycle.ts`, `secure-lifecycle.ts`) | registry file shared with other extensions, three owned files, lock file | install/update, enable, disable, uninstall | other extensions' entries survive; a failed command restores; no promise without files |
| Query (`query/`, `sqlite-query-store.ts`) | cursors held by callers | query by page | a scan loses or repeats no more records than writers moved |
| User schema migrations (`schema-migrations/`) | schema versions, rows | preview, execute | what was approved is what is done; every active row rewritten, old rows readable |
| Internal migrations (`storage/sqlite-migrations.ts`) | ledger of format migrations | inspect, back up, run | a crash leaves a database that opens fully migrated or not at all |
| Backup and restore (`backup/`) | staging, sealed and canonical files | export, back up, restore, import | never replaces a database; what it reports is there and complete; finished artifacts stay |
| Recovery (`recovery/`) | marker, staged replacement | inspect, stage | nobody's half-done work is taken for corruption; quarantined databases take no writes |
| Canvas (`canvas/`) | two entities of records | create, edit, rename, revert, duplicate, delete | every version has its one true revision; retries replay; one can always go back |
| Natural-key create (`native/natural-key-create.ts`) | none | query and create in one transaction | one record per natural key; a retry never creates again |
| Workspace init (`native/workspace-*.ts`) | database file | resolve, discover, initialise | racing initialisers do not condemn one another's file |
| Automation events, memory bridge, purpose values | cursors | poll, evidence, read | every event arrives, none is jumped over; a record and its receipt belong together |
| Bots, apps, connections, brain, dashboard, host adapter | leases, nothing else | forward to the client | a lease is honoured |
| Doctor, compatibility, scope, protocol validation, CLI | none | inspect, validate, print | sequential |

**How they interact.** The client composes the engines over one handle. Every
mutation runs in `SqliteStorageDatabase.transaction(..., "immediate")`: the
record, relation, idempotency and provenance stores are called inside one SQLite
transaction, and nested calls join the open one (`DataTransactions`, bulk and
canvas call the record engine that way). Processes share the file and nothing
else. The quarantine marker is a file outside the database that every store
reads before it writes, though not as a part of the commit. The lifecycle commands share a directory with the host's
other extensions and with one another.

**What is hard.** Calls of several processes interleave at every transaction
boundary; some calls read outside the transaction that stores (catalog, bulk,
receipts); a key may be submitted again at any time, also while the first
submission runs; schema versions change under records written with older ones;
a body fails half way; a process dies with or without the lock; the marker
appears in the middle of a transaction; file operations of the lifecycle fail
between any two steps, their rollback too, and lock files of dead processes
stay; work on a sound file fails and is called corruption; a destination is checked long before something is linked there, and removed
again when it does not verify; cursors outlive the table they were cut from; edits
are submitted again after the board moved on. `PROJECT.json` lists each of these with its line under `hazards`.

## 2. Modules

```
DataStore            images of the database and requests on them  (no variables)
  AtomicStore          the abstract store: every request is one step
  ReviewedChanges      the database of processes that review changes, and its other
                       callers, whose requests are whole
    BulkOperations       bulk: preview, digest, second preview, commit, replay
    SchemaMigrations     reviewed migrations of users
  ClientSessions       natural-key create, query pages, event feeds, evidence,
                       among the same callers
  PortableState        what an export collects and an import materialises (no variables)
    RecordTransactions   processes, write lock, requests, schema callers, marker, crashes
    DatabaseFiles        files, handles, artifacts, markers; writers submit whole requests
FormatMigrations     open, bootstrap, bind and migrate of one database file
ExtensionLifecycle   registry, owned files and lock file of the extension
CanvasDocuments      documents, revisions and the calls of Canvas
MC*                  instances for TLC
DataStoreProofs      lemmas about images, requests and exports
  RecordTransactionsProofs, ClientSessionsProofs, DatabaseFilesProofs,
  ReviewedChangesProofs  theorems about the modules they are named after, the
                         last about BulkOperations and SchemaMigrations
ExtensionLifecycleProofs, FormatMigrationsProofs, CanvasDocumentsProofs
```

The modules form two layers. RecordTransactions implements AtomicStore: the
engine, with its locks, private images, crashes and replays, changes the database
only by one whole request at a time (`ImplementsAtomicStore`, proved as
`Refinement`). In BulkOperations, SchemaMigrations, ClientSessions and DatabaseFiles
the other callers of the engine therefore take one step per request: they move
the image `d` to a member of `Requested(d, requests, additions)`, the operator of
DataStore that AtomicStore's `Next` is made of.

**DataStore** (record, relation, catalog, idempotency, provenance, transaction
engines). An *image* is the content of the database: `schemas` (versions of one
entity), `records`, `relations` (the index), `idem` (the ledger) and `events`
(events and receipts; the two tables are written together and one entry stands
for both). Each engine operation is an operator from image to image, with the
guard that makes it throw: `MayCreate`/`Created`, `MayUpdate`/`Updated`,
`MayDelete`/`Deleted`, `MayMutate`/`Mutated`, `Closed`, `Evolved`,
`MayEnsure`/`Ensured`. `Outcome` carries out the mutations of a request one after
the other, resolving clientRefs; `Performed` is what a whole request can make of an
image, `Requested` what any of several can. `Acceptable` is what validation lets
through before the engine is entered. Invariants of an image are operators too, so
that they can be asked of the committed and of the uncommitted one.

**RecordTransactions** gives these operators processes. `db` is the committed
image, `work` the image of the open transaction, `lock` SQLite's write lock, and
`pc`, `req`, `txn`, `seen`, `reply` are the call each process is in. One action
per step at which somebody else may come in: `Call`, `Refuse` (keys and marker
before BEGIN), `Busy`, `BeginFresh`/`BeginReplay`/`BeginConflict`
(`DataIdempotency.prepare`), `RunMutation` (one nested mutation, with all its
writes), `CloseTransaction`, `EnsureStructure`, `Rollback`, `Commit`,
`ReadReceipt`, `ReadSchema`, `CheckWritable`, `WriteSchema`, `CommitSchema`,
`SchemaFails` (updateSchema), `Crash`, `MarkQuarantined`. updateSchema reads the
schema, then the marker, once, and then opens its transaction; these are separate
steps, so that a schema may change, or the marker appear, between any two of them.

**AtomicStore** is what the engines promise together: the image changes only by
one whole request, carried out from the image as it is at that moment, or by
one field addition that keeps all that is declared. It has no processes, lock,
marker or private image. RecordTransactions implements it with `db` for `store`;
BulkOperations does with the transactions of its bulk requests among the
submitted ones (`ImplementsAtomicStore` in both).

**BulkOperations** has processes that review and execute: `Review` is
`DataBulk.preview` (the transaction engine run and rolled back), `Execute`,
`PrepareFresh`, `PreviewAgain`, `CommitBulk`, `Replay` and `Fail` are the stages
of `DataBulk.execute`. `Others` are whole calls of other clients, atomic here
because RecordTransactions shows that they are.

**ExtensionLifecycle** models the registry document as Data's own entry and a
count of what others wrote into it; the owned files as missing, old, current or
edited; the lock file as its owner. The snapshot taken at `Read` is the text the
command compares and rewrites later, so `Compare` and `Rename` are separate
steps. `UndoFile` is the install's rollback (verified, in reverse order),
`RestoreFile` and `Undone` that of the uninstall (blind). `IoFails` lets every
file operation throw; `VerificationFails` is the read-back of a file after its
rename; `Crash` leaves files, registry and lock as they are. `Cooperative` says
whether the other writers respect the lock.

**FormatMigrations** models what comes before the engines: `file` is nothing,
the empty file SQLite creates, or an image (format version, scope binding,
migration ledger); `artifacts` are the backup directories, `quarantined` is the
marker, `damaged` says whether the bytes are sound and `thrown` whether a read of
sound bytes has thrown all the same (a locked file, an I/O error). The steps of a process are
the separate reads and transactions of `SqliteStorageDriver.open` (`Open`,
`Connect`, `Probe`, `Bootstrap`, `ReadRows`, `CheckIdentity`, `InspectOpen`,
`CheckIntegrity`, `Bind`, `Reread`, `Close`) and of `migrate` (`Migrate`, the same reads,
`InspectMigrate`; `MakeDirectory`, `CopyPayload`, `Seal` or `BackupFails` are
`createMigrationBackup`; then `Register` and `Apply` for each migration,
`MigrationFails` and `MarkFailed` for its catch block, `CheckMigrated` and
`Recheck`). No process waits for another here: all that keeps them apart is that
each transaction is atomic. `ReadThrows` lets `ReadRows`, `Reread` and
`CheckIntegrity` fail at any time: `readMetadata` and `runIntegrityCheck` make
DATABASE_CORRUPT of whatever is thrown. `Crash` ends a call anywhere, `Damage`
strikes once.

**ReviewedChanges** declares what the two ways of reviewing a change share: the
processes, the committed image `store`, and the requests and field additions of the
other callers, which validation has let through (`CallersAssumption`).

**SchemaMigrations** models `DataSchemaMigrations`. `Plannable` and `Migrates` are
`buildPlan`: the changes applied to the current schema, the backfills, the
validation of every active record under the target, the targets of its
references. `PlanDigest` holds what the digest binds. `PreviewMigration` gives a
process a digest; `ExecuteMigration` is one immediate transaction: key still unbound,
plan made again, digest compared, approval asked when fields are lost, then the new
schema version and every active record rewritten in order of creation (`Rewrites`:
row, index rows, event and key of its own), and the closing event and the
migration's key in the ledger (`Finished`). What else a result says is in `migrated`,
by its key, for the properties.
`SchemasOnlyGrow`, which run `schemas` checks and systems without user migrations
have, becomes the second part of `MigratedAsReviewed` here.

**PortableState** is `collectPortableState`, with the checks that make it throw
(`Collectable`), and `materializePortableState`. A summary's digest is the state
it digests. `PortableStates` (in RecordTransactions) asks of every committed
image that it can be collected, imported, and comes back the same.

**DatabaseFiles** models the files as wholes. `files` says which file is at each
canonical path, `disk` what each file contains (an image, its binding, its
health), so that a handle goes on when its path is removed or taken by another
file; `marked` are the quarantine markers, `artifacts` the artifact directories
with payload, manifest and receipt; `failed` are the locations at which some work
has failed. The steps of a process are its accesses to
these: opening (`Open`, `Connect`, `Probe`, `Write`, `Close`), `createBackup` and
`createPortableExport` (`MakeDirectory` ... `Seal`, `VerifyOwn`, `BackupFails`),
`restoreBackup` and `importPortableExport` (`VerifyArtifact`, `Stage`, `Install`
by hard link, `Reopen`, `Compare`, `Remove`, `Restored`), `DataRecovery` (`Inspect`,
`LookForFile`, `OpenRaw`, `InspectMigration`, `Diagnose`, `Mark`; `Recover`,
`VerifyRecovery`, `Recovered`) and workspace initialisation (`Initialise`,
`Create`, `CreateOrOpen`, `Confirm`). `Fails` lets any of these accesses throw,
whatever the file holds; what the code makes of it differs. Inspection reports
`unavailable` or calls it corruption and quarantines (`CallsItCorrupt`, at each of
its catch blocks), open quarantines a database whose metadata or integrity it
could not read, and a restore takes its installation away again (`Abandon`).
`Crash` ends a call anywhere, `DamageFile` and `DamagePayload` strike a file.

**CanvasDocuments** models each Canvas call as what it is, one immediate
transaction: an operator from the database (documents, revisions, ledger) to its
outcome, composed of the record engine's `create`, `update` and `softDelete`, all
under `Once` (`prepare` and `complete`). `Patch` archives the version it replaces
and the one it makes; `Edit` asks its own key before it looks at the board;
`Duplicate` and `Revert` have a key of their own for the record they write.
`Call` submits any call, new or old; `Other` is another client that writes the
document without archiving it; `Init` may hold a document older than the history.
`made` and `answers` are history variables.

**ClientSessions** composes four readers and writers that need several calls.
`CreateByNaturalKey` is one transaction. `StartQuery` and `ReadPage` cut pages by
offset from the live table, in terms of the places that records have in `Order`;
`scan` remembers, as history, which records matched all the time, how many were
returned and how many left or entered. `Poll` takes a page of the log with a
cursor that was kept for this or for another subscription; at the end of the
log the poller has none, and keeps its own or starts again. `LookUpEvent`,
`LookUpKey` and `LookUpReceipt` are the two reads of the Memory bridge's
`recordEvidence`; `Window` is its page of 200 events. Readers change nothing that
others see, so that `observer` fixes one kind of reader for a behaviour.

Operators whose comment begins with "Mutant:" are deliberately wrong variants of
the definition that follows them. Nothing uses them; they state which mistake
each property would reveal.

### Abstractions, and what they hide

* One space and one entity; references are to records of the same entity. Field
  types are `string` and `reference`: every other type differs only in which
  values it accepts. Values are record ids, clientRef markers, null and one value
  no field accepts.
* A digest is its preimage. Canonical JSON is not modelled.
* Record ids, event ids and transaction ids are positions or members of a set:
  collisions of UUIDs are out of scope. Clock and timestamps are left out.
* SQLite is a single write lock and atomic commit; a process that dies loses its
  open transaction. updateSchema stores in a *deferred* transaction: the upgrade
  that finds a newer snapshot fails with SQLITE_BUSY, which is a case of
  `SchemaFails`.
* FormatMigrations: a migration's work on the tables is its change of version; the
  target format is a constant (the code's is 2). The backup's copy is one step,
  because SQLite's online backup yields one committed state. Damage is found by
  the integrity check or by an earlier read. Lifting a quarantine belongs to
  recovery.
* ExtensionLifecycle: reading, comparing and renaming one owned file is one step;
  temporary files and failures to remove the lock file are left out; so are the
  compatibility gate and the path checks that come before the lock. An enable
  whose final check fails keeps its write and is labelled `unconfirmed`.
  `FailedCallsRestore` therefore says nothing of that reply (except of an uninstall,
  which undoes it) nor of `unverified`, with which a call says that its rollback failed.
* SchemaMigrations: the limits of 500 records and 8 MiB and the changes of a
  schema's name and description are left out. The keys of rewrites are drawn by
  the code with the migration's identifier; nobody else uses them.
* BulkOperations: the transaction's key is the digest of a constant and the bulk
  key (`derivedTransactionKey`). `BulkAssumption` says that it is injective and that
  nobody else, other bulk requests' operations included, uses a derived key; and
  that a request is `Acceptable` (it has an operation, a create names no version).
* DatabaseFiles: staging files and snapshots have names nobody else knows and are
  private state of the process. The online backup yields one committed state.
  Damage is physical (SQLite's check finds it) or semantic (only the deep
  verification does). A copied file may stand at a location of another binding
  (`Misplaced`).
* DatabaseFiles: `MaxFiles`, `MaxFaults` (damage and failing work), `Fragile` and `Flaky`
  (the locations they may strike) bound what a behaviour can use up; nothing
  else is assumed of them, and the theorems hold for all of them.
* CanvasDocuments: the keys that Canvas derives for its own records are no keys of
  callers (`KeysAssumption`); titles are one value, texts, labels and positions are left out
  (an edit of them leaves the board as it is and makes a version).
* ClientSessions: sort keys and projection are left out, as is
  `MAX_QUERY_OFFSET`. What the bridge has looked up is one record, `evidence`, with
  `NoEvidence` at rest. `OneRecordPerNaturalKey` is about the values of a field that
  nobody else's create or update writes and no schema supplies as a default
  (`OwnedValues`): other callers are not bound to go through the natural-key create.
  Subscriptions have different scopes: the fingerprint in a
  cursor names space, entity and record and not the event types, so that a cursor
  of the same scope would be accepted with other types.

## 3. What TLC checks

| Run | States (distinct) | What it shows |
| --- | --- | --- |
| `records` | 90,670 | Two processes, single-record calls that contend for versions, keys and references, and transactions with clientRefs, good and faulty, that hold some of the same mutations; resubmitted at any time, with crashes and the marker. `TypeOK`, `NoLostUpdate`, `KeysMatchReceipts`, `RepliesAreDurable`, `TransactionsContiguous`, `HistoryIsKept`, `ImplementsAtomicStore`. |
| `schemas` | 72,872 | Two catalog callers and ensureStructure declare the same field while records hold it as an unknown one, and the marker appears between any two steps. `ReferentialIntegrity`, `RecordsHydrate`, `SchemasOnlyGrow`, `PortableStates`, `QuarantineHolds`, and, under weak fairness, `CallsEnd`. |
| `bulk` | 74,778 | Two processes, two bulk requests under three keys, others that change the reviewed record and evolve the schema. `CommittedAsReviewedButSchema`, `ReplaysVerify`, `ImplementsAtomicStore`. |
| `schema_migrations` | 9,156 | Two processes review and execute migrations that rename, remove, replace and add fields, while others create, link and delete records, use a migration's key and evolve the schema. `ImagesStaySound`, `MigratedAsReviewed`, `HistoryStaysWhole`. |
| `clients` | 56,921 | Creations by natural key, query pages, two event feeds and the lookups of the Memory bridge among other writers. `OneRecordPerNaturalKey`, `AdmissionsRepeatable`, `PagingLosesOnlyToWrites`, `FeedsLoseNothing`, `EvidenceBelongs`, and, under weak fairness, `EventsArrive`. |
| `canvas` | 5,637 | Two actors and another client on two documents, every call submitted at any time and again. `HistoryFaithful`, `RetriesAnswered`, `CanGoBack`, `BoardsStayEditable`. |
| `database_files` | 2,027,525 | Two processes open, write, back up, export, restore, import, inspect, recover and initialise, die, find files damaged and meet work that fails. `RestoredStays`, `QuarantineJustified`, `NothingIsReplaced`. |
| `migrations` | 3,146,490 | Two processes create, bind, open and migrate over two migrations, two scopes and two directories, with damage and reads that throw: `LedgerSound`, `HandlesSound`, `OnlyMigrationsMislead`, `DatabaseKept`. |
| `migration_race` | violation | `FailedKeepsOldFormat` fails (section 6). |
| `lifecycle` | 156,666 | All four commands in two processes, failures, crashes, stale locks, cooperative writers. `ForeignKept`, `FailedCallsRestore`, and, under weak fairness, `CommandsEnd`. |
| `lifecycle_files` | 889,036 | Without uninstall, against writers that ignore the lock: `FilesBeforeEntry`. |
| `lifecycle_uninstall` | violation | `NewerRegistryPreserved` fails (section 6). |

The type invariants: `TypeOK` of RecordTransactions is an invariant of `records`
and proved; those of ExtensionLifecycle and FormatMigrations are proved (they are
part of the inductive invariants) and not run; in the other modules `TypeOK` is the
first conjunct of one of the properties above (`ReplaysVerify`, `ImagesStaySound`,
`FeedsLoseNothing`, `BoardsStayEditable`, `RestoredStays`), and proved with it.
`SchemasOnlyGrow`,
`ReferentialIntegrity` and `PortableStates` are asked where schemas change, in
`schemas`.

**Bounds.** The engine models have no counters to bound: a key binds once, so
seven keys bound the events, fields are declared once, so two fields bound the
schema versions, and a version cannot exceed the number of keys. Two records,
two fields, two actors and one clientRef are the least that let two records
refer to each other, a field be declared while another is in use, a key be used
by another actor, and a name be bound twice. Two processes are one that stands
between two steps of its call and one that does everything others may do
meanwhile: a process may call again as often as it likes, and only one can hold
the lock. The requests of a run (`RecordsAndTransactions`, `SchemaCalls`, ...)
are chosen so that each guard fails somewhere and each pair of conflicting steps
occurs; the comments of `MCRecordTransactions` name the cases. In the lifecycle,
`FileCount` is the code's three files, `MaxForeign = 2` is one write before the
comparison and one after, two processes are one that died and one that goes on.
Requests that have all been bound would leave only replays; the engine models
never deadlock because a call may always be submitted again.
`MCBulk.cfg` turns the deadlock check off: a bulk caller makes its call once.
In FormatMigrations, `Target = 3` gives a path of two migrations, of which the
first can be done and the second not; each attempt at migrating uses up a
directory unless its backup fails, so that two directories are two attempts. Two
bindings are the least for a conflict of scopes. These
runs turn the deadlock check off: every call is refused once the file is
quarantined.
In `schema_migrations` each of two keys carries one migration, so that one
migration follows another over records written before, between and after them;
ten keys bound the events. `database_files` allows two files and one fault, a
damage or a location at which work fails (as often as it likes): one
database may be removed and another appear while a handle on the first is open,
and one write makes the installed file differ from the artifact; one artifact
directory is enough because the hazard is two callers that name the same one.
`canvas` has three keys, hence at most three changes on top of an older document:
an edit, what makes its retry refuse, and a third party; the limits of a board are
small enough to be met. `clients` has three records, so that a deletion between
two pages of one record shifts the rest, and six keys; `Window` is 2, less than the
events a record can have. These four turn the deadlock check off because the
modelled calls may all have been made, or files be used up.

**Quarantine.** Three properties say what the marker means, and their wording follows
from what the code can promise. `QuarantineHolds`: the marker is no part of any
commit, so a call that had looked at it for the last time before it appeared
(`PastTheMarker`: at its commit, or a schema update before or in its transaction) may
still publish, once; no other call gets that far any more. `OnlyMigrationsMislead` and
`QuarantineJustified`: a marker means damage, a migration or a file taken back, or
else that some read or some work on that very file has thrown. The last is a wide
door, which the code leaves open (section 6); what the properties keep is that with
it shut creators, restorers and inspectors do not condemn one another.

**Fairness.** better-sqlite3 is synchronous: once a call has begun, the process
runs nothing else until it returns. `FairSpec` therefore asks weak fairness of
each process' `Serve`, the steps of a call, and none of `Call`, `ReadSchema`,
`Crash` or `MarkQuarantined`. No fairness of the lock is assumed: SQLite's busy
timeout (`Busy`) ends the waiting. The lifecycle commands are synchronous too;
`FairSpec` asks weak fairness of `Run` and none of failures and crashes. In
ClientSessions the fairness is the subscriber's: the library does not poll by
itself, its documentation leaves that to the automation layer, and `EventsArrive`
holds of one that goes on polling with the cursor it kept (`WF_vars(Poll(f, f))`).
Nobody is made to write.

## 4. What TLAPS proves

Every invariant and action property that a passing run checks, and both refinements,
are also theorems for every value of the constants. Liveness is left to TLC.

**Images** (*DataStoreProofs*). For every image operator one lemma per question: it
maps typed images to typed images, keeps the index exact and every record readable
(`CreatedSound`, `UpdatedSound`, `DeletedSound`, `ClosedSound`, `EnsuredSound`, ...),
keeps versions and ledger matched with the log (`WrittenLogSound`), rewrites no
history (`WrittenExtends`, ...), adds to the schema only (`EvolvedAdditive`), and
leaves an image that can be exported (`MutatedExportable`). `ImagePortable` shows
that such an image is collected, imported and comes back the same: the rows of
each table determine it, sequences because the positions of a sorted table are
counted (`NumberedCardinality`). `Kept(d)` is the conjunction of these. `Outcome`
is a recursive function over the mutations of a request; its induction is done
once (`RunExists`, `RunsAgree`, `OutcomeInduction`, from the least number for which
a statement fails), so that `PerformedKept` and `RequestedKept` can say of whole
requests, of any length, what the lemmas above say of one operator.

**The engine** (*RecordTransactionsProofs*), for every set of processes, records,
fields, keys, actors and requests. `Invariance` proves `IInv == TypeOK /\
CallsInOrder /\ ImagesInOrder`. The properties speak of `db` alone and are not
inductive: `Commit` replaces `db` by `work`, so the private image must have them
too, and must be a later state of the committed one; `ImagesInOrder` says both.
`CallsInOrder` says that only the lock holder is inside a transaction, that a
process serves a submitted request, and that one which is about to commit, or has,
has bound its key. Further properties rest on invariants of their own on top of it:

* `NoUpdateIsLost`, `ReceiptsAreExact` on `LogsInOrder` (both images match their
  logs). That histories name the version before them needs that a create names no
  version, which `Acceptable` says and input validation ensures.
* `SchemasGrow` on `SchemasInOrder`: between `ReadSchema` and `CommitSchema` a catalog
  caller holds a definition that keeps every field of the version it read, and that
  version is still in the list; from `WriteSchema` on its private image is the
  committed one with that definition.
* `TransactionsAreBlocks` on `BlocksInOrder`: in the body of a transaction the last
  events of `work` are its children, in order, under its number.
* `AnswersAreDurable` on `AnswersInOrder`: from the commit on, the key of the call is
  bound to its own request, and a reply shows what the ledger holds.
* `ExportsSucceed` on `ExportsInOrder`: what an open transaction will say it returned
  is stored.
* `HistoryKept` is an action property, from what each step does to the two images.
* `QuarantineStops` likewise: an action that takes a call past the marker has looked at
  it, and one that publishes takes its call out of `PastTheMarker`.
* `Refinement`: `Spec => ImplementsAtomicStore`. `WholeInOrder` says that while a
  transaction is open its private image is the outcome, on the committed image, of
  the mutations done so far on some choice of records, and before the commit that of
  the whole request; so `Commit` is one `Performed` and `CommitSchema` one field
  addition. Since `Atomic!Requested` and `Requested` are two instances of the same
  text, lemmas `SameReads` ... `SameRequests` first show that they are equal.

**Bulk** (*ReviewedChangesProofs*), for any processes, bulk requests and other callers.

* `CommittedAsReviewed`. The preview and the commit are two transactions, between
  which others write. `Moves(d, e)` says how records change: a record is left alone or
  gets a later version, and if it is active then it was written under a schema at
  least as new as that of `d`. `Shows` says what the digest of a mutation that
  succeeded contains, `Stays(d, b, g)` that this is what the mutation would show on
  `d` too, except that the schema version may be later. A preview's digest stays on
  its image (`PreviewStays`), moves keep it (`StaysOn`), and a commit on an image on
  which it stays matches it (`CommitAsReviewed`). The case that takes the work is a
  delete: its item shows the schema version of the row, not that of the schema.
* `ReplaysAreVerified`: `Backed` says that the entry of a bulk key and that of its
  transaction exist together and agree.
* `BulkRefinement`: `Spec => ImplementsAtomicStore`. A commit is `Performed` of the
  request's transaction; everything else leaves the database alone.

**Migrations** (*ReviewedChangesProofs*), for any proposals, processes and other callers.
`MigrationInvariance` proves `MigrationIInv`: types, `Kept(store)`, transactions are
blocks, and `AllCarriedOut`: what each migration committed is what its digest said, no
active record is under an older version, and whatever version loses a field is that of
an approved migration. `Kept` does not ask that versions only add, so that all lemmas
on images hold here too. `MigrationsStaySound`, `MigrationsAsReviewed` and
`MigrationHistoryStaysWhole` follow.

* A migration's rewrites are a recursive function over the active records in the order
  of their creation (`InOrder`, a numbering by `OrderNumbers`). `FirstRewritten` says
  what holds after the first `n`: the image is `Kept`, the `n` records have the planned
  rows, events and ledger entries (`RewrittenIn`), everything else is as it was. It
  holds of none (`NoneRewritten`), is passed on by each rewrite, which is a `Written`
  (`OneMoreRewritten`), and so holds of all (`AllRewritten`). The plan was made on one
  image and each rewrite works on another: what the plan has validated (references to
  active records, versions read) still stands there, because rewrites delete nothing
  and each record comes up once.
* `CarriedOut` is what a migration's entry says of log, ledger and schemas. A migration
  establishes it (`ExecutedCarriesOut`), and whatever extends the database and writes
  records under the current schema version keeps it (`CarriedOutStands`): other callers
  (`OthersLeaveMigrations`) and later migrations.
* A rewrite's key is no key of others (`MigrationAssumption`), hence unbound when it is
  written; the whole is closed like any transaction (`ClosedBlocks`), and binds the
  migration's key to its one receipt (`CarriedOutBinds`).

**Clients** (*ClientSessionsProofs*), for any natural keys, queries, subscriptions and
callers.

* `NaturalKeysUnique`. `OneForAll` (one active record holds an owned value) is kept by
  requests that write only values of a set which excludes it (`WritesOnly`, by
  induction over the request's mutations); defaults count as written, so the
  invariant also says which defaults the schema can have (`DefaultsKnown`).
* `AdmissionsRepeat` on `AdmissionsInOrder`: the receipt of an answered creation names
  its record, and receipts are final.
* `FeedsComplete` on `FeedsInOrder`: what is asked for at or before a cursor, or before
  something delivered, has been delivered.
* `EvidenceBelongsTogether` on `Evident`: what was known when the lookup began, with
  the events and receipts it has found, agrees with the log.
* `PagesLoseOnlyToWrites` on `ScanInOrder`, an invariant of its own that asks nothing
  of the writes. While a query goes on, the steady records before the offset that were
  not returned (`Skipped`) are no more than have left; what was returned twice, with
  what will be (`Again`: returned already, and still after the offset), is no more than
  has entered. The lemma behind both is `PushedForward`: of the records that stay in a
  set which changes, no more come to be among its first `n` than leave those. It is
  applied to a write and to its reverse (`SkippedMore`, `AgainMore`); a page skips
  nothing and keeps the balance (`PageSkips`, `PageRepeats`).

**Database files** (*DatabaseFilesProofs*), for any processes, locations, directories,
files and faults. `FilesInvariance`: every file that was written to holds an image
that is `Kept`, every artifact and every state a call holds was collected from one
(`Genuine`); a handle is on the file of its location or on one that is gone; the file
a restore has installed has the location's binding and has only grown since; no two
calls own what is at one location or write to one directory (`Apart`); whoever is
about to quarantine has met damage, a file that is gone, or work that failed at this
location (`Suspects`). The step lemmas split each step into
what it does for its own call and a frame that the calls of others survive.
`RestoresStay`, `QuarantinesJustified` and the action property `NothingReplaced` follow.

**Canvas** (*CanvasDocumentsProofs*), for any documents, actors, keys, edits and limits
of a board. `CanvasInvariance`: a revision is in the archive exactly when its key is in
the ledger, a revision of the version a document has is that version, an update or
deletion in the ledger has moved its document on; every part of a call keeps this
(`Keeps` lemmas compose to one lemma per call). `HistoriesAreFaithful`,
`RetriesRecognised`, `VersionsAreKept` and `NotesCanBeRemoved` follow; the last also
needs that every edit yields a valid board.

**Lifecycle** (*ExtensionLifecycleProofs*), for any processes, files and foreign writes.

* `LifecycleInvariance`, `TypeCorrect`, and `ForeignSafe` (if the other writers respect
  the lock, `ForeignKept`): only the process named in the lock is inside a command,
  and the registry is, up to Data's own entry, the snapshot it works from.
* `FilesFirst`: without uninstall, `FilesBeforeEntry`, even if the others ignore the
  lock. An install that has saved a missing or old file, and might still put it back,
  works under an entry that is not this version's (`FInv`).
* `FailuresRestore`: if the others respect the lock, `FailedCallsRestore`. Until the
  call reports that its rollback failed, what it found of a file is what it has
  saved of it or, where it has saved nothing, what the file still holds (`UInv`).

**Format migrations** (*FormatMigrationsProofs*), for any processes, scopes, directories
and target format.

* `MigrationInvariance`, `TypeCorrect`, `LedgerIsSound`, `HandlesAreSound`,
  `DatabasesAreKept`: what a process has read of the file (version, binding) is at
  most what the file is now, and a backup under construction has one owner and no
  ledger row.
* `CreatorsAreNotMisled`: `OnlyMigrationsMislead`. Where nothing was damaged and no
  read has thrown, a call ends in `Corrupt` only if its two reads of the identity
  differ, and they do only if a migration was applied between them, which leaves a
  row (`QInv`).
* `FailuresKeepFormat`: if at most one process migrates, `FailedKeepsOldFormat`. Run
  `migration_race` shows that the assumption is needed.

The assumptions are the modules' `ASSUME`s; TLC evaluates them in every run. They say
that sentinel values are no members of the sets they extend, that requests are
what validation lets through (`AcceptableCalls`), and what section 2 lists.

**Only model-checked:** liveness (`CallsEnd`, `CommandsEnd`, `EventsArrive`), because
the prover has no ENABLED.

## 5. What is not modelled

`PROJECT.json` gives every component its status and reason. Formatting, codecs
(portable JSON, cursors' encoding, canonical JSON) and pure validators are
sequential functions over unbounded text and stay with the unit tests. The
facades over the client (apps, bots, connections, brain, dashboard, host adapter)
add no state: they compare a lease, a grant or a declaration with what they are
given and forward the call. Doctor, compatibility and instruction discovery only
read. Purpose values are loops of single reads. Of the query engine, sort keys,
projection and aggregates are left out; of the memory bridge, `lookupEvent` and the
candidates, which search the same page of events as `recordEvidence`; of the
catalog, spaces and the refusals of removal.

What is left: the measures by which `CallsEnd` and `CommandsEnd` descend (a call has
finitely many mutations, a command finitely many files) could be stated and proved as
action properties, without fairness; and an uninstall that dies between its files
and its registry entry has no property yet (`hazards`).

## 6. Findings

Each of these is a run that TLC finds violated:

* **Uninstall's rollback** (`lifecycle_uninstall`). An uninstall that finds a
  changed registry reports that nothing was replaced and then, in its rollback,
  replaces the newer registry by the text it had read
  (`native/secure-lifecycle.ts:159-171`, called at `:234-238`).
* **Two migrators** (`migration_race`). The process that loses a race between two
  `migrate` calls marks the migration the other has completed as failed
  (`storage/sqlite-migrations.ts:1012`): the format has advanced, the ledger is
  incomplete, and neither open nor migrate accepts the database again.
  `docs/INTERNAL-MIGRATIONS-V0.1.md:209-215` promises that after a failure the old
  format is still there to be retried.

Other places where code and documentation differ, met while modelling. The
checked properties are stated so that they hold of the code:

* `DataBulk.execute` compares the digest of a second preview and opens the
  committing transaction afterwards; a schema evolution in between is committed
  under a digest nobody reviewed, which `docs/BULK-OPERATIONS-V0.1.md:208` and `:431`
  exclude. `CommittedAsReviewedButSchema` shows that nothing else can differ.
* `writeRegistryAtomic` compares, then renames; a writer that ignores the lock can
  lose its write in between, which
  `docs/EXTENSION-MATERIALIZATION-REGISTRATION-V0.1.md:284-286` excludes.
  `ForeignKept` is therefore checked with cooperative writers.
* `readMetadata` reads the metadata rows and `user_version` separately; a migration
  that commits in between makes open quarantine a sound database
  (`storage/sqlite-driver.ts:362`), which `docs/CORRUPTION-AND-RECOVERY-V0.1.md:277`
  excludes. `OnlyMigrationsMislead` shows that, damage and reads that throw apart,
  nothing else does.
* Failures that say nothing about the file leave a quarantine marker.
  `readMetadata` and `runIntegrityCheck` (`storage/sqlite-driver.ts:313-319`, `:455-461`)
  turn whatever is thrown, SQLITE_BUSY included, into DATABASE_CORRUPT;
  `DataRecovery.inspect` does so with any error of opening, copying, opening the
  snapshot or collecting (`recovery/engine.ts:300-305`, `:332-335`, `:350-361`,
  `:388-397`), a full temporary directory included.
  `docs/CORRUPTION-AND-RECOVERY-V0.1.md:129` writes the marker for "confirmed
  corruption", counts a failed snapshot "because the source is physically
  unreadable" (`:73`) and keeps `unavailable` apart (`:106-125`); it does count an
  integrity check that cannot be completed (`:71`). `QuarantineJustified` and
  `OnlyMigrationsMislead` allow for it (`failed`, `thrown`).
* `SqliteCatalogStorage.updateSchema` reads the marker once, before its transaction
  (`storage/sqlite-catalog-store.ts:325`), so that a schema version may be stored and
  committed after the marker has appeared; so may, for any call, a transaction that
  is about to commit. `docs/CORRUPTION-AND-RECOVERY-V0.1.md:175-189` says that
  corruption discovered after a handle was opened still blocks new mutations.
  `QuarantineHolds` says how far it does.
* A creation by natural key whose key replays after its record was deleted or given
  another value answers `state: "created"`, `idempotentReplay: false` with the old
  snapshot (`native/natural-key-create.ts:230-243`). Nothing is created
  (`AdmissionsRepeatable`).
* The Memory bridge looks for an event among the first 200 of the workspace or
  record (`memory/bridge.ts:396`, `:477`, `:512`), and answers without a receipt, or
  that the event was not found, when there are more;
  `docs/MEMORY-BRIDGE-V0.1.md:23` promises that evidence can be opened again by
  event, receipt or key. `EvidenceBelongs` shows that this is the only reason. A
  reference with a version resolves to the record's current version.
* The retry of a Canvas creation is refused once the document was edited
  (`CANVAS_HISTORY_INVALID`) or deleted, although its key is bound; `RetriesAnswered`
  says which retries are answered.
* A restore or import that finds, when it reopens what it has just linked, another
  state than the artifact's removes the file (`backup/engine.ts:503-519`), also when
  the difference is a record that another process, which found the database in
  place, has committed meanwhile, or when reopening or comparing has merely thrown.
  `NothingIsReplaced` (`UndoesInstall`) shows that these, damage and a quarantine
  marker are the only reasons for which a database goes.
