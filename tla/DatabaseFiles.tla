---------------------------- MODULE DatabaseFiles ----------------------------
(***************************************************************************)
(* The database files of AI-Verse Data and what happens to them as wholes: *)
(* they are opened and created, backed up and exported, restored and       *)
(* imported, inspected, quarantined, staged for recovery and initialised   *)
(* for a workspace.                                                        *)
(*                                                                         *)
(* A location is a canonical path; the file at it may be removed, while a  *)
(* handle or a reader still holds it, and another may be linked there.     *)
(* Every access to the file system or to the content of a file is a step,  *)
(* and processes interleave, fail and die between any two.  Staging files, *)
(* sealed copies and snapshots have names nobody else knows: they are the  *)
(* private state of the process that makes them.                           *)
(*                                                                         *)
(* What an open does to a file of another format or without a binding is   *)
(* in FormatMigrations; what a transaction does to an image, in            *)
(* RecordTransactions.                                                     *)
(***************************************************************************)
EXTENDS PortableState

CONSTANTS
  Procs,        \* processes
  Locations,    \* canonical database paths
  BindingOf(_), \* the binding of the scope a location belongs to
  Misplaced,    \* locations somebody may have copied another's database to
  Stranger,     \* the binding of such a database
  Workspaces,   \* the locations that belong to active workspaces
  Directories,  \* artifact directories
  MaxFiles,     \* a bound: the files ever created
  MaxFaults,    \* a bound: the files and payloads that get damaged and the locations
                \* at which work fails
  Fragile,      \* a bound: the locations whose files get damaged
  Flaky,        \* a bound: those at which work on a sound file may fail
  Submissions,  \* the requests of those who have a database open
  BaseSchema,   \* the entity's first schema version
  Empty         \* a file nothing has been written to

VARIABLES
  files,      \* the file at each location
  disk,       \* the content of each file
  marked,     \* whether a location has a quarantine marker
  artifacts,  \* the artifact in each directory
  failed,     \* the locations at which some work has failed
  pc, call    \* what each process is doing

vars == <<files, disk, marked, artifacts, failed, pc, call>>

Bindings  == {Stranger} \cup {BindingOf(l) : l \in Locations}
Healths   == {"sound", "physical", "semantic"}
Databases == [image : Images, binding : Bindings, health : Healths]

\* What backups and exports consist of.
Summaries ==
  [schemas     : SUBSET [version : Nat, schema : Schemas],
   records     : SUBSET [rec : Ids, row : Rows],
   relations   : SUBSET [source : Ids, field : Fields, target : Ids],
   idempotency : SUBSET [key : Keys, entry : Entries],
   provenance  : SUBSET [sequence : Nat, event : Events]]
Payloads  == [state : Summaries, binding : Bindings, health : Healths, intact : BOOLEAN]
Manifests == [state : Summaries, binding : Bindings, digest : Payloads]
Artifacts ==
  [payload : Payloads \cup {Nil}, manifest : Manifests \cup {Nil}, receipt : BOOLEAN]

ASSUME FilesAssumption ==
  /\ AcceptableCalls(Submissions, {}, BaseSchema)
  /\ Misplaced \cup Workspaces \cup Fragile \cup Flaky \subseteq Locations
  /\ Stranger \notin {BindingOf(l) : l \in Locations}
  /\ MaxFiles \in Nat \ {0}
  /\ MaxFaults \in Nat
  /\ Empty \notin Databases
  /\ Nil \notin Nat \cup Payloads \cup Manifests \cup Artifacts

(***************************************************************************)
(* Artifacts.  A payload is a copy of the database or its portable state,  *)
(* and a caller verifies and restores an artifact as what it is.  The      *)
(* digest of a payload is the payload; the receipt seals it and the        *)
(* manifest.                                                               *)
(***************************************************************************)
Payload(content) ==
  [state   |-> Collected(content.image),
   binding |-> content.binding,
   health  |-> content.health,
   intact  |-> TRUE]

Manifest(summary, binding, payload) ==
  [state |-> summary, binding |-> binding, digest |-> payload]

EmptyDirectory == [payload |-> Nil, manifest |-> Nil, receipt |-> FALSE]

\* The payload opens, or parses, and what is collected from it is well-formed.
Readable(payload) ==
  /\ payload # Nil
  /\ payload.intact
  /\ payload.health = "sound"
  /\ Imports(payload.state)

\* readArtifact: the artifact is whole, and nobody changed its payload.
Sealed(artifact, binding) ==
  /\ artifact # Nil
  /\ artifact.manifest # Nil
  /\ artifact.receipt
  /\ artifact.manifest.binding = binding
  /\ artifact.payload = artifact.manifest.digest

\* verifyBackup, verifyPortableExport.
Verifies(artifact, binding) ==
  /\ Sealed(artifact, binding)
  /\ Readable(artifact.payload)
  /\ artifact.payload.binding = binding
  /\ artifact.payload.state = artifact.manifest.state

(***************************************************************************)
(* Calls.  "at" is the location the current part of a call works on, and   *)
(* "then" what an inspection's report is for.                              *)
(***************************************************************************)
NoCall ==
  [op |-> "none", at |-> Nil, to |-> Nil, dir |-> Nil, file |-> Nil, existed |-> FALSE,
   held |-> Nil, then |-> "end"]

Calling(op, l) == [NoCall EXCEPT !.op = op, !.at = l]

NewDatabase(binding) ==
  [image |-> EmptyImage(BaseSchema), binding |-> binding, health |-> "sound"]

Init ==
  /\ \/ files = [l \in Locations |-> Nil] /\ disk = <<>>
     \/ \E m \in Misplaced :
          /\ files = [l \in Locations |-> IF l = m THEN 1 ELSE Nil]
          /\ disk = <<NewDatabase(Stranger)>>
  /\ marked = [l \in Locations |-> FALSE]
  /\ artifacts = [dir \in Directories |-> Nil]
  /\ failed = {}
  /\ pc = [p \in Procs |-> "idle"]
  /\ call = [p \in Procs |-> NoCall]

Goto(p, step) == pc' = [pc EXCEPT ![p] = step]

Return(p) ==
  /\ Goto(p, "idle")
  /\ call' = [call EXCEPT ![p] = NoCall]

Faults ==
  Cardinality({n \in 1..Len(disk) : disk[n] # Empty /\ disk[n].health # "sound"})
    + Cardinality({dir \in Directories :
        /\ artifacts[dir] # Nil
        /\ artifacts[dir].payload # Nil
        /\ ~artifacts[dir].payload.intact})
    + Cardinality(failed)

\* What p does at its location throws although nothing is wrong with a file: the
\* file is busy, or a disk, the temporary directory or the table of open files is
\* full.  (A call that throws and leaves nothing behind ends as in Crash.)
Fails(p) ==
  /\ call[p].at \in Flaky
  /\ Faults < MaxFaults \/ call[p].at \in failed
  /\ failed' = failed \cup {call[p].at}

\* The file at the location the process works on.
Here(p) == files[call[p].at]

\* What the process's handle is on.
Handle(p) == disk[call[p].file]

NewFile == Len(disk) + 1
CanAllocate == Len(disk) < MaxFiles

(***************************************************************************)
(* Opening a database, writing to it, closing it.                          *)
(***************************************************************************)
OpenAt(p, c) ==
  /\ IF marked[c.at] THEN Return(p)
     ELSE /\ Goto(p, "connect")
          /\ call' = [call EXCEPT ![p] = [c EXCEPT !.existed = files[c.at] # Nil]]
  /\ UNCHANGED <<files, disk, marked, artifacts, failed>>

Open(p) ==
  /\ pc[p] = "idle"
  /\ \E l \in Locations : ~marked[l] /\ OpenAt(p, Calling("client", l))

\* SQLite creates the file when there is none.
Connect(p) ==
  /\ pc[p] = "connect"
  /\ Goto(p, "probe")
  /\ IF Here(p) # Nil
       THEN /\ call' = [call EXCEPT ![p].file = Here(p)]
            /\ UNCHANGED <<files, disk>>
       ELSE /\ CanAllocate
            /\ files' = [files EXCEPT ![call[p].at] = NewFile]
            /\ disk' = Append(disk, Empty)
            /\ call' = [call EXCEPT ![p].file = NewFile]
  /\ UNCHANGED <<marked, artifacts, failed>>

\* A file that was there before it was opened is not initialised.
Bootstrap(p) ==
  /\ Handle(p) = Empty
  /\ ~call[p].existed
  /\ disk' = [disk EXCEPT ![call[p].file] = NewDatabase(BindingOf(call[p].at))]

Opened(p) ==
  /\ Goto(p, IF call[p].op = "init" THEN "created" ELSE "open")
  /\ call' = [call EXCEPT ![p].existed = FALSE]

\* validateOrBootstrap, the integrity check and the binding.  Metadata that
\* cannot be read and a check that cannot be made are corruption as well.
Probe(p) ==
  /\ pc[p] = "probe"
  /\ \/ /\ Bootstrap(p)
        /\ Opened(p)
        /\ UNCHANGED failed
     \/ /\ \/ /\ Handle(p) # Empty
              /\ (Handle(p).health = "physical" /\ UNCHANGED failed) \/ Fails(p)
              /\ UNCHANGED disk
           \/ Bootstrap(p) /\ Fails(p)
        /\ Goto(p, "mark")
        /\ call' = [call EXCEPT ![p].then = "end"]
     \/ /\ Handle(p) # Empty
        /\ Handle(p).health # "physical"
        /\ Handle(p).binding = BindingOf(call[p].at)
        /\ Opened(p)
        /\ UNCHANGED <<disk, failed>>
     \/ /\ \/ Handle(p) = Empty /\ call[p].existed
           \/ Handle(p) # Empty /\ Handle(p).binding # BindingOf(call[p].at)
        /\ Return(p)
        /\ UNCHANGED <<disk, failed>>
  /\ UNCHANGED <<files, marked, artifacts>>

\* assertWritable: the marker of the location that was opened.
MayWrite(p) == ~marked[call[p].at]

Write(p) ==
  /\ pc[p] = "open"
  /\ MayWrite(p)
  /\ \E image \in Requested(Handle(p).image, Submissions, {}) :
       disk' = [disk EXCEPT ![call[p].file].image = image]
  /\ UNCHANGED <<files, marked, artifacts, failed, pc, call>>

Close(p) ==
  /\ pc[p] = "open"
  /\ Return(p)
  /\ UNCHANGED <<files, disk, marked, artifacts, failed>>

(***************************************************************************)
(* createBackup and createPortableExport, over an open handle.             *)
(***************************************************************************)
\* Mutant: a directory that exists is used.
ReuseDirectory(p, dir) ==
  artifacts' = [artifacts EXCEPT ![dir] = EmptyDirectory]

\* mkdir refuses a directory that exists.
MakeDirectory(p, dir) ==
  /\ artifacts[dir] = Nil
  /\ artifacts' = [artifacts EXCEPT ![dir] = EmptyDirectory]

Backup(p) ==
  /\ pc[p] = "open"
  /\ \E dir \in Directories :
       /\ MakeDirectory(p, dir)
       /\ call' = [call EXCEPT ![p].dir = dir]
  /\ Goto(p, "copy")
  /\ UNCHANGED <<files, disk, marked, failed>>

Artifact(p) == artifacts[call[p].dir]

\* backupTo: a consistent copy of what is committed.
CopyPayload(p) ==
  /\ pc[p] = "copy"
  /\ artifacts' = [artifacts EXCEPT ![call[p].dir].payload =
                     Payload(Handle(p))]
  /\ Goto(p, "inspect-payload")
  /\ UNCHANGED <<files, disk, marked, failed, call>>

\* inspectSqlitePayload: the summary is that of the copy.
InspectPayload(p) ==
  /\ pc[p] = "inspect-payload"
  /\ Readable(Artifact(p).payload)
  /\ call' = [call EXCEPT ![p].held = Artifact(p).payload.state]
  /\ Goto(p, "seal")
  /\ UNCHANGED <<files, disk, marked, artifacts, failed>>

\* captureConsistentPortableState: a snapshot, checked and collected, before
\* there is a directory.
Export(p) ==
  /\ pc[p] = "open"
  /\ Readable(Payload(Handle(p)))
  /\ call' = [call EXCEPT ![p].held = Collected(Handle(p).image)]
  /\ Goto(p, "directory")
  /\ UNCHANGED <<files, disk, marked, artifacts, failed>>

ExportDirectory(p) ==
  /\ pc[p] = "directory"
  /\ \E dir \in Directories :
       /\ MakeDirectory(p, dir)
       /\ call' = [call EXCEPT ![p].dir = dir]
  /\ Goto(p, "payload")
  /\ UNCHANGED <<files, disk, marked, failed>>

WritePayload(p) ==
  /\ pc[p] = "payload"
  /\ artifacts' = [artifacts EXCEPT ![call[p].dir].payload =
                     [state   |-> call[p].held,
                      binding |-> BindingOf(call[p].at),
                      health  |-> "sound",
                      intact  |-> TRUE]]
  /\ Goto(p, "seal")
  /\ UNCHANGED <<files, disk, marked, failed, call>>

\* The manifest, whose digest is that of the payload as it is now, and the
\* receipt: without the receipt nobody accepts the directory.
Seal(p) ==
  /\ pc[p] = "seal"
  /\ artifacts' = [artifacts EXCEPT
       ![call[p].dir].manifest =
         Manifest(call[p].held, BindingOf(call[p].at), Artifact(p).payload),
       ![call[p].dir].receipt = TRUE]
  /\ Goto(p, "verify-own")
  /\ UNCHANGED <<files, disk, marked, failed, call>>

Back(p) ==
  /\ Goto(p, "open")
  /\ call' = [call EXCEPT ![p].dir = Nil, ![p].held = Nil]

VerifyOwn(p) ==
  /\ pc[p] = "verify-own"
  /\ Verifies(Artifact(p), BindingOf(call[p].at))
  /\ Back(p)
  /\ UNCHANGED <<files, disk, marked, artifacts, failed>>

\* A step of the backup fails, or its verification does: the directory goes.
BackupFails(p) ==
  /\ pc[p] \in {"copy", "inspect-payload", "payload", "seal", "verify-own"}
  /\ artifacts' = [artifacts EXCEPT ![call[p].dir] = Nil]
  /\ Back(p)
  /\ UNCHANGED <<files, disk, marked, failed>>

\* The next part of a call: an inspection, and what its report is for.
Inspecting(p, c, then) ==
  /\ Goto(p, "inspect")
  /\ call' = [call EXCEPT ![p] =
                [Calling(c.op, c.at) EXCEPT !.to = c.to, !.dir = c.dir, !.then = then]]

(***************************************************************************)
(* restoreBackup and importPortableExport.                                 *)
(***************************************************************************)
VerifyArtifact(p, c) ==
  /\ IF Verifies(artifacts[c.dir], BindingOf(c.at))
       THEN /\ Goto(p, "stage")
            /\ call' = [call EXCEPT ![p] =
                          [c EXCEPT !.held = artifacts[c.dir].manifest.state]]
       ELSE Return(p)
  /\ UNCHANGED <<files, disk, marked, artifacts, failed>>

Restore(p) ==
  /\ pc[p] = "idle"
  /\ \E l \in Locations, dir \in Directories :
       /\ Verifies(artifacts[dir], BindingOf(l))
       /\ VerifyArtifact(p, [Calling("restore", l) EXCEPT !.dir = dir])

\* The payload is read again, copied or materialised, and collected.
Stages(p) ==
  /\ Artifact(p) # Nil
  /\ Readable(Artifact(p).payload)
  /\ Artifact(p).payload.binding = BindingOf(call[p].at)
  /\ Artifact(p).payload.state = call[p].held

\* prepareDestination finds nothing there, and the staging file is made; the
\* one reads the location, the other the artifact.
Stage(p) ==
  /\ pc[p] = "stage"
  /\ IF Here(p) = Nil /\ Stages(p)
       THEN Goto(p, "link") /\ call' = [call EXCEPT ![p].dir = Nil]
       ELSE Return(p)
  /\ UNCHANGED <<files, disk, marked, artifacts, failed>>

StagedDatabase(p) ==
  [image   |-> Materialized(call[p].held),
   binding |-> BindingOf(call[p].at),
   health  |-> "sound"]

\* Mutant: the destination is cleaned up when the link fails.
InstallCleaning(p) ==
  /\ pc[p] = "link"
  /\ IF Here(p) = Nil
       THEN /\ CanAllocate
            /\ files' = [files EXCEPT ![call[p].at] = NewFile]
            /\ disk' = Append(disk, StagedDatabase(p))
            /\ call' = [call EXCEPT ![p].file = NewFile]
            /\ Goto(p, "reopen")
       ELSE /\ Goto(p, "remove")
            /\ UNCHANGED <<files, disk, call>>
  /\ UNCHANGED <<marked, artifacts, failed>>

\* linkSync fails when the destination exists.
Install(p) ==
  /\ pc[p] = "link"
  /\ IF Here(p) = Nil
       THEN /\ CanAllocate
            /\ files' = [files EXCEPT ![call[p].at] = NewFile]
            /\ disk' = Append(disk, StagedDatabase(p))
            /\ call' = [call EXCEPT ![p].file = NewFile]
            /\ Goto(p, "reopen")
       ELSE /\ Return(p)
            /\ UNCHANGED <<files, disk>>
  /\ UNCHANGED <<marked, artifacts, failed>>

\* open-existing, of whatever is at the destination now; an open whose
\* integrity check fails leaves the marker.
DamagedHere(p) ==
  /\ ~marked[call[p].at]
  /\ Here(p) # Nil
  /\ disk[Here(p)] # Empty
  /\ disk[Here(p)].health = "physical"

Reopens(p) ==
  /\ ~marked[call[p].at]
  /\ Here(p) # Nil
  /\ disk[Here(p)] # Empty
  /\ disk[Here(p)].health # "physical"
  /\ disk[Here(p)].binding = BindingOf(call[p].at)

\* The open or the comparison throws.
Abandon(p) ==
  /\ Fails(p)
  /\ Goto(p, "remove")
  /\ call' = [call EXCEPT ![p].then = "failed"]

Reopen(p) ==
  /\ pc[p] = "reopen"
  /\ \/ /\ IF Reopens(p)
             THEN Goto(p, "compare") /\ call' = [call EXCEPT ![p].file = Here(p)]
             ELSE Goto(p, "remove") /\ UNCHANGED call
        /\ marked' = [marked EXCEPT ![call[p].at] = @ \/ DamagedHere(p)]
        /\ UNCHANGED failed
     \/ /\ Abandon(p)
        /\ \/ UNCHANGED marked
           \/ /\ Here(p) # Nil
              /\ disk[Here(p)] # Empty
              /\ marked' = [marked EXCEPT ![call[p].at] = TRUE]
  /\ UNCHANGED <<files, disk, artifacts>>

SameState(p) ==
  /\ Handle(p).health = "sound"
  /\ Collectable(Handle(p).image)
  /\ Collected(Handle(p).image) = call[p].held

Compare(p) ==
  /\ pc[p] = "compare"
  /\ \/ /\ IF SameState(p) THEN Goto(p, "restored") ELSE Goto(p, "remove")
        /\ UNCHANGED <<failed, call>>
     \/ Abandon(p)
  /\ UNCHANGED <<files, disk, marked, artifacts>>

\* cleanupSqlite: the path is removed, whatever is at it.
Remove(p) ==
  /\ pc[p] = "remove"
  /\ files' = [files EXCEPT ![call[p].at] = Nil]
  /\ Return(p)
  /\ UNCHANGED <<disk, marked, artifacts, failed>>

\* The transfer receipt; a staged recovery inspects what was installed.
Restored(p) ==
  /\ pc[p] = "restored"
  /\ IF call[p].op = "recover" THEN Inspecting(p, call[p], "accept") ELSE Return(p)
  /\ UNCHANGED <<files, disk, marked, artifacts, failed>>

(***************************************************************************)
(* DataRecovery.inspect, alone or as a part of another call.               *)
(***************************************************************************)
\* What becomes of a call when its inspection reports a state.
Reported(p, state) ==
  CASE call[p].then = "restore" ->
         /\ Goto(p, "verify")
         /\ call' = [call EXCEPT ![p] = [Calling(@.op, @.to) EXCEPT !.dir = call[p].dir]]
    [] call[p].then = "create" /\ state = "missing" ->
         /\ Goto(p, "create")
         /\ call' = [call EXCEPT ![p] = Calling(@.op, @.at)]
    [] call[p].then = "accept" /\ state = "healthy" ->
         /\ Goto(p, "recovered")
         /\ UNCHANGED call
    [] OTHER -> Return(p)

Inspect(p) ==
  /\ pc[p] = "idle"
  /\ \E l \in Locations : Inspecting(p, Calling("inspect", l), "end")
  /\ UNCHANGED <<files, disk, marked, artifacts, failed>>

\* The marker and the existence of the file; "existed" keeps the marker.
LookForFile(p) ==
  /\ pc[p] = "inspect"
  /\ \/ /\ IF Here(p) = Nil
             THEN Reported(p, "missing")
             ELSE /\ Goto(p, "raw")
                  /\ call' = [call EXCEPT ![p].existed = marked[call[p].at]]
        /\ UNCHANGED failed
     \/ Here(p) # Nil /\ Fails(p) /\ Reported(p, "unavailable")
  /\ UNCHANGED <<files, disk, marked, artifacts>>

\* Mutant: a file nothing has been written to is corrupt.
OpenRawWritten(p) ==
  /\ pc[p] = "raw"
  /\ IF Here(p) # Nil /\ disk[Here(p)] # Empty /\ disk[Here(p)].health # "physical"
       THEN Goto(p, "migration") /\ call' = [call EXCEPT ![p].file = Here(p)]
       ELSE Goto(p, "mark") /\ UNCHANGED call
  /\ UNCHANGED <<files, disk, marked, artifacts, failed>>

\* Whatever fails is called corruption.
CallsItCorrupt(p) ==
  /\ Fails(p)
  /\ Goto(p, "mark")
  /\ UNCHANGED call

\* The file is opened and checked; a file that has gone meanwhile is corrupt too.
OpenRaw(p) ==
  /\ pc[p] = "raw"
  /\ \/ /\ IF Here(p) # Nil /\ (disk[Here(p)] = Empty \/ disk[Here(p)].health # "physical")
             THEN Goto(p, "migration") /\ call' = [call EXCEPT ![p].file = Here(p)]
             ELSE Goto(p, "mark") /\ UNCHANGED call
        /\ UNCHANGED failed
     \/ CallsItCorrupt(p)
  /\ UNCHANGED <<files, disk, marked, artifacts>>

\* What inspectMigration finds, which opens the location again.
FindsMigration(p) ==
  CASE Here(p) = Nil -> Reported(p, "missing")
    [] Here(p) # Nil /\ disk[Here(p)] = Empty -> Reported(p, "unrecognized")
    [] Here(p) # Nil /\ disk[Here(p)] # Empty ->
         IF disk[Here(p)].binding # BindingOf(call[p].at) THEN Reported(p, "scope_conflict")
         ELSE IF call[p].existed THEN Reported(p, "quarantined")
         ELSE Goto(p, "snapshot") /\ UNCHANGED call

\* Metadata that cannot be read are corrupt; another failure is not.
InspectMigration(p) ==
  /\ pc[p] = "migration"
  /\ \/ FindsMigration(p) /\ UNCHANGED failed
     \/ Here(p) # Nil /\ Fails(p) /\ Reported(p, "unavailable")
     \/ Here(p) # Nil /\ disk[Here(p)] # Empty /\ CallsItCorrupt(p)
  /\ UNCHANGED <<files, disk, marked, artifacts>>

\* A snapshot of the file opened first is made, opened and collected.
Diagnose(p) ==
  /\ pc[p] = "snapshot"
  /\ \/ /\ IF /\ Handle(p) # Empty
              /\ Handle(p).health = "sound"
              /\ Collectable(Handle(p).image)
             THEN Reported(p, "healthy")
             ELSE Goto(p, "mark") /\ UNCHANGED call
        /\ UNCHANGED failed
     \/ CallsItCorrupt(p)
  /\ UNCHANGED <<files, disk, marked, artifacts>>

\* markDatabaseQuarantined, at the location; a marker that is there stays.
Mark(p) ==
  /\ pc[p] = "mark"
  /\ marked' = [marked EXCEPT ![call[p].at] = TRUE]
  /\ Reported(p, "quarantined")
  /\ UNCHANGED <<files, disk, artifacts, failed>>

(***************************************************************************)
(* DataRecovery.stage: the source is inspected, an artifact of its binding *)
(* is installed elsewhere, and what was installed is inspected.            *)
(***************************************************************************)
Recover(p) ==
  /\ pc[p] = "idle"
  /\ \E l, to \in Locations, dir \in Directories :
       /\ BindingOf(l) = BindingOf(to)
       /\ l # to
       /\ Inspecting(p, [Calling("recover", l) EXCEPT !.to = to, !.dir = dir], "restore")
  /\ UNCHANGED <<files, disk, marked, artifacts, failed>>

VerifyRecovery(p) ==
  /\ pc[p] = "verify"
  /\ VerifyArtifact(p, call[p])

\* The staged recovery answers.
Recovered(p) ==
  /\ pc[p] = "recovered"
  /\ Return(p)
  /\ UNCHANGED <<files, disk, marked, artifacts, failed>>

(***************************************************************************)
(* initWorkspaceData.                                                      *)
(***************************************************************************)
Initialise(p) ==
  /\ pc[p] = "idle"
  /\ \E l \in Workspaces : Inspecting(p, Calling("init", l), "create")
  /\ UNCHANGED <<files, disk, marked, artifacts, failed>>

\* A database that has appeared meanwhile is inspected; none is created.
Create(p) ==
  /\ pc[p] = "create"
  /\ IF Here(p) # Nil
       THEN /\ Inspecting(p, call[p], "raced")
       ELSE /\ Goto(p, "create-or-open")
            /\ UNCHANGED call
  /\ UNCHANGED <<files, disk, marked, artifacts, failed>>

CreateOrOpen(p) ==
  /\ pc[p] = "create-or-open"
  /\ OpenAt(p, call[p])

\* The new database is closed and must be discovered.
Confirm(p) ==
  /\ pc[p] = "created"
  /\ Inspecting(p, call[p], "confirm")
  /\ UNCHANGED <<files, disk, marked, artifacts, failed>>

(***************************************************************************)
(* The environment.                                                        *)
(***************************************************************************)
Crash(p) ==
  /\ pc[p] # "idle"
  /\ Return(p)
  /\ UNCHANGED <<files, disk, marked, artifacts, failed>>

DamageFile ==
  /\ Faults < MaxFaults
  /\ \E l \in Fragile, health \in {"physical", "semantic"} :
       /\ files[l] # Nil
       /\ disk[files[l]] # Empty
       /\ disk[files[l]].health = "sound"
       /\ disk' = [disk EXCEPT ![files[l]].health = health]
  /\ UNCHANGED <<files, marked, artifacts, failed, pc, call>>

DamagePayload ==
  /\ Faults < MaxFaults
  /\ \E dir \in Directories :
       /\ artifacts[dir] # Nil
       /\ artifacts[dir].payload # Nil
       /\ artifacts' = [artifacts EXCEPT ![dir].payload.intact = FALSE]
  /\ UNCHANGED <<files, disk, marked, failed, pc, call>>

Step(p) ==
  \/ Open(p) \/ Connect(p) \/ Probe(p) \/ Write(p) \/ Close(p)
  \/ Backup(p) \/ CopyPayload(p) \/ InspectPayload(p)
  \/ Export(p) \/ ExportDirectory(p) \/ WritePayload(p)
  \/ Seal(p) \/ VerifyOwn(p) \/ BackupFails(p)
  \/ Restore(p) \/ Stage(p) \/ Install(p) \/ Reopen(p)
  \/ Compare(p) \/ Remove(p) \/ Restored(p)
  \/ Inspect(p) \/ LookForFile(p) \/ OpenRaw(p) \/ InspectMigration(p)
  \/ Diagnose(p) \/ Mark(p)
  \/ Recover(p) \/ VerifyRecovery(p) \/ Recovered(p)
  \/ Initialise(p) \/ Create(p) \/ CreateOrOpen(p) \/ Confirm(p)

Next == DamageFile \/ DamagePayload \/ \E p \in Procs : Step(p) \/ Crash(p)

Spec == Init /\ [][Next]_vars

(***************************************************************************)
(* Properties.                                                             *)
(***************************************************************************)
Contents == Databases \cup {Empty}

TypeOK ==
  /\ files \in [Locations -> 1..Len(disk) \cup {Nil}]
  /\ Len(disk) \in 0..MaxFiles
  /\ \A n \in 1..Len(disk) : disk[n] \in Contents
  /\ marked \in [Locations -> BOOLEAN]
  /\ failed \subseteq Locations
  /\ \A dir \in Directories : artifacts[dir] # Nil /\ artifacts[dir].receipt =>
       artifacts[dir].manifest # Nil /\ artifacts[dir].payload # Nil
  /\ \A p \in Procs :
       /\ call[p].file \in 1..Len(disk) \cup {Nil}
       /\ pc[p] = "open" => call[p].file # Nil /\ Handle(p) \in Databases

\* What a restore reports is there, and everything the artifact held is in it,
\* although others open the file, write to it, inspect it and restore to the
\* same place meanwhile.  (The types, that an open handle is on an initialised
\* database among them, are the first conjunct.)
RestoredStays ==
  /\ TypeOK
  /\ \A p \in Procs : pc[p] \in {"restored", "recovered"} =>
       /\ Here(p) = call[p].file
       /\ Handle(p) # Empty
       /\ Handle(p).binding = BindingOf(call[p].at)
       /\ pc[p] = "restored" => Extends(Materialized(call[p].held), Handle(p).image)

\* Racing creators, initialisers, restorers and inspectors do not take one
\* another's half-done work for corruption.  A location is quarantined only after
\* damage, after a failed installation took a file away, or because work on that
\* very location has failed, which open and inspect call corruption too.
Damaged(n) == disk[n] # Empty /\ disk[n].health # "sound"
Gone(n)    == \A l \in Locations : files[l] # n

QuarantineJustified ==
  \A l \in Locations : marked[l] =>
    l \in failed \/ \E n \in 1..Len(disk) : Damaged(n) \/ Gone(n)

\* A finished artifact.
Finished(dir) ==
  /\ \E l \in Locations : Verifies(artifacts[dir], BindingOf(l))
  /\ \A p \in Procs : call[p].dir = dir => call[p].op # "client"

\* p takes away the file it linked itself, because it is not what p installed any
\* more, may not be opened, or could not be opened or read.
UndoesInstall(p, l) ==
  /\ pc[p] = "remove"
  /\ call[p].at = l
  /\ call[p].file = files[l]
  /\ \/ marked[l]
     \/ call[p].then = "failed"
     \/ Damaged(files[l])
     \/ Collected(disk[files[l]].image) # call[p].held

\* Nothing that others have made is replaced.  A database stays where it is but
\* for a restore that takes back its own failed installation; a finished
\* artifact is neither overwritten nor removed by another backup, whichever of
\* two that name the same directory comes first, fails or dies.
NothingIsReplaced ==
  [][/\ \A l \in Locations :
          files[l] # Nil /\ files'[l] # files[l] =>
            files'[l] = Nil /\ \E p \in Procs : UndoesInstall(p, l)
     /\ \A dir \in Directories : artifacts'[dir] # artifacts[dir] /\ Finished(dir) =>
          /\ artifacts'[dir] # Nil
          /\ artifacts'[dir].manifest = artifacts[dir].manifest]_vars
==============================================================================
