------------------------- MODULE ExtensionLifecycle -------------------------
(***************************************************************************)
(* Registering AI-Verse Data with its host: the commands that install,     *)
(* enable, disable and uninstall it, on the files of one AI-Verse OS root. *)
(*                                                                         *)
(* A command takes the registry's lock file, reads the registry, changes   *)
(* the files the extension owns, compares the registry with what it read,  *)
(* replaces it, reads it once more, and removes the lock file.  Every file *)
(* operation is a step: another writer, an I/O error or the end of the     *)
(* process may come between any two of them.                               *)
(***************************************************************************)
EXTENDS Naturals

CONSTANTS
  Procs,         \* processes that run lifecycle commands
  Commands,      \* the commands they run; "install" is also update
  FileCount,     \* how many files the extension owns
  Cooperative,   \* the other writers of the registry respect its lock
  MaxForeign,    \* bound: how often others write the registry
  Absent,        \* the entry has no "enabled" field
  Untouched,     \* a call keeps nothing of this file
  Nil            \* no entry, no lock, no registry read

Files == 1..FileCount

\* What an owned file holds: nothing, what this version of the package
\* installs, what an older one did, or what somebody wrote into it.
Contents == {"missing", "current", "old", "edited"}

Entries == [enabled : BOOLEAN \cup {Absent}, current : BOOLEAN]

ASSUME LifecycleAssumption ==
  /\ Commands \subseteq {"install", "enable", "disable", "uninstall"}
  /\ FileCount \in Nat \ {0}
  /\ MaxForeign \in Nat
  /\ Cooperative \in BOOLEAN
  /\ Nil \notin Procs \cup Entries
  /\ Untouched \notin Contents

\* The registry document: the entry of this extension, and everything else,
\* as the number of times others have written it.
Registries == [entry : Entries \cup {Nil}, others : Nat]

VARIABLES
  registry,   \* .aiverse/extensions/registry.json
  files,      \* the owned files
  lock,       \* whose lock file exists; it outlives its process
  pc,         \* where each process stands
  call,       \* the command each process runs
  foreign     \* how often others have written the registry

vars == <<registry, files, lock, pc, call, foreign>>

Locations ==
  {"idle", "locked", "files", "verify", "compare", "rename", "final", "undo",
   "release"}

Errors ==
  {"none", "refused", "io", "unverified", "changed", "unconfirmed",
   "rollback_failed"}

\* todo is the next owned file, saved what a rollback puts back, mutated that
\* a file was removed or the registry replaced; was is the state the call
\* found when it took the lock.
Calls ==
  [cmd     : Commands \cup {Nil},
   snap    : Registries \cup {Nil},
   saved   : [Files -> Contents \cup {Untouched}],
   todo    : Nat,
   mutated : BOOLEAN,
   error   : Errors,
   was     : [registry : Registries, files : [Files -> Contents]] \cup {Nil}]

NothingSaved == [i \in Files |-> Untouched]

NoCall == [cmd |-> Nil, snap |-> Nil, saved |-> NothingSaved, todo |-> 1,
           mutated |-> FALSE, error |-> "none", was |-> Nil]

TypeOK ==
  /\ registry \in Registries
  /\ files \in [Files -> Contents]
  /\ lock \in Procs \cup {Nil}
  /\ pc \in [Procs -> Locations]
  /\ call \in [Procs -> Calls]
  /\ foreign \in Nat

\* A fresh host, or one where an older version is installed.
Init ==
  /\ \/ registry = [entry |-> Nil, others |-> 0] /\ files = [i \in Files |-> "missing"]
     \/ /\ registry \in [entry : {e \in Entries : ~e.current}, others : {0}]
        /\ files = [i \in Files |-> "old"]
  /\ lock = Nil
  /\ pc = [p \in Procs |-> "idle"]
  /\ call = [p \in Procs |-> NoCall]
  /\ foreign = 0

(***************************************************************************)
(* The entries the commands write.                                         *)
(***************************************************************************)
\* buildDataExtensionEntry keeps an "enabled" that is there.
EntryAfter(cmd, entry) ==
  CASE cmd = "install"   -> [enabled |-> entry = Nil \/ entry.enabled # FALSE,
                             current |-> TRUE]
    [] cmd = "enable"    -> [entry EXCEPT !.enabled = TRUE]
    [] cmd = "disable"   -> [entry EXCEPT !.enabled = FALSE]
    [] cmd = "uninstall" -> Nil

\* There is no entry, or readEnabled throws because the field is absent.
Refused(cmd, entry) ==
  /\ cmd \in {"enable", "disable"}
  /\ entry \notin [enabled : BOOLEAN, current : BOOLEAN]

FilesCurrent == \A i \in Files : files[i] = "current"

NothingToDo(cmd, entry) ==
  /\ entry = EntryAfter(cmd, entry)
  /\ cmd = "install" => FilesCurrent

\* What the command finds when it reads the registry after its own write.
IsFinal(cmd, snap, entry) ==
  CASE cmd = "install"   -> entry = EntryAfter(cmd, snap.entry)
    [] cmd = "uninstall" -> entry = Nil
    [] cmd = "enable"    -> entry # Nil /\ entry.enabled = TRUE
    [] cmd = "disable"   -> entry # Nil /\ entry.enabled = FALSE

(***************************************************************************)
(* The steps of a command.                                                 *)
(***************************************************************************)
Goto(p, loc) == pc' = [pc EXCEPT ![p] = loc]

\* Mutant: a failure after the registry was replaced undoes the files, too.
UndoAlways(p) == IF call[p].cmd \in {"install", "uninstall"} THEN "undo" ELSE "release"

\* Where a command goes when it fails before its call is done: install undoes
\* the files it wrote unless the registry has been replaced, uninstall
\* whenever there is something to put back, the others have nothing to undo.
AfterFailure(p) ==
  CASE call[p].cmd = "install" /\ pc[p] # "final" -> "undo"
    [] call[p].cmd = "uninstall"
       /\ (call[p].mutated \/ call[p].saved # NothingSaved) -> "undo"
    [] OTHER -> "release"

FailWith(p, error) ==
  /\ Goto(p, AfterFailure(p))
  /\ call' = [call EXCEPT ![p].error = error]

\* Mutant: a lock file that is there is taken over.
AcquireAnyway(p) ==
  /\ pc[p] = "idle"
  /\ \E cmd \in Commands :
       call' = [call EXCEPT ![p] =
         [NoCall EXCEPT !.cmd = cmd,
                        !.was = [registry |-> registry, files |-> files]]]
  /\ lock' = p
  /\ Goto(p, "locked")
  /\ UNCHANGED <<registry, files, foreign>>

\* Exclusive creation of the lock file; EXTENSION_REGISTRY_BUSY otherwise.
Acquire(p) ==
  /\ pc[p] = "idle"
  /\ lock = Nil
  /\ \E cmd \in Commands :
       call' = [call EXCEPT ![p] =
         [NoCall EXCEPT !.cmd = cmd,
                        !.was = [registry |-> registry, files |-> files]]]
  /\ lock' = p
  /\ Goto(p, "locked")
  /\ UNCHANGED <<registry, files, foreign>>

\* The registry as it is now is what the command works from.  Uninstall also
\* copies the owned files it finds.
Snapshot(p) ==
  [call[p] EXCEPT
    !.snap  = registry,
    !.saved = IF call[p].cmd = "uninstall"
                THEN [i \in Files |-> IF files[i] = "missing"
                                        THEN Untouched ELSE files[i]]
                ELSE NothingSaved]

Read(p) ==
  /\ pc[p] = "locked"
  /\ ~Refused(call[p].cmd, registry.entry)
  /\ ~NothingToDo(call[p].cmd, registry.entry)
  /\ call' = [call EXCEPT ![p] = Snapshot(p)]
  /\ Goto(p, IF call[p].cmd \in {"install", "uninstall"} THEN "files" ELSE "compare")
  /\ UNCHANGED <<registry, files, lock, foreign>>

\* "unchanged", "not-installed", or an error: nothing is written.
ReadOnly(p) ==
  /\ pc[p] = "locked"
  /\ \/ /\ Refused(call[p].cmd, registry.entry)
        /\ call' = [call EXCEPT ![p].error = "refused"]
     \/ /\ ~Refused(call[p].cmd, registry.entry)
        /\ NothingToDo(call[p].cmd, registry.entry)
        /\ UNCHANGED call
  /\ Goto(p, "release")
  /\ UNCHANGED <<registry, files, lock, foreign>>

\* materializeOwnedFiles, one file at a time; a file that already holds the
\* installed text is not written and not undone.
WriteFile(p) ==
  /\ pc[p] = "files"
  /\ call[p].cmd = "install"
  /\ call[p].todo \in Files
  /\ LET i == call[p].todo
     IN  /\ files' = [files EXCEPT ![i] = "current"]
         /\ call' = [call EXCEPT
              ![p].saved[i] = IF files[i] = "current" THEN Untouched ELSE files[i],
              ![p].todo = i + 1]
  /\ UNCHANGED <<registry, lock, pc, foreign>>

RemoveFile(p) ==
  /\ pc[p] = "files"
  /\ call[p].cmd = "uninstall"
  /\ call[p].todo \in Files
  /\ LET i == call[p].todo
     IN  /\ files' = [files EXCEPT ![i] = "missing"]
         /\ call' = [call EXCEPT ![p].mutated = @ \/ files[i] # "missing",
                                 ![p].todo = i + 1]
  /\ UNCHANGED <<registry, lock, pc, foreign>>

FilesDone(p) ==
  /\ pc[p] = "files"
  /\ call[p].todo > FileCount
  /\ Goto(p, IF call[p].cmd = "install" THEN "verify" ELSE "compare")
  /\ UNCHANGED <<registry, files, lock, call, foreign>>

\* Install inspects its files again, and skips the registry when its entry is
\* already the one it would write.
Verify(p) ==
  /\ pc[p] = "verify"
  /\ IF FilesCurrent
       THEN /\ Goto(p, IF call[p].snap.entry = EntryAfter("install", call[p].snap.entry)
                         THEN "final" ELSE "compare")
            /\ UNCHANGED call
       ELSE FailWith(p, "io")
  /\ UNCHANGED <<registry, files, lock, foreign>>

(***************************************************************************)
(* writeRegistryAtomic: compare, then rename.                              *)
(***************************************************************************)
Compare(p) ==
  /\ pc[p] = "compare"
  /\ IF registry = call[p].snap
       THEN Goto(p, "rename") /\ UNCHANGED call
       ELSE FailWith(p, "changed")
  /\ UNCHANGED <<registry, files, lock, foreign>>

\* The document is the one that was read, with another entry.
Rename(p) ==
  /\ pc[p] = "rename"
  /\ registry' = [call[p].snap EXCEPT
                    !.entry = EntryAfter(call[p].cmd, call[p].snap.entry)]
  /\ call' = [call EXCEPT ![p].mutated = TRUE]
  /\ Goto(p, "final")
  /\ UNCHANGED <<files, lock, foreign>>

FinalCheck(p) ==
  /\ pc[p] = "final"
  /\ IF IsFinal(call[p].cmd, call[p].snap, registry.entry)
       THEN Goto(p, "release") /\ UNCHANGED call
       ELSE FailWith(p, "unconfirmed")
  /\ UNCHANGED <<registry, files, lock, foreign>>

(***************************************************************************)
(* Rollback.  Install puts its files back in reverse order, and refuses    *)
(* when one of them no longer holds what it installed.  Uninstall writes   *)
(* its copies of the files and then of the registry, without looking.      *)
(***************************************************************************)
Saved(p) == {i \in Files : call[p].saved[i] # Untouched}

\* Mutant: a file that was not there before is left in place.
KeepNewFile(p) ==
  /\ pc[p] = "undo"
  /\ call[p].cmd = "install"
  /\ \E i \in Saved(p) :
       /\ \A j \in Saved(p) : j <= i
       /\ IF files[i] = "current"
            THEN /\ files' = [files EXCEPT ![i] = IF call[p].saved[i] = "missing"
                                                    THEN @ ELSE call[p].saved[i]]
                 /\ call' = [call EXCEPT ![p].saved[i] = Untouched]
                 /\ UNCHANGED pc
            ELSE /\ call' = [call EXCEPT ![p].error = "rollback_failed"]
                 /\ Goto(p, "release")
                 /\ UNCHANGED files
  /\ UNCHANGED <<registry, lock, foreign>>

UndoFile(p) ==
  /\ pc[p] = "undo"
  /\ call[p].cmd = "install"
  /\ \E i \in Saved(p) :
       /\ \A j \in Saved(p) : j <= i
       /\ IF files[i] = "current"
            THEN /\ files' = [files EXCEPT ![i] = call[p].saved[i]]
                 /\ call' = [call EXCEPT ![p].saved[i] = Untouched]
                 /\ UNCHANGED pc
            ELSE /\ call' = [call EXCEPT ![p].error = "rollback_failed"]
                 /\ Goto(p, "release")
                 /\ UNCHANGED files
  /\ UNCHANGED <<registry, lock, foreign>>

\* Mutant: a file that was put back is not struck off.
RestoreForEver(p) ==
  /\ pc[p] = "undo"
  /\ call[p].cmd = "uninstall"
  /\ Saved(p) # {}
  /\ files' = [i \in Files |-> IF i \in Saved(p) THEN call[p].saved[i] ELSE files[i]]
  /\ UNCHANGED <<registry, lock, pc, call, foreign>>

RestoreFile(p) ==
  /\ pc[p] = "undo"
  /\ call[p].cmd = "uninstall"
  /\ \E i \in Saved(p) :
       /\ \A j \in Saved(p) : i <= j
       /\ files' = [files EXCEPT ![i] = call[p].saved[i]]
       /\ call' = [call EXCEPT ![p].saved[i] = Untouched]
  /\ UNCHANGED <<registry, lock, pc, foreign>>

Undone(p) ==
  /\ pc[p] = "undo"
  /\ Saved(p) = {}
  /\ IF call[p].cmd = "uninstall" THEN registry' = call[p].snap ELSE UNCHANGED registry
  /\ Goto(p, "release")
  /\ UNCHANGED <<files, lock, call, foreign>>

ReleaseLock(p) ==
  /\ pc[p] = "release"
  /\ lock' = Nil
  /\ call' = [call EXCEPT ![p] = NoCall]
  /\ Goto(p, "idle")
  /\ UNCHANGED <<registry, files, foreign>>

(***************************************************************************)
(* Failures and the other writers.                                         *)
(***************************************************************************)
\* A file operation throws.  In a rollback that is EXTENSION_ROLLBACK_FAILED.
IoFails(p) ==
  /\ \/ /\ pc[p] = "locked"
        /\ call' = [call EXCEPT ![p].error = "io"]
        /\ Goto(p, "release")
     \/ /\ pc[p] \in {"verify", "compare", "rename"}
        /\ FailWith(p, "io")
     \/ /\ pc[p] = "files"
        /\ call[p].todo \in Files
        /\ FailWith(p, "io")
     \/ /\ pc[p] = "final"
        /\ FailWith(p, "unconfirmed")
     \/ /\ pc[p] = "undo"
        /\ Saved(p) # {} \/ call[p].cmd = "uninstall"
        /\ call' = [call EXCEPT ![p].error = "rollback_failed"]
        /\ Goto(p, "release")
  /\ UNCHANGED <<registry, files, lock, foreign>>

\* Reading an installed file back throws after the rename: the file stays,
\* and atomicWrite has returned no snapshot that a rollback could use.
VerificationFails(p) ==
  /\ pc[p] = "files"
  /\ call[p].cmd = "install"
  /\ call[p].todo \in Files
  /\ files[call[p].todo] # "current"
  /\ files' = [files EXCEPT ![call[p].todo] = "current"]
  /\ FailWith(p, "unverified")
  /\ UNCHANGED <<registry, lock, foreign>>

\* The process ends.  The lock file stays: it is never stolen.
Crash(p) ==
  /\ pc[p] # "idle"
  /\ Goto(p, "idle")
  /\ call' = [call EXCEPT ![p] = NoCall]
  /\ UNCHANGED <<registry, files, lock, foreign>>

\* Somebody removes the lock file a dead process left.
RemoveStaleLock ==
  /\ lock # Nil
  /\ pc[lock] = "idle"
  /\ lock' = Nil
  /\ UNCHANGED <<registry, files, pc, call, foreign>>

OthersMayWrite == Cooperative => lock = Nil

\* Another extension registers, or an operator edits another entry.
ForeignWrite ==
  /\ foreign < MaxForeign
  /\ OthersMayWrite
  /\ registry' = [registry EXCEPT !.others = @ + 1]
  /\ foreign' = foreign + 1
  /\ UNCHANGED <<files, lock, pc, call>>

EditFile ==
  /\ OthersMayWrite
  /\ \E i \in Files :
       /\ files[i] \in {"current", "old"}
       /\ files' = [files EXCEPT ![i] = "edited"]
  /\ UNCHANGED <<registry, lock, pc, call, foreign>>

Run(p) ==
  \/ Read(p) \/ ReadOnly(p) \/ WriteFile(p) \/ RemoveFile(p) \/ FilesDone(p)
  \/ Verify(p) \/ Compare(p) \/ Rename(p) \/ FinalCheck(p)
  \/ UndoFile(p) \/ RestoreFile(p) \/ Undone(p) \/ ReleaseLock(p)

Next ==
  \/ \E p \in Procs :
       Acquire(p) \/ Run(p) \/ IoFails(p) \/ VerificationFails(p) \/ Crash(p)
  \/ RemoveStaleLock \/ ForeignWrite \/ EditFile

Spec == Init /\ [][Next]_vars

\* The commands are synchronous: a process goes on until its call returns.
FairSpec == Spec /\ \A p \in Procs : WF_vars(Run(p))

(***************************************************************************)
(* Properties.                                                             *)
(***************************************************************************)
\* What others have written into the registry is still there, whatever the
\* commands, their failures and their rollbacks did since: each of them
\* replaces the whole document.
ForeignKept == registry.others = foreign

\* A call that failed has left the registry and the owned files as it found
\* them.  Two replies are excepted: "unverified", which says that the rollback
\* failed, and the "unconfirmed" of an install, enable or disable, which keeps
\* the write it could not confirm (an uninstall undoes that too).  What nobody
\* promises is to notice others who edit the owned files meanwhile, or who write
\* the registry without the lock: the run's other writers are Cooperative.
FailedCallsRestore ==
  \A p \in Procs :
    /\ pc[p] = "release"
    /\ \/ call[p].error \in {"io", "changed", "refused"}
       \/ call[p].error = "unconfirmed" /\ call[p].cmd = "uninstall"
    => registry = call[p].was.registry /\ files = call[p].was.files

\* Where nothing is uninstalled, an entry of this version never stands over
\* owned files that are missing or older than it, also after a crash.
FilesBeforeEntry ==
  registry.entry # Nil /\ registry.entry.current =>
    \A i \in Files : files[i] \notin {"missing", "old"}

\* A command that finds that the registry has changed leaves the newer one.
NewerRegistryPreserved ==
  [][\A p \in Procs : call[p].error = "changed" /\ pc'[p] # pc[p] =>
       registry' = registry]_vars

\* A command ends: the process returns, with whatever result, or dies.
CommandsEnd == \A p \in Procs : pc[p] # "idle" ~> pc[p] = "idle"
=============================================================================
