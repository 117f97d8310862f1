---------------------- MODULE ExtensionLifecycleProofs ----------------------
(***************************************************************************)
(* Theorems about ExtensionLifecycle, for any number of processes, owned   *)
(* files and writes by others.                                             *)
(***************************************************************************)
EXTENDS ExtensionLifecycle, TLAPS

(***************************************************************************)
(* The inductive invariant.  Only the owner of the lock file is inside a   *)
(* command.  Until it has replaced the registry, the entry is the one it   *)
(* read, and what others have written is what it read all along, if they   *)
(* respect the lock.                                                       *)
(***************************************************************************)
Unwritten == {"files", "verify", "compare", "rename"}
Working   == Unwritten \cup {"final", "undo"}

InOrder(p) ==
  /\ pc[p] # "idle" => lock = p /\ call[p].cmd \in Commands
  /\ pc[p] \in Working =>
       /\ call[p].snap \in Registries
       /\ ~Refused(call[p].cmd, call[p].snap.entry)
       /\ Cooperative => call[p].snap.others = registry.others
  /\ pc[p] \in Unwritten => call[p].snap.entry = registry.entry

IInv ==
  /\ TypeOK
  /\ \A p \in Procs : InOrder(p)
  /\ Cooperative => ForeignKept

(***************************************************************************)
(* Where nothing is uninstalled: an install that still might undo a file   *)
(* to what it was before works under an entry that is not this version's,  *)
(* and replaces the entry only over files that are as new as it.           *)
(***************************************************************************)
Registered == registry.entry # Nil /\ registry.entry.current

Stale == {"missing", "old"}

FilesInOrder(p) ==
  call[p].cmd = "install" =>
    /\ pc[p] \in Unwritten \cup {"undo"} /\ (\E i \in Files : call[p].saved[i] \in Stale)
         => ~Registered
    /\ pc[p] \in {"compare", "rename"} => \A i \in Files : files[i] \notin Stale

FInv ==
  /\ \A p \in Procs : FilesInOrder(p)
  /\ Registered => \A i \in Files : files[i] \notin Stale

(***************************************************************************)
(* Typing.                                                                 *)
(***************************************************************************)
LEMMA EntryAfterType ==
  ASSUME NEW cmd \in Commands, NEW entry \in Entries \cup {Nil},
         ~Refused(cmd, entry)
  PROVE  EntryAfter(cmd, entry) \in Entries \cup {Nil}
<1>1. CASE cmd = "install"
  BY <1>1 DEF EntryAfter, Entries
<1>2. CASE cmd \in {"enable", "disable"}
  <2>1. entry \in [enabled : BOOLEAN, current : BOOLEAN]
    BY <1>2 DEF Refused
  <2> QED
    BY <1>2, <2>1 DEF EntryAfter, Entries
<1>3. CASE cmd = "uninstall"
  BY <1>3 DEF EntryAfter
<1> QED
  BY <1>1, <1>2, <1>3, LifecycleAssumption

LEMMA NoCallType == NoCall \in Calls
  BY DEF NoCall, Calls, NothingSaved, Errors

LEMMA AfterFailureType ==
  ASSUME NEW p \in Procs
  PROVE  AfterFailure(p) \in {"undo", "release"}
  BY DEF AfterFailure

LEMMA InitInv == Init => IInv
<1> SUFFICES ASSUME Init PROVE IInv
  OBVIOUS
<1>1. TypeOK
  BY NoCallType DEF Init, TypeOK, Registries, Locations, Contents
<1>2. \A p \in Procs : InOrder(p)
  BY DEF Init, InOrder, Working, Unwritten
<1>3. ForeignKept
  BY DEF Init, ForeignKept, Registries
<1> QED
  BY <1>1, <1>2, <1>3 DEF IInv

(***************************************************************************)
(* A step of process p, which has the lock, takes it or may have lost it   *)
(* to nobody: all the others are idle.                                     *)
(***************************************************************************)
LEMMA StepInv ==
  ASSUME IInv, NEW p \in Procs,
         lock \in {p, Nil}, lock' \in {p, Nil},
         NEW loc \in Locations, Goto(p, loc),
         NEW c \in Calls, call' = [call EXCEPT ![p] = c],
         registry' \in Registries,
         files' \in [Files -> Contents],
         foreign' = foreign,
         loc # "idle" => lock' = p /\ c.cmd \in Commands,
         loc \in Working => /\ c.snap \in Registries
                            /\ ~Refused(c.cmd, c.snap.entry)
                            /\ Cooperative => c.snap.others = registry'.others,
         loc \in Unwritten => c.snap.entry = registry'.entry,
         Cooperative => registry'.others = registry.others
  PROVE  IInv'
<1>1. TypeOK'
  BY DEF IInv, TypeOK, Goto
<1>2. \A q \in Procs : InOrder(q)'
  <2> SUFFICES ASSUME NEW q \in Procs PROVE InOrder(q)'
    OBVIOUS
  <2>1. CASE q = p
    BY <2>1 DEF IInv, TypeOK, Goto, InOrder
  <2>2. CASE q # p
    <3>1. pc[q] = "idle"
      BY <2>2, LifecycleAssumption DEF IInv, InOrder
    <3>2. pc'[q] = "idle"
      BY <2>2, <3>1 DEF IInv, TypeOK, Goto
    <3> QED
      BY <3>2 DEF InOrder, Working, Unwritten
  <2> QED
    BY <2>1, <2>2
<1>3. Cooperative => ForeignKept'
  BY DEF IInv, ForeignKept
<1> QED
  BY <1>1, <1>2, <1>3 DEF IInv

LEMMA AcquireInv == ASSUME IInv, NEW p \in Procs, Acquire(p) PROVE IInv'
<1>1. PICK cmd \in Commands :
        call' = [call EXCEPT ![p] =
          [NoCall EXCEPT !.cmd = cmd,
                         !.was = [registry |-> registry, files |-> files]]]
  BY DEF Acquire
<1> DEFINE c == [NoCall EXCEPT !.cmd = cmd,
                               !.was = [registry |-> registry, files |-> files]]
<1>2. c \in Calls /\ c.cmd = cmd
  BY DEF NoCall, Calls, NothingSaved, Errors, IInv, TypeOK
<1>3. /\ lock = Nil /\ lock' = p
      /\ Goto(p, "locked") /\ "locked" \in Locations
      /\ UNCHANGED <<registry, files, foreign>>
  BY DEF Acquire, Locations
<1>4. "locked" \notin Working /\ "locked" \notin Unwritten
  BY DEF Working, Unwritten
<1> HIDE DEF c
<1> QED
  BY <1>1, <1>2, <1>3, <1>4, StepInv DEF c, IInv, TypeOK

LEMMA ReadInv == ASSUME IInv, NEW p \in Procs, Read(p) PROVE IInv'
<1> DEFINE loc == IF call[p].cmd \in {"install", "uninstall"} THEN "files" ELSE "compare"
<1>1. /\ Goto(p, loc) /\ loc \in Locations /\ loc # "idle"
      /\ call' = [call EXCEPT ![p] = Snapshot(p)]
      /\ UNCHANGED <<registry, files, lock, foreign>>
      /\ lock = p /\ call[p].cmd \in Commands /\ call[p] \in Calls
      /\ ~Refused(call[p].cmd, registry.entry)
  BY DEF Read, IInv, TypeOK, InOrder, Locations
<1>2. /\ Snapshot(p) \in Calls
      /\ Snapshot(p).cmd = call[p].cmd
      /\ Snapshot(p).snap = registry
  BY <1>1 DEF Snapshot, Calls, NothingSaved, IInv, TypeOK
<1> HIDE DEF loc
<1> QED
  BY <1>1, <1>2, StepInv DEF IInv, TypeOK

\* A step that leaves the registry and the lock alone, keeps the command and
\* what it read, and does not go back to before the registry was replaced.
LEMMA LocalStep ==
  ASSUME IInv, NEW p \in Procs, pc[p] # "idle",
         NEW loc \in Locations, Goto(p, loc),
         NEW c \in Calls, call' = [call EXCEPT ![p] = c],
         c.cmd = call[p].cmd, c.snap = call[p].snap,
         UNCHANGED <<registry, lock, foreign>>,
         files' \in [Files -> Contents],
         loc \in Working => pc[p] \in Working,
         loc \in Unwritten => pc[p] \in Unwritten
  PROVE  IInv'
<1>1. lock = p /\ call[p].cmd \in Commands
  BY DEF IInv, InOrder
<1>2. loc \in Working => /\ c.snap \in Registries
                         /\ ~Refused(c.cmd, c.snap.entry)
                         /\ Cooperative => c.snap.others = registry.others
  BY DEF IInv, InOrder
<1>3. loc \in Unwritten => c.snap.entry = registry.entry
  BY DEF IInv, InOrder
<1> QED
  BY <1>1, <1>2, <1>3, StepInv DEF IInv, TypeOK

\* The command fails with error e.
LEMMA FailType ==
  ASSUME IInv, NEW p \in Procs, NEW e \in Errors
  PROVE  /\ [call[p] EXCEPT !.error = e] \in Calls
         /\ [call[p] EXCEPT !.error = e].cmd = call[p].cmd
         /\ [call[p] EXCEPT !.error = e].snap = call[p].snap
         /\ [call EXCEPT ![p].error = e]
              = [call EXCEPT ![p] = [call[p] EXCEPT !.error = e]]
  BY DEF IInv, TypeOK, Calls

LEMMA ErrorInv ==
  ASSUME IInv, NEW p \in Procs, pc[p] # "idle", NEW e \in Errors,
         call' = [call EXCEPT ![p].error = e],
         NEW loc \in {"undo", "release"}, Goto(p, loc),
         loc = "undo" => pc[p] \in Working,
         UNCHANGED <<registry, lock, foreign>>,
         files' \in [Files -> Contents]
  PROVE  IInv'
<1> DEFINE c == [call[p] EXCEPT !.error = e]
<1>1. /\ c \in Calls /\ c.cmd = call[p].cmd /\ c.snap = call[p].snap
      /\ call' = [call EXCEPT ![p] = c]
  BY FailType
<1>2. /\ loc \in Locations /\ loc \notin Unwritten
      /\ loc \in Working => loc = "undo"
  BY DEF Locations, Working, Unwritten
<1> HIDE DEF c
<1> QED
  BY <1>1, <1>2, LocalStep

LEMMA FailInv ==
  ASSUME IInv, NEW p \in Procs, pc[p] \in Working, NEW e \in Errors,
         FailWith(p, e),
         UNCHANGED <<registry, lock, foreign>>,
         files' \in [Files -> Contents]
  PROVE  IInv'
<1>1. pc[p] # "idle"
  BY DEF Working, Unwritten
<1>2. Goto(p, AfterFailure(p)) /\ call' = [call EXCEPT ![p].error = e]
  BY DEF FailWith
<1> QED
  BY <1>1, <1>2, AfterFailureType, ErrorInv

\* The command goes on, with its call as it is.
LEMMA MoveInv ==
  ASSUME IInv, NEW p \in Procs, pc[p] # "idle",
         NEW loc \in Locations, Goto(p, loc), UNCHANGED call,
         UNCHANGED <<registry, lock, foreign, files>>,
         loc \in Working => pc[p] \in Working,
         loc \in Unwritten => pc[p] \in Unwritten
  PROVE  IInv'
<1>1. call[p] \in Calls /\ call' = [call EXCEPT ![p] = call[p]]
  BY DEF IInv, TypeOK
<1> QED
  BY <1>1, LocalStep DEF IInv, TypeOK

(***************************************************************************)
(* One lemma per step that is not one of those as it stands.               *)
(***************************************************************************)
LEMMA ReadOnlyInv == ASSUME IInv, NEW p \in Procs, ReadOnly(p) PROVE IInv'
<1>1. /\ pc[p] = "locked" /\ Goto(p, "release")
      /\ UNCHANGED <<registry, lock, foreign, files>>
      /\ call' = [call EXCEPT ![p].error = "refused"] \/ UNCHANGED call
  BY DEF ReadOnly
<1>2. /\ "release" \in Locations /\ "refused" \in Errors
      /\ "release" \notin Working /\ "release" \notin Unwritten
  BY DEF Locations, Errors, Working, Unwritten
<1>3. files' \in [Files -> Contents]
  BY <1>1 DEF IInv, TypeOK
<1> QED
  BY <1>1, <1>2, <1>3, ErrorInv, MoveInv

LEMMA WriteFileInv == ASSUME IInv, NEW p \in Procs, WriteFile(p) PROVE IInv'
<1> DEFINE i == call[p].todo
           c == [call[p] EXCEPT !.saved[i] = IF files[i] = "current"
                                               THEN Untouched ELSE files[i],
                                !.todo = i + 1]
<1>1. c \in Calls /\ c.cmd = call[p].cmd /\ c.snap = call[p].snap
  BY DEF WriteFile, IInv, TypeOK, Calls
<1>2. call' = [call EXCEPT ![p] = c]
  BY DEF WriteFile, IInv, TypeOK
<1>3. files' \in [Files -> Contents]
  BY DEF WriteFile, IInv, TypeOK, Contents
<1>4. /\ pc[p] = "files" /\ "files" \in Locations
      /\ Goto(p, "files") /\ UNCHANGED <<registry, lock, foreign>>
  BY DEF WriteFile, Goto, Locations, IInv, TypeOK
<1> HIDE DEF c
<1> QED
  BY <1>1, <1>2, <1>3, <1>4, LocalStep

LEMMA RemoveFileInv == ASSUME IInv, NEW p \in Procs, RemoveFile(p) PROVE IInv'
<1> DEFINE i == call[p].todo
           c == [call[p] EXCEPT !.mutated = @ \/ files[i] # "missing",
                                !.todo = i + 1]
<1>1. c \in Calls /\ c.cmd = call[p].cmd /\ c.snap = call[p].snap
  BY DEF RemoveFile, IInv, TypeOK, Calls
<1>2. call' = [call EXCEPT ![p] = c]
  BY DEF RemoveFile, IInv, TypeOK
<1>3. files' \in [Files -> Contents]
  BY DEF RemoveFile, IInv, TypeOK, Contents
<1>4. /\ pc[p] = "files" /\ "files" \in Locations
      /\ Goto(p, "files") /\ UNCHANGED <<registry, lock, foreign>>
  BY DEF RemoveFile, Goto, Locations, IInv, TypeOK
<1> HIDE DEF c
<1> QED
  BY <1>1, <1>2, <1>3, <1>4, LocalStep

LEMMA FilesDoneInv == ASSUME IInv, NEW p \in Procs, FilesDone(p) PROVE IInv'
  BY MoveInv DEF FilesDone, Locations, Working, Unwritten

LEMMA VerifyInv == ASSUME IInv, NEW p \in Procs, Verify(p) PROVE IInv'
<1>1. /\ pc[p] = "verify" /\ pc[p] \in Unwritten /\ pc[p] \in Working
      /\ UNCHANGED <<registry, lock, foreign, files>>
      /\ files' \in [Files -> Contents]
  BY DEF Verify, Working, Unwritten, IInv, TypeOK
<1>2. CASE FailWith(p, "io")
  BY <1>1, <1>2, FailInv DEF Errors
<1>3. CASE ~FailWith(p, "io")
  BY <1>1, <1>3, MoveInv DEF Verify, Locations
<1> QED
  BY <1>2, <1>3

LEMMA CompareInv == ASSUME IInv, NEW p \in Procs, Compare(p) PROVE IInv'
<1>1. /\ pc[p] = "compare" /\ pc[p] \in Unwritten /\ pc[p] \in Working
      /\ UNCHANGED <<registry, lock, foreign, files>>
      /\ files' \in [Files -> Contents]
  BY DEF Compare, Working, Unwritten, IInv, TypeOK
<1>2. CASE FailWith(p, "changed")
  BY <1>1, <1>2, FailInv DEF Errors
<1>3. CASE ~FailWith(p, "changed")
  BY <1>1, <1>3, MoveInv DEF Compare, Locations
<1> QED
  BY <1>2, <1>3

LEMMA FinalCheckInv == ASSUME IInv, NEW p \in Procs, FinalCheck(p) PROVE IInv'
<1>1. /\ pc[p] = "final" /\ pc[p] \in Working
      /\ UNCHANGED <<registry, lock, foreign, files>>
      /\ files' \in [Files -> Contents]
  BY DEF FinalCheck, Working, IInv, TypeOK
<1>2. CASE FailWith(p, "unconfirmed")
  BY <1>1, <1>2, FailInv DEF Errors
<1>3. CASE ~FailWith(p, "unconfirmed")
  BY <1>1, <1>3, MoveInv DEF FinalCheck, Locations, Working, Unwritten
<1> QED
  BY <1>2, <1>3

\* The document that replaces the registry holds what others wrote into it.
LEMMA RenameInv == ASSUME IInv, NEW p \in Procs, Rename(p) PROVE IInv'
<1> DEFINE snap == call[p].snap
           c == [call[p] EXCEPT !.mutated = TRUE]
<1>1. /\ pc[p] = "rename" /\ pc[p] \in Working /\ lock = p
      /\ Goto(p, "final") /\ "final" \in Locations
      /\ "final" \notin Unwritten
      /\ UNCHANGED <<files, lock, foreign>>
      /\ registry' = [snap EXCEPT !.entry = EntryAfter(call[p].cmd, snap.entry)]
  BY DEF Rename, Locations, Working, Unwritten, IInv, InOrder
<1>2. /\ c \in Calls /\ c.cmd = call[p].cmd /\ c.snap = snap
      /\ call' = [call EXCEPT ![p] = c]
  BY DEF Rename, IInv, TypeOK, Calls
<1>3. /\ call[p].cmd \in Commands /\ snap \in Registries
      /\ ~Refused(call[p].cmd, snap.entry)
      /\ Cooperative => snap.others = registry.others
  BY <1>1 DEF IInv, InOrder, Working, Unwritten
<1>4. EntryAfter(call[p].cmd, snap.entry) \in Entries \cup {Nil}
  BY <1>3, EntryAfterType DEF Registries
<1>5. registry' \in Registries /\ registry'.others = snap.others
  BY <1>1, <1>3, <1>4 DEF Registries
<1> HIDE DEF c, snap
<1> QED
  BY <1>1, <1>2, <1>3, <1>5, StepInv DEF IInv, TypeOK, snap

LEMMA UndoFileInv == ASSUME IInv, NEW p \in Procs, UndoFile(p) PROVE IInv'
<1>1. PICK i \in Saved(p) :
        IF files[i] = "current"
          THEN /\ files' = [files EXCEPT ![i] = call[p].saved[i]]
               /\ call' = [call EXCEPT ![p].saved[i] = Untouched]
               /\ UNCHANGED pc
          ELSE /\ call' = [call EXCEPT ![p].error = "rollback_failed"]
               /\ Goto(p, "release")
               /\ UNCHANGED files
  BY DEF UndoFile
<1>2. /\ pc[p] = "undo" /\ UNCHANGED <<registry, lock, foreign>>
      /\ i \in Files /\ call[p].saved[i] \in Contents
  BY DEF UndoFile, Saved, IInv, TypeOK, Calls
<1>3. CASE files[i] = "current"
  <2> DEFINE c == [call[p] EXCEPT !.saved[i] = Untouched]
  <2>1. /\ c \in Calls /\ c.cmd = call[p].cmd /\ c.snap = call[p].snap
    BY <1>2 DEF IInv, TypeOK, Calls
  <2>2. call' = [call EXCEPT ![p] = c]
    BY <1>1, <1>3 DEF IInv, TypeOK
  <2>3. files' \in [Files -> Contents]
    BY <1>1, <1>2, <1>3 DEF IInv, TypeOK
  <2>4. Goto(p, "undo") /\ "undo" \in Locations
    BY <1>1, <1>2, <1>3 DEF Goto, Locations, IInv, TypeOK
  <2> HIDE DEF c
  <2> QED
    BY <1>2, <2>1, <2>2, <2>3, <2>4, LocalStep
<1>4. CASE files[i] # "current"
  BY <1>1, <1>2, <1>4, ErrorInv DEF Errors, Locations, IInv, TypeOK
<1> QED
  BY <1>3, <1>4

LEMMA RestoreFileInv == ASSUME IInv, NEW p \in Procs, RestoreFile(p) PROVE IInv'
<1>1. PICK i \in Saved(p) :
        /\ files' = [files EXCEPT ![i] = call[p].saved[i]]
        /\ call' = [call EXCEPT ![p].saved[i] = Untouched]
  BY DEF RestoreFile
<1> DEFINE c == [call[p] EXCEPT !.saved[i] = Untouched]
<1>2. /\ pc[p] = "undo" /\ UNCHANGED <<registry, lock, foreign>>
      /\ Goto(p, "undo") /\ "undo" \in Locations
      /\ i \in Files /\ call[p].saved[i] \in Contents
  BY DEF RestoreFile, Goto, Locations, Saved, IInv, TypeOK, Calls
<1>3. /\ c \in Calls /\ c.cmd = call[p].cmd /\ c.snap = call[p].snap
      /\ call' = [call EXCEPT ![p] = c]
      /\ files' \in [Files -> Contents]
  BY <1>1, <1>2 DEF IInv, TypeOK, Calls
<1> HIDE DEF c
<1> QED
  BY <1>2, <1>3, LocalStep

\* The registry that an uninstall puts back holds what others wrote into it.
LEMMA UndoneInv == ASSUME IInv, NEW p \in Procs, Undone(p) PROVE IInv'
<1>1. /\ pc[p] = "undo" /\ pc[p] \in Working /\ lock = p
      /\ Goto(p, "release") /\ "release" \in Locations
      /\ "release" \notin Working /\ "release" \notin Unwritten
      /\ UNCHANGED <<files, lock, call, foreign>>
      /\ registry' = call[p].snap \/ UNCHANGED registry
  BY DEF Undone, Locations, Working, Unwritten, IInv, InOrder
<1>2. /\ call[p] \in Calls /\ call' = [call EXCEPT ![p] = call[p]]
      /\ call[p].cmd \in Commands /\ call[p].snap \in Registries
      /\ Cooperative => call[p].snap.others = registry.others
  BY <1>1 DEF IInv, TypeOK, InOrder, Working, Unwritten
<1>3. /\ registry' \in Registries
      /\ Cooperative => registry'.others = registry.others
  BY <1>1, <1>2 DEF IInv, TypeOK
<1> QED
  BY <1>1, <1>2, <1>3, StepInv DEF IInv, TypeOK

LEMMA ReturnInv ==
  ASSUME IInv, NEW p \in Procs, ReleaseLock(p) \/ Crash(p)
  PROVE  IInv'
<1>1. /\ pc[p] # "idle" /\ Goto(p, "idle") /\ "idle" \in Locations
      /\ "idle" \notin Working /\ "idle" \notin Unwritten
      /\ call' = [call EXCEPT ![p] = NoCall]
      /\ lock' \in {lock, Nil}
      /\ UNCHANGED <<registry, files, foreign>>
  BY DEF ReleaseLock, Crash, Locations, Working, Unwritten
<1>2. lock = p
  BY <1>1 DEF IInv, InOrder
<1> QED
  BY <1>1, <1>2, NoCallType, StepInv DEF IInv, TypeOK

LEMMA IoFailsInv == ASSUME IInv, NEW p \in Procs, IoFails(p) PROVE IInv'
<1>1. /\ pc[p] # "idle" /\ UNCHANGED <<registry, lock, foreign, files>>
      /\ files' \in [Files -> Contents]
      /\ {"io", "unconfirmed", "rollback_failed"} \subseteq Errors
  BY DEF IoFails, Errors, IInv, TypeOK
<1>2. \/ /\ pc[p] \in Working
         /\ FailWith(p, "io") \/ FailWith(p, "unconfirmed")
      \/ /\ Goto(p, "release")
         /\ \/ call' = [call EXCEPT ![p].error = "io"]
            \/ call' = [call EXCEPT ![p].error = "rollback_failed"]
  BY DEF IoFails, Working, Unwritten
<1> QED
  BY <1>1, <1>2, FailInv, ErrorInv

LEMMA VerificationFailsInv ==
  ASSUME IInv, NEW p \in Procs, VerificationFails(p)
  PROVE  IInv'
<1>1. /\ pc[p] \in Working /\ FailWith(p, "unverified")
      /\ "unverified" \in Errors
      /\ UNCHANGED <<registry, lock, foreign>>
      /\ files' \in [Files -> Contents]
  BY DEF VerificationFails, Working, Unwritten, Errors, Contents, IInv, TypeOK
<1> QED
  BY <1>1, FailInv

\* Those who respect the lock write while nobody is inside a command.
LEMMA ForeignWriteInv == ASSUME IInv, ForeignWrite PROVE IInv'
<1>1. TypeOK'
  BY DEF ForeignWrite, IInv, TypeOK, Registries
<1>2. \A p \in Procs : InOrder(p)'
  <2> SUFFICES ASSUME NEW p \in Procs PROVE InOrder(p)'
    OBVIOUS
  <2>1. registry'.entry = registry.entry
    BY DEF ForeignWrite, IInv, TypeOK, Registries
  <2>2. Cooperative => pc[p] = "idle"
    BY LifecycleAssumption DEF ForeignWrite, OthersMayWrite, IInv, InOrder
  <2> QED
    BY <2>1, <2>2 DEF ForeignWrite, IInv, InOrder, Working, Unwritten
<1>3. Cooperative => ForeignKept'
  BY DEF ForeignWrite, IInv, TypeOK, Registries, ForeignKept
<1> QED
  BY <1>1, <1>2, <1>3 DEF IInv

LEMMA OutsideInv ==
  ASSUME IInv, RemoveStaleLock \/ EditFile \/ UNCHANGED vars
  PROVE  IInv'
<1>1. CASE RemoveStaleLock
  <2>1. TypeOK' /\ (Cooperative => ForeignKept')
    BY <1>1 DEF RemoveStaleLock, IInv, TypeOK, ForeignKept
  <2>2. \A p \in Procs : InOrder(p)'
    BY <1>1 DEF RemoveStaleLock, IInv, InOrder
  <2> QED
    BY <2>1, <2>2 DEF IInv
<1>2. CASE EditFile
  <2>1. TypeOK' /\ (Cooperative => ForeignKept')
    BY <1>2 DEF EditFile, IInv, TypeOK, ForeignKept, Contents
  <2>2. \A p \in Procs : InOrder(p)'
    BY <1>2 DEF EditFile, IInv, InOrder
  <2> QED
    BY <2>1, <2>2 DEF IInv
<1>3. CASE UNCHANGED vars
  BY <1>3 DEF vars, IInv, TypeOK, InOrder, ForeignKept
<1> QED
  BY <1>1, <1>2, <1>3

LEMMA NextInv == ASSUME IInv, [Next]_vars PROVE IInv'
<1>1. CASE \E p \in Procs :
             Acquire(p) \/ Run(p) \/ IoFails(p) \/ VerificationFails(p) \/ Crash(p)
  BY <1>1, AcquireInv, ReadInv, ReadOnlyInv, WriteFileInv, RemoveFileInv,
     FilesDoneInv, VerifyInv, CompareInv, RenameInv, FinalCheckInv, UndoFileInv,
     RestoreFileInv, UndoneInv, ReturnInv, IoFailsInv, VerificationFailsInv
     DEF Run
<1>2. CASE ~\E p \in Procs :
             Acquire(p) \/ Run(p) \/ IoFails(p) \/ VerificationFails(p) \/ Crash(p)
  BY <1>2, ForeignWriteInv, OutsideInv DEF Next
<1> QED
  BY <1>1, <1>2

\* Only the process whose lock file exists is inside a command, and it works
\* from the entry that is in the registry until it replaces it.
THEOREM LifecycleInvariance == Spec => []IInv
<1>1. Init => IInv
  BY InitInv
<1>2. IInv /\ [Next]_vars => IInv'
  BY NextInv
<1> QED
  BY <1>1, <1>2, PTL DEF Spec

\* The registry, the files and the calls are of their types.
THEOREM TypeCorrect == Spec => []TypeOK
<1>1. IInv => TypeOK
  BY DEF IInv
<1> QED
  BY <1>1, LifecycleInvariance, PTL

\* Nothing that others write into the registry is lost, however many
\* processes run commands, die in them and leave their lock files behind, as
\* long as the others write while no lock file exists.
THEOREM ForeignSafe == ASSUME Cooperative PROVE Spec => []ForeignKept
<1>1. IInv => ForeignKept
  BY DEF IInv
<1> QED
  BY <1>1, LifecycleInvariance, PTL

(***************************************************************************)
(* The owned files, where nothing is uninstalled.                          *)
(***************************************************************************)
LEMMA FilesInit == Init => FInv
  BY DEF Init, FInv, FilesInOrder, Registered, Stale, Entries, NoCall, Unwritten

\* A step of one process: it is enough to look at that process.
LEMMA FilesStep ==
  ASSUME IInv, FInv, NEW p \in Procs, pc[p] # "idle" \/ lock = Nil,
         NEW loc \in Locations, Goto(p, loc),
         FilesInOrder(p)',
         Registered' => \A i \in Files : files'[i] \notin Stale
  PROVE  FInv'
<1>1. \A q \in Procs \ {p} : pc'[q] = "idle"
  BY LifecycleAssumption DEF IInv, TypeOK, InOrder, Goto
<1>2. \A q \in Procs : FilesInOrder(q)'
  BY <1>1 DEF FilesInOrder, Unwritten
<1> QED
  BY <1>2 DEF FInv

\* A step that changes neither registry nor files, towards less to undo.
LEMMA QuietFilesStep ==
  ASSUME IInv, FInv, NEW p \in Procs, pc[p] # "idle" \/ lock = Nil,
         NEW loc \in Locations, Goto(p, loc),
         UNCHANGED <<registry, files>>,
         \/ loc \notin Unwritten \cup {"undo"}
         \/ /\ call'[p].cmd = call[p].cmd /\ call'[p].saved = call[p].saved
            /\ pc[p] \in Unwritten \cup {"undo"}
            /\ \/ loc \notin {"compare", "rename"}
               \/ pc[p] \in {"compare", "rename"}
               \/ \A i \in Files : files[i] \notin Stale
               \/ call[p].cmd # "install"
  PROVE  FInv'
<1>1. pc'[p] = loc
  BY DEF Goto, IInv, TypeOK
<1>2. FilesInOrder(p)'
  BY <1>1 DEF FInv, FilesInOrder, Registered, Unwritten
<1>3. Registered' => \A i \in Files : files'[i] \notin Stale
  BY DEF FInv, Registered
<1> QED
  BY <1>2, <1>3, FilesStep

LEMMA FailFiles ==
  ASSUME IInv, FInv, NEW p \in Procs, pc[p] \in Working, NEW e,
         call[p].cmd # "uninstall", FailWith(p, e), UNCHANGED <<registry, files>>
  PROVE  FInv'
<1>1. /\ Goto(p, AfterFailure(p)) /\ AfterFailure(p) \in Locations
      /\ pc[p] # "idle"
      /\ AfterFailure(p) \notin {"compare", "rename"}
      /\ pc[p] = "final" => AfterFailure(p) = "release"
      /\ AfterFailure(p) = "release" => AfterFailure(p) \notin Unwritten \cup {"undo"}
  BY AfterFailureType DEF FailWith, AfterFailure, Locations, Working, Unwritten
<1>2. /\ call'[p].cmd = call[p].cmd
      /\ call'[p].saved = call[p].saved
  BY DEF FailWith, IInv, TypeOK, Calls
<1> QED
  BY <1>1, <1>2, QuietFilesStep DEF Working

LEMMA ReadFiles == ASSUME IInv, FInv, NEW p \in Procs, Read(p) PROVE FInv'
<1> DEFINE loc == IF call[p].cmd \in {"install", "uninstall"} THEN "files" ELSE "compare"
<1>1. /\ pc[p] # "idle" /\ Goto(p, loc) /\ loc \in Locations /\ pc'[p] = loc
      /\ UNCHANGED <<registry, files>>
      /\ call'[p].cmd = call[p].cmd
      /\ call[p].cmd = "install" => call'[p].saved = NothingSaved
  BY DEF Read, Snapshot, Locations, Goto, IInv, TypeOK, Calls
<1>2. FilesInOrder(p)'
  BY <1>1, LifecycleAssumption
     DEF FilesInOrder, NothingSaved, Contents, Stale
<1>3. Registered' => \A i \in Files : files'[i] \notin Stale
  BY <1>1 DEF FInv, Registered
<1> HIDE DEF loc
<1> QED
  BY <1>1, <1>2, <1>3, FilesStep

\* An install that writes over a file which is older than this version finds
\* an entry that is, too.
LEMMA WriteFileFiles == ASSUME IInv, FInv, NEW p \in Procs, WriteFile(p) PROVE FInv'
<1>1. /\ pc[p] = "files" /\ Goto(p, "files") /\ "files" \in Locations
      /\ pc'[p] = "files" /\ UNCHANGED registry /\ call[p].todo \in Files
      /\ files' = [files EXCEPT ![call[p].todo] = "current"]
  BY DEF WriteFile, Goto, Locations, IInv, TypeOK
<1>2. \A i \in Files : call'[p].saved[i] \in {Untouched, files[i], call[p].saved[i]}
  BY DEF WriteFile, IInv, TypeOK, Calls
<1>3. \A i \in Files : files'[i] \in {files[i], "current"}
  BY <1>1 DEF IInv, TypeOK
<1>4. Registered' => \A i \in Files : files'[i] \notin Stale
  BY <1>1, <1>3 DEF FInv, Registered, Stale
<1>5. call[p].cmd = "install"
  BY DEF WriteFile
<1>6. (\E i \in Files : call'[p].saved[i] \in Stale) => ~Registered'
  BY <1>1, <1>2, <1>5, LifecycleAssumption
     DEF FInv, FilesInOrder, Registered, Stale, Contents, Unwritten
<1>7. FilesInOrder(p)'
  BY <1>1, <1>6 DEF FilesInOrder
<1> QED
  BY <1>1, <1>4, <1>7, FilesStep

LEMMA VerifyFiles ==
  ASSUME IInv, FInv, NEW p \in Procs, call[p].cmd # "uninstall", Verify(p)
  PROVE  FInv'
<1>1. /\ pc[p] = "verify" /\ pc[p] \in Working /\ pc[p] \in Unwritten
      /\ UNCHANGED <<registry, files>>
  BY DEF Verify, Working, Unwritten
<1>2. CASE FilesCurrent
  <2>1. \A i \in Files : files[i] \notin Stale
    BY <1>2 DEF FilesCurrent, Stale
  <2> QED
    BY <1>1, <1>2, <2>1, QuietFilesStep DEF Verify, Locations
<1>3. CASE ~FilesCurrent
  BY <1>1, <1>3, FailFiles DEF Verify
<1> QED
  BY <1>2, <1>3

LEMMA CompareFiles ==
  ASSUME IInv, FInv, NEW p \in Procs, call[p].cmd # "uninstall", Compare(p)
  PROVE  FInv'
<1>1. /\ pc[p] = "compare" /\ pc[p] \in Working /\ pc[p] \in Unwritten
      /\ UNCHANGED <<registry, files>>
  BY DEF Compare, Working, Unwritten
<1>2. CASE registry = call[p].snap
  BY <1>1, <1>2, QuietFilesStep DEF Compare, Locations
<1>3. CASE registry # call[p].snap
  BY <1>1, <1>3, FailFiles DEF Compare
<1> QED
  BY <1>2, <1>3

\* The new entry is of this version only if the files are, or it was before.
LEMMA RenameFiles ==
  ASSUME IInv, FInv, NEW p \in Procs, call[p].cmd # "uninstall", Rename(p)
  PROVE  FInv'
<1> DEFINE cmd == call[p].cmd
           snap == call[p].snap
<1>1. /\ pc[p] = "rename" /\ Goto(p, "final") /\ "final" \in Locations
      /\ pc'[p] = "final" /\ UNCHANGED files
      /\ cmd \in Commands /\ snap \in Registries
      /\ ~Refused(cmd, snap.entry) /\ snap.entry = registry.entry
      /\ registry'.entry = EntryAfter(cmd, snap.entry)
  BY DEF Rename, Goto, Locations, IInv, TypeOK, InOrder, Working, Unwritten,
         Registries
<1>2. cmd = "install" => \A i \in Files : files[i] \notin Stale
  BY <1>1 DEF FInv, FilesInOrder
<1>3. ASSUME cmd \in {"enable", "disable"}, Registered' PROVE Registered
  <2>1. registry.entry \in Entries
    BY <1>1, <1>3 DEF Refused, Entries
  <2>2. registry'.entry.current = registry.entry.current
    BY <1>1, <1>3, <2>1 DEF EntryAfter, Entries
  <2> QED
    BY <1>3, <2>1, <2>2, LifecycleAssumption DEF Registered
<1>4. Registered' => \A i \in Files : files'[i] \notin Stale
  BY <1>1, <1>2, <1>3, LifecycleAssumption DEF FInv
<1>5. FilesInOrder(p)'
  BY <1>1 DEF FilesInOrder, Unwritten
<1> QED
  BY <1>1, <1>4, <1>5, FilesStep

LEMMA UndoFileFiles == ASSUME IInv, FInv, NEW p \in Procs, UndoFile(p) PROVE FInv'
<1>1. PICK i \in Saved(p) :
        IF files[i] = "current"
          THEN /\ files' = [files EXCEPT ![i] = call[p].saved[i]]
               /\ call' = [call EXCEPT ![p].saved[i] = Untouched]
               /\ UNCHANGED pc
          ELSE /\ call' = [call EXCEPT ![p].error = "rollback_failed"]
               /\ Goto(p, "release")
               /\ UNCHANGED files
  BY DEF UndoFile
<1>2. pc[p] = "undo" /\ call[p].cmd = "install" /\ UNCHANGED registry /\ i \in Files
  BY DEF UndoFile, Saved
<1>3. CASE files[i] = "current"
  <2>1. /\ Goto(p, "undo") /\ "undo" \in Locations /\ pc'[p] = "undo"
    BY <1>1, <1>2, <1>3 DEF Goto, Locations, IInv, TypeOK
  <2>2. \A j \in Files : call'[p].saved[j] \in {Untouched, call[p].saved[j]}
    BY <1>1, <1>2, <1>3 DEF IInv, TypeOK, Calls
  <2>3. \A j \in Files : files'[j] \in {files[j], call[p].saved[j]}
    BY <1>1, <1>2, <1>3 DEF IInv, TypeOK
  <2>4. (\E j \in Files : call[p].saved[j] \in Stale) => ~Registered'
    BY <1>2 DEF FInv, FilesInOrder, Registered
  <2>5. FilesInOrder(p)'
    BY <2>1, <2>2, <2>4, LifecycleAssumption DEF FilesInOrder, Stale, Contents
  <2>6. Registered' => \A j \in Files : files'[j] \notin Stale
    BY <1>2, <2>3, <2>4 DEF FInv, Registered
  <2> QED
    BY <1>2, <2>1, <2>5, <2>6, FilesStep
<1>4. CASE files[i] # "current"
  BY <1>1, <1>2, <1>4, QuietFilesStep DEF Locations, Unwritten
<1> QED
  BY <1>3, <1>4

LEMMA IoFailsFiles ==
  ASSUME IInv, FInv, NEW p \in Procs, call[p].cmd # "uninstall", IoFails(p)
  PROVE  FInv'
<1>1. /\ pc[p] # "idle" /\ UNCHANGED <<registry, files>>
      /\ \/ pc[p] \in Working /\ (FailWith(p, "io") \/ FailWith(p, "unconfirmed"))
         \/ Goto(p, "release")
  BY DEF IoFails, Working, Unwritten
<1> QED
  BY <1>1, FailFiles, QuietFilesStep DEF Locations, Unwritten

LEMMA VerificationFailsFiles ==
  ASSUME IInv, FInv, NEW p \in Procs, VerificationFails(p)
  PROVE  FInv'
<1>1. /\ pc[p] = "files" /\ UNCHANGED registry
      /\ \A i \in Files : files'[i] \in {files[i], "current"}
      /\ Goto(p, AfterFailure(p)) /\ AfterFailure(p) \in Locations
      /\ pc'[p] \in {"undo", "release"}
      /\ call'[p].cmd = call[p].cmd /\ call'[p].saved = call[p].saved
  BY AfterFailureType
     DEF VerificationFails, FailWith, Goto, Locations, IInv, TypeOK, Calls
<1>2. FilesInOrder(p)'
  BY <1>1 DEF FInv, FilesInOrder, Registered, Unwritten
<1>3. Registered' => \A i \in Files : files'[i] \notin Stale
  BY <1>1 DEF FInv, Registered, Stale
<1> QED
  BY <1>1, <1>2, <1>3, FilesStep

LEMMA OutsideFiles ==
  ASSUME IInv, FInv,
         RemoveStaleLock \/ ForeignWrite \/ EditFile \/ UNCHANGED vars
  PROVE  FInv'
<1>1. UNCHANGED <<pc, call>> /\ registry'.entry = registry.entry
  BY DEF RemoveStaleLock, ForeignWrite, EditFile, vars, IInv, TypeOK, Registries
<1>2. \A i \in Files : files'[i] \in {files[i], "edited"}
  BY DEF RemoveStaleLock, ForeignWrite, EditFile, vars, IInv, TypeOK
<1> QED
  BY <1>1, <1>2 DEF FInv, FilesInOrder, Registered, Stale

\* The steps that only an uninstall takes need no lemma.
LEMMA FilesNext ==
  ASSUME "uninstall" \notin Commands, IInv, FInv, [Next]_vars
  PROVE  FInv'
<1>1. \A p \in Procs : pc[p] # "idle" => call[p].cmd # "uninstall"
  BY DEF IInv, InOrder
<1>2. ASSUME NEW p \in Procs, Acquire(p) \/ ReadOnly(p) \/ ReleaseLock(p) \/ Crash(p)
      PROVE  FInv'
  <2>1. PICK loc \in {"locked", "release", "idle"} : Goto(p, loc)
    BY <1>2 DEF Acquire, ReadOnly, ReleaseLock, Crash
  <2>2. /\ pc[p] # "idle" \/ lock = Nil
        /\ UNCHANGED <<registry, files>>
    BY <1>2 DEF Acquire, ReadOnly, ReleaseLock, Crash
  <2> QED
    BY <2>1, <2>2, QuietFilesStep DEF Locations, Unwritten
<1>3. ASSUME NEW p \in Procs, FilesDone(p) \/ FinalCheck(p) \/ Undone(p)
      PROVE  FInv'
  <2>1. CASE FilesDone(p)
    BY <2>1, QuietFilesStep DEF FilesDone, Locations, Unwritten
  <2>2. CASE FinalCheck(p)
    <3>1. pc[p] \in Working /\ call[p].cmd # "uninstall"
      BY <1>1, <2>2 DEF FinalCheck, Working
    <3> QED
      BY <2>2, <3>1, FailFiles, QuietFilesStep DEF FinalCheck, Locations, Unwritten
  <2>3. CASE Undone(p)
    BY <1>1, <2>3, QuietFilesStep DEF Undone, Locations, Unwritten
  <2> QED
    BY <1>3, <2>1, <2>2, <2>3
<1>4. ASSUME NEW p \in Procs,
             Run(p) \/ IoFails(p) \/ VerificationFails(p) \/ Acquire(p) \/ Crash(p)
      PROVE  FInv'
  <2>1. ~RemoveFile(p) /\ ~RestoreFile(p)
    BY <1>1 DEF RemoveFile, RestoreFile
  <2>2. (Verify(p) \/ Compare(p) \/ Rename(p) \/ IoFails(p)) => call[p].cmd # "uninstall"
    BY <1>1 DEF Verify, Compare, Rename, IoFails
  <2> QED
    BY <1>2, <1>3, <1>4, <2>1, <2>2, ReadFiles, WriteFileFiles, VerifyFiles,
       CompareFiles, RenameFiles, UndoFileFiles, IoFailsFiles,
       VerificationFailsFiles DEF Run
<1> QED
  BY <1>4, OutsideFiles DEF Next

\* Where nothing is uninstalled, an entry of this version never stands over
\* files that are missing or older, wherever processes die or fail, and
\* whether or not the others respect the lock.
THEOREM FilesFirst ==
  ASSUME "uninstall" \notin Commands PROVE Spec => []FilesBeforeEntry
<1>1. Init => FInv
  BY FilesInit
<1>2. IInv /\ FInv /\ [Next]_vars => FInv'
  BY FilesNext
<1>3. FInv => FilesBeforeEntry
  BY DEF FInv, FilesBeforeEntry, Registered, Stale
<1> QED
  BY <1>1, <1>2, <1>3, LifecycleInvariance, PTL DEF Spec

(***************************************************************************)
(* Failed calls, where the other writers respect the lock.  Between the    *)
(* lock and the release nobody else changes anything, so what a call found *)
(* is what it has saved of a file or, where it has saved nothing, what the *)
(* file still holds.  That ends when it could not verify or undo a file.   *)
(***************************************************************************)
Lost == {"unverified", "rollback_failed"}

Restorable(c) ==
  \A i \in Files :
    c.was.files[i] = IF c.saved[i] = Untouched THEN files[i] ELSE c.saved[i]

AsFound(c) == registry = c.was.registry /\ files = c.was.files

Restores(c) ==
  \/ c.error \in {"io", "changed", "refused"}
  \/ c.error = "unconfirmed" /\ c.cmd = "uninstall"

Found == [registry : Registries, files : [Files -> Contents]]

UndoesInOrder(p) ==
  LET c == call[p]
  IN  /\ pc[p] # "idle" => c.was \in Found
      /\ pc[p] = "locked" =>
           AsFound(c) /\ c.saved = NothingSaved /\ c.todo = 1 /\ c.error = "none"
      /\ pc[p] \in Working => c.snap = c.was.registry
      /\ pc[p] \in Unwritten \cup {"final"} => c.error = "none"
      /\ pc[p] \in Working /\ c.error \notin Lost => Restorable(c)
      /\ pc[p] \in Unwritten => registry = c.was.registry
      /\ pc[p] = "undo" /\ c.cmd = "install" => registry = c.was.registry
      /\ pc[p] = "files" /\ c.cmd = "install" =>
           \A i \in Files : c.todo <= i => c.saved[i] = Untouched
      /\ pc[p] = "files" /\ c.cmd = "uninstall" =>
           \A i \in Files : c.saved[i] = Untouched => files[i] = "missing"
      /\ pc[p] = "files" => c.cmd \in {"install", "uninstall"}
      /\ pc[p] = "verify" => c.cmd = "install"
      /\ pc[p] = "final" /\ c.cmd = "uninstall" => c.mutated
      /\ pc[p] \in Working /\ c.cmd \in {"enable", "disable"} => c.saved = NothingSaved
      /\ pc[p] = "undo" => c.cmd \in {"install", "uninstall"}
      /\ pc[p] = "release" /\ Restores(c) => AsFound(c)

UInv == \A p \in Procs : UndoesInOrder(p)

LEMMA UndoInit == Init => UInv
  BY DEF Init, UInv, UndoesInOrder, Working, Unwritten

LEMMA IdleUndoes ==
  ASSUME NEW p \in Procs, pc[p] = "idle" PROVE UndoesInOrder(p)
  BY DEF UndoesInOrder, Working, Unwritten

\* A step of one process: it is enough to look at that process.
LEMMA UndoStep ==
  ASSUME IInv, UInv, NEW p \in Procs, pc[p] # "idle" \/ lock = Nil,
         NEW loc \in Locations, Goto(p, loc), UndoesInOrder(p)'
  PROVE  UInv'
<1>1. \A q \in Procs \ {p} : pc'[q] = "idle"
  BY LifecycleAssumption DEF IInv, TypeOK, InOrder, Goto
<1>2. \A q \in Procs \ {p} : UndoesInOrder(q)'
  BY <1>1 DEF UndoesInOrder, Working, Unwritten
<1> QED
  BY <1>2 DEF UInv

\* With nothing saved, what is restorable is as it was found.
LEMMA NothingToRestore ==
  ASSUME IInv, NEW p \in Procs, call[p].was \in Found, Restorable(call[p]),
         \A i \in Files : call[p].saved[i] = Untouched
  PROVE  files = call[p].was.files
<1>1. /\ files \in [Files -> Contents]
      /\ call[p].was.files \in [Files -> Contents]
  BY DEF IInv, TypeOK, Found
<1>2. \A i \in Files : files[i] = call[p].was.files[i]
  BY DEF Restorable
<1> QED
  BY <1>1, <1>2

\* A step that ends the rollback without success, or the call.
LEMMA GivesUp ==
  ASSUME IInv, UInv, NEW p \in Procs, pc[p] # "idle",
         NEW loc \in {"idle", "release"}, Goto(p, loc),
         loc = "release" => /\ call'[p].was \in Found
                            /\ Restores(call'[p]) => AsFound(call[p])'
  PROVE  UInv'
<1>1. loc \in Locations /\ pc'[p] = loc
  BY DEF Locations, Goto, IInv, TypeOK
<1>2. UndoesInOrder(p)'
  BY <1>1 DEF UndoesInOrder, Working, Unwritten, AsFound, Restores
<1> QED
  BY <1>1, <1>2, UndoStep

LEMMA AcquireUndoes == ASSUME IInv, UInv, NEW p \in Procs, Acquire(p) PROVE UInv'
<1>1. /\ lock = Nil /\ Goto(p, "locked") /\ "locked" \in Locations
      /\ pc'[p] = "locked" /\ UNCHANGED <<registry, files>>
  BY DEF Acquire, Goto, Locations, IInv, TypeOK
<1>2. /\ call'[p].was = [registry |-> registry, files |-> files]
      /\ call'[p].saved = NothingSaved /\ call'[p].todo = 1
      /\ call'[p].error = "none"
  BY DEF Acquire, NoCall, IInv, TypeOK
<1>3. call'[p].was \in Found
  BY <1>2 DEF Found, IInv, TypeOK
<1>4. UndoesInOrder(p)'
  BY <1>1, <1>2, <1>3 DEF UndoesInOrder, AsFound, Working, Unwritten
<1> QED
  BY <1>1, <1>4, UndoStep

LEMMA ReadUndoes == ASSUME IInv, UInv, NEW p \in Procs, Read(p) PROVE UInv'
<1> DEFINE loc == IF call[p].cmd \in {"install", "uninstall"} THEN "files" ELSE "compare"
<1>1. /\ pc[p] = "locked" /\ Goto(p, loc) /\ loc \in Locations /\ pc'[p] = loc
      /\ loc \in Unwritten /\ loc \in Working
      /\ UNCHANGED <<registry, files>>
  BY DEF Read, Locations, Goto, Unwritten, Working, IInv, TypeOK
<1>2. /\ call'[p].cmd = call[p].cmd /\ call'[p].was = call[p].was
      /\ call'[p].error = call[p].error /\ call'[p].snap = registry
      /\ call'[p].saved = IF call[p].cmd = "uninstall"
                            THEN [i \in Files |-> IF files[i] = "missing"
                                                    THEN Untouched ELSE files[i]]
                            ELSE NothingSaved
  BY DEF Read, Snapshot, IInv, TypeOK, Calls
<1>3. /\ call[p].was \in Found /\ call[p].error = "none"
      /\ registry = call[p].was.registry /\ files = call[p].was.files
  BY <1>1 DEF UInv, UndoesInOrder, AsFound
<1>4. Restorable(call[p])'
  BY <1>1, <1>2, <1>3, LifecycleAssumption
     DEF Restorable, NothingSaved, IInv, TypeOK
<1>5. \A i \in Files : call[p].cmd = "uninstall" /\ call'[p].saved[i] = Untouched
                         => files[i] = "missing"
  BY <1>2, LifecycleAssumption DEF IInv, TypeOK
<1>6. \A i \in Files : call[p].cmd = "install" => call'[p].saved[i] = Untouched
  BY <1>2 DEF NothingSaved
<1>7. call[p].cmd \in {"enable", "disable"} => call'[p].saved = NothingSaved
  BY <1>2
<1>8. loc = "files" <=> call[p].cmd \in {"install", "uninstall"}
  OBVIOUS
<1>9. UndoesInOrder(p)'
  <2>1. loc \in {"files", "compare"}
    OBVIOUS
  <2> HIDE DEF loc
  <2> QED
    BY <1>1, <1>2, <1>3, <1>4, <1>5, <1>6, <1>7, <1>8, <2>1 DEF UndoesInOrder
<1> QED
  BY <1>1, <1>9, UndoStep

LEMMA ReadOnlyUndoes == ASSUME IInv, UInv, NEW p \in Procs, ReadOnly(p) PROVE UInv'
<1>1. /\ pc[p] = "locked" /\ pc[p] # "idle" /\ Goto(p, "release")
      /\ UNCHANGED <<registry, files>> /\ call'[p].was = call[p].was
  BY DEF ReadOnly, IInv, TypeOK, Calls
<1>2. call[p].was \in Found /\ AsFound(call[p])
  BY <1>1 DEF UInv, UndoesInOrder
<1> QED
  BY <1>1, <1>2, GivesUp DEF AsFound

LEMMA WriteFileUndoes == ASSUME IInv, UInv, NEW p \in Procs, WriteFile(p) PROVE UInv'
<1> DEFINE i == call[p].todo
<1>1. /\ pc[p] = "files" /\ Goto(p, "files") /\ "files" \in Locations
      /\ pc'[p] = "files" /\ UNCHANGED registry
      /\ call[p].cmd = "install" /\ i \in Files
      /\ \A j \in Files : files'[j] = IF j = i THEN "current" ELSE files[j]
  BY DEF WriteFile, Goto, Locations, IInv, TypeOK
<1>2. /\ call'[p].cmd = call[p].cmd /\ call'[p].was = call[p].was
      /\ call'[p].error = call[p].error /\ call'[p].snap = call[p].snap
      /\ call'[p].todo = i + 1
  BY DEF WriteFile, IInv, TypeOK, Calls
<1>3. \A j \in Files : call'[p].saved[j] =
        IF j # i THEN call[p].saved[j]
        ELSE IF files[i] = "current" THEN Untouched ELSE files[i]
  BY <1>1 DEF WriteFile, IInv, TypeOK, Calls
<1>4. /\ call[p].was \in Found /\ call[p].error = "none"
      /\ call[p].snap = call[p].was.registry /\ registry = call[p].was.registry
      /\ \A j \in Files : i <= j => call[p].saved[j] = Untouched
      /\ \A j \in Files : call[p].was.files[j] =
           IF call[p].saved[j] = Untouched THEN files[j] ELSE call[p].saved[j]
  BY <1>1 DEF UInv, UndoesInOrder, Unwritten, Working, Restorable, Lost
<1>5. Restorable(call[p])'
  <2>1. call[p].saved[i] = Untouched
    BY <1>1, <1>4 DEF Files
  <2>2. \A j \in Files : files[j] # Untouched
    BY LifecycleAssumption DEF IInv, TypeOK
  <2> QED
    BY <1>1, <1>2, <1>3, <1>4, <2>1, <2>2 DEF Restorable
<1>6. \A j \in Files : i + 1 <= j => call'[p].saved[j] = Untouched
  BY <1>1, <1>3, <1>4 DEF Files
<1>7. UndoesInOrder(p)'
  BY <1>1, <1>2, <1>4, <1>5, <1>6 DEF UndoesInOrder, Unwritten
<1> QED
  BY <1>1, <1>7, UndoStep

LEMMA RemoveFileUndoes == ASSUME IInv, UInv, NEW p \in Procs, RemoveFile(p) PROVE UInv'
<1> DEFINE i == call[p].todo
<1>1. /\ pc[p] = "files" /\ Goto(p, "files") /\ "files" \in Locations
      /\ pc'[p] = "files" /\ UNCHANGED registry
      /\ call[p].cmd = "uninstall" /\ i \in Files
      /\ \A j \in Files : files'[j] = IF j = i THEN "missing" ELSE files[j]
  BY DEF RemoveFile, Goto, Locations, IInv, TypeOK
<1>2. /\ call'[p].cmd = call[p].cmd /\ call'[p].was = call[p].was
      /\ call'[p].error = call[p].error /\ call'[p].snap = call[p].snap
      /\ call'[p].saved = call[p].saved
  BY DEF RemoveFile, IInv, TypeOK, Calls
<1>3. /\ call[p].was \in Found /\ call[p].error = "none"
      /\ call[p].snap = call[p].was.registry /\ registry = call[p].was.registry
      /\ \A j \in Files : call[p].saved[j] = Untouched => files[j] = "missing"
      /\ \A j \in Files : call[p].was.files[j] =
           IF call[p].saved[j] = Untouched THEN files[j] ELSE call[p].saved[j]
  BY <1>1 DEF UInv, UndoesInOrder, Unwritten, Working, Restorable, Lost
<1>4. \A j \in Files : call[p].saved[j] = Untouched => files'[j] = files[j]
  BY <1>1, <1>3
<1>5. Restorable(call[p])'
  BY <1>2, <1>3, <1>4 DEF Restorable
<1>6. \A j \in Files : call'[p].saved[j] = Untouched => files'[j] = "missing"
  BY <1>2, <1>3, <1>4
<1>7. UndoesInOrder(p)'
  BY <1>1, <1>2, <1>3, <1>5, <1>6 DEF UndoesInOrder, Unwritten
<1> QED
  BY <1>1, <1>7, UndoStep

\* A step from one place to another before the registry is replaced, or past
\* it, that changes neither the state nor the call.
LEMMA MoveUndoes ==
  ASSUME IInv, UInv, NEW p \in Procs, pc[p] \in Unwritten,
         NEW loc \in {"verify", "compare", "rename", "final"}, Goto(p, loc),
         UNCHANGED <<registry, files, call>>,
         loc \in {"verify", "final"} => call[p].cmd = "install"
  PROVE  UInv'
<1>1. /\ pc[p] # "idle" /\ pc[p] \in Working /\ loc \in Locations /\ pc'[p] = loc
  BY DEF Unwritten, Working, Locations, Goto, IInv, TypeOK
<1>2. UndoesInOrder(p)
  BY DEF UInv
<1>3. UndoesInOrder(p)'
  BY <1>1, <1>2 DEF UndoesInOrder, Unwritten, Working, Restorable
<1> QED
  BY <1>1, <1>3, UndoStep

\* A failure before the registry is replaced.
LEMMA FailUndoes ==
  ASSUME IInv, UInv, NEW p \in Procs, pc[p] \in Unwritten, NEW e \in Errors,
         FailWith(p, e), UNCHANGED registry,
         \/ e \in {"io", "changed"} /\ UNCHANGED files
         \/ e = "unverified" /\ call[p].cmd = "install"
  PROVE  UInv'
<1>1. /\ pc[p] # "idle" /\ pc[p] # "final" /\ pc[p] \in Working
      /\ AfterFailure(p) \in {"undo", "release"}
      /\ AfterFailure(p) \in Locations
      /\ Goto(p, AfterFailure(p)) /\ pc'[p] = AfterFailure(p)
  BY AfterFailureType
     DEF Unwritten, Working, FailWith, Locations, Goto, IInv, TypeOK
<1>2. /\ call'[p].cmd = call[p].cmd /\ call'[p].was = call[p].was
      /\ call'[p].error = e /\ call'[p].snap = call[p].snap
      /\ call'[p].saved = call[p].saved /\ call'[p].mutated = call[p].mutated
  BY DEF FailWith, IInv, TypeOK, Calls
<1>3. /\ call[p].was \in Found /\ call[p].error = "none"
      /\ call[p].snap = call[p].was.registry /\ registry = call[p].was.registry
      /\ Restorable(call[p])
      /\ call[p].cmd \in {"enable", "disable"} => call[p].saved = NothingSaved
  BY <1>1 DEF UInv, UndoesInOrder, Lost
<1>4. call[p].cmd \in {"install", "enable", "disable", "uninstall"}
  BY <1>1, LifecycleAssumption DEF IInv, InOrder
<1>5. CASE AfterFailure(p) = "undo"
  <2>1. call[p].cmd \in {"install", "uninstall"}
    BY <1>5 DEF AfterFailure
  <2>2. e \notin Lost => Restorable(call[p])'
    BY <1>2, <1>3 DEF Restorable, Lost
  <2>3. UndoesInOrder(p)'
    BY <1>1, <1>2, <1>3, <1>5, <2>1, <2>2
       DEF UndoesInOrder, Unwritten, Working
  <2> QED
    BY <1>1, <2>3, UndoStep
<1>6. CASE AfterFailure(p) = "release"
  <2>1. call[p].saved = NothingSaved /\ call[p].cmd # "install"
    BY <1>1, <1>3, <1>4, <1>6 DEF AfterFailure
  <2>2. files = call[p].was.files
    BY <1>3, <2>1, NothingToRestore DEF NothingSaved
  <2>3. AsFound(call[p])'
    BY <1>2, <1>3, <2>1, <2>2 DEF AsFound
  <2> QED
    BY <1>1, <1>2, <1>3, <1>6, <2>3, GivesUp
<1> QED
  BY <1>1, <1>5, <1>6

LEMMA RenameUndoes == ASSUME IInv, UInv, NEW p \in Procs, Rename(p) PROVE UInv'
<1>1. /\ pc[p] = "rename" /\ Goto(p, "final") /\ "final" \in Locations
      /\ pc'[p] = "final" /\ UNCHANGED files
  BY DEF Rename, Goto, Locations, IInv, TypeOK
<1>2. /\ call'[p].cmd = call[p].cmd /\ call'[p].was = call[p].was
      /\ call'[p].error = call[p].error /\ call'[p].snap = call[p].snap
      /\ call'[p].saved = call[p].saved /\ call'[p].mutated
  BY DEF Rename, IInv, TypeOK, Calls
<1>3. UndoesInOrder(p)
  BY DEF UInv
<1>4. UndoesInOrder(p)'
  BY <1>1, <1>2, <1>3 DEF UndoesInOrder, Unwritten, Working, Restorable
<1> QED
  BY <1>1, <1>4, UndoStep

\* After the registry is replaced, only an uninstall undoes.
LEMMA UnconfirmedUndoes ==
  ASSUME IInv, UInv, NEW p \in Procs, pc[p] = "final",
         FailWith(p, "unconfirmed"), UNCHANGED <<registry, files>>
  PROVE  UInv'
<1>1. /\ pc[p] # "idle" /\ pc[p] \in Working
      /\ AfterFailure(p) \in {"undo", "release"}
      /\ AfterFailure(p) \in Locations
      /\ Goto(p, AfterFailure(p)) /\ pc'[p] = AfterFailure(p)
  BY AfterFailureType
     DEF Working, FailWith, Locations, Goto, IInv, TypeOK
<1>2. /\ call'[p].cmd = call[p].cmd /\ call'[p].was = call[p].was
      /\ call'[p].error = "unconfirmed" /\ call'[p].snap = call[p].snap
      /\ call'[p].saved = call[p].saved
  BY DEF FailWith, IInv, TypeOK, Calls
<1>3. /\ call[p].was \in Found /\ call[p].snap = call[p].was.registry
      /\ Restorable(call[p])
      /\ call[p].cmd = "uninstall" => call[p].mutated
  BY <1>1 DEF UInv, UndoesInOrder, Lost
<1>4. CASE call[p].cmd = "uninstall"
  <2>1. AfterFailure(p) = "undo"
    BY <1>3, <1>4 DEF AfterFailure
  <2>2. Restorable(call[p])'
    BY <1>2, <1>3 DEF Restorable
  <2>3. UndoesInOrder(p)'
    BY <1>1, <1>2, <1>3, <1>4, <2>1, <2>2 DEF UndoesInOrder, Unwritten, Working
  <2> QED
    BY <1>1, <2>3, UndoStep
<1>5. CASE call[p].cmd # "uninstall"
  <2>1. AfterFailure(p) = "release"
    BY <1>1, <1>5 DEF AfterFailure
  <2>2. ~Restores(call'[p])
    BY <1>2, <1>5 DEF Restores
  <2> QED
    BY <1>1, <1>2, <1>3, <2>1, <2>2, GivesUp
<1> QED
  BY <1>4, <1>5

LEMMA FinalCheckUndoes ==
  ASSUME IInv, UInv, NEW p \in Procs, FinalCheck(p) PROVE UInv'
<1>1. pc[p] = "final" /\ pc[p] # "idle" /\ UNCHANGED <<registry, files>>
  BY DEF FinalCheck
<1>2. CASE FailWith(p, "unconfirmed")
  BY <1>1, <1>2, UnconfirmedUndoes
<1>3. CASE ~FailWith(p, "unconfirmed")
  <2>1. Goto(p, "release") /\ UNCHANGED call
    BY <1>3 DEF FinalCheck
  <2>2. call[p].was \in Found /\ call[p].error = "none"
    BY <1>1 DEF UInv, UndoesInOrder
  <2> QED
    BY <1>1, <2>1, <2>2, GivesUp DEF Restores
<1> QED
  BY <1>2, <1>3

\* One file is put back, and struck off.
LEMMA PutBack ==
  ASSUME IInv, UInv, NEW p \in Procs, pc[p] = "undo", NEW i \in Saved(p),
         files' = [files EXCEPT ![i] = call[p].saved[i]],
         call' = [call EXCEPT ![p].saved[i] = Untouched],
         UNCHANGED <<registry, pc>>
  PROVE  UInv'
<1>1. /\ Goto(p, "undo") /\ "undo" \in Locations /\ pc'[p] = "undo" /\ i \in Files
      /\ \A j \in Files : files'[j] = IF j = i THEN call[p].saved[i] ELSE files[j]
  BY DEF Goto, Locations, Saved, IInv, TypeOK
<1>2. /\ call'[p].cmd = call[p].cmd /\ call'[p].was = call[p].was
      /\ call'[p].error = call[p].error /\ call'[p].snap = call[p].snap
  BY DEF IInv, TypeOK, Calls
<1>3. \A j \in Files :
        call'[p].saved[j] = IF j = i THEN Untouched ELSE call[p].saved[j]
  BY <1>1 DEF IInv, TypeOK, Calls
<1>4. /\ call[p].was \in Found /\ call[p].snap = call[p].was.registry
      /\ call[p].error \notin Lost => Restorable(call[p])
      /\ call[p].cmd = "install" => registry = call[p].was.registry
      /\ call[p].cmd \in {"install", "uninstall"}
  BY DEF UInv, UndoesInOrder, Working
<1>5. call[p].error \notin Lost => Restorable(call[p])'
  BY <1>1, <1>2, <1>3, <1>4 DEF Restorable, Saved
<1>6. UndoesInOrder(p)'
  BY <1>1, <1>2, <1>4, <1>5 DEF UndoesInOrder, Working, Unwritten
<1> QED
  BY <1>1, <1>6, UndoStep

\* The rollback itself fails.
LEMMA RollbackFails ==
  ASSUME IInv, UInv, NEW p \in Procs, pc[p] = "undo",
         call' = [call EXCEPT ![p].error = "rollback_failed"],
         Goto(p, "release")
  PROVE  UInv'
<1>1. call'[p].was = call[p].was /\ call'[p].error = "rollback_failed"
  BY DEF IInv, TypeOK, Calls
<1>2. call[p].was \in Found
  BY DEF UInv, UndoesInOrder
<1> QED
  BY <1>1, <1>2, GivesUp DEF Restores

LEMMA UndoFileUndoes ==
  ASSUME IInv, UInv, NEW p \in Procs, UndoFile(p) \/ RestoreFile(p) PROVE UInv'
<1>1. /\ pc[p] = "undo" /\ UNCHANGED registry
      /\ \E i \in Saved(p) :
           \/ /\ files' = [files EXCEPT ![i] = call[p].saved[i]]
              /\ call' = [call EXCEPT ![p].saved[i] = Untouched]
              /\ UNCHANGED pc
           \/ /\ call' = [call EXCEPT ![p].error = "rollback_failed"]
              /\ Goto(p, "release")
  BY DEF UndoFile, RestoreFile
<1> QED
  BY <1>1, PutBack, RollbackFails

LEMMA UndoneUndoes == ASSUME IInv, UInv, NEW p \in Procs, Undone(p) PROVE UInv'
<1>1. /\ pc[p] = "undo" /\ pc[p] # "idle" /\ Goto(p, "release")
      /\ UNCHANGED <<files, call>>
      /\ \A i \in Files : call[p].saved[i] = Untouched
      /\ registry' = IF call[p].cmd = "uninstall" THEN call[p].snap ELSE registry
  BY DEF Undone, Saved
<1>2. /\ call[p].was \in Found /\ call[p].snap = call[p].was.registry
      /\ call[p].error \notin Lost => Restorable(call[p])
      /\ call[p].cmd = "install" => registry = call[p].was.registry
      /\ call[p].cmd \in {"install", "uninstall"}
  BY <1>1 DEF UInv, UndoesInOrder, Working
<1>3. registry' = call[p].was.registry
  BY <1>1, <1>2
<1>4. Restores(call[p]) => files = call[p].was.files
  BY <1>1, <1>2, NothingToRestore DEF Restores, Lost
<1> QED
  BY <1>1, <1>2, <1>3, <1>4, GivesUp DEF AsFound

LEMMA IoFailsUndoes == ASSUME IInv, UInv, NEW p \in Procs, IoFails(p) PROVE UInv'
<1>1. UNCHANGED <<registry, files>>
  BY DEF IoFails
<1>2. CASE pc[p] = "locked" /\ call' = [call EXCEPT ![p].error = "io"] /\ Goto(p, "release")
  <2>1. call'[p].was = call[p].was
    BY <1>2 DEF IInv, TypeOK, Calls
  <2>2. call[p].was \in Found /\ AsFound(call[p])
    BY <1>2 DEF UInv, UndoesInOrder
  <2> QED
    BY <1>1, <1>2, <2>1, <2>2, GivesUp DEF AsFound
<1>3. CASE pc[p] \in Unwritten /\ FailWith(p, "io")
  BY <1>1, <1>3, FailUndoes DEF Errors
<1>4. CASE pc[p] = "final" /\ FailWith(p, "unconfirmed")
  BY <1>1, <1>4, UnconfirmedUndoes
<1>5. CASE pc[p] = "undo" /\ call' = [call EXCEPT ![p].error = "rollback_failed"]
           /\ Goto(p, "release")
  BY <1>5, RollbackFails
<1> QED
  BY <1>2, <1>3, <1>4, <1>5 DEF IoFails, Unwritten

LEMMA RunUndoes == ASSUME IInv, UInv, NEW p \in Procs, Run(p) PROVE UInv'
<1>1. CASE FilesDone(p)
  BY <1>1, MoveUndoes DEF FilesDone, Unwritten
<1>2. CASE Verify(p)
  <2>1. pc[p] = "verify" /\ call[p].cmd = "install"
    BY <1>2 DEF Verify, UInv, UndoesInOrder
  <2> QED
    BY <1>2, <2>1, MoveUndoes, FailUndoes DEF Verify, Unwritten, Errors
<1>3. CASE Compare(p)
  BY <1>3, MoveUndoes, FailUndoes DEF Compare, Unwritten, Errors
<1>4. CASE ReleaseLock(p)
  BY <1>4, GivesUp DEF ReleaseLock
<1> QED
  BY <1>1, <1>2, <1>3, <1>4, ReadUndoes, ReadOnlyUndoes, WriteFileUndoes,
     RemoveFileUndoes, RenameUndoes, FinalCheckUndoes, UndoFileUndoes,
     UndoneUndoes DEF Run

\* Where the others respect the lock, they change something only while no
\* process is inside a command.
LEMMA OutsideUndoes ==
  ASSUME Cooperative, IInv, UInv,
         RemoveStaleLock \/ ForeignWrite \/ EditFile \/ UNCHANGED vars
  PROVE  UInv'
<1>1. UNCHANGED <<pc, call>>
  BY DEF RemoveStaleLock, ForeignWrite, EditFile, vars
<1>2. CASE lock = Nil
  <2>1. \A p \in Procs : pc'[p] = "idle"
    BY <1>1, <1>2, LifecycleAssumption DEF IInv, InOrder
  <2> QED
    BY <2>1 DEF UInv, UndoesInOrder, Working, Unwritten
<1>3. CASE lock # Nil
  <2>1. UNCHANGED <<registry, files>>
    BY <1>3 DEF RemoveStaleLock, ForeignWrite, EditFile, OthersMayWrite, vars
  <2> QED
    BY <1>1, <2>1 DEF UInv, UndoesInOrder, AsFound, Restorable
<1> QED
  BY <1>2, <1>3

LEMMA UndoNext == ASSUME Cooperative, IInv, UInv, [Next]_vars PROVE UInv'
<1>1. ASSUME NEW p \in Procs,
             Acquire(p) \/ Run(p) \/ IoFails(p) \/ VerificationFails(p) \/ Crash(p)
      PROVE  UInv'
  <2>1. CASE VerificationFails(p)
    BY <2>1, FailUndoes DEF VerificationFails, Unwritten, Errors
  <2>2. CASE Crash(p)
    BY <2>2, GivesUp DEF Crash
  <2> QED
    BY <1>1, <2>1, <2>2, AcquireUndoes, RunUndoes, IoFailsUndoes
<1> QED
  BY <1>1, OutsideUndoes DEF Next

\* A call that fails without saying that its rollback failed, or that it could
\* not verify a file, leaves the registry and the owned files as it found
\* them, wherever it failed, as long as the others write while no lock file
\* exists.
THEOREM FailuresRestore == ASSUME Cooperative PROVE Spec => []FailedCallsRestore
<1>1. Init => UInv
  BY UndoInit
<1>2. IInv /\ UInv /\ [Next]_vars => UInv'
  BY UndoNext
<1>3. UInv => FailedCallsRestore
  BY DEF UInv, UndoesInOrder, Restores, AsFound, FailedCallsRestore
<1> QED
  BY <1>1, <1>2, <1>3, LifecycleInvariance, PTL DEF Spec
=============================================================================
