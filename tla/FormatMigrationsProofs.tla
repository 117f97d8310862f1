------------------------ MODULE FormatMigrationsProofs ------------------------
(***************************************************************************)
(* Theorems about FormatMigrations, for any number of processes, scope     *)
(* bindings and backup directories and any target format.                  *)
(***************************************************************************)
EXTENDS FormatMigrations, TLAPS

(***************************************************************************)
(* The inductive invariant.  What a process has read of the database, and  *)
(* the backup it has made, are still true of the file and the directories  *)
(* it finds later: the format only grows, a binding is final, a row of the *)
(* ledger stays, and a backup under construction belongs to one process.   *)
(***************************************************************************)
Reading   == {"read", "identity", "inspect", "integrity", "bind", "reread",
              "open", "directory", "copy", "seal", "register", "apply",
              "mark", "check", "recheck"}
Known     == Reading \ {"read"}
Opening   == {"integrity", "bind", "reread", "open"}
Bound     == {"reread", "open"}
BackingUp == {"directory", "copy", "seal"}
Copying   == {"copy", "seal"}
Migrating == {"register", "apply", "mark"}
Checking  == {"check", "recheck"}

FileInOrder(p) ==
  /\ pc[p] \in Reading => Initialised
  /\ pc[p] \in Known =>
       /\ call[p].version \in Versions /\ call[p].version <= file.version
       /\ call[p].binding # Nil => file.binding = call[p].binding
  /\ pc[p] \in Opening => call[p].version = Target
  /\ pc[p] \in Bound /\ call[p].expected # Nil => file.binding = call[p].expected
  /\ pc[p] \in Checking =>
       /\ call[p].step - 1 \in Migrations
       /\ file.ledger[call[p].step - 1] # Nil

BackupInOrder(p) ==
  /\ pc[p] \in BackingUp =>
       /\ call[p].dir \in Directories
       /\ call[p].step \in Migrations /\ call[p].step = call[p].version
  /\ pc[p] \in Copying =>
       artifacts[call[p].dir] # Nil /\ ~artifacts[call[p].dir].sealed
  /\ pc[p] \in Migrating =>
       /\ call[p].dir \in Directories /\ call[p].step \in Migrations
       /\ artifacts[call[p].dir] # Nil /\ artifacts[call[p].dir].sealed
       /\ artifacts[call[p].dir].version <= call[p].step

\* A migrating process and its directory.
CallInOrder(p) ==
  /\ pc[p] # "idle" /\ call[p].op = "migrate" =>
       /\ p \in Migrators
       /\ call[p].dir \in Directories
  /\ pc[p] \in BackingUp \cup Migrating => call[p].op = "migrate"

InOrder(p) ==
  /\ FileInOrder(p)
  /\ BackupInOrder(p)
  /\ CallInOrder(p)

Exclusive ==
  \A p, q \in Procs : p # q /\ pc[p] \in Copying /\ pc[q] \in Copying
    => call[p].dir # call[q].dir

IInv ==
  /\ TypeOK
  /\ \A p \in Procs : InOrder(p)
  /\ Exclusive
  /\ BackupsBehindLedger
  /\ LedgerFollowsFormat

(***************************************************************************)
(* What a step of one process leaves to the others.                        *)
(***************************************************************************)
FileGrows ==
  Initialised =>
    /\ file' \in Images
    /\ file'.version >= file.version
    /\ file.binding # Nil => file'.binding = file.binding
    /\ \A m \in Migrations : file.ledger[m] # Nil => file'.ledger[m] # Nil

IsSealed(d) == artifacts[d] # Nil /\ artifacts[d].sealed

Owns(p, d) == pc[p] \in Copying /\ call[p].dir = d

\* A sealed backup is never touched, one under construction by its owner only.
BackupsKept(p) ==
  \A d \in Directories :
    IsSealed(d) \/ (\E q \in Procs \ {p} : Owns(q, d)) => artifacts'[d] = artifacts[d]

\* A row of the new ledger is an old one, or names a sealed backup in a format
\* no newer than its migration, and is not completed below the format.
LedgerKept ==
  Initialised' =>
    \A m \in Migrations : file'.ledger[m] # Nil =>
      \/ /\ Initialised
         /\ file.ledger[m] # Nil
         /\ file'.ledger[m].artifact = file.ledger[m].artifact
         /\ file'.ledger[m].state = "completed" =>
              file.ledger[m].state = "completed" \/ file'.version > m
      \/ /\ file'.ledger[m].state # "completed"
         /\ file'.ledger[m].artifact \in Directories
         /\ IsSealed(file'.ledger[m].artifact)
         /\ artifacts[file'.ledger[m].artifact].version <= m

LEMMA NoCallType == NoCall \in Calls
  BY DEF NoCall, Calls

LEMMA OthersInOrder ==
  ASSUME TypeOK, TypeOK', NEW p \in Procs, NEW q \in Procs, p # q,
         InOrder(q), FileGrows, BackupsKept(p),
         pc'[q] = pc[q], call'[q] = call[q]
  PROVE  InOrder(q)'
<1>1. FileInOrder(q)'
  <2>1. pc[q] \in Reading => Initialised /\ Initialised'
    BY DEF InOrder, FileInOrder, FileGrows, Initialised
  <2>2. pc[q] \in Known => call[q].version <= file'.version
    <3> SUFFICES ASSUME pc[q] \in Known PROVE call[q].version <= file'.version
      OBVIOUS
    <3>1. file.version \in Nat /\ file'.version \in Nat /\ call[q].version \in Nat
      BY <2>1 DEF Known, Reading, Initialised, Images, Versions, TypeOK, Calls
    <3> QED
      BY <2>1, <3>1 DEF InOrder, FileInOrder, FileGrows, Known, Reading
  <2>3. pc[q] \in Known => call[q].version \in Versions
           /\ (call[q].binding # Nil => file'.binding = call[q].binding)
    BY <2>1 DEF InOrder, FileInOrder, FileGrows, Known, Reading
  <2>4. pc[q] \in Bound /\ call[q].expected # Nil => file'.binding = call[q].expected
    BY <2>1 DEF InOrder, FileInOrder, FileGrows, Known, Reading, Bound
  <2>5. pc[q] \in Checking => /\ call[q].step - 1 \in Migrations
                              /\ file'.ledger[call[q].step - 1] # Nil
    BY <2>1 DEF InOrder, FileInOrder, FileGrows, Checking, Reading
  <2> QED
    BY <2>1, <2>2, <2>3, <2>4, <2>5 DEF InOrder, FileInOrder
<1>2. BackupInOrder(q)'
  <2>1. pc[q] \in Copying \cup Migrating => artifacts'[call[q].dir] = artifacts[call[q].dir]
    BY DEF InOrder, BackupInOrder, BackupsKept, Owns, IsSealed, Copying, BackingUp
  <2> QED
    BY <2>1 DEF InOrder, BackupInOrder, Copying
<1>3. CallInOrder(q)'
  BY DEF InOrder, CallInOrder
<1> QED
  BY <1>1, <1>2, <1>3 DEF InOrder

LEMMA StepInv ==
  ASSUME IInv, TypeOK', NEW p \in Procs,
         \A q \in Procs \ {p} : pc'[q] = pc[q] /\ call'[q] = call[q],
         FileGrows, BackupsKept(p), LedgerKept,
         InOrder(p)',
         pc'[p] \in Copying =>
           \/ pc[p] \in Copying /\ call'[p].dir = call[p].dir
           \/ \A q \in Procs \ {p} : ~Owns(q, call'[p].dir)
  PROVE  IInv'
<1>1. \A q \in Procs : InOrder(q)'
  BY OthersInOrder DEF IInv
<1>2. Exclusive'
  BY DEF IInv, Exclusive, Owns
<1>3. BackupsBehindLedger'
  <2> SUFFICES ASSUME Initialised', NEW m \in Migrations, file'.ledger[m] # Nil
               PROVE  LET artifact == artifacts'[file'.ledger[m].artifact]
                      IN  artifact # Nil /\ artifact.sealed /\ artifact.version <= m
    BY DEF BackupsBehindLedger, Initialised
  <2> DEFINE d == file'.ledger[m].artifact
  <2>1. d \in Directories
    BY DEF Initialised, Images, Rows
  <2>2. IsSealed(d) /\ artifacts[d].version <= m
    BY DEF LedgerKept, IInv, BackupsBehindLedger, IsSealed
  <2>3. artifacts'[d] = artifacts[d]
    BY <2>1, <2>2 DEF BackupsKept
  <2> QED
    BY <2>2, <2>3 DEF IsSealed
<1>4. LedgerFollowsFormat'
  <2> SUFFICES ASSUME Initialised', NEW m \in Migrations, file'.ledger[m] # Nil,
                      file'.ledger[m].state = "completed"
               PROVE  file'.version > m
    BY DEF LedgerFollowsFormat, Initialised
  <2>1. CASE file'.version > m
    BY <2>1
  <2>2. CASE Initialised /\ file.ledger[m] # Nil /\ file.ledger[m].state = "completed"
    <3>1. file.version > m /\ file'.version >= file.version
      BY <2>2 DEF IInv, LedgerFollowsFormat, FileGrows
    <3>2. file.version \in Nat /\ file'.version \in Nat /\ m \in Nat
      BY <2>2 DEF Initialised, Images, Versions, Migrations
    <3> QED
      BY <3>1, <3>2
  <2> QED
    BY <2>1, <2>2 DEF LedgerKept
<1> QED
  BY <1>1, <1>2, <1>3, <1>4 DEF IInv

\* A step that touches neither the file nor the backups.
LEMMA QuietInv ==
  ASSUME IInv, NEW p \in Procs, UNCHANGED <<file, artifacts>>,
         quarantined' \in BOOLEAN, damaged' \in BOOLEAN, thrown' \in BOOLEAN,
         NEW loc \in Locations, NEW c \in Calls,
         pc' = [pc EXCEPT ![p] = loc], call' = [call EXCEPT ![p] = c],
         InOrder(p)',
         loc \in Copying => pc[p] \in Copying /\ c.dir = call[p].dir
  PROVE  IInv'
<1>1. TypeOK'
  BY DEF IInv, TypeOK
<1>2. pc'[p] = loc /\ call'[p] = c
  BY DEF IInv, TypeOK
<1>3. \A q \in Procs \ {p} : pc'[q] = pc[q] /\ call'[q] = call[q]
  BY DEF IInv, TypeOK
<1>4. FileGrows
  <2> SUFFICES ASSUME Initialised PROVE file.version >= file.version
    BY DEF FileGrows, Initialised
  <2> QED
    BY DEF Initialised, Images, Versions
<1>5. BackupsKept(p) /\ LedgerKept
  BY DEF BackupsKept, LedgerKept, Initialised
<1> QED
  BY <1>1, <1>2, <1>3, <1>4, <1>5, StepInv

LEMMA IdleInOrder ==
  ASSUME NEW p \in Procs, pc'[p] = "idle"
  PROVE  InOrder(p)'
BY DEF InOrder, FileInOrder, BackupInOrder, CallInOrder, Reading, Known,
       Opening, Bound, BackingUp, Copying, Migrating, Checking

\* A call that ends and leaves the file and the backups as they are.
LEMMA EndInv ==
  ASSUME IInv, NEW p \in Procs, End(p), UNCHANGED <<file, artifacts>>,
         quarantined' \in BOOLEAN, damaged' \in BOOLEAN, thrown' \in BOOLEAN
  PROVE  IInv'
<1>1. pc' = [pc EXCEPT ![p] = "idle"] /\ call' = [call EXCEPT ![p] = NoCall]
  BY DEF End, Goto
<1>2. InOrder(p)'
  BY <1>1, IdleInOrder DEF IInv, TypeOK
<1>3. "idle" \in Locations /\ "idle" \notin Copying
  BY DEF Locations, Copying
<1> QED
  BY <1>1, <1>2, <1>3, NoCallType, QuietInv

\* A call that goes on without a change of what it remembers.
LEMMA GotoInv ==
  ASSUME IInv, NEW p \in Procs, NEW loc \in Locations, Goto(p, loc),
         UNCHANGED <<file, artifacts, quarantined, damaged, thrown, call>>,
         InOrder(p)',
         loc \in Copying => pc[p] \in Copying
  PROVE  IInv'
<1>1. call' = [call EXCEPT ![p] = call[p]] /\ call[p] \in Calls
  BY DEF IInv, TypeOK
<1>2. quarantined' \in BOOLEAN /\ damaged' \in BOOLEAN /\ thrown' \in BOOLEAN
  BY DEF IInv, TypeOK
<1> QED
  BY <1>1, <1>2, QuietInv DEF Goto

(***************************************************************************)
(* The initial states, and the steps both calls take.                      *)
(***************************************************************************)
LEMMA InitInv == Init => IInv
<1> SUFFICES ASSUME Init PROVE IInv
  OBVIOUS
<1>1. TypeOK
  BY NoCallType DEF Init, TypeOK, Images, NoRows, Locations
<1>2. \A p \in Procs : InOrder(p)
  BY DEF Init, InOrder, FileInOrder, BackupInOrder, CallInOrder, Reading, Known,
         Opening, Bound, BackingUp, Copying, Migrating, Checking
<1>3. Exclusive
  BY DEF Init, Exclusive, Copying
<1>4. BackupsBehindLedger /\ LedgerFollowsFormat
  BY DistinctImages
     DEF Init, BackupsBehindLedger, LedgerFollowsFormat, Initialised, NoRows
<1> QED
  BY <1>1, <1>2, <1>3, <1>4 DEF IInv

LEMMA OpenInv == ASSUME IInv, NEW p \in Procs, Open(p) PROVE IInv'
<1>1. PICK create \in BOOLEAN, expected \in Bindings \cup {Nil} :
        call' = [call EXCEPT ![p] =
                   [NoCall EXCEPT !.create = create, !.expected = expected,
                                  !.existed = file # Nil]]
  BY DEF Open
<1> DEFINE c == [NoCall EXCEPT !.create = create, !.expected = expected,
                               !.existed = file # Nil]
<1>2. c \in Calls /\ c.op = "open"
  BY NoCallType DEF NoCall, Calls
<1>3. pc'[p] = "connect" /\ call'[p] = c
  BY <1>1 DEF Open, Goto, IInv, TypeOK
<1>4. InOrder(p)'
  BY <1>2, <1>3
     DEF InOrder, FileInOrder, BackupInOrder, CallInOrder, Reading, Known,
         Opening, Bound, BackingUp, Copying, Migrating, Checking
<1>5. "connect" \in Locations /\ "connect" \notin Copying
  BY DEF Locations, Copying
<1> HIDE DEF c
<1>6. call' = [call EXCEPT ![p] = c]
  BY <1>1 DEF c
<1> QED
  BY <1>2, <1>4, <1>5, <1>6, QuietInv DEF Open, Goto, IInv, TypeOK

LEMMA MigrateInv == ASSUME IInv, NEW p \in Procs, Migrate(p) PROVE IInv'
<1>1. PICK expected \in Bindings \cup {Nil}, d \in Directories :
        call' = [call EXCEPT ![p] =
                   [NoCall EXCEPT !.op = "migrate", !.expected = expected,
                                  !.existed = TRUE, !.dir = d]]
  BY DEF Migrate
<1> DEFINE c == [NoCall EXCEPT !.op = "migrate", !.expected = expected,
                               !.existed = TRUE, !.dir = d]
<1>2. c \in Calls /\ c.dir = d
  BY NoCallType DEF NoCall, Calls
<1>3. pc'[p] = "connect" /\ call'[p] = c
  BY <1>1 DEF Migrate, Goto, IInv, TypeOK
<1>4. InOrder(p)'
  BY <1>2, <1>3
     DEF Migrate, InOrder, FileInOrder, BackupInOrder, CallInOrder, Reading,
         Known, Opening, Bound, BackingUp, Copying, Migrating, Checking
<1>5. "connect" \in Locations /\ "connect" \notin Copying
  BY DEF Locations, Copying
<1> HIDE DEF c
<1>6. call' = [call EXCEPT ![p] = c]
  BY <1>1 DEF c
<1> QED
  BY <1>2, <1>4, <1>5, <1>6, QuietInv DEF Migrate, Goto, IInv, TypeOK

LEMMA ConnectInv == ASSUME IInv, NEW p \in Procs, Connect(p) PROVE IInv'
<1>1. pc'[p] = "probe" /\ call'[p] = call[p]
      /\ \A q \in Procs \ {p} : pc'[q] = pc[q] /\ call'[q] = call[q]
  BY DEF Connect, Goto, IInv, TypeOK
<1>2. TypeOK'
  BY DEF Connect, Goto, IInv, TypeOK, Locations
<1>3. FileGrows
  <2> SUFFICES ASSUME Initialised PROVE file' = file /\ file.version >= file.version
    BY DEF FileGrows, Initialised
  <2> QED
    BY DistinctImages DEF Connect, Initialised, Images, Versions
<1>4. BackupsKept(p) /\ LedgerKept
  BY DistinctImages DEF Connect, BackupsKept, LedgerKept, Initialised
<1>5. InOrder(p)'
  BY <1>1 DEF Connect, IInv, InOrder, FileInOrder, BackupInOrder, CallInOrder,
              Reading, Known, Opening, Bound, BackingUp, Copying, Migrating, Checking
<1>6. pc'[p] \notin Copying
  BY <1>1 DEF Copying
<1> QED
  BY <1>1, <1>2, <1>3, <1>4, <1>5, <1>6, StepInv

LEMMA ProbeInv == ASSUME IInv, NEW p \in Procs, Probe(p) PROVE IInv'
<1>1. CASE Initialised /\ Goto(p, "read") /\ UNCHANGED call
  <2>1. pc'[p] = "read"
    BY <1>1 DEF Goto, IInv, TypeOK
  <2>2. InOrder(p)'
    BY <1>1, <2>1
       DEF Probe, IInv, InOrder, FileInOrder, BackupInOrder, CallInOrder, Reading,
           Known, Opening, Bound, BackingUp, Copying, Migrating, Checking, Initialised
  <2>3. "read" \in Locations /\ "read" \notin Copying
    BY DEF Locations, Copying
  <2> QED
    BY <1>1, <2>2, <2>3, GotoInv DEF Probe
<1>2. CASE Goto(p, "bootstrap") /\ UNCHANGED call
  <2>1. pc'[p] = "bootstrap"
    BY <1>2 DEF Goto, IInv, TypeOK
  <2>2. InOrder(p)'
    BY <1>2, <2>1
       DEF Probe, IInv, InOrder, FileInOrder, BackupInOrder, CallInOrder, Reading,
           Known, Opening, Bound, BackingUp, Copying, Migrating, Checking
  <2>3. "bootstrap" \in Locations /\ "bootstrap" \notin Copying
    BY DEF Locations, Copying
  <2> QED
    BY <1>2, <2>2, <2>3, GotoInv DEF Probe
<1>3. CASE End(p)
  BY <1>3, EndInv DEF Probe, IInv, TypeOK
<1> QED
  BY <1>1, <1>2, <1>3 DEF Probe

LEMMA BootstrapInv == ASSUME IInv, NEW p \in Procs, Bootstrap(p) PROVE IInv'
<1>1. CASE Initialised
  BY <1>1, EndInv DEF Bootstrap, IInv, TypeOK
<1>2. CASE ~Initialised
  <2>1. /\ file' = [version |-> Target, binding |-> call[p].expected, ledger |-> NoRows]
        /\ Goto(p, "read")
        /\ UNCHANGED <<call, artifacts, quarantined, damaged, thrown>>
    BY <1>2 DEF Bootstrap
  <2>2. file' \in Images
    BY <2>1, MigrationAssumption
       DEF Images, Versions, NoRows, IInv, TypeOK, Calls
  <2>3. TypeOK'
    BY <2>1, <2>2 DEF Goto, IInv, TypeOK, Locations
  <2>4. pc'[p] = "read" /\ \A q \in Procs \ {p} : pc'[q] = pc[q] /\ call'[q] = call[q]
    BY <2>1 DEF Goto, IInv, TypeOK
  <2>5. FileGrows /\ BackupsKept(p)
    BY <1>2, <2>1 DEF FileGrows, BackupsKept
  <2>6. LedgerKept
    BY <2>1 DEF LedgerKept, NoRows
  <2>7. InOrder(p)'
    BY <2>1, <2>2, <2>4
       DEF Bootstrap, IInv, InOrder, FileInOrder, BackupInOrder, CallInOrder,
           Reading, Known, Opening, Bound, BackingUp, Copying, Migrating, Checking,
           Initialised
  <2>8. pc'[p] \notin Copying
    BY <2>4 DEF Copying
  <2> QED
    BY <2>1, <2>3, <2>4, <2>5, <2>6, <2>7, <2>8, StepInv
<1> QED
  BY <1>1, <1>2

LEMMA ReadRowsInv == ASSUME IInv, NEW p \in Procs, ReadRows(p) PROVE IInv'
<1>1. CASE Corrupt(p)
  BY <1>1, EndInv DEF Corrupt, ReadRows, ReadThrows, IInv, TypeOK
<1>2. CASE /\ call' = [call EXCEPT ![p].version = file.version,
                                   ![p].binding = file.binding]
           /\ Goto(p, "identity")
           /\ UNCHANGED <<quarantined, thrown>>
  <2> DEFINE c == [call[p] EXCEPT !.version = file.version, !.binding = file.binding]
  <2>1. file \in Images
    BY DEF ReadRows, IInv, InOrder, FileInOrder, Reading, Initialised
  <2>2. c \in Calls /\ c.version = file.version /\ c.binding = file.binding
        /\ c.op = call[p].op /\ c.dir = call[p].dir
    BY <2>1, ZenonT(60) DEF IInv, TypeOK, Calls, Images
  <2>3. call' = [call EXCEPT ![p] = c] /\ pc'[p] = "identity" /\ call'[p] = c
    BY <1>2 DEF Goto, IInv, TypeOK
  <2> HIDE DEF c
  <2>4. file' = file /\ file.version \in Versions /\ file.version <= file.version
    BY <2>1 DEF ReadRows, Images, Versions
  <2>5. InOrder(p)'
    BY <2>1, <2>2, <2>3, <2>4
       DEF ReadRows, IInv, InOrder, FileInOrder, BackupInOrder, CallInOrder,
           Reading, Known, Opening, Bound, BackingUp, Copying, Migrating, Checking,
           Initialised
  <2>6. "identity" \in Locations /\ "identity" \notin Copying
    BY DEF Locations, Copying
  <2> QED
    BY <1>2, <2>2, <2>3, <2>5, <2>6, QuietInv DEF ReadRows, Goto, IInv, TypeOK
<1> QED
  BY <1>1, <1>2 DEF ReadRows

\* The steps that only look at what they know.
LEMMA CheckIdentityInv == ASSUME IInv, NEW p \in Procs, CheckIdentity(p) PROVE IInv'
<1>1. CASE Corrupt(p)
  BY <1>1, EndInv DEF Corrupt, CheckIdentity, IInv, TypeOK
<1>2. CASE Goto(p, "inspect") /\ UNCHANGED <<quarantined, call>>
  <2>1. pc'[p] = "inspect"
    BY <1>2 DEF Goto, IInv, TypeOK
  <2>2. InOrder(p)'
    BY <1>2, <2>1
       DEF CheckIdentity, IInv, InOrder, FileInOrder, BackupInOrder, CallInOrder,
           Reading, Known, Opening, Bound, BackingUp, Copying, Migrating, Checking,
           Initialised
  <2>3. "inspect" \in Locations /\ "inspect" \notin Copying
    BY DEF Locations, Copying
  <2> QED
    BY <1>2, <2>2, <2>3, GotoInv DEF CheckIdentity
<1> QED
  BY <1>1, <1>2 DEF CheckIdentity

LEMMA InspectOpenInv == ASSUME IInv, NEW p \in Procs, InspectOpen(p) PROVE IInv'
<1>1. CASE End(p)
  BY <1>1, EndInv DEF InspectOpen, IInv, TypeOK
<1>2. CASE call[p].version = Target /\ Goto(p, "integrity") /\ UNCHANGED call
  <2>1. pc'[p] = "integrity"
    BY <1>2 DEF Goto, IInv, TypeOK
  <2>2. InOrder(p)'
    BY <1>2, <2>1
       DEF InspectOpen, IInv, InOrder, FileInOrder, BackupInOrder, CallInOrder,
           Reading, Known, Opening, Bound, BackingUp, Copying, Migrating, Checking,
           Initialised
  <2>3. "integrity" \in Locations /\ "integrity" \notin Copying
    BY DEF Locations, Copying
  <2> QED
    BY <1>2, <2>2, <2>3, GotoInv DEF InspectOpen
<1> QED
  BY <1>1, <1>2 DEF InspectOpen

LEMMA InspectMigrateInv == ASSUME IInv, NEW p \in Procs, InspectMigrate(p) PROVE IInv'
<1>1. CASE End(p)
  BY <1>1, EndInv DEF InspectMigrate, IInv, TypeOK
<1>2. CASE /\ call[p].version < Target
           /\ Goto(p, "directory")
           /\ call' = [call EXCEPT ![p].step = call[p].version]
  <2> DEFINE c == [call[p] EXCEPT !.step = call[p].version]
  <2>1. call[p].version \in Migrations
    BY <1>2, MigrationAssumption
       DEF InspectMigrate, IInv, InOrder, FileInOrder, Known, Reading, Versions,
           Migrations
  <2>2. c \in Calls /\ c.step = call[p].version /\ c.version = call[p].version
        /\ c.binding = call[p].binding /\ c.op = call[p].op /\ c.dir = call[p].dir
    BY <2>1 DEF IInv, TypeOK, Calls, Migrations
  <2>3. call' = [call EXCEPT ![p] = c] /\ pc'[p] = "directory" /\ call'[p] = c
    BY <1>2 DEF Goto, IInv, TypeOK
  <2> HIDE DEF c
  <2>4. InOrder(p)'
    BY <2>1, <2>2, <2>3
       DEF InspectMigrate, IInv, InOrder, FileInOrder, BackupInOrder, CallInOrder,
           Reading, Known, Opening, Bound, BackingUp, Copying, Migrating, Checking,
           Initialised
  <2>5. "directory" \in Locations /\ "directory" \notin Copying
    BY DEF Locations, Copying
  <2> QED
    BY <1>2, <2>2, <2>3, <2>4, <2>5, QuietInv DEF InspectMigrate, Goto, IInv, TypeOK
<1> QED
  BY <1>1, <1>2 DEF InspectMigrate

LEMMA CheckIntegrityInv ==
  ASSUME IInv, NEW p \in Procs, CheckIntegrity(p) PROVE IInv'
<1>1. CASE ReadThrows /\ quarantined' = TRUE /\ End(p)
  BY <1>1, EndInv DEF CheckIntegrity, ReadThrows, IInv, TypeOK
<1>2. CASE Goto(p, "bind") /\ UNCHANGED <<quarantined, thrown, call>>
  <2>1. pc'[p] = "bind"
    BY <1>2 DEF Goto, IInv, TypeOK
  <2>2. InOrder(p)'
    BY <1>2, <2>1
       DEF CheckIntegrity, IInv, InOrder, FileInOrder, BackupInOrder, CallInOrder,
           Reading, Known, Opening, Bound, BackingUp, Copying, Migrating, Checking,
           Initialised
  <2>3. "bind" \in Locations /\ "bind" \notin Copying
    BY DEF Locations, Copying
  <2> QED
    BY <1>2, <2>2, <2>3, GotoInv DEF CheckIntegrity
<1> QED
  BY <1>1, <1>2 DEF CheckIntegrity

\* The binding is written only where there is none.
LEMMA BindInv == ASSUME IInv, NEW p \in Procs, Bind(p) PROVE IInv'
<1>1. CASE UNCHANGED file /\ End(p)
  BY <1>1, EndInv DEF Bind, IInv, TypeOK
<1>2. CASE /\ ~(call[p].binding = Nil /\ call[p].expected # Nil)
           /\ UNCHANGED file
           /\ BindingAllowed(p) /\ Goto(p, "open") /\ UNCHANGED call
  <2>1. pc'[p] = "open"
    BY <1>2 DEF Goto, IInv, TypeOK
  <2>2. InOrder(p)'
    BY <1>2, <2>1
       DEF Bind, IInv, InOrder, FileInOrder, BackupInOrder, CallInOrder, Reading,
           Known, Opening, Bound, BackingUp, Copying, Migrating, Checking, Initialised,
           BindingAllowed
  <2>3. "open" \in Locations /\ "open" \notin Copying
    BY DEF Locations, Copying
  <2> QED
    BY <1>2, <2>2, <2>3, GotoInv DEF Bind
<1>3. CASE /\ call[p].binding = Nil /\ file.binding = Nil
           /\ file' = [file EXCEPT !.binding = call[p].expected]
           /\ Goto(p, "reread")
           /\ UNCHANGED call
  <2>1. file \in Images
    BY DEF Bind, IInv, InOrder, FileInOrder, Reading, Initialised
  <2>2. /\ file' \in Images /\ file'.version = file.version
        /\ file'.ledger = file.ledger /\ file'.binding = call[p].expected
    BY <1>3, <2>1 DEF Images, IInv, TypeOK, Calls
  <2>3. file.version \in Nat
    BY <2>1 DEF Images, Versions
  <2>4. TypeOK'
    BY <1>3, <2>2 DEF Bind, Goto, IInv, TypeOK, Locations
  <2>5. pc'[p] = "reread" /\ call'[p] = call[p]
        /\ \A q \in Procs \ {p} : pc'[q] = pc[q] /\ call'[q] = call[q]
    BY <1>3 DEF Goto, IInv, TypeOK
  <2>6. FileGrows
    BY <1>3, <2>2, <2>3 DEF FileGrows
  <2>7. BackupsKept(p) /\ LedgerKept
    BY <2>1, <2>2 DEF Bind, BackupsKept, LedgerKept, Initialised
  <2>8. InOrder(p)'
    BY <1>3, <2>2, <2>5
       DEF Bind, IInv, InOrder, FileInOrder, BackupInOrder, CallInOrder, Reading,
           Known, Opening, Bound, BackingUp, Copying, Migrating, Checking, Initialised
  <2>9. pc'[p] \notin Copying
    BY <2>5 DEF Copying
  <2> QED
    BY <2>4, <2>5, <2>6, <2>7, <2>8, <2>9, StepInv
<1> QED
  BY <1>1, <1>2, <1>3 DEF Bind

LEMMA RereadInv == ASSUME IInv, NEW p \in Procs, Reread(p) PROVE IInv'
<1>1. CASE ReadThrows /\ Corrupt(p)
  BY <1>1, EndInv DEF Reread, Corrupt, ReadThrows, IInv, TypeOK
<1>2. CASE Goto(p, "open") /\ UNCHANGED <<quarantined, thrown, call>>
  <2>1. pc'[p] = "open"
    BY <1>2 DEF Goto, IInv, TypeOK
  <2>2. InOrder(p)'
    BY <1>2, <2>1
       DEF Reread, IInv, InOrder, FileInOrder, BackupInOrder, CallInOrder, Reading,
           Known, Opening, Bound, BackingUp, Copying, Migrating, Checking,
           Initialised
  <2>3. "open" \in Locations /\ "open" \notin Copying
    BY DEF Locations, Copying
  <2> QED
    BY <1>2, <2>2, <2>3, GotoInv DEF Reread
<1> QED
  BY <1>1, <1>2 DEF Reread

(***************************************************************************)
(* The backup.                                                             *)
(***************************************************************************)
\* A step that gives a directory new content and leaves the file alone.
LEMMA BackupInv ==
  ASSUME IInv, NEW p \in Procs, UNCHANGED <<file, quarantined, damaged, thrown>>,
         NEW a \in Artifacts \cup {Nil},
         artifacts' = [artifacts EXCEPT ![call[p].dir] = a],
         ~IsSealed(call[p].dir),
         \A q \in Procs \ {p} : ~Owns(q, call[p].dir),
         NEW loc \in Locations, pc' = [pc EXCEPT ![p] = loc],
         NEW c \in Calls, call' = [call EXCEPT ![p] = c],
         InOrder(p)',
         loc \in Copying => c.dir = call[p].dir
  PROVE  IInv'
<1>1. TypeOK'
  BY DEF IInv, TypeOK
<1>2. pc'[p] = loc /\ call'[p] = c
      /\ \A q \in Procs \ {p} : pc'[q] = pc[q] /\ call'[q] = call[q]
  BY DEF IInv, TypeOK
<1>3. FileGrows
  <2> SUFFICES ASSUME Initialised PROVE file.version >= file.version
    BY DEF FileGrows, Initialised
  <2> QED
    BY DEF Initialised, Images, Versions
<1>4. BackupsKept(p)
  BY DEF BackupsKept, IInv, TypeOK
<1>5. LedgerKept
  BY DEF LedgerKept, Initialised
<1> QED
  BY <1>1, <1>2, <1>3, <1>4, <1>5, StepInv

\* A directory that is not there is nobody's.
LEMMA MakeDirectoryInv ==
  ASSUME IInv, NEW p \in Procs, MakeDirectory(p) PROVE IInv'
<1>1. CASE UNCHANGED artifacts /\ End(p)
  BY <1>1, EndInv DEF MakeDirectory, IInv, TypeOK
<1>2. CASE /\ artifacts[call[p].dir] = Nil
           /\ artifacts' = [artifacts EXCEPT ![call[p].dir] = NewArtifact]
           /\ Goto(p, "copy")
           /\ UNCHANGED call
  <2>1. NewArtifact \in Artifacts /\ NewArtifact # Nil /\ ~NewArtifact.sealed
    <3>1. NewArtifact \in Artifacts /\ ~NewArtifact.sealed
      BY DEF NewArtifact, Artifacts
    <3> QED
      BY <3>1, DistinctArtifacts
  <2>2. call[p] \in Calls /\ call' = [call EXCEPT ![p] = call[p]] /\ pc'[p] = "copy"
    BY <1>2 DEF Goto, IInv, TypeOK
  <2>3. call[p].dir \in Directories
    BY DEF MakeDirectory, IInv, InOrder, BackupInOrder, BackingUp
  <2>4. artifacts'[call[p].dir] = NewArtifact
    BY <1>2, <2>3 DEF IInv, TypeOK
  <2>5. InOrder(p)'
    BY <1>2, <2>1, <2>2, <2>3, <2>4
       DEF MakeDirectory, IInv, InOrder, FileInOrder, BackupInOrder, CallInOrder,
           Reading, Known, Opening, Bound, BackingUp, Copying, Migrating, Checking,
           Initialised
  <2>6. ~IsSealed(call[p].dir) /\ \A q \in Procs \ {p} : ~Owns(q, call[p].dir)
    BY <1>2 DEF IsSealed, Owns, IInv, InOrder, BackupInOrder
  <2>7. "copy" \in Locations
    BY DEF Locations
  <2> QED
    BY <1>2, <2>1, <2>2, <2>5, <2>6, <2>7, BackupInv DEF MakeDirectory, Goto
<1> QED
  BY <1>1, <1>2 DEF MakeDirectory

LEMMA CopyingOwns ==
  ASSUME IInv, NEW p \in Procs, pc[p] \in Copying
  PROVE  /\ call[p].dir \in Directories
         /\ ~IsSealed(call[p].dir)
         /\ \A q \in Procs \ {p} : ~Owns(q, call[p].dir)
BY DEF IInv, InOrder, BackupInOrder, IsSealed, Owns, Exclusive, Copying, BackingUp

LEMMA CopyPayloadInv == ASSUME IInv, NEW p \in Procs, CopyPayload(p) PROVE IInv'
<1> DEFINE a == [version |-> file.version, binding |-> file.binding, sealed |-> FALSE]
<1>1. pc[p] \in Copying
  BY DEF CopyPayload, Copying
<1>2. file \in Images
  BY DEF CopyPayload, IInv, InOrder, FileInOrder, Reading, Initialised
<1>3. a \in Artifacts /\ a # Nil /\ ~a.sealed
  <2>1. a \in Artifacts /\ ~a.sealed
    BY <1>2 DEF Images, Artifacts
  <2> QED
    BY <2>1, DistinctArtifacts
<1>4. /\ artifacts' = [artifacts EXCEPT ![call[p].dir] = a]
      /\ pc' = [pc EXCEPT ![p] = "seal"]
      /\ UNCHANGED <<file, quarantined, damaged, thrown, call>>
  BY DEF CopyPayload, Goto
<1> HIDE DEF a
<1>5. call[p] \in Calls /\ call' = [call EXCEPT ![p] = call[p]] /\ pc'[p] = "seal"
      /\ artifacts'[call[p].dir] = a
  BY <1>1, <1>4, CopyingOwns DEF IInv, TypeOK
<1>6. InOrder(p)'
  BY <1>1, <1>3, <1>4, <1>5, ZenonT(60)
     DEF CopyPayload, IInv, InOrder, FileInOrder, BackupInOrder, CallInOrder,
         Reading, Known, Opening, Bound, BackingUp, Copying, Migrating, Checking,
         Initialised
<1>7. "seal" \in Locations
  BY DEF Locations
<1> QED
  BY <1>1, <1>3, <1>4, <1>5, <1>6, <1>7, CopyingOwns, BackupInv

\* What is sealed is a copy in the format the call has read.
LEMMA SealInv == ASSUME IInv, NEW p \in Procs, Seal(p) PROVE IInv'
<1> DEFINE a == [artifacts[call[p].dir] EXCEPT !.sealed = TRUE]
<1>1. pc[p] \in Copying /\ call[p].dir \in Directories
      /\ artifacts[call[p].dir] \in Artifacts
  BY CopyingOwns DEF Seal, Copying, IInv, TypeOK, InOrder, BackupInOrder
<1>2. a \in Artifacts /\ a # Nil /\ a.sealed
      /\ a.version = artifacts[call[p].dir].version
  BY <1>1, DistinctArtifacts DEF Artifacts
<1>3. /\ artifacts' = [artifacts EXCEPT ![call[p].dir] = a]
      /\ pc' = [pc EXCEPT ![p] = "register"]
      /\ UNCHANGED <<file, quarantined, damaged, thrown, call>>
  BY <1>1 DEF Seal, Goto, IInv, TypeOK
<1> HIDE DEF a
<1>4. call[p] \in Calls /\ call' = [call EXCEPT ![p] = call[p]]
      /\ pc'[p] = "register" /\ artifacts'[call[p].dir] = a
  BY <1>1, <1>3 DEF IInv, TypeOK
<1>5. call[p].step \in Migrations /\ a.version = call[p].step /\ a.version <= call[p].step
  BY <1>1, <1>2, MigrationAssumption
     DEF Seal, CopyMatches, IInv, InOrder, BackupInOrder, BackingUp, Migrations
<1>6. InOrder(p)'
  BY <1>1, <1>2, <1>3, <1>4, <1>5, ZenonT(60)
     DEF Seal, IInv, InOrder, FileInOrder, BackupInOrder, CallInOrder, Reading,
         Known, Opening, Bound, BackingUp, Copying, Migrating, Checking, Initialised
<1>7. "register" \in Locations /\ "register" \notin Copying
  BY DEF Locations, Copying
<1> QED
  BY <1>1, <1>2, <1>3, <1>4, <1>6, <1>7, CopyingOwns, BackupInv

LEMMA BackupFailsInv == ASSUME IInv, NEW p \in Procs, BackupFails(p) PROVE IInv'
<1>1. pc[p] \in Copying
  BY DEF BackupFails, Copying
<1>2. pc' = [pc EXCEPT ![p] = "idle"] /\ call' = [call EXCEPT ![p] = NoCall]
  BY DEF BackupFails, End, Goto
<1>3. InOrder(p)'
  BY <1>2, IdleInOrder DEF IInv, TypeOK
<1>4. "idle" \in Locations /\ "idle" \notin Copying
  BY DEF Locations, Copying
<1> QED
  BY <1>1, <1>2, <1>3, <1>4, NoCallType, CopyingOwns, BackupInv DEF BackupFails

(***************************************************************************)
(* The migrations.                                                         *)
(***************************************************************************)
\* A step that gives the file a new version and one row, not Nil, and keeps
\* its binding and the other rows.
LEMMA RowInv ==
  ASSUME IInv, NEW p \in Procs, UNCHANGED <<artifacts, quarantined, damaged, thrown>>,
         Initialised, NEW m \in Migrations, NEW row \in Rows,
         NEW v \in Versions, v >= file.version,
         file' = [file EXCEPT !.version = v, !.ledger[m] = row],
         \/ /\ row.state # "completed"
            /\ IsSealed(row.artifact)
            /\ artifacts[row.artifact].version <= m
         \/ /\ file.ledger[m] # Nil
            /\ row.artifact = file.ledger[m].artifact
            /\ row.state = "completed" => v > m,
         NEW loc \in Locations, pc' = [pc EXCEPT ![p] = loc], loc \notin Copying,
         NEW c \in Calls, call' = [call EXCEPT ![p] = c],
         InOrder(p)'
  PROVE  IInv'
<1>1. file \in Images
  BY DEF Initialised
<1>2. /\ file' \in Images
      /\ file'.version = v
      /\ file'.binding = file.binding
      /\ file'.ledger = [file.ledger EXCEPT ![m] = row]
  BY <1>1 DEF Images
<1>3. file'.ledger[m] = row /\ row # Nil
      /\ \A n \in Migrations \ {m} : file'.ledger[n] = file.ledger[n]
  BY <1>1, <1>2, DistinctImages DEF Images
<1>4. TypeOK'
  BY <1>2 DEF IInv, TypeOK
<1>5. pc'[p] = loc /\ call'[p] = c
      /\ \A q \in Procs \ {p} : pc'[q] = pc[q] /\ call'[q] = call[q]
  BY DEF IInv, TypeOK
<1>6. FileGrows
  BY <1>2, <1>3 DEF FileGrows
<1>7. BackupsKept(p)
  BY DEF BackupsKept
<1>8. LedgerKept
  <2> SUFFICES ASSUME NEW n \in Migrations, file'.ledger[n] # Nil
               PROVE  \/ /\ file.ledger[n] # Nil
                         /\ file'.ledger[n].artifact = file.ledger[n].artifact
                         /\ file'.ledger[n].state = "completed" =>
                              file.ledger[n].state = "completed" \/ file'.version > n
                      \/ /\ file'.ledger[n].state # "completed"
                         /\ file'.ledger[n].artifact \in Directories
                         /\ IsSealed(file'.ledger[n].artifact)
                         /\ artifacts[file'.ledger[n].artifact].version <= n
    BY DEF LedgerKept
  <2>1. CASE n # m
    BY <2>1, <1>3
  <2>2. CASE n = m
    <3>1. row.artifact \in Directories
      BY DEF Rows
    <3> QED
      BY <2>2, <1>2, <1>3, <3>1
  <2> QED
    BY <2>1, <2>2
<1> QED
  BY <1>4, <1>5, <1>6, <1>7, <1>8, StepInv

\* What a migrating process is sure of.
LEMMA MigratingFacts ==
  ASSUME IInv, NEW p \in Procs, pc[p] \in Migrating
  PROVE  /\ Initialised
         /\ call[p] \in Calls
         /\ call[p].step \in Migrations
         /\ call[p].dir \in Directories
         /\ IsSealed(call[p].dir)
         /\ artifacts[call[p].dir].version <= call[p].step
         /\ file.version \in Versions /\ file.version >= file.version
         /\ RowOf(p) \in Rows \cup {Nil}
<1>1. Initialised
  BY DEF IInv, InOrder, FileInOrder, Migrating, Reading
<1>2. call[p].step \in Migrations /\ call[p] \in Calls
  BY DEF IInv, TypeOK, InOrder, BackupInOrder
<1>3. file.version \in Versions /\ file.version >= file.version
  BY <1>1 DEF Initialised, Images, Versions
<1> QED
  BY <1>1, <1>2, <1>3
     DEF IInv, InOrder, BackupInOrder, IsSealed, RowOf, Initialised, Images

LEMMA RegisterInv == ASSUME IInv, NEW p \in Procs, Register(p) PROVE IInv'
<1> DEFINE row == [state |-> "in_progress", artifact |-> call[p].dir]
<1>1. pc[p] \in Migrating
  BY DEF Register, Migrating
<1>2. row \in Rows /\ row.state = "in_progress" /\ row.artifact = call[p].dir
  BY <1>1, MigratingFacts DEF Rows, States
<1>3. file' = [file EXCEPT !.version = file.version, !.ledger[call[p].step] = row]
  BY <1>1, MigratingFacts DEF Register, Initialised, Images
<1>4. /\ pc' = [pc EXCEPT ![p] = "apply"] /\ call' = [call EXCEPT ![p] = call[p]]
      /\ pc'[p] = "apply" /\ call'[p] = call[p]
      /\ UNCHANGED <<artifacts, quarantined, damaged, thrown>>
  BY DEF Register, Goto, IInv, TypeOK
<1> HIDE DEF row
<1>5. file' \in Images /\ file'.version = file.version /\ file'.binding = file.binding
  BY <1>1, <1>2, <1>3, MigratingFacts DEF Initialised, Images
<1>6. InOrder(p)'
  BY <1>4, <1>5
     DEF Register, IInv, InOrder, FileInOrder, BackupInOrder, CallInOrder, Reading,
         Known, Opening, Bound, BackingUp, Copying, Migrating, Checking, Initialised
<1>7. "apply" \in Locations /\ "apply" \notin Copying
  BY DEF Locations, Copying
<1> QED
  BY <1>1, <1>2, <1>3, <1>4, <1>6, <1>7, MigratingFacts, RowInv

\* The format and the row change together.
LEMMA ApplyInv == ASSUME IInv, NEW p \in Procs, Apply(p) PROVE IInv'
<1> DEFINE row == [RowOf(p) EXCEPT !.state = "completed"]
           c == [call[p] EXCEPT !.step = @ + 1]
           loc == IF call[p].step + 1 < Target THEN "register" ELSE "check"
<1>1. pc[p] \in Migrating /\ file.version = call[p].step
      /\ RowOf(p) \in Rows /\ RowOf(p) # Nil
  <2>1. pc[p] \in Migrating
    BY DEF Apply, Migrating
  <2> QED
    BY <2>1, MigratingFacts DEF Apply, MayApply
<1>2. row \in Rows /\ row.state = "completed" /\ row.artifact = RowOf(p).artifact
  BY <1>1 DEF Rows, States
<1>3. /\ call[p].step \in Nat /\ call[p].step + 1 \in Versions
      /\ call[p].step + 1 >= file.version /\ call[p].step + 1 > call[p].step
  BY <1>1, MigratingFacts, MigrationAssumption DEF Versions, Migrations
<1>4. file' = [file EXCEPT !.version = call[p].step + 1, !.ledger[call[p].step] = row]
  BY <1>1, MigratingFacts DEF Apply, RowOf, Initialised, Images
<1>5. /\ file' \in Images /\ file'.version = call[p].step + 1
      /\ file'.binding = file.binding /\ file'.ledger[call[p].step] # Nil
  <2>1. row # Nil
    BY <1>2, DistinctImages
  <2> HIDE DEF row
  <2> QED
    BY <1>1, <1>2, <1>3, <1>4, <2>1, MigratingFacts DEF Initialised, Images
<1>6. /\ c \in Calls /\ c.step = call[p].step + 1 /\ c.version = call[p].version
      /\ c.binding = call[p].binding /\ c.op = call[p].op /\ c.dir = call[p].dir
  BY <1>1, <1>3, MigratingFacts DEF Calls
<1>7. /\ pc' = [pc EXCEPT ![p] = loc] /\ call' = [call EXCEPT ![p] = c]
      /\ pc'[p] = loc /\ call'[p] = c
      /\ UNCHANGED <<artifacts, quarantined, damaged, thrown>>
  BY DEF Apply, Goto, IInv, TypeOK
<1>8. /\ loc \in {"register", "check"}
      /\ loc = "register" => call[p].step + 1 \in Migrations
      /\ c.step - 1 = call[p].step
  BY <1>1, <1>3, <1>6, MigratingFacts, MigrationAssumption DEF Migrations, Versions
<1> HIDE DEF row, c, loc
<1>9. InOrder(p)'
  <2>1. call[p].version \in Nat /\ call[p].version <= call[p].step + 1
        /\ call[p].version \in Versions
    BY <1>1, <1>3
       DEF IInv, InOrder, FileInOrder, Known, Reading, Migrating, Versions
  <2>2. FileInOrder(p)'
    BY <1>1, <1>5, <1>6, <1>7, <1>8, <2>1, MigratingFacts
       DEF IInv, InOrder, FileInOrder, Reading, Known, Opening, Bound, Migrating,
           Checking, Initialised
  <2>3. artifacts[call[p].dir].version <= call[p].step + 1
    <3>1. artifacts[call[p].dir].version \in Nat
      BY <1>1, MigratingFacts DEF IsSealed, IInv, TypeOK, Artifacts, Versions
    <3> QED
      BY <1>1, <1>3, <3>1, MigratingFacts
  <2>4. BackupInOrder(p)'
    BY <1>1, <1>6, <1>7, <1>8, <2>3, MigratingFacts
       DEF BackupInOrder, IsSealed, BackingUp, Copying, Migrating
  <2>5. CallInOrder(p)'
    BY <1>1, <1>6, <1>7, <1>8 DEF IInv, InOrder, CallInOrder, Reading, Migrating
  <2> QED
    BY <2>2, <2>4, <2>5 DEF InOrder
<1>10. loc \in Locations /\ loc \notin Copying
  BY <1>8 DEF Locations, Copying
<1> QED
  BY <1>1, <1>2, <1>3, <1>4, <1>6, <1>7, <1>9, <1>10, MigratingFacts, RowInv DEF RowOf

LEMMA MigrationFailsInv ==
  ASSUME IInv, NEW p \in Procs, MigrationFails(p) PROVE IInv'
<1>1. pc'[p] = "mark"
  BY DEF MigrationFails, Goto, IInv, TypeOK
<1>2. InOrder(p)'
  BY <1>1
     DEF MigrationFails, IInv, InOrder, FileInOrder, BackupInOrder, CallInOrder,
         Reading, Known, Opening, Bound, BackingUp, Copying, Migrating, Checking,
         Initialised
<1>3. "mark" \in Locations /\ "mark" \notin Copying
  BY DEF Locations, Copying
<1> QED
  BY <1>1, <1>2, <1>3, GotoInv DEF MigrationFails

\* A row that is marked failed keeps its artifact.
LEMMA FailRowInv ==
  ASSUME IInv, NEW p \in Procs, Initialised,
         NEW m \in Migrations, file.ledger[m] # Nil,
         file' = [file EXCEPT !.ledger[m].state = "failed"],
         End(p), UNCHANGED <<artifacts, quarantined, damaged, thrown>>
  PROVE  IInv'
<1> DEFINE row == [file.ledger[m] EXCEPT !.state = "failed"]
<1>1. file.ledger[m] \in Rows
  BY DEF Initialised, Images
<1>2. row \in Rows /\ row.state = "failed" /\ row.artifact = file.ledger[m].artifact
  BY <1>1 DEF Rows, States
<1>3. file.version \in Versions /\ file.version >= file.version
  BY DEF Initialised, Images, Versions
<1>4. file' = [file EXCEPT !.version = file.version, !.ledger[m] = row]
  BY DEF Initialised, Images
<1>5. pc' = [pc EXCEPT ![p] = "idle"] /\ call' = [call EXCEPT ![p] = NoCall]
  BY DEF End, Goto
<1>6. InOrder(p)'
  BY <1>5, IdleInOrder DEF IInv, TypeOK
<1>7. "idle" \in Locations /\ "idle" \notin Copying
  BY DEF Locations, Copying
<1> HIDE DEF row
<1> QED
  BY <1>2, <1>3, <1>4, <1>5, <1>6, <1>7, NoCallType, RowInv

LEMMA MarkFailedInv == ASSUME IInv, NEW p \in Procs, MarkFailed(p) PROVE IInv'
<1>1. CASE UNCHANGED file
  BY <1>1, EndInv DEF MarkFailed, IInv, TypeOK
<1>2. CASE /\ RowOf(p) # Nil
           /\ file' = [file EXCEPT !.ledger[call[p].step].state = "failed"]
  <2>1. pc[p] \in Migrating
    BY DEF MarkFailed, Migrating
  <2> QED
    BY <1>2, <2>1, MigratingFacts, FailRowInv DEF MarkFailed, RowOf
<1> QED
  BY <1>1, <1>2 DEF MarkFailed

LEMMA CheckMigratedInv ==
  ASSUME IInv, NEW p \in Procs, CheckMigrated(p) PROVE IInv'
<1>1. CASE UNCHANGED file /\ End(p)
  BY <1>1, EndInv DEF CheckMigrated, IInv, TypeOK
<1>2. CASE Goto(p, "recheck") /\ UNCHANGED <<file, call>>
  <2>1. pc'[p] = "recheck"
    BY <1>2 DEF Goto, IInv, TypeOK
  <2>2. InOrder(p)'
    BY <1>2, <2>1
       DEF CheckMigrated, IInv, InOrder, FileInOrder, BackupInOrder, CallInOrder,
           Reading, Known, Opening, Bound, BackingUp, Copying, Migrating, Checking,
           Initialised
  <2>3. "recheck" \in Locations /\ "recheck" \notin Copying
    BY DEF Locations, Copying
  <2> QED
    BY <1>2, <2>2, <2>3, GotoInv DEF CheckMigrated
<1>3. CASE /\ file' = [file EXCEPT !.ledger[call[p].step - 1].state = "failed"]
           /\ End(p)
  <2>1. /\ Initialised
        /\ call[p].step - 1 \in Migrations
        /\ file.ledger[call[p].step - 1] # Nil
    BY DEF CheckMigrated, IInv, InOrder, FileInOrder, Checking, Reading
  <2> QED
    BY <1>3, <2>1, FailRowInv DEF CheckMigrated
<1> QED
  BY <1>1, <1>2, <1>3 DEF CheckMigrated

LEMMA DamageInv == ASSUME IInv, Damage PROVE IInv'
BY DEF Damage, IInv, TypeOK, InOrder, FileInOrder, BackupInOrder, CallInOrder,
       Exclusive, BackupsBehindLedger, LedgerFollowsFormat, Initialised

(***************************************************************************)
(* The invariant, and the properties that follow.                          *)
(***************************************************************************)
LEMMA NextInv == ASSUME IInv, [Next]_vars PROVE IInv'
<1>1. CASE UNCHANGED vars
  BY <1>1
     DEF vars, IInv, TypeOK, InOrder, FileInOrder, BackupInOrder, CallInOrder,
         Exclusive, BackupsBehindLedger, LedgerFollowsFormat, Initialised
<1>2. ASSUME NEW p \in Procs, Step(p) PROVE IInv'
  <2>1. CASE Close(p) \/ Recheck(p)
    BY <2>1, EndInv DEF Close, Recheck, IInv, TypeOK
  <2> QED
    BY <1>2, <2>1, OpenInv, MigrateInv, ConnectInv, ProbeInv, BootstrapInv,
       ReadRowsInv, CheckIdentityInv, InspectOpenInv, InspectMigrateInv,
       CheckIntegrityInv, BindInv, RereadInv, MakeDirectoryInv, CopyPayloadInv, SealInv,
       BackupFailsInv, RegisterInv, ApplyInv, MigrationFailsInv, MarkFailedInv,
       CheckMigratedInv
       DEF Step
<1>3. ASSUME NEW p \in Procs, Crash(p) PROVE IInv'
  BY <1>3, EndInv DEF Crash, IInv, TypeOK
<1> QED
  BY <1>1, <1>2, <1>3, DamageInv DEF Next

\* The invariant holds throughout.
THEOREM MigrationInvariance == Spec => []IInv
<1> QED
  BY InitInv, NextInv, PTL DEF Spec

\* The file, the artifacts and the calls are of their types.
THEOREM TypeCorrect == Spec => []TypeOK
<1>1. IInv => TypeOK
  BY DEF IInv
<1> QED
  BY <1>1, MigrationInvariance, PTL

\* Whatever the processes do, a format migration in the ledger has behind it a
\* verified backup in a format no newer than the one it migrates from
\* (createMigrationBackup comes before registerMigrationStart), and the format
\* is past every migration the ledger calls completed (applyMigration is one
\* transaction).
THEOREM LedgerIsSound == Spec => []LedgerSound
<1>1. IInv => LedgerSound
  BY DEF IInv, LedgerSound
<1> QED
  BY <1>1, MigrationInvariance, PTL

\* Every open handle is on a database of this format, in the expected scope
\* (what open read of it is still true when it returns, and later).
THEOREM HandlesAreSound == Spec => []HandlesSound
<1>1. IInv => HandlesSound
  <2> SUFFICES ASSUME IInv, NEW p \in Procs, pc[p] = "open"
               PROVE  /\ Initialised
                      /\ file.version = Target
                      /\ call[p].expected # Nil => file.binding = call[p].expected
    BY DEF HandlesSound
  <2>1. Initialised /\ call[p].version = Target /\ call[p].version <= file.version
    BY DEF IInv, InOrder, FileInOrder, Reading, Known, Opening
  <2>2. file.version \in Nat /\ file.version <= Target
    BY <2>1, MigrationAssumption DEF Initialised, Images, Versions
  <2>3. file.version = Target
    BY <2>1, <2>2, MigrationAssumption
  <2> QED
    BY <2>1, <2>3 DEF IInv, InOrder, FileInOrder, Bound
<1> QED
  BY <1>1, MigrationInvariance, PTL

\* No step takes a database's format back, or its binding or a ledger row away.
LEMMA NextGrows == ASSUME IInv, [Next]_vars PROVE FileGrows
<1> SUFFICES ASSUME Initialised PROVE FileGrows
  BY DEF FileGrows
<1>1. file \in Images /\ file.version \in Nat
  BY DEF Initialised, Images, Versions
<1>2. CASE UNCHANGED file
  BY <1>1, <1>2 DEF FileGrows
<1>3. ASSUME NEW p \in Procs, Step(p) PROVE FileGrows
  <2>1. CASE Connect(p)
    BY <1>1, <1>2, <2>1, DistinctImages DEF Connect
  <2>2. CASE Bootstrap(p)
    BY <1>2, <2>2 DEF Bootstrap
  <2>3. CASE Bind(p)
    BY <1>1, <1>2, <2>3 DEF Bind, FileGrows, Images, IInv, TypeOK, Calls
  <2>4. CASE Register(p)
    <3> DEFINE row == [state |-> "in_progress", artifact |-> call[p].dir]
    <3>1. row \in Rows
      BY <2>4, MigratingFacts DEF Register, Migrating, Rows, States
    <3>2. file' = [file EXCEPT !.ledger[call[p].step] = row] /\ row # Nil
      BY <2>4, <3>1, DistinctImages DEF Register
    <3> HIDE DEF row
    <3> QED
      BY <1>1, <3>1, <3>2 DEF FileGrows, Images
  <2>5. CASE Apply(p)
    <3> DEFINE row == [RowOf(p) EXCEPT !.state = "completed"]
    <3>1. pc[p] \in Migrating /\ file.version = call[p].step
          /\ RowOf(p) \in Rows /\ call[p].step \in Migrations
      BY <2>5, MigratingFacts DEF Apply, MayApply, Migrating
    <3>2. row \in Rows /\ call[p].step + 1 \in Versions /\ call[p].step + 1 >= file.version
      BY <3>1, MigrationAssumption DEF Rows, States, Versions, Migrations
    <3>3. row # Nil
      BY <3>2, DistinctImages
    <3>4. file' = [file EXCEPT !.version = call[p].step + 1,
                               !.ledger[call[p].step] = row]
      BY <1>1, <2>5, <3>1 DEF Apply, RowOf, Images
    <3> HIDE DEF row
    <3> QED
      BY <1>1, <3>2, <3>3, <3>4 DEF FileGrows, Images
  <2>6. ASSUME NEW m \in Migrations, file.ledger[m] # Nil,
               file' = [file EXCEPT !.ledger[m].state = "failed"]
        PROVE  FileGrows
    <3> DEFINE row == [file.ledger[m] EXCEPT !.state = "failed"]
    <3>1. row \in Rows
      BY <1>1, <2>6 DEF Images, Rows, States
    <3>2. file' = [file EXCEPT !.ledger[m] = row] /\ row # Nil
      BY <1>1, <2>6, <3>1, DistinctImages DEF Images
    <3> HIDE DEF row
    <3> QED
      BY <1>1, <3>1, <3>2 DEF FileGrows, Images
  <2>7. CASE MarkFailed(p)
    <3>1. call[p].step \in Migrations
      BY <2>7, MigratingFacts DEF MarkFailed, Migrating
    <3> QED
      BY <1>2, <2>6, <2>7, <3>1 DEF MarkFailed, RowOf
  <2>8. CASE CheckMigrated(p)
    <3>1. call[p].step - 1 \in Migrations /\ file.ledger[call[p].step - 1] # Nil
      BY <2>8 DEF CheckMigrated, IInv, InOrder, FileInOrder, Checking
    <3> QED
      BY <1>2, <2>6, <2>8, <3>1 DEF CheckMigrated
  <2> QED
    BY <1>2, <1>3, <2>1, <2>2, <2>3, <2>4, <2>5, <2>7, <2>8
       DEF Step, Open, Migrate, Probe, ReadRows, CheckIdentity, InspectOpen,
           InspectMigrate, CheckIntegrity, Reread, Close, MakeDirectory,
           CopyPayload, Seal, BackupFails, MigrationFails, Recheck
<1> QED
  BY <1>2, <1>3 DEF Next, Damage, Crash, vars

\* A database is never started again, and keeps its binding and its format
\* (bootstrap creates the metadata table exclusively, insertBinding inserts).
THEOREM DatabasesAreKept == Spec => DatabaseKept
<1>1. IInv /\ [Next]_vars => [Initialised =>
        /\ file' \in Images
        /\ file'.version >= file.version
        /\ file.binding # Nil => file'.binding = file.binding]_vars
  BY NextGrows DEF FileGrows
<1> QED
  BY <1>1, MigrationInvariance, PTL DEF Spec, DatabaseKept

(***************************************************************************)
(* One migrator.  What it knows of the format stays true, because only it  *)
(* changes the format.                                                     *)
(***************************************************************************)
OneMigrator == \A p, q \in Migrators : p = q

UpToDate(p) ==
  /\ pc[p] \in {"identity", "inspect"} /\ call[p].op = "migrate" =>
       call[p].version = file.version
  /\ pc[p] \in BackingUp \cup Migrating => call[p].step = file.version

AInv == FailedKeepsOldFormat /\ \A p \in Procs : UpToDate(p)

\* A step that leaves the format and the ledger alone.
LEMMA SameFormat ==
  ASSUME IInv, AInv, NEW p \in Procs,
         Initialised => Initialised' /\ file'.version = file.version
                        /\ file'.ledger = file.ledger,
         ~Initialised /\ Initialised' => file'.ledger = NoRows,
         damaged => damaged',
         \A q \in Procs \ {p} : pc'[q] = pc[q] /\ call'[q] = call[q],
         UpToDate(p)'
  PROVE  AInv'
<1>1. \A q \in Procs : UpToDate(q)'
  <2> SUFFICES ASSUME NEW q \in Procs, q # p PROVE UpToDate(q)'
    OBVIOUS
  <2>1. pc[q] \in {"identity", "inspect"} \cup BackingUp \cup Migrating => Initialised
    BY DEF IInv, InOrder, FileInOrder, Reading, BackingUp, Migrating
  <2> QED
    BY <2>1 DEF AInv, UpToDate
<1>2. FailedKeepsOldFormat'
  <2>1. CASE Initialised
    BY <2>1 DEF AInv, FailedKeepsOldFormat, Incomplete
  <2>2. CASE ~Initialised
    BY <2>2 DEF FailedKeepsOldFormat, Incomplete, NoRows
  <2> QED
    BY <2>1, <2>2
<1> QED
  BY <1>1, <1>2 DEF AInv

\* The steps of a migrating call that change a row.
LEMMA SameVersion ==
  ASSUME IInv, AInv, NEW p \in Procs, Initialised, Initialised',
         file'.version = file.version,
         NEW m \in Migrations, damaged \/ file.version <= m,
         \A n \in Migrations \ {m} : file'.ledger[n] = file.ledger[n],
         damaged => damaged',
         \A q \in Procs \ {p} : pc'[q] = pc[q] /\ call'[q] = call[q],
         UpToDate(p)'
  PROVE  AInv'
<1>1. \A q \in Procs : UpToDate(q)'
  BY DEF AInv, UpToDate
<1>2. FailedKeepsOldFormat'
  <2> SUFFICES ASSUME ~damaged', NEW n \in Incomplete' PROVE file'.version <= n
    BY DEF FailedKeepsOldFormat
  <2>1. n \in Migrations
    BY DEF Incomplete
  <2>2. CASE n = m
    BY <2>2
  <2>3. CASE n # m
    BY <2>1, <2>3 DEF AInv, FailedKeepsOldFormat, Incomplete
  <2> QED
    BY <2>2, <2>3
<1> QED
  BY <1>1, <1>2 DEF AInv

\* The row of the migration under way changes, or the last one's.
LEMMA NextRow ==
  ASSUME IInv, Initialised, NEW m \in Migrations, NEW row \in Rows,
         file' = [file EXCEPT !.ledger[m] = row]
  PROVE  /\ Initialised' /\ file'.version = file.version
         /\ \A n \in Migrations \ {m} : file'.ledger[n] = file.ledger[n]
BY DEF Initialised, Images

LEMMA RowAInv ==
  ASSUME IInv, AInv, NEW p \in Procs, Register(p) \/ MarkFailed(p) \/ CheckMigrated(p)
  PROVE  AInv'
<1>1. /\ pc'[p] \in {"apply", "idle", "recheck"} /\ damaged' = damaged
      /\ pc'[p] = "apply" => pc[p] = "register" /\ call'[p] = call[p]
      /\ \A q \in Procs \ {p} : pc'[q] = pc[q] /\ call'[q] = call[q]
  BY DEF Register, MarkFailed, CheckMigrated, Goto, End, IInv, TypeOK
<1>2. pc[p] = "register" => call[p].step = file.version
  BY DEF AInv, UpToDate, Migrating
<1>3. CASE UNCHANGED file
  <2>1. UpToDate(p)'
    BY <1>1, <1>2, <1>3 DEF UpToDate, BackingUp, Migrating
  <2> QED
    BY <1>1, <1>3, <2>1, SameFormat DEF Initialised
<1>4. CASE file' # file
  <2>1. PICK m \in Migrations, row \in Rows :
          /\ Initialised
          /\ damaged \/ file.version <= m
          /\ file' = [file EXCEPT !.ledger[m] = row]
    <3>1. CASE Register(p)
      <4>1. [state |-> "in_progress", artifact |-> call[p].dir] \in Rows
        BY <3>1, MigratingFacts DEF Register, Migrating, Rows, States
      <4> QED
        BY <1>2, <3>1, <4>1, MigratingFacts DEF Register, Migrating
    <3>2. CASE MarkFailed(p)
      <4>1. pc[p] \in Migrating /\ call[p].step = file.version
        BY <3>2 DEF MarkFailed, Migrating, AInv, UpToDate
      <4>2. RowOf(p) \in Rows
        BY <1>4, <3>2, <4>1, MigratingFacts DEF MarkFailed
      <4>3. [RowOf(p) EXCEPT !.state = "failed"] \in Rows
        BY <4>2 DEF Rows, States
      <4>4. file' = [file EXCEPT !.ledger[call[p].step] =
                                   [RowOf(p) EXCEPT !.state = "failed"]]
        BY <1>4, <3>2, <4>1, MigratingFacts DEF MarkFailed, RowOf, Initialised, Images
      <4> QED
        BY <4>1, <4>3, <4>4, MigratingFacts
    <3>3. CASE CheckMigrated(p)
      <4>1. /\ Initialised /\ call[p].step - 1 \in Migrations
            /\ file.ledger[call[p].step - 1] \in Rows
        BY <3>3 DEF CheckMigrated, IInv, InOrder, FileInOrder, Checking, Reading,
                    Initialised, Images
      <4>2. [file.ledger[call[p].step - 1] EXCEPT !.state = "failed"] \in Rows
        BY <4>1 DEF Rows, States
      <4>3. damaged /\ file' = [file EXCEPT !.ledger[call[p].step - 1] =
                 [file.ledger[call[p].step - 1] EXCEPT !.state = "failed"]]
        BY <1>4, <3>3, <4>1 DEF CheckMigrated, Initialised, Images
      <4> QED
        BY <4>1, <4>2, <4>3
    <3> QED
      BY <3>1, <3>2, <3>3
  <2>2. /\ Initialised' /\ file'.version = file.version
        /\ \A n \in Migrations \ {m} : file'.ledger[n] = file.ledger[n]
    BY <2>1, NextRow
  <2>3. UpToDate(p)'
    BY <1>1, <1>2, <2>2 DEF UpToDate, BackingUp, Migrating
  <2> QED
    BY <1>1, <2>1, <2>2, <2>3, SameVersion
<1> QED
  BY <1>3, <1>4

\* The format advances, and its row is completed with it; nobody else migrates.
LEMMA ApplyAInv ==
  ASSUME OneMigrator, IInv, AInv, NEW p \in Procs, Apply(p)
  PROVE  AInv'
<1>1. pc[p] \in Migrating /\ file.version = call[p].step /\ RowOf(p) \in Rows
      /\ call[p].op = "migrate"
  <2>1. pc[p] \in Migrating
    BY DEF Apply, Migrating
  <2> QED
    BY <2>1, MigratingFacts DEF Apply, MayApply, IInv, InOrder, CallInOrder
<1>2. call[p].step \in Migrations /\ call[p].step \in Nat /\ Initialised
  BY <1>1, MigratingFacts DEF Migrations
<1>3. /\ file'.version = call[p].step + 1
      /\ file'.ledger = [file.ledger EXCEPT ![call[p].step].state = "completed"]
  BY <1>2 DEF Apply, Initialised, Images
<1>4. pc'[p] \in {"register", "check"} /\ call'[p].step = call[p].step + 1
      /\ damaged' = damaged
      /\ \A q \in Procs \ {p} : pc'[q] = pc[q] /\ call'[q] = call[q]
  BY DEF Apply, Goto, IInv, TypeOK, Calls
<1>5. \A q \in Procs : UpToDate(q)'
  <2> SUFFICES ASSUME NEW q \in Procs PROVE UpToDate(q)'
    OBVIOUS
  <2>1. CASE q = p
    BY <1>3, <1>4, <2>1 DEF UpToDate, BackingUp, Migrating
  <2>2. CASE q # p
    <3>1. p \in Migrators
      BY <1>1 DEF IInv, InOrder, CallInOrder, Migrating
    <3>2. pc[q] = "idle" \/ call[q].op # "migrate"
      BY <2>2, <3>1 DEF OneMigrator, IInv, InOrder, CallInOrder
    <3> QED
      BY <1>4, <2>2, <3>2
         DEF UpToDate, IInv, InOrder, CallInOrder, BackingUp, Migrating
  <2> QED
    BY <2>1, <2>2
<1>6. FailedKeepsOldFormat'
  <2> SUFFICES ASSUME ~damaged', NEW n \in Incomplete' PROVE file'.version <= n
    BY DEF FailedKeepsOldFormat
  <2>1. n \in Migrations /\ n \in Nat
    BY DEF Incomplete, Migrations
  <2>2. n # call[p].step
    <3>1. file'.ledger[call[p].step].state = "completed"
      BY <1>1, <1>2, <1>3 DEF RowOf, Rows, Initialised, Images
    <3> QED
      BY <3>1 DEF Incomplete
  <2>3. file'.ledger[n] = file.ledger[n]
    BY <1>2, <1>3, <2>1, <2>2 DEF Initialised, Images
  <2>4. file.version <= n
    BY <1>2, <1>4, <2>1, <2>3 DEF AInv, FailedKeepsOldFormat, Incomplete
  <2> QED
    BY <1>1, <1>2, <1>3, <2>1, <2>2, <2>4
<1> QED
  BY <1>5, <1>6 DEF AInv

\* The steps of a call that leave the file alone.
LEMMA QuietAInv ==
  ASSUME IInv, AInv, NEW p \in Procs, UNCHANGED <<file, damaged>>,
         \/ Open(p) \/ Migrate(p) \/ Probe(p) \/ ReadRows(p) \/ CheckIdentity(p)
         \/ InspectOpen(p) \/ InspectMigrate(p) \/ CheckIntegrity(p) \/ Reread(p) \/ Close(p)
         \/ MakeDirectory(p) \/ CopyPayload(p) \/ Seal(p) \/ BackupFails(p)
         \/ MigrationFails(p) \/ Recheck(p) \/ Crash(p)
  PROVE  AInv'
<1>1. \A q \in Procs \ {p} : pc'[q] = pc[q] /\ call'[q] = call[q]
  BY DEF Open, Migrate, Probe, ReadRows, CheckIdentity, InspectOpen, InspectMigrate,
         CheckIntegrity, Reread, Close, MakeDirectory, CopyPayload,
           Seal, BackupFails,
         MigrationFails, Recheck, Crash, Corrupt, Goto, End, IInv, TypeOK
<1>2. UpToDate(p)'
  <2>1. CASE pc'[p] \in {"idle", "connect", "read", "bootstrap", "integrity", "bind",
                           "open"}
    BY <2>1 DEF UpToDate, BackingUp, Migrating
  <2>2. CASE ReadRows(p) /\ pc'[p] = "identity"
    BY <2>2 DEF ReadRows, Corrupt, End, Goto, IInv, TypeOK, Calls, UpToDate,
                BackingUp, Migrating
  <2>3. CASE CheckIdentity(p) /\ pc'[p] = "inspect"
    BY <2>3 DEF CheckIdentity, Corrupt, End, Goto, IInv, TypeOK, UpToDate,
                BackingUp, Migrating
  <2>4. CASE InspectMigrate(p) /\ pc'[p] = "directory"
    BY <2>4 DEF InspectMigrate, End, Goto, IInv, TypeOK, Calls, AInv, UpToDate,
                BackingUp, Migrating
  <2>5. CASE MakeDirectory(p) /\ pc'[p] = "copy"
    BY <2>5 DEF MakeDirectory, End, Goto, IInv, TypeOK, AInv, UpToDate, BackingUp,
                Migrating
  <2>6. CASE CopyPayload(p) \/ Seal(p) \/ MigrationFails(p)
    BY <2>6 DEF CopyPayload, Seal, MigrationFails, Goto, IInv, TypeOK, AInv,
                UpToDate, BackingUp, Migrating
  <2>7. pc'[p] = "idle" \/ ~(BackupFails(p) \/ Close(p) \/ Recheck(p) \/ Crash(p))
    BY DEF BackupFails, Close, Recheck, Crash, End, Goto, IInv, TypeOK
  <2>8. pc'[p] = "connect" \/ ~(Open(p) \/ Migrate(p))
    BY DEF Open, Migrate, Goto, IInv, TypeOK
  <2>9. pc'[p] \in {"idle", "read", "bootstrap"} \/ ~Probe(p)
    BY DEF Probe, End, Goto, IInv, TypeOK
  <2>10. pc'[p] \in {"idle", "integrity", "bind"} \/ ~(InspectOpen(p) \/ CheckIntegrity(p))
    BY DEF InspectOpen, CheckIntegrity, End, Goto, IInv, TypeOK
  <2>11. /\ ReadRows(p) => pc'[p] \in {"idle", "identity"}
         /\ CheckIdentity(p) => pc'[p] \in {"idle", "inspect"}
         /\ InspectMigrate(p) => pc'[p] \in {"idle", "directory"}
         /\ MakeDirectory(p) => pc'[p] \in {"idle", "copy"}
    BY DEF ReadRows, CheckIdentity, InspectMigrate, MakeDirectory, Corrupt, End,
           Goto, IInv, TypeOK
  <2>12. pc'[p] \in {"idle", "open"} \/ ~Reread(p)
    BY DEF Reread, Corrupt, End, Goto, IInv, TypeOK
  <2> QED
    BY <2>1, <2>2, <2>3, <2>4, <2>5, <2>6, <2>7, <2>8, <2>9, <2>10, <2>11,
       <2>12
<1> QED
  BY <1>1, <1>2, SameFormat DEF Initialised

LEMMA NextAInv == ASSUME OneMigrator, IInv, AInv, [Next]_vars PROVE AInv'
<1>1. CASE UNCHANGED vars \/ Damage
  BY <1>1 DEF vars, Damage, AInv, UpToDate, FailedKeepsOldFormat, Incomplete,
              Initialised
<1>2. ASSUME NEW p \in Procs, Step(p) PROVE AInv'
  <2>1. CASE Connect(p)
    <3>1. /\ Initialised => file' = file
          /\ ~Initialised => ~Initialised'
      BY <2>1, DistinctImages DEF Connect, Initialised
    <3>2. UpToDate(p)'
      BY <2>1 DEF Connect, Goto, IInv, TypeOK, UpToDate, BackingUp, Migrating
    <3>3. \A q \in Procs \ {p} : pc'[q] = pc[q] /\ call'[q] = call[q]
      BY <2>1 DEF Connect, Goto, IInv, TypeOK
    <3> QED
      BY <2>1, <3>1, <3>2, <3>3, SameFormat DEF Connect, Initialised
  <2>2. CASE Bootstrap(p)
    <3>1. pc'[p] \in {"idle", "read"}
          /\ \A q \in Procs \ {p} : pc'[q] = pc[q] /\ call'[q] = call[q]
      BY <2>2 DEF Bootstrap, End, Goto, IInv, TypeOK
    <3>2. UpToDate(p)'
      BY <3>1 DEF UpToDate, BackingUp, Migrating
    <3> QED
      BY <2>2, <3>1, <3>2, SameFormat DEF Bootstrap, Initialised
  <2>3. CASE Bind(p)
    <3>1. pc'[p] \in {"idle", "reread", "open"}
          /\ \A q \in Procs \ {p} : pc'[q] = pc[q] /\ call'[q] = call[q]
      BY <2>3 DEF Bind, End, Goto, IInv, TypeOK
    <3>2. UpToDate(p)'
      BY <3>1 DEF UpToDate, BackingUp, Migrating
    <3>3. file \in Images
      BY <2>3 DEF Bind, IInv, InOrder, FileInOrder, Reading, Initialised
    <3>4. file' \in Images /\ file'.version = file.version /\ file'.ledger = file.ledger
      BY <2>3, <3>3 DEF Bind, Images, IInv, TypeOK, Calls
    <3> QED
      BY <2>3, <3>1, <3>2, <3>3, <3>4, SameFormat DEF Bind, Initialised
  <2> QED
    BY <1>2, <2>1, <2>2, <2>3, RowAInv, ApplyAInv, QuietAInv
       DEF Step, Open, Migrate, Probe, ReadRows, CheckIdentity, InspectOpen,
           InspectMigrate, CheckIntegrity, Reread, Close, MakeDirectory,
           CopyPayload, Seal, BackupFails, MigrationFails, Recheck
<1>3. ASSUME NEW p \in Procs, Crash(p) PROVE AInv'
  BY <1>3, QuietAInv DEF Crash
<1> QED
  BY <1>1, <1>2, <1>3 DEF Next

\* If at most one process migrates, a migration that failed or was interrupted
\* has left the old format in place, whoever opens the database meanwhile.
\* (With two the property fails: markMigrationFailed asks nothing of the row.)
THEOREM FailuresKeepFormat == ASSUME OneMigrator PROVE Spec => []FailedKeepsOldFormat
<1>1. Init => AInv
  BY DistinctImages
     DEF Init, AInv, UpToDate, FailedKeepsOldFormat, Incomplete, Initialised, NoRows,
         BackingUp, Migrating
<1>2. IInv /\ AInv /\ [Next]_vars => AInv'
  BY NextAInv
<1>3. AInv => FailedKeepsOldFormat
  BY DEF AInv
<1> QED
  BY <1>1, <1>2, <1>3, MigrationInvariance, PTL DEF Spec

(***************************************************************************)
(* Quarantine.  The two reads of a call's identity differ only if a        *)
(* migration was applied between them, and that leaves a row in the ledger *)
(* which nobody takes out again.                                           *)
(***************************************************************************)
Migrated == \E m \in Migrations : file.ledger[m] # Nil

QInv ==
  /\ OnlyMigrationsMislead
  /\ \A p \in Procs : pc[p] = "identity" /\ ~Migrated => call[p].version = file.version

\* The format changes in a transaction that completes a row.
LEMMA FormatByMigration ==
  ASSUME IInv, [Next]_vars, Initialised
  PROVE  Migrated' \/ file'.version = file.version
<1>1. file \in Images
  BY DEF Initialised
<1>2. ASSUME NEW p \in Procs, Apply(p) PROVE Migrated'
  <2>1. call[p].step \in Migrations
    BY <1>2, MigratingFacts DEF Apply, Migrating
  <2>2. file.ledger[call[p].step] \in Rows
    BY <1>1, <1>2, <2>1 DEF Apply, MayApply, RowOf, Images
  <2>3. file'.ledger[call[p].step] = [file.ledger[call[p].step] EXCEPT !.state = "completed"]
    BY <1>1, <1>2, <2>1, <2>2 DEF Apply, Images
  <2>4. file'.ledger[call[p].step] \in Rows
    BY <2>2, <2>3 DEF Rows, States
  <2> QED
    BY <2>1, <2>4, DistinctImages DEF Migrated
<1>3. ASSUME NEW p \in Procs,
             \/ Connect(p) \/ Bootstrap(p) \/ Bind(p) \/ Register(p)
             \/ MarkFailed(p) \/ CheckMigrated(p)
      PROVE  file'.version = file.version
  BY <1>1, <1>3, DistinctImages
     DEF Connect, Bootstrap, Bind, Register, MarkFailed, CheckMigrated, Initialised, Images
<1>4. CASE UNCHANGED file
  BY <1>4
<1> QED
  BY <1>2, <1>3, <1>4
     DEF Next, Damage, Step, Crash, vars, Open, Migrate, Probe, ReadRows,
         CheckIdentity, InspectOpen, InspectMigrate, CheckIntegrity, Reread, Close,
         MakeDirectory, CopyPayload, Seal, BackupFails, MigrationFails, Recheck

\* Nobody repairs the bytes of a database file, and what was thrown was thrown.
LEMMA DamageStays ==
  ASSUME [Next]_vars
  PROVE  (damaged => damaged') /\ (thrown => thrown')
<1>1. ASSUME NEW p \in Procs, ReadRows(p) \/ CheckIntegrity(p) \/ Reread(p)
      PROVE  (damaged => damaged') /\ (thrown => thrown')
  <2>1. UNCHANGED damaged
    BY <1>1 DEF ReadRows, CheckIntegrity, Reread
  <2>2. ReadThrows \/ UNCHANGED thrown
    BY <1>1 DEF ReadRows, CheckIntegrity, Reread
  <2>3. thrown => thrown'
    BY <2>2, Zenon DEF ReadThrows
  <2> QED
    BY <2>1, <2>3
<1>2. CASE Damage \/ UNCHANGED vars
  BY <1>2 DEF Damage, vars
<1>3. ASSUME NEW p \in Procs, Step(p) \/ Crash(p),
             ~(ReadRows(p) \/ CheckIntegrity(p) \/ Reread(p))
      PROVE  damaged' = damaged /\ thrown' = thrown
  BY <1>3
     DEF Step, Crash, Open, Migrate, Connect, Probe, Bootstrap, CheckIdentity,
         InspectOpen, InspectMigrate, Bind, Close, MakeDirectory, CopyPayload, Seal,
         BackupFails, Register, Apply, MigrationFails, MarkFailed, CheckMigrated,
         Recheck
<1> QED
  BY <1>1, <1>2, <1>3 DEF Next

\* A process quarantines a damaged file, one it could not read, or one whose
\* format has changed between its two reads.
LEMMA QuarantineSteps ==
  ASSUME IInv, [Next]_vars, quarantined', ~quarantined
  PROVE  \/ damaged \/ thrown'
         \/ \E p \in Procs : pc[p] = "identity" /\ file.version # call[p].version
<1>1. ASSUME NEW p \in Procs, ReadRows(p) \/ CheckIntegrity(p) \/ Reread(p)
      PROVE  damaged \/ thrown'
  BY <1>1 DEF ReadRows, CheckIntegrity, Reread, ReadThrows
<1>2. ASSUME NEW p \in Procs, CheckIdentity(p)
      PROVE  pc[p] = "identity" /\ file.version # call[p].version
  BY <1>2 DEF CheckIdentity
<1> QED
  BY <1>1, <1>2
     DEF Next, Damage, Step, Crash, vars, Open, Migrate, Connect, Probe, Bootstrap,
         InspectOpen, InspectMigrate, Bind, Close, MakeDirectory, CopyPayload, Seal,
         BackupFails, Register, Apply, MigrationFails, MarkFailed, CheckMigrated, Recheck

\* A process that goes on to its second read has just made the first one.
LEMMA IdentitySteps ==
  ASSUME IInv, [Next]_vars, NEW p \in Procs, pc'[p] = "identity"
  PROVE  \/ pc[p] = "identity" /\ call'[p] = call[p]
         \/ /\ pc[p] = "read" /\ UNCHANGED file
            /\ call'[p].version = file.version
<1>1. ASSUME NEW q \in Procs, ReadRows(q)
      PROVE  \/ pc[p] = "identity" /\ call'[p] = call[p]
             \/ /\ pc[p] = "read" /\ UNCHANGED file
                /\ call'[p].version = file.version
  BY <1>1 DEF ReadRows, Corrupt, End, Goto, IInv, TypeOK, Calls
<1>2. ASSUME NEW q \in Procs, Crash(q) \/ (Step(q) /\ ~ReadRows(q))
      PROVE  pc[p] = "identity" /\ call'[p] = call[p]
  <2>1. CASE q # p
    <3>1. pc'[p] = pc[p] /\ call'[p] = call[p]
      BY <1>2, <2>1
         DEF Step, Crash, Open, Migrate, Connect, Probe, Bootstrap, CheckIdentity,
             InspectOpen, InspectMigrate, CheckIntegrity, Bind, Reread, Close,
             MakeDirectory, CopyPayload, Seal, BackupFails, Register, Apply,
             MigrationFails, MarkFailed, CheckMigrated, Recheck, Corrupt, End, Goto, IInv, TypeOK
    <3> QED
      BY <3>1
  <2>2. CASE q = p
    <3>1. pc'[p] # "identity"
      BY <1>2, <2>2
         DEF Step, Crash, Open, Migrate, Connect, Probe, Bootstrap, CheckIdentity,
             InspectOpen, InspectMigrate, CheckIntegrity, Bind, Reread, Close,
             MakeDirectory, CopyPayload, Seal, BackupFails, Register, Apply,
             MigrationFails, MarkFailed, CheckMigrated, Recheck, Corrupt, End, Goto, IInv, TypeOK
    <3> QED
      BY <3>1
  <2> QED
    BY <2>1, <2>2
<1> QED
  BY <1>1, <1>2 DEF Next, Damage, vars

LEMMA NextQInv == ASSUME IInv, QInv, [Next]_vars PROVE QInv'
<1>1. IInv' /\ FileGrows
  BY NextInv, NextGrows
<1>2. Initialised => Initialised' /\ (Migrated => Migrated')
  BY <1>1 DEF FileGrows, Initialised, Migrated
<1>3. OnlyMigrationsMislead'
  <2> SUFFICES ASSUME quarantined', ~damaged', ~thrown'
               PROVE  Initialised' /\ Migrated'
    BY DEF OnlyMigrationsMislead, Initialised, Migrated
  <2>1. ~damaged /\ ~thrown
    BY DamageStays
  <2>2. CASE quarantined
    BY <1>2, <2>1, <2>2 DEF QInv, OnlyMigrationsMislead, Migrated
  <2>3. CASE ~quarantined
    <3>1. PICK p \in Procs : pc[p] = "identity" /\ file.version # call[p].version
      BY <2>1, <2>3, QuarantineSteps
    <3>2. Initialised
      BY <3>1 DEF IInv, InOrder, FileInOrder, Reading
    <3> QED
      BY <1>2, <3>1, <3>2 DEF QInv
  <2> QED
    BY <2>2, <2>3
<1>4. ASSUME NEW p \in Procs, pc'[p] = "identity", ~Migrated'
      PROVE  call'[p].version = file'.version
  <2>1. pc[p] \in Reading => Initialised
    BY DEF IInv, InOrder, FileInOrder
  <2>2. CASE pc[p] = "identity" /\ call'[p] = call[p]
    <3>1. Initialised
      BY <2>1, <2>2 DEF Reading
    <3>2. file'.version = file.version /\ ~Migrated
      BY <1>2, <1>4, <3>1, FormatByMigration
    <3> QED
      BY <2>2, <3>2 DEF QInv
  <2>3. CASE UNCHANGED file /\ call'[p].version = file.version
    BY <2>3
  <2> QED
    BY <1>4, <2>2, <2>3, IdentitySteps
<1> QED
  BY <1>3, <1>4 DEF QInv, Migrated

\* Creating and binding processes never take one another's half-done work for
\* corruption: as long as no read of a sound file throws, a database is
\* quarantined only after a format migration was registered in its ledger.
THEOREM CreatorsAreNotMisled == Spec => []OnlyMigrationsMislead
<1>1. Init => QInv
  BY DEF Init, QInv, OnlyMigrationsMislead
<1>2. IInv /\ QInv /\ [Next]_vars => QInv'
  BY NextQInv
<1>3. QInv => OnlyMigrationsMislead
  BY DEF QInv
<1> QED
  BY <1>1, <1>2, <1>3, MigrationInvariance, PTL DEF Spec
=============================================================================
