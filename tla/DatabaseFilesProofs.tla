------------------------- MODULE DatabaseFilesProofs -------------------------
(***************************************************************************)
(* Theorems about DatabaseFiles, for any number of processes, locations,   *)
(* directories, files and damages.                                         *)
(***************************************************************************)
EXTENDS DatabaseFiles, DataStoreProofs

(***************************************************************************)
(* The inductive invariant.  Every file that has been written to holds an  *)
(* image in order, and every artifact and every summary a call holds was   *)
(* collected from one.                                                     *)
(***************************************************************************)
Genuine == {Collected(d) : d \in {e \in Images : Kept(e)}}

\* Image e is what a holder of image d put there, or d with more written to it.
Outgrown(d, e) == Len(d.events) < Len(e.events)
Grown(d, e)    == e = d \/ (Extends(d, e) /\ Outgrown(d, e))

Trouble == \E n \in 1..Len(disk) : Damaged(n) \/ Gone(n)

Suspected(l) == l \in failed \/ Trouble

FilesInOrder ==
  /\ files \in [Locations -> 1..Len(disk) \cup {Nil}]
  /\ \A l, m \in Locations : files[l] # Nil /\ files[l] = files[m] => l = m

DiskInOrder ==
  /\ disk \in Seq(Contents)
  /\ Len(disk) <= MaxFiles
  /\ \A n \in 1..Len(disk) : disk[n] # Empty => Kept(disk[n].image)

MarksInOrder ==
  /\ marked \in [Locations -> BOOLEAN]
  /\ failed \subseteq Locations
  /\ \A l \in Locations : marked[l] => Suspected(l)

ArtifactsInOrder ==
  /\ artifacts \in [Directories -> Artifacts \cup {Nil}]
  /\ \A dir \in Directories : artifacts[dir] # Nil =>
       /\ artifacts[dir].payload # Nil => artifacts[dir].payload.state \in Genuine
       /\ artifacts[dir].manifest # Nil => artifacts[dir].manifest.state \in Genuine
       /\ artifacts[dir].receipt => artifacts[dir].manifest # Nil /\ artifacts[dir].payload # Nil

Ops      == {"none", "client", "restore", "inspect", "recover", "init"}
Purposes == {"end", "restore", "create", "accept", "raced", "confirm", "failed"}

CallRecords ==
  [op : Ops, at : Locations \cup {Nil}, to : Locations \cup {Nil},
   dir : Directories \cup {Nil}, file : Nat \cup {Nil}, existed : BOOLEAN,
   held : Genuine \cup {Nil}, then : Purposes]

(***************************************************************************)
(* What holds of a call c at a step: where it is and what it is for, what  *)
(* its handle is on, what it writes and holds, what it has installed, and  *)
(* why it is about to quarantine.                                          *)
(***************************************************************************)
Storing    == {"copy", "inspect-payload", "payload", "seal", "verify-own"}
Serving    == {"open", "directory"} \cup Storing
Installed  == {"reopen", "compare", "remove", "restored"}
Holding    == {"directory", "payload", "seal", "stage", "link"} \cup Installed
Connected  == {"probe", "migration", "snapshot", "recovered"} \cup Serving \cup Installed
Plain      == {"idle", "connect", "inspect", "verify", "create", "create-or-open"}
Inspections == {"inspect", "raw", "migration", "snapshot", "mark"}
Steps      == Plain \cup Holding \cup Connected \cup {"created", "raw", "mark"}

\* The file at the location is the one the call installed.
Owning(step, c) == step \in Installed \/ c.then = "accept"

Placed(step, c) ==
  /\ step # "idle" => c.at \in Locations
  /\ step \in Inspections /\ c.then = "restore" => c.to \in Locations /\ c.dir \in Directories
  /\ step \in {"verify", "stage"} => c.dir \in Directories
  /\ step \in {"connect", "probe"} => c.op \in {"client", "init"}
  /\ step \in {"create", "create-or-open", "created"} \/ c.then = "create" => c.op = "init"
  /\ step \in Serving => c.op = "client"

Handles(step, c) ==
  /\ c.file # Nil =>
       /\ c.file \in 1..Len(disk)
       /\ c.at \in Locations
       /\ files[c.at] = c.file \/ Gone(c.file)
  /\ step \in Connected => c.file # Nil
  /\ step \in Serving => disk[c.file] # Empty

Stores(step, c) ==
  /\ step \in Storing => c.dir \in Directories /\ artifacts[c.dir] # Nil
  /\ step = "seal" => artifacts[c.dir].payload # Nil
  /\ step \in Holding => c.held \in Genuine

Owns(step, c) ==
  /\ Owning(step, c) =>
       /\ c.at \in Locations
       /\ files[c.at] # Nil
       /\ disk[files[c.at]] # Empty
       /\ disk[files[c.at]].binding = BindingOf(c.at)
       /\ c.file # Nil => c.file = files[c.at]
  /\ step \in Installed => Grown(Materialized(c.held), disk[c.file].image)
  /\ step = "remove" =>
       \/ marked[c.at]
       \/ c.then = "failed"
       \/ Damaged(c.file)
       \/ Outgrown(Materialized(c.held), disk[c.file].image)
  /\ step = "recovered" => c.then = "accept"

Suspects(step, c) ==
  /\ step = "raw" => files[c.at] # Nil \/ Trouble
  /\ step = "mark" => Suspected(c.at)
  /\ step = "snapshot" => disk[c.file] # Empty \/ Trouble

InOrder(step, c) ==
  /\ Placed(step, c)
  /\ Handles(step, c)
  /\ Stores(step, c)
  /\ Owns(step, c)
  /\ Suspects(step, c)

\* No two calls own what is at one location or write to one directory.
Apart(s, c, t, e) ==
  /\ Owning(s, c) /\ Owning(t, e) => c.at # e.at
  /\ s \in Storing /\ t \in Storing => c.dir # e.dir

CallsInOrder ==
  /\ pc \in [Procs -> Steps]
  /\ call \in [Procs -> CallRecords]
  /\ \A p \in Procs : InOrder(pc[p], call[p])
  /\ \A p, q \in Procs : p # q => Apart(pc[p], call[p], pc[q], call[q])

WorldInOrder == FilesInOrder /\ DiskInOrder /\ MarksInOrder /\ ArtifactsInOrder

IInv == WorldInOrder /\ CallsInOrder

(***************************************************************************)
(* States that were collected from an image in order.                      *)
(***************************************************************************)
LEMMA CollectedType ==
  ASSUME NEW d \in Images
  PROVE  Collected(d) \in Summaries
<1>1. SchemaRows(d) \in SUBSET [version : Nat, schema : Schemas]
  BY CurrentSchemaType DEF SchemaRows, SchemaVersion, Images
<1>2. RecordRows(d) \in SUBSET [rec : Ids, row : Rows]
  BY DEF RecordRows, Stored, Images
<1>3. RelationRows(d) \in SUBSET [source : Ids, field : Fields, target : Ids]
  <2> SUFFICES ASSUME NEW x \in Stored(d) \X Fields, d.relations[x[1]][x[2]] # Nil
               PROVE  [source |-> x[1], field |-> x[2], target |-> d.relations[x[1]][x[2]]]
                        \in [source : Ids, field : Fields, target : Ids]
    BY DEF RelationRows
  <2>1. x[1] \in Ids /\ x[2] \in Fields
    BY DEF Stored
  <2>2. d.relations[x[1]][x[2]] \in Ids
    BY <2>1 DEF Images
  <2> QED
    BY <2>1, <2>2
<1>4. IdempotencyRows(d) \in SUBSET [key : Keys, entry : Entries]
  BY DEF IdempotencyRows, Images
<1>5. ProvenanceRows(d) \in SUBSET [sequence : Nat, event : Events]
  BY DEF ProvenanceRows, Images
<1> QED
  BY <1>1, <1>2, <1>3, <1>4, <1>5 DEF Collected, Summaries

LEMMA CollectedGenuine ==
  ASSUME NEW d, Kept(d)
  PROVE  /\ Collected(d) \in Genuine
         /\ Materialized(Collected(d)) = d
         /\ Collectable(d) /\ Imports(Collected(d))
<1>1. d \in Images /\ Sound(d) /\ LedgerMatchesLog(d) /\ Exportable(d)
  BY DEF Kept, LogSound
<1>2. Portable(d)
  BY <1>1, ImagePortable
<1> QED
  BY <1>1, <1>2 DEF Genuine, Portable

LEMMA GenuineStates ==
  ASSUME NEW s \in Genuine
  PROVE  /\ s \in Summaries
         /\ Kept(Materialized(s))
         /\ Collected(Materialized(s)) = s
<1>1. PICK d \in Images : Kept(d) /\ s = Collected(d)
  BY DEF Genuine
<1> QED
  BY <1>1, CollectedType, CollectedGenuine

(***************************************************************************)
(* What steps make of the world around a call.                             *)
(***************************************************************************)
\* Content x of a file, and what becomes of it.
Later(x, y) == x # Empty =>
  /\ y # Empty
  /\ y.binding = x.binding
  /\ x.health # "sound" => y.health # "sound"
  /\ Grown(x.image, y.image)

Onward ==
  /\ Len(disk) <= Len(disk')
  /\ \A n \in 1..Len(disk) : Later(disk[n], disk'[n])
  /\ \A l \in Locations : \/ files'[l] = files[l]
                          \/ files'[l] = Nil
                          \/ files[l] = Nil /\ files'[l] = NewFile
  /\ \A l \in Locations : marked[l] => marked'[l]
  /\ failed \subseteq failed'

\* Work at a location may fail.
Failing == UNCHANGED failed \/ \E p \in Procs : Fails(p)

\* A step leaves the call's file where it is and its artifact there.
Untouched(step, c) ==
  /\ Owning(step, c) => files'[c.at] = files[c.at]
  /\ step \in Storing =>
       /\ artifacts'[c.dir] # Nil
       /\ artifacts[c.dir].payload # Nil => artifacts'[c.dir].payload # Nil

LEMMA FileNumbers ==
  ASSUME FilesInOrder, DiskInOrder
  PROVE  /\ Len(disk) \in Nat /\ Nil \notin Nat
         /\ \A l \in Locations : files[l] # Nil => files[l] \in 1..Len(disk)
         /\ \A n \in 1..Len(disk) : disk[n] # Empty => disk[n] \in Databases
  BY FilesAssumption DEF FilesInOrder, DiskInOrder, Contents

LEMMA FailuresStay ==
  ASSUME Failing, failed \subseteq Locations
  PROVE  failed \subseteq failed' /\ failed' \subseteq Locations
  BY FilesAssumption DEF Failing, Fails

LEMMA OnwardGone ==
  ASSUME FilesInOrder, DiskInOrder, Onward, NEW n \in 1..Len(disk), Gone(n)
  PROVE  Gone(n)'
  BY FileNumbers DEF Gone, Onward, NewFile

LEMMA OnwardPlace ==
  ASSUME FilesInOrder, DiskInOrder, Onward, NEW n \in 1..Len(disk), NEW l \in Locations,
         files[l] = n \/ Gone(n)
  PROVE  files'[l] = n \/ Gone(n)'
<1>1. CASE files[l] = n /\ files'[l] # n
  <2> SUFFICES ASSUME NEW m \in Locations PROVE files'[m] # n
    BY DEF Gone
  <2>1. m # l => files[m] # n
    BY <1>1, FileNumbers DEF FilesInOrder
  <2> QED
    BY <1>1, <2>1, FileNumbers DEF Onward, NewFile
<1>2. CASE Gone(n)
  BY <1>2, OnwardGone
<1> QED
  BY <1>1, <1>2

LEMMA OnwardDamaged ==
  ASSUME Onward, NEW n \in 1..Len(disk), Damaged(n)
  PROVE  Damaged(n)'
  BY DEF Onward, Later, Damaged

LEMMA OnwardTrouble ==
  ASSUME FilesInOrder, DiskInOrder, DiskInOrder', Onward, Trouble
  PROVE  Trouble'
<1>1. PICK n \in 1..Len(disk) : Damaged(n) \/ Gone(n)
  BY DEF Trouble
<1>2. Damaged(n)' \/ Gone(n)'
  BY <1>1, OnwardDamaged, OnwardGone
<1>3. n \in 1..Len(disk')
  BY DEF DiskInOrder, Onward
<1> QED
  BY <1>2, <1>3 DEF Trouble

LEMMA OnwardSuspected ==
  ASSUME FilesInOrder, DiskInOrder, DiskInOrder', Onward, NEW l, Suspected(l)
  PROVE  Suspected(l)'
  BY OnwardTrouble DEF Suspected, Onward

LEMMA GrownTransitive ==
  ASSUME NEW d \in Images, NEW e \in Images, NEW g \in Images, Grown(e, g)
  PROVE  /\ Grown(d, e) => Grown(d, g)
         /\ Outgrown(d, e) => Outgrown(d, g)
<1>1. Len(d.events) \in Nat /\ Len(e.events) \in Nat /\ Len(g.events) \in Nat
  BY DEF Images
<1>2. Outgrown(d, e) => Outgrown(d, g)
  BY <1>1 DEF Grown, Outgrown
<1>3. Outgrown(d, e) /\ Extends(d, e) => Grown(d, g)
  BY <1>2, ExtendsTransitive DEF Grown
<1> QED
  BY <1>2, <1>3 DEF Grown

\* A call that a step leaves alone is in order after it.
LEMMA OnwardCall ==
  ASSUME FilesInOrder, DiskInOrder, FilesInOrder', DiskInOrder', Onward,
         NEW step, NEW c \in CallRecords, InOrder(step, c), Untouched(step, c)
  PROVE  InOrder(step, c)'
<1>1. Placed(step, c)'
  BY DEF InOrder, Placed
<1>2. Handles(step, c)'
  <2>1. c.file # Nil => c.file \in 1..Len(disk) /\ c.file \in 1..Len(disk')
    BY DEF InOrder, Handles, Onward, DiskInOrder
  <2>2. c.file # Nil => files'[c.at] = c.file \/ Gone(c.file)'
    BY <2>1, OnwardPlace DEF InOrder, Handles
  <2>3. step \in Serving => c.file # Nil /\ disk[c.file] # Empty
    BY DEF InOrder, Handles, Connected
  <2>4. step \in Serving => disk'[c.file] # Empty
    BY <2>1, <2>3 DEF Onward, Later
  <2> QED
    BY <2>1, <2>2, <2>4 DEF InOrder, Handles
<1>3. Stores(step, c)'
  BY DEF InOrder, Stores, Untouched, Storing
<1>4. Owns(step, c)'
  <2>1. ASSUME Owning(step, c)
        PROVE  /\ files'[c.at] # Nil /\ disk'[files'[c.at]] # Empty
               /\ disk'[files'[c.at]].binding = BindingOf(c.at)
               /\ c.file # Nil => c.file = files'[c.at]
    <3>1. /\ files[c.at] \in 1..Len(disk) /\ files'[c.at] = files[c.at] /\ files[c.at] # Nil
          /\ disk[files[c.at]] # Empty /\ disk[files[c.at]].binding = BindingOf(c.at)
          /\ c.file # Nil => c.file = files[c.at]
      BY <2>1, FileNumbers DEF InOrder, Owns, Untouched
    <3> QED
      BY <3>1 DEF Onward, Later
  <2>2. ASSUME step \in Installed
        PROVE  /\ c.file \in 1..Len(disk)
               /\ Grown(Materialized(c.held), disk'[c.file].image)
               /\ Outgrown(Materialized(c.held), disk[c.file].image) =>
                    Outgrown(Materialized(c.held), disk'[c.file].image)
    <3>1. /\ c.file \in 1..Len(disk) /\ c.file \in 1..Len(disk') /\ c.held \in Genuine
          /\ disk[c.file] # Empty
          /\ Grown(Materialized(c.held), disk[c.file].image)
      BY <2>2 DEF InOrder, Handles, Stores, Owns, Owning, Connected, Holding, Onward, DiskInOrder
    <3>2. disk'[c.file] # Empty /\ Grown(disk[c.file].image, disk'[c.file].image)
      BY <3>1 DEF Onward, Later
    <3>3. /\ Materialized(c.held) \in Images
          /\ disk[c.file].image \in Images /\ disk'[c.file].image \in Images
      BY <3>1, <3>2, GenuineStates DEF DiskInOrder, Kept
    <3> QED
      BY <3>1, <3>2, <3>3, GrownTransitive
  <2>3. step = "remove" =>
          \/ marked'[c.at]
          \/ c.then = "failed"
          \/ Damaged(c.file)'
          \/ Outgrown(Materialized(c.held), disk'[c.file].image)
    <3>1. step = "remove" => step \in Installed /\ c.at \in Locations
      BY DEF InOrder, Placed, Installed
    <3> QED
      BY <2>2, <3>1, OnwardDamaged DEF InOrder, Owns, Onward
  <2> QED
    BY <2>1, <2>2, <2>3 DEF InOrder, Owns
<1>5. Suspects(step, c)'
  <2>1. step = "raw" => c.at \in Locations
    BY DEF InOrder, Placed
  <2>2. step = "raw" => files'[c.at] # Nil \/ Trouble'
    <3> SUFFICES ASSUME step = "raw", files'[c.at] = Nil, ~Trouble PROVE Trouble'
      BY OnwardTrouble
    <3>1. PICK n \in 1..Len(disk) : files[c.at] = n
      BY <2>1, FileNumbers DEF InOrder, Suspects
    <3>2. Gone(n)'
      BY <2>1, <3>1, FileNumbers, OnwardPlace
    <3>3. n \in 1..Len(disk')
      BY <3>1 DEF Onward, DiskInOrder
    <3> QED
      BY <3>2, <3>3 DEF Trouble
  <2>3. step = "snapshot" => c.file \in 1..Len(disk)
    BY DEF InOrder, Handles, Connected
  <2>4. step = "snapshot" /\ disk[c.file] # Empty => disk'[c.file] # Empty
    BY <2>3 DEF Onward, Later
  <2> QED
    BY <2>2, <2>4, OnwardTrouble, OnwardSuspected DEF InOrder, Suspects
<1> QED
  BY <1>1, <1>2, <1>3, <1>4, <1>5 DEF InOrder

(***************************************************************************)
(* Steps of process p: to the next step with a call that is in order after *)
(* it, while the others' calls are left alone.                             *)
(***************************************************************************)
LEMMA OtherCall ==
  ASSUME IInv, WorldInOrder', Onward, NEW q \in Procs, Untouched(pc[q], call[q]),
         pc'[q] = pc[q], call'[q] = call[q]
  PROVE  InOrder(pc[q], call[q])'
<1>1. FilesInOrder /\ DiskInOrder /\ FilesInOrder' /\ DiskInOrder'
  BY DEF IInv, WorldInOrder
<1>2. InOrder(pc[q], call[q]) /\ call[q] \in CallRecords
  BY DEF IInv, CallsInOrder
<1>3. PICK s \in Steps, d \in CallRecords : s = pc[q] /\ d = call[q]
  BY <1>2 DEF IInv, CallsInOrder
<1>4. InOrder(s, d)'
  BY <1>1, <1>2, <1>3, OnwardCall
<1>5. InOrder(pc[q], call[q])' <=> InOrder(s, d)'
  BY <1>3 DEF InOrder, Placed, Handles, Stores, Owns, Suspects, Owning
<1> QED
  BY <1>4, <1>5

LEMMA WorldStep ==
  ASSUME IInv, WorldInOrder', Onward, NEW p \in Procs,
         NEW step \in Steps, NEW c \in CallRecords,
         pc' = [pc EXCEPT ![p] = step], call' = [call EXCEPT ![p] = c],
         InOrder(step, c)',
         \A q \in Procs \ {p} : /\ Untouched(pc[q], call[q])
                                /\ Apart(pc[q], call[q], step, c)
  PROVE  IInv'
<1>1. pc' \in [Procs -> Steps] /\ call' \in [Procs -> CallRecords]
  BY DEF IInv, CallsInOrder
<1>2. /\ pc'[p] = step /\ call'[p] = c
      /\ \A q \in Procs \ {p} : pc'[q] = pc[q] /\ call'[q] = call[q]
  BY DEF IInv, CallsInOrder
<1>3. \A q \in Procs : InOrder(pc[q], call[q])'
  <2> SUFFICES ASSUME NEW q \in Procs PROVE InOrder(pc[q], call[q])'
    OBVIOUS
  <2>1. CASE q = p
    <3>1. InOrder(pc[p], call[p])' <=> InOrder(step, c)'
      BY <1>2 DEF InOrder, Placed, Handles, Stores, Owns, Suspects, Owning
    <3> QED
      BY <2>1, <3>1
  <2>2. CASE q # p
    BY <1>2, <2>2, OtherCall
  <2> QED
    BY <2>1, <2>2
<1>4. \A q, r \in Procs : q # r => Apart(pc[q], call[q], pc[r], call[r])'
  <2> SUFFICES ASSUME NEW q \in Procs, NEW r \in Procs, q # r
               PROVE  Apart(pc'[q], call'[q], pc'[r], call'[r])
    BY DEF Apart, Owning
  <2>1. Apart(pc[q], call[q], pc[r], call[r])
    BY DEF IInv, CallsInOrder
  <2>2. CASE q = p
    <3>1. Apart(step, c, pc[r], call[r])
      BY <2>2 DEF Apart
    <3> QED
      BY <1>2, <2>2, <3>1
  <2>3. CASE r = p
    BY <1>2, <2>3
  <2>4. CASE q # p /\ r # p
    BY <1>2, <2>1, <2>4
  <2> QED
    BY <2>2, <2>3, <2>4
<1> QED
  BY <1>1, <1>3, <1>4 DEF IInv, CallsInOrder

\* The files and the artifacts are left alone; work at a location may fail, and
\* the location may get a marker.
Quiet ==
  /\ UNCHANGED <<files, disk, artifacts>>
  /\ MarksInOrder'
  /\ \A l \in Locations : marked[l] => marked'[l]
  /\ failed \subseteq failed'

LEMMA OnlyFailures ==
  ASSUME IInv, UNCHANGED <<files, disk, marked, artifacts>>, Failing
  PROVE  Quiet
<1>1. MarksInOrder
  BY DEF IInv, WorldInOrder
<1>2. failed \subseteq failed' /\ failed' \subseteq Locations
  BY <1>1, FailuresStay DEF MarksInOrder
<1>3. Trouble' <=> Trouble
  BY DEF Trouble, Damaged, Gone
<1>4. MarksInOrder'
  BY <1>1, <1>2, <1>3 DEF MarksInOrder, Suspected
<1> QED
  BY <1>2, <1>4 DEF Quiet

LEMMA NothingHappens ==
  ASSUME IInv, UNCHANGED <<files, disk, marked, artifacts, failed>>
  PROVE  Quiet
  BY OnlyFailures DEF Failing

\* Quiet steps that let a call own or write nothing it did not before.
LEMMA LocalStep ==
  ASSUME IInv, Quiet,
         NEW p \in Procs, NEW step \in Steps, NEW c \in CallRecords,
         pc' = [pc EXCEPT ![p] = step], call' = [call EXCEPT ![p] = c],
         InOrder(step, c),
         Owning(step, c) => Owning(pc[p], call[p]) /\ c.at = call[p].at,
         step \in Storing => pc[p] \in Storing /\ c.dir = call[p].dir
  PROVE  IInv'
<1>1. WorldInOrder'
  BY DEF IInv, WorldInOrder, FilesInOrder, DiskInOrder, ArtifactsInOrder, Quiet
<1>2. Onward
  <2>1. Len(disk) \in Nat
    BY DEF IInv, WorldInOrder, DiskInOrder
  <2> QED
    BY <2>1 DEF Onward, Later, Grown, Quiet
<1>3. Untouched(step, c)
  BY DEF InOrder, Stores, Untouched, Quiet
<1>4. InOrder(step, c)'
  BY <1>1, <1>2, <1>3, OnwardCall DEF IInv, WorldInOrder
<1>5. ASSUME NEW q \in Procs \ {p}
      PROVE  Untouched(pc[q], call[q]) /\ Apart(pc[q], call[q], step, c)
  <2>1. InOrder(pc[q], call[q]) /\ Apart(pc[q], call[q], pc[p], call[p])
    BY DEF IInv, CallsInOrder
  <2>2. Untouched(pc[q], call[q])
    BY <2>1 DEF InOrder, Stores, Untouched, Quiet
  <2> QED
    BY <2>1, <2>2 DEF Apart
<1> QED
  BY <1>1, <1>2, <1>4, <1>5, WorldStep

LEMMA CallFacts ==
  ASSUME IInv, NEW p \in Procs
  PROVE  /\ call[p] \in CallRecords /\ pc[p] \in Steps
         /\ InOrder(pc[p], call[p])
         /\ FilesInOrder /\ DiskInOrder /\ MarksInOrder /\ ArtifactsInOrder
         /\ Len(disk) \in Nat /\ Nil \notin Nat
         /\ \A l \in Locations : files[l] # Nil => files[l] \in 1..Len(disk)
         /\ \A n \in 1..Len(disk) : disk[n] # Empty => disk[n] \in Databases /\ Kept(disk[n].image)
  BY FileNumbers DEF IInv, WorldInOrder, CallsInOrder, DiskInOrder

\* Nothing happens but to the call, and work at its location may fail.
LEMMA QuietWorld ==
  ASSUME IInv, UNCHANGED <<files, disk, marked, artifacts>>, Failing
  PROVE  /\ WorldInOrder' /\ Onward
         /\ \A q \in Procs : Untouched(pc[q], call[q])
<1>1. Quiet
  BY OnlyFailures
<1>2. WorldInOrder'
  BY <1>1 DEF IInv, WorldInOrder, FilesInOrder, DiskInOrder, ArtifactsInOrder, Quiet
<1>3. Len(disk) \in Nat
  BY DEF IInv, WorldInOrder, DiskInOrder
<1>4. Onward
  BY <1>1, <1>3 DEF Onward, Later, Grown, Quiet
<1>5. \A q \in Procs : InOrder(pc[q], call[q])
  BY CallFacts
<1> QED
  BY <1>2, <1>4, <1>5 DEF InOrder, Stores, Untouched

(***************************************************************************)
(* Calls that begin, end, or begin a part.                                 *)
(***************************************************************************)
LEMMA PlainInOrder ==
  ASSUME NEW step \in Plain, NEW c \in CallRecords, c.file = Nil, c.then # "accept",
         Placed(step, c)
  PROVE  /\ InOrder(step, c)
         /\ ~Owning(step, c) /\ step \notin Storing /\ step \in Steps
<1>1. /\ step \notin Installed /\ step \notin Connected /\ step \notin Holding
      /\ step \notin Storing /\ step \notin Serving
      /\ step \notin {"seal", "remove", "recovered", "raw", "mark", "snapshot"}
  BY DEF Plain, Installed, Connected, Holding, Storing, Serving
<1>2. ~Owning(step, c)
  BY <1>1 DEF Owning
<1>3. step \in Steps
  BY DEF Steps
<1> QED
  BY <1>1, <1>2, <1>3 DEF InOrder, Handles, Stores, Owns, Suspects

\* A step that only makes a plain call.
LEMMA PlainStep ==
  ASSUME IInv, Quiet, NEW p \in Procs,
         NEW step \in Plain, NEW c \in CallRecords, c.file = Nil, c.then # "accept",
         Placed(step, c),
         pc' = [pc EXCEPT ![p] = step], call' = [call EXCEPT ![p] = c]
  PROVE  IInv'
  BY PlainInOrder, LocalStep

LEMMA CallingType ==
  ASSUME NEW op \in Ops, NEW l \in Locations
  PROVE  /\ Calling(op, l) \in CallRecords
         /\ Calling(op, l).at = l /\ Calling(op, l).op = op /\ Calling(op, l).file = Nil
         /\ Calling(op, l).then = "end" /\ NoCall \in CallRecords
<1>1. NoCall \in CallRecords
  BY DEF NoCall, CallRecords, Ops, Purposes
<1> QED
  BY <1>1 DEF Calling, NoCall, CallRecords

LEMMA ReturnStep ==
  ASSUME IInv, Quiet, NEW p \in Procs, Return(p)
  PROVE  IInv'
<1>1. NoCall \in CallRecords /\ NoCall.file = Nil /\ NoCall.then = "end" /\ "idle" \in Plain
  BY DEF NoCall, CallRecords, Plain, Ops, Purposes
<1>2. Placed("idle", NoCall)
  BY DEF Placed, NoCall, Serving, Storing, Inspections
<1>3. pc' = [pc EXCEPT ![p] = "idle"] /\ call' = [call EXCEPT ![p] = NoCall]
  BY DEF Return, Goto
<1> QED
  BY <1>1, <1>2, <1>3, PlainStep

\* An inspection for something else than to accept a recovery.
LEMMA InspectingStep ==
  ASSUME IInv, Quiet, NEW p \in Procs,
         NEW c \in CallRecords, c.at \in Locations, NEW then \in Purposes, then # "accept",
         then = "restore" => c.to \in Locations /\ c.dir \in Directories,
         then = "create" => c.op = "init",
         Inspecting(p, c, then)
  PROVE  IInv'
<1> DEFINE i == [Calling(c.op, c.at) EXCEPT !.to = c.to, !.dir = c.dir, !.then = then]
<1>1. /\ i \in CallRecords /\ i.file = Nil /\ i.then = then /\ i.at = c.at /\ i.op = c.op
      /\ i.to = c.to /\ i.dir = c.dir
  BY DEF Calling, NoCall, CallRecords
<1>2. pc' = [pc EXCEPT ![p] = "inspect"] /\ call' = [call EXCEPT ![p] = i]
  BY DEF Inspecting, Goto
<1> HIDE DEF i
<1>3. Placed("inspect", i)
  BY <1>1 DEF Placed, Serving, Storing, Inspections
<1> QED
  BY <1>1, <1>2, <1>3, PlainStep DEF Plain

\* What follows an inspection; only a snapshot that was collected is healthy.
LEMMA ReportedStep ==
  ASSUME IInv, Quiet, NEW p \in Procs, pc[p] \in Inspections, call[p].at \in Locations,
         NEW state, state = "healthy" => pc[p] = "snapshot", Reported(p, state)
  PROVE  IInv'
<1> DEFINE c == call[p]
<1>1. /\ c \in CallRecords /\ InOrder(pc[p], c)
  BY CallFacts
<1>2. CASE c.then = "restore"
  <2> DEFINE v == [Calling(c.op, c.to) EXCEPT !.dir = c.dir]
  <2>1. c.to \in Locations /\ c.dir \in Directories /\ c.op \in Ops
    BY <1>1, <1>2 DEF InOrder, Placed, CallRecords
  <2>2. /\ v \in CallRecords /\ v.file = Nil /\ v.then = "end"
        /\ v.at = c.to /\ v.dir = c.dir
    BY <2>1, CallingType DEF CallRecords
  <2>3. pc' = [pc EXCEPT ![p] = "verify"] /\ call' = [call EXCEPT ![p] = v]
    BY <1>2 DEF Reported, Goto
  <2> HIDE DEF v, c
  <2>4. Placed("verify", v)
    BY <2>1, <2>2 DEF Placed, Serving, Storing, Inspections
  <2> QED
    BY <2>2, <2>3, <2>4, PlainStep DEF Plain
<1>3. CASE c.then = "create" /\ state = "missing"
  <2> DEFINE v == Calling(c.op, c.at)
  <2>1. c.op = "init" /\ c.op \in Ops /\ c.at \in Locations
    BY <1>1, <1>3 DEF InOrder, Placed, CallRecords
  <2>2. v \in CallRecords /\ v.file = Nil /\ v.then = "end" /\ v.at = c.at /\ v.op = "init"
    BY <2>1, CallingType
  <2>3. pc' = [pc EXCEPT ![p] = "create"] /\ call' = [call EXCEPT ![p] = v]
    BY <1>3 DEF Reported, Goto
  <2> HIDE DEF v, c
  <2>4. Placed("create", v)
    BY <2>1, <2>2 DEF Placed, Serving, Storing, Inspections
  <2> QED
    BY <2>2, <2>3, <2>4, PlainStep DEF Plain
<1>4. CASE c.then = "accept" /\ state = "healthy"
  <2>1. pc' = [pc EXCEPT ![p] = "recovered"] /\ call' = [call EXCEPT ![p] = c]
    BY <1>4 DEF Reported, Goto, IInv, CallsInOrder
  <2> HIDE DEF c
  <2>2. InOrder("snapshot", c)
    BY <1>1, <1>4
  <2>3. InOrder("recovered", c)
    <3>1. Placed("recovered", c)
      BY <2>2 DEF InOrder, Placed, Serving, Storing, Inspections
    <3>2. Handles("recovered", c)
      BY <2>2 DEF InOrder, Handles, Serving, Storing, Connected
    <3>3. Stores("recovered", c)
      BY DEF Stores, Storing, Holding, Installed
    <3>4. Owns("recovered", c)
      BY <1>4, <2>2 DEF InOrder, Owns, Installed, Owning
    <3> QED
      BY <3>1, <3>2, <3>3, <3>4 DEF InOrder, Suspects
  <2>4. Owning(pc[p], call[p]) /\ "recovered" \notin Storing /\ "recovered" \in Steps
    BY <1>4 DEF Owning, Storing, Steps, Connected, c
  <2>5. c.at = call[p].at
    BY DEF c
  <2> QED
    BY <1>1, <2>1, <2>3, <2>4, <2>5, LocalStep
<1>5. CASE ~(c.then = "restore" \/ (c.then = "create" /\ state = "missing")
               \/ (c.then = "accept" /\ state = "healthy"))
  <2>1. Return(p)
    BY <1>5 DEF Reported
  <2> QED
    BY <2>1, ReturnStep
<1> QED
  BY <1>2, <1>3, <1>4, <1>5

(***************************************************************************)
(* Inspections.                                                            *)
(***************************************************************************)
\* The next step of an inspection, which may have opened the location's file.
LEMMA InspectionStep ==
  ASSUME IInv, Quiet, NEW p \in Procs, pc[p] \in Inspections,
         NEW step \in Inspections, NEW c \in CallRecords,
         c.at = call[p].at, c.to = call[p].to, c.dir = call[p].dir,
         c.op = call[p].op, c.then = call[p].then,
         c.file = call[p].file \/ (c.file # Nil /\ c.file = files[c.at]),
         step \in {"migration", "snapshot"} => c.file # Nil,
         Suspects(step, c),
         pc' = [pc EXCEPT ![p] = step], call' = [call EXCEPT ![p] = c]
  PROVE  IInv'
<1>1. /\ InOrder(pc[p], call[p])
      /\ \A l \in Locations : files[l] # Nil => files[l] \in 1..Len(disk)
  BY CallFacts
<1>2. /\ step \in Steps /\ step \notin Serving /\ step \notin Storing
      /\ step \notin Holding /\ step \notin Installed
      /\ step \notin {"idle", "verify", "stage", "connect", "probe", "create",
                      "create-or-open", "created", "seal", "remove", "recovered"}
      /\ step \in Connected => step \in {"migration", "snapshot"}
  BY DEF Inspections, Steps, Plain, Serving, Storing, Holding, Installed, Connected
<1>3. pc[p] # "idle" /\ pc[p] \notin Installed
  BY DEF Inspections, Installed
<1>4. Owning(step, c) => Owning(pc[p], call[p])
  BY <1>2 DEF Owning
<1>5. Placed(step, c)
  BY <1>1, <1>2, <1>3 DEF InOrder, Placed
<1>6. Handles(step, c)
  BY <1>1, <1>2, <1>5 DEF InOrder, Placed, Handles
<1>7. Stores(step, c)
  BY <1>2 DEF Stores
<1>8. Owns(step, c)
  BY <1>1, <1>2, <1>4 DEF InOrder, Owns
<1>9. InOrder(step, c)
  BY <1>5, <1>6, <1>7, <1>8 DEF InOrder
<1> QED
  BY <1>2, <1>4, <1>9, LocalStep

\* Work at the location has failed, and is called corruption.
LEMMA CorruptStep ==
  ASSUME IInv, WorldInOrder', Onward, NEW p \in Procs, NEW then,
         \A q \in Procs : Untouched(pc[q], call[q]),
         \/ pc[p] = "probe" /\ then = "end"
         \/ pc[p] \in Inspections /\ then = call[p].then,
         call[p].at \in failed',
         pc' = [pc EXCEPT ![p] = "mark"], call' = [call EXCEPT ![p].then = then]
  PROVE  IInv'
<1>1. /\ call[p] \in CallRecords /\ InOrder(pc[p], call[p])
      /\ FilesInOrder /\ DiskInOrder /\ FilesInOrder' /\ DiskInOrder'
  BY CallFacts DEF IInv, WorldInOrder
<1>2. PICK c \in CallRecords :
        /\ c = [call[p] EXCEPT !.then = then]
        /\ c.at = call[p].at /\ c.op = call[p].op /\ c.file = call[p].file
        /\ c.then = then /\ c.to = call[p].to /\ c.dir = call[p].dir
  <2> DEFINE b == [call[p] EXCEPT !.then = then]
  <2>1. /\ b \in CallRecords
        /\ b.at = call[p].at /\ b.op = call[p].op /\ b.file = call[p].file
        /\ b.then = then /\ b.to = call[p].to /\ b.dir = call[p].dir
    BY <1>1 DEF CallRecords, Purposes
  <2> HIDE DEF b
  <2> QED
    BY <2>1 DEF b
<1>3. \A step \in {"inspect", "mark"} :
        /\ step \in Steps /\ step \in Inspections
        /\ step \notin Storing /\ step \notin Holding /\ step \notin Serving
        /\ step \notin Installed /\ step \notin Connected
  BY DEF Inspections, Steps, Plain, Storing, Holding, Serving, Installed, Connected
<1>4. pc[p] # "idle" /\ pc[p] \notin Installed
  BY DEF Inspections, Installed
<1>5. Owning("mark", c) => Owning(pc[p], call[p])
  BY <1>2, <1>3 DEF Owning
<1>6. InOrder("inspect", c)
  <2>1. Placed("inspect", c)
    BY <1>1, <1>2, <1>3, <1>4 DEF InOrder, Placed
  <2>2. Handles("inspect", c)
    BY <1>1, <1>2, <1>3 DEF InOrder, Handles
  <2>3. Stores("inspect", c)
    BY <1>3 DEF Stores
  <2>4. Owns("inspect", c)
    BY <1>1, <1>2, <1>3, <1>5 DEF InOrder, Owns, Owning
  <2> QED
    BY <2>1, <2>2, <2>3, <2>4 DEF InOrder, Suspects
<1>7. Untouched("inspect", c)
  BY <1>2, <1>3, <1>5 DEF Untouched, Owning
<1>8. InOrder("inspect", c)'
  BY <1>1, <1>6, <1>7, OnwardCall
<1>9. InOrder("mark", c)'
  <2>1. Placed("mark", c)'
    BY <1>3, <1>8 DEF InOrder, Placed
  <2>2. Handles("mark", c)' /\ Stores("mark", c)' /\ Owns("mark", c)'
    BY <1>3, <1>8 DEF InOrder, Handles, Stores, Owns, Owning
  <2>3. Suspects("mark", c)'
    BY <1>2 DEF Suspects, Suspected
  <2> QED
    BY <2>1, <2>2, <2>3 DEF InOrder
<1>10. ASSUME NEW q \in Procs \ {p}
       PROVE  Untouched(pc[q], call[q]) /\ Apart(pc[q], call[q], "mark", c)
  <2>1. Apart(pc[q], call[q], pc[p], call[p])
    BY DEF IInv, CallsInOrder
  <2> QED
    BY <1>2, <1>3, <1>5, <2>1 DEF Apart
<1>11. call' = [call EXCEPT ![p] = c]
  BY <1>2
<1> QED
  BY <1>3, <1>9, <1>10, <1>11, WorldStep

\* An inspection whose work fails, and which leaves everything else alone.
LEMMA CallsItCorruptStep ==
  ASSUME IInv, UNCHANGED <<files, disk, marked, artifacts>>,
         NEW p \in Procs, pc[p] \in Inspections, CallsItCorrupt(p)
  PROVE  IInv'
<1>1. /\ WorldInOrder' /\ Onward
      /\ \A q \in Procs : Untouched(pc[q], call[q])
  BY QuietWorld DEF Failing, CallsItCorrupt
<1>2. call[p].at \in failed' /\ pc' = [pc EXCEPT ![p] = "mark"]
  BY DEF CallsItCorrupt, Fails, Goto
<1>3. call' = [call EXCEPT ![p].then = call[p].then]
  <2>1. [call[p] EXCEPT !.then = call[p].then] = call[p]
    BY CallFacts DEF CallRecords
  <2> QED
    BY <2>1 DEF CallsItCorrupt, IInv, CallsInOrder
<1> QED
  BY <1>1, <1>2, <1>3, CorruptStep

LEMMA LookForFileStep ==
  ASSUME IInv, NEW p \in Procs, LookForFile(p)
  PROVE  IInv'
<1>1. /\ call[p] \in CallRecords /\ InOrder(pc[p], call[p]) /\ pc[p] = "inspect"
      /\ call[p].at \in Locations /\ Quiet /\ marked \in [Locations -> BOOLEAN]
  BY CallFacts, OnlyFailures DEF LookForFile, InOrder, Placed, MarksInOrder, Failing
<1>2. CASE Reported(p, "missing") \/ Reported(p, "unavailable")
  BY <1>1, <1>2, ReportedStep DEF Inspections
<1>3. CASE /\ Here(p) # Nil /\ Goto(p, "raw")
           /\ call' = [call EXCEPT ![p].existed = marked[call[p].at]]
  <2> DEFINE c == [call[p] EXCEPT !.existed = marked[call[p].at]]
  <2>1. /\ c \in CallRecords /\ c.at = call[p].at /\ c.to = call[p].to
        /\ c.dir = call[p].dir /\ c.op = call[p].op /\ c.then = call[p].then
        /\ c.file = call[p].file
    BY <1>1 DEF CallRecords
  <2>2. pc' = [pc EXCEPT ![p] = "raw"] /\ call' = [call EXCEPT ![p] = c]
    BY <1>3 DEF Goto
  <2> HIDE DEF c
  <2>3. Suspects("raw", c)
    BY <1>3, <2>1 DEF Suspects, Here
  <2> QED
    BY <1>1, <2>1, <2>2, <2>3, InspectionStep DEF Inspections
<1> QED
  BY <1>2, <1>3 DEF LookForFile

LEMMA OpenRawStep ==
  ASSUME IInv, NEW p \in Procs, OpenRaw(p)
  PROVE  IInv'
<1>1. /\ call[p] \in CallRecords /\ InOrder("raw", call[p]) /\ pc[p] = "raw"
      /\ call[p].at \in Locations /\ Quiet
      /\ Len(disk) \in Nat /\ \A l \in Locations : files[l] # Nil => files[l] \in 1..Len(disk)
  BY CallFacts, OnlyFailures DEF OpenRaw, InOrder, Placed, Failing, CallsItCorrupt
<1>2. CASE /\ Here(p) # Nil /\ (disk[Here(p)] = Empty \/ disk[Here(p)].health # "physical")
           /\ Goto(p, "migration") /\ call' = [call EXCEPT ![p].file = Here(p)]
  <2> DEFINE c == [call[p] EXCEPT !.file = Here(p)]
  <2>1. /\ c \in CallRecords /\ c.at = call[p].at /\ c.to = call[p].to
        /\ c.dir = call[p].dir /\ c.op = call[p].op /\ c.then = call[p].then
        /\ c.file = Here(p)
    BY <1>1, <1>2 DEF CallRecords, Here
  <2>2. pc' = [pc EXCEPT ![p] = "migration"] /\ call' = [call EXCEPT ![p] = c]
    BY <1>2 DEF Goto
  <2> HIDE DEF c
  <2>3. Suspects("migration", c)
    BY DEF Suspects
  <2> QED
    BY <1>1, <1>2, <2>1, <2>2, <2>3, InspectionStep DEF Inspections, Here
<1>3. CASE /\ ~(Here(p) # Nil /\ (disk[Here(p)] = Empty \/ disk[Here(p)].health # "physical"))
           /\ Goto(p, "mark") /\ UNCHANGED call
  <2>1. pc' = [pc EXCEPT ![p] = "mark"] /\ call' = [call EXCEPT ![p] = call[p]]
    BY <1>3 DEF Goto, IInv, CallsInOrder
  <2>2. Trouble
    <3>1. CASE Here(p) = Nil
      BY <1>1, <3>1 DEF InOrder, Suspects, Here
    <3>2. CASE Here(p) # Nil
      <4>1. Damaged(Here(p)) /\ Here(p) \in 1..Len(disk)
        BY <1>1, <1>3, <3>2 DEF Damaged, Here
      <4> QED
        BY <4>1 DEF Trouble
    <3> QED
      BY <3>1, <3>2
  <2>3. Suspects("mark", call[p])
    BY <2>2 DEF Suspects, Suspected
  <2> QED
    BY <1>1, <2>1, <2>3, InspectionStep DEF Inspections
<1>4. CASE CallsItCorrupt(p)
  BY <1>1, <1>4, CallsItCorruptStep DEF Inspections, OpenRaw
<1> QED
  BY <1>2, <1>3, <1>4 DEF OpenRaw

LEMMA InspectMigrationStep ==
  ASSUME IInv, NEW p \in Procs, InspectMigration(p)
  PROVE  IInv'
<1>1. /\ call[p] \in CallRecords /\ InOrder("migration", call[p]) /\ pc[p] = "migration"
      /\ call[p].at \in Locations /\ Quiet
  BY CallFacts, OnlyFailures
     DEF InspectMigration, InOrder, Placed, Failing, CallsItCorrupt
<1>2. CASE \E state \in {"missing", "unrecognized", "scope_conflict", "quarantined",
                         "unavailable"} :
             Reported(p, state)
  BY <1>1, <1>2, ReportedStep DEF Inspections
<1>3. CASE /\ Goto(p, "snapshot") /\ UNCHANGED call
           /\ Here(p) # Nil /\ disk[Here(p)] # Empty
  <2>1. pc' = [pc EXCEPT ![p] = "snapshot"] /\ call' = [call EXCEPT ![p] = call[p]]
    BY <1>3 DEF Goto, IInv, CallsInOrder
  <2>2. /\ call[p].file # Nil /\ call[p].file \in 1..Len(disk)
        /\ Here(p) = call[p].file \/ Gone(call[p].file)
    BY <1>1 DEF InOrder, Handles, Connected, Here
  <2>3. Suspects("snapshot", call[p])
    BY <1>3, <2>2 DEF Suspects, Trouble
  <2> QED
    BY <1>1, <2>1, <2>2, <2>3, InspectionStep DEF Inspections
<1>4. CASE CallsItCorrupt(p)
  BY <1>1, <1>4, CallsItCorruptStep DEF Inspections, InspectMigration
<1> QED
  BY <1>2, <1>3, <1>4 DEF InspectMigration, FindsMigration

LEMMA DiagnoseStep ==
  ASSUME IInv, NEW p \in Procs, Diagnose(p)
  PROVE  IInv'
<1> DEFINE healthy == /\ Handle(p) # Empty
                      /\ Handle(p).health = "sound"
                      /\ Collectable(Handle(p).image)
<1>1. /\ call[p] \in CallRecords /\ InOrder("snapshot", call[p]) /\ pc[p] = "snapshot"
      /\ call[p].at \in Locations /\ Quiet
      /\ \A n \in 1..Len(disk) : disk[n] # Empty => Kept(disk[n].image)
  BY CallFacts, OnlyFailures DEF Diagnose, InOrder, Placed, Failing, CallsItCorrupt
<1>2. CASE healthy /\ Reported(p, "healthy")
  BY <1>1, <1>2, ReportedStep DEF Inspections
<1>3. CASE ~healthy /\ Goto(p, "mark") /\ UNCHANGED call
  <2>1. pc' = [pc EXCEPT ![p] = "mark"] /\ call' = [call EXCEPT ![p] = call[p]]
    BY <1>3 DEF Goto, IInv, CallsInOrder
  <2>2. call[p].file \in 1..Len(disk) /\ (Handle(p) # Empty \/ Trouble)
    BY <1>1 DEF InOrder, Handles, Suspects, Connected, Handle
  <2>3. Trouble
    <3> SUFFICES ASSUME Handle(p) # Empty PROVE Trouble
      BY <2>2
    <3>1. Collectable(Handle(p).image)
      BY <1>1, <2>2, CollectedGenuine DEF Handle
    <3>2. Damaged(call[p].file)
      BY <1>3, <3>1 DEF Damaged, Handle
    <3> QED
      BY <2>2, <3>2 DEF Trouble
  <2>4. Suspects("mark", call[p])
    BY <2>3 DEF Suspects, Suspected
  <2> QED
    BY <1>1, <2>1, <2>4, InspectionStep DEF Inspections
<1>4. CASE CallsItCorrupt(p)
  BY <1>1, <1>4, CallsItCorruptStep DEF Inspections, Diagnose
<1> QED
  BY <1>2, <1>3, <1>4 DEF Diagnose

LEMMA MarkStep ==
  ASSUME IInv, NEW p \in Procs, Mark(p)
  PROVE  IInv'
<1>1. /\ pc[p] = "mark" /\ InOrder("mark", call[p]) /\ call[p].at \in Locations /\ MarksInOrder
  BY CallFacts DEF Mark, InOrder, Placed
<1>2. /\ UNCHANGED <<files, disk, artifacts, failed>>
      /\ marked' = [marked EXCEPT ![call[p].at] = TRUE]
      /\ Reported(p, "quarantined")
  BY DEF Mark
<1>3. /\ \A l \in Locations : Suspected(l) => Suspected(l)'
      /\ Suspected(call[p].at)
  BY <1>1, <1>2 DEF InOrder, Suspects, Suspected, Trouble, Damaged, Gone
<1>4. Quiet
  BY <1>1, <1>2, <1>3 DEF Quiet, MarksInOrder
<1> QED
  BY <1>1, <1>2, <1>4, ReportedStep DEF Inspections

(***************************************************************************)
(* Changes of the world.                                                   *)
(***************************************************************************)
\* The files or a marker change, and nobody's call does.
LEMMA WorldOnly ==
  ASSUME IInv, WorldInOrder', Onward, UNCHANGED <<pc, call>>,
         \A q \in Procs : Untouched(pc[q], call[q])
  PROVE  IInv'
<1>1. \A q \in Procs : InOrder(pc[q], call[q])'
  BY OtherCall
<1> QED
  BY <1>1 DEF IInv, CallsInOrder, Apart, Owning

\* A new file is linked where there is none.
Allocates(l, content) ==
  /\ files[l] = Nil
  /\ CanAllocate
  /\ files' = [files EXCEPT ![l] = NewFile]
  /\ disk' = Append(disk, content)
  /\ UNCHANGED <<marked, artifacts, failed>>

LEMMA AllocatesWorld ==
  ASSUME IInv, NEW l \in Locations,
         NEW content \in Contents, content # Empty => Kept(content.image),
         Allocates(l, content)
  PROVE  /\ WorldInOrder' /\ Onward
         /\ NewFile \in Nat /\ NewFile \in 1..Len(disk')
         /\ disk'[NewFile] = content /\ files'[l] = NewFile
         /\ \A q \in Procs : Untouched(pc[q], call[q])
<1>1. /\ FilesInOrder /\ DiskInOrder /\ MarksInOrder /\ ArtifactsInOrder
      /\ Len(disk) \in Nat /\ Nil \notin Nat /\ MaxFiles \in Nat
      /\ \A k \in Locations : files[k] # Nil => files[k] \in 1..Len(disk)
  BY FileNumbers, FilesAssumption DEF IInv, WorldInOrder
<1>2. /\ Len(disk') = Len(disk) + 1 /\ disk'[NewFile] = content
      /\ NewFile \in 1..Len(disk') /\ NewFile \notin 1..Len(disk)
      /\ \A n \in 1..Len(disk) : disk'[n] = disk[n]
      /\ \A n \in 1..Len(disk') : n \in 1..Len(disk) \/ n = NewFile
      /\ disk' \in Seq(Contents) /\ Len(disk') <= MaxFiles
  BY <1>1 DEF Allocates, DiskInOrder, NewFile, CanAllocate
<1>3. /\ files'[l] = NewFile
      /\ \A k \in Locations \ {l} : files'[k] = files[k]
      /\ files' \in [Locations -> 1..Len(disk') \cup {Nil}]
  <2>1. files' = [files EXCEPT ![l] = NewFile]
    BY DEF Allocates
  <2> QED
    BY <1>1, <1>2, <2>1 DEF FilesInOrder
<1>4. FilesInOrder'
  BY <1>1, <1>2, <1>3 DEF FilesInOrder
<1>5. DiskInOrder'
  BY <1>1, <1>2 DEF DiskInOrder
<1>6. Onward
  BY <1>1, <1>2, <1>3 DEF Onward, Later, Grown, Allocates
<1>7. MarksInOrder'
  BY <1>1, <1>5, <1>6, OnwardSuspected DEF MarksInOrder, Onward, Allocates
<1>8. ArtifactsInOrder'
  BY <1>1 DEF ArtifactsInOrder, Allocates
<1>9. ASSUME NEW q \in Procs
      PROVE  Untouched(pc[q], call[q])
  <2>1. InOrder(pc[q], call[q])
    BY CallFacts
  <2>2. Owning(pc[q], call[q]) => call[q].at # l /\ call[q].at \in Locations
    BY <2>1 DEF InOrder, Owns, Allocates
  <2> QED
    BY <1>3, <2>1, <2>2 DEF Untouched, InOrder, Stores, Allocates
<1> QED
  BY <1>1, <1>2, <1>3, <1>4, <1>5, <1>6, <1>7, <1>8, <1>9 DEF WorldInOrder, NewFile

\* A file's content becomes a later one.
Rewrites(n, content) ==
  /\ disk' = [disk EXCEPT ![n] = content]
  /\ UNCHANGED <<files, marked, artifacts>>
  /\ Failing

LEMMA RewritesWorld ==
  ASSUME IInv, NEW n \in 1..Len(disk),
         NEW content \in Databases, Kept(content.image), Later(disk[n], content),
         Rewrites(n, content)
  PROVE  /\ WorldInOrder' /\ Onward
         /\ Len(disk') = Len(disk) /\ disk'[n] = content /\ content # Empty
         /\ \A q \in Procs : Untouched(pc[q], call[q])
<1>1. /\ FilesInOrder /\ DiskInOrder /\ MarksInOrder /\ ArtifactsInOrder
      /\ Len(disk) \in Nat /\ content \in Contents /\ content # Empty
  BY FileNumbers, FilesAssumption DEF IInv, WorldInOrder, Contents
<1>2. /\ Len(disk') = Len(disk) /\ disk'[n] = content /\ disk' \in Seq(Contents)
      /\ \A m \in 1..Len(disk) : m # n => disk'[m] = disk[m]
  BY <1>1 DEF Rewrites, DiskInOrder
<1>3. DiskInOrder'
  BY <1>1, <1>2 DEF DiskInOrder
<1>4. Onward /\ failed' \subseteq Locations
  <2>1. failed \subseteq failed' /\ failed' \subseteq Locations
    BY <1>1, FailuresStay DEF MarksInOrder, Rewrites
  <2> QED
    BY <1>1, <1>2, <2>1 DEF Onward, Later, Grown, Rewrites
<1>5. FilesInOrder'
  BY <1>1, <1>2 DEF FilesInOrder, Rewrites
<1>6. MarksInOrder'
  BY <1>1, <1>3, <1>4, OnwardSuspected DEF MarksInOrder, Rewrites
<1>7. ArtifactsInOrder'
  BY <1>1 DEF ArtifactsInOrder, Rewrites
<1>8. ASSUME NEW q \in Procs
      PROVE  Untouched(pc[q], call[q])
  <2>1. InOrder(pc[q], call[q])
    BY CallFacts
  <2> QED
    BY <2>1 DEF Untouched, InOrder, Stores, Rewrites
<1> QED
  BY <1>1, <1>2, <1>3, <1>4, <1>5, <1>6, <1>7, <1>8 DEF WorldInOrder

\* An artifact's directory changes, or comes, or goes.
OrderlyArtifact(a) ==
  a # Nil =>
    /\ a \in Artifacts
    /\ a.payload # Nil => a.payload.state \in Genuine
    /\ a.manifest # Nil => a.manifest.state \in Genuine
    /\ a.receipt => a.manifest # Nil /\ a.payload # Nil

Replaces(dir, a) ==
  /\ artifacts' = [artifacts EXCEPT ![dir] = a]
  /\ UNCHANGED <<files, disk, marked, failed>>

LEMMA ReplacesWorld ==
  ASSUME IInv, NEW dir \in Directories, NEW a, OrderlyArtifact(a), Replaces(dir, a)
  PROVE  /\ WorldInOrder' /\ Onward
         /\ artifacts'[dir] = a
         /\ \A q \in Procs :
              \/ pc[q] \notin Storing
              \/ call[q].dir # dir
              \/ a # Nil /\ (artifacts[dir].payload # Nil => a.payload # Nil)
              => Untouched(pc[q], call[q])
<1>1. /\ FilesInOrder /\ DiskInOrder /\ MarksInOrder /\ ArtifactsInOrder /\ Len(disk) \in Nat
  BY FileNumbers DEF IInv, WorldInOrder
<1>2. /\ artifacts'[dir] = a
      /\ \A x \in Directories : x # dir => artifacts'[x] = artifacts[x]
      /\ artifacts' \in [Directories -> Artifacts \cup {Nil}]
  BY <1>1 DEF ArtifactsInOrder, Replaces, OrderlyArtifact
<1>3. ArtifactsInOrder'
  BY <1>1, <1>2 DEF ArtifactsInOrder, OrderlyArtifact
<1>4. Onward
  BY <1>1 DEF Onward, Later, Grown, Replaces
<1>5. FilesInOrder' /\ DiskInOrder'
  BY <1>1 DEF FilesInOrder, DiskInOrder, Replaces
<1>6. MarksInOrder'
  BY <1>1, <1>4, <1>5, OnwardSuspected DEF MarksInOrder, Onward, Replaces
<1>7. ASSUME NEW q \in Procs,
             \/ pc[q] \notin Storing
             \/ call[q].dir # dir
             \/ a # Nil /\ (artifacts[dir].payload # Nil => a.payload # Nil)
      PROVE  Untouched(pc[q], call[q])
  <2>1. InOrder(pc[q], call[q])
    BY CallFacts
  <2> QED
    BY <1>2, <1>7, <2>1 DEF Untouched, InOrder, Stores, Replaces
<1> QED
  BY <1>2, <1>3, <1>4, <1>5, <1>6, <1>7 DEF WorldInOrder

(***************************************************************************)
(* Opening, writing and closing.                                           *)
(***************************************************************************)
\* A call goes on to a plain step as it is.
LEMMA PlainAgain ==
  ASSUME IInv, Quiet, NEW p \in Procs, NEW step \in Plain, NEW c \in CallRecords,
         c.at = call[p].at, c.file = call[p].file, c.then = call[p].then,
         pc[p] # "idle", pc[p] \notin Installed,
         Placed(step, c),
         pc' = [pc EXCEPT ![p] = step], call' = [call EXCEPT ![p] = c]
  PROVE  IInv'
<1>1. InOrder(pc[p], call[p])
  BY CallFacts
<1>2. /\ step \notin Installed /\ step \notin Connected /\ step \notin Holding
      /\ step \notin Storing /\ step \notin Serving
      /\ step \notin {"seal", "remove", "recovered", "raw", "mark", "snapshot"}
  BY DEF Plain, Installed, Connected, Holding, Storing, Serving
<1>3. step \in Steps
  BY DEF Steps
<1>4. Owning(step, c) => Owning(pc[p], call[p])
  BY <1>2 DEF Owning
<1>5. Handles(step, c) /\ Stores(step, c) /\ Owns(step, c) /\ Suspects(step, c)
  BY <1>1, <1>2, <1>4 DEF InOrder, Handles, Stores, Owns, Suspects
<1> QED
  BY <1>2, <1>3, <1>4, <1>5, LocalStep DEF InOrder

LEMMA OpenStep ==
  ASSUME IInv, NEW p \in Procs, Open(p)
  PROVE  IInv'
<1>1. PICK l \in Locations : ~marked[l] /\ OpenAt(p, Calling("client", l))
  BY DEF Open
<1> DEFINE c == [Calling("client", l) EXCEPT !.existed = files[l] # Nil]
<1>2. /\ c \in CallRecords /\ c.at = l /\ c.op = "client" /\ c.file = Nil /\ c.then = "end"
      /\ Calling("client", l).at = l
  <2>1. "client" \in Ops
    BY DEF Ops
  <2>2. PICK b \in CallRecords : b = Calling("client", l)
    BY <2>1, CallingType
  <2>3. b.at = l /\ b.op = "client" /\ b.file = Nil /\ b.then = "end"
    BY <2>1, <2>2, CallingType
  <2>4. /\ [b EXCEPT !.existed = files[l] # Nil] \in CallRecords
        /\ [b EXCEPT !.existed = files[l] # Nil].at = b.at
        /\ [b EXCEPT !.existed = files[l] # Nil].op = b.op
        /\ [b EXCEPT !.existed = files[l] # Nil].file = b.file
        /\ [b EXCEPT !.existed = files[l] # Nil].then = b.then
    BY DEF CallRecords
  <2> QED
    BY <2>2, <2>3, <2>4
<1>3. Quiet
  BY <1>1, NothingHappens DEF OpenAt
<1>4. pc' = [pc EXCEPT ![p] = "connect"] /\ call' = [call EXCEPT ![p] = c]
  BY <1>1, <1>2 DEF OpenAt, Goto
<1> HIDE DEF c
<1>5. Placed("connect", c)
  BY <1>2 DEF Placed, Serving, Storing, Inspections
<1> QED
  BY <1>2, <1>3, <1>4, <1>5, PlainStep DEF Plain

LEMMA CreateOrOpenStep ==
  ASSUME IInv, NEW p \in Procs, CreateOrOpen(p)
  PROVE  IInv'
<1>1. /\ pc[p] = "create-or-open" /\ OpenAt(p, call[p])
      /\ call[p] \in CallRecords /\ InOrder("create-or-open", call[p]) /\ Quiet
  BY CallFacts, NothingHappens DEF CreateOrOpen, OpenAt
<1>2. CASE marked[call[p].at]
  BY <1>1, <1>2, ReturnStep DEF OpenAt
<1>3. CASE ~marked[call[p].at]
  <2> DEFINE c == [call[p] EXCEPT !.existed = files[call[p].at] # Nil]
  <2>1. /\ c \in CallRecords /\ c.at = call[p].at /\ c.op = call[p].op
        /\ c.file = call[p].file /\ c.then = call[p].then
        /\ c.to = call[p].to /\ c.dir = call[p].dir
    BY <1>1 DEF CallRecords
  <2>2. pc' = [pc EXCEPT ![p] = "connect"] /\ call' = [call EXCEPT ![p] = c]
    BY <1>1, <1>3 DEF OpenAt, Goto
  <2> HIDE DEF c
  <2>3. Placed("connect", c)
    BY <1>1, <2>1 DEF InOrder, Placed, Serving, Storing, Inspections
  <2> QED
    BY <1>1, <2>1, <2>2, <2>3, PlainAgain DEF Plain, Installed
<1> QED
  BY <1>2, <1>3

LEMMA CreateStep ==
  ASSUME IInv, NEW p \in Procs, Create(p)
  PROVE  IInv'
<1>1. /\ pc[p] = "create" /\ call[p] \in CallRecords /\ InOrder("create", call[p]) /\ Quiet
      /\ call[p].at \in Locations
  BY CallFacts, NothingHappens DEF Create, InOrder, Placed
<1>2. CASE Here(p) # Nil
  BY <1>1, <1>2, InspectingStep DEF Create, Purposes
<1>3. CASE Here(p) = Nil
  <2>1. pc' = [pc EXCEPT ![p] = "create-or-open"] /\ call' = [call EXCEPT ![p] = call[p]]
    BY <1>3 DEF Create, Goto, IInv, CallsInOrder
  <2>2. Placed("create-or-open", call[p])
    BY <1>1 DEF InOrder, Placed, Serving, Storing, Inspections
  <2> QED
    BY <1>1, <2>1, <2>2, PlainAgain DEF Plain, Installed
<1> QED
  BY <1>2, <1>3

LEMMA ConnectStep ==
  ASSUME IInv, NEW p \in Procs, Connect(p)
  PROVE  IInv'
<1>1. /\ pc[p] = "connect" /\ call[p] \in CallRecords /\ InOrder("connect", call[p])
      /\ call[p].at \in Locations /\ Len(disk) \in Nat /\ Nil \notin Nat
      /\ \A l \in Locations : files[l] # Nil => files[l] \in 1..Len(disk)
  BY CallFacts DEF Connect, InOrder, Placed
<1>2. ASSUME NEW n \in Nat, NEW c, c = [call[p] EXCEPT !.file = n]
      PROVE  /\ c \in CallRecords /\ c.at = call[p].at /\ c.op = call[p].op
             /\ c.file = n /\ c.then = call[p].then /\ c.to = call[p].to
             /\ c.dir = call[p].dir
             /\ Placed("probe", c)
  <2>1. /\ c \in CallRecords /\ c.at = call[p].at /\ c.op = call[p].op
        /\ c.file = n /\ c.then = call[p].then /\ c.to = call[p].to
        /\ c.dir = call[p].dir
    BY <1>1, <1>2 DEF CallRecords
  <2> QED
    BY <1>1, <2>1 DEF InOrder, Placed, Serving, Storing, Inspections
<1>3. /\ "probe" \in Steps /\ "probe" \notin Storing /\ "probe" \notin Holding
      /\ "probe" \notin Installed /\ "probe" \notin Serving
  BY DEF Steps, Storing, Holding, Installed, Serving, Connected
<1>4. CASE Here(p) # Nil
  <2> DEFINE c == [call[p] EXCEPT !.file = Here(p)]
  <2>1. Here(p) \in 1..Len(disk) /\ Here(p) = files[call[p].at]
    BY <1>1, <1>4 DEF Here
  <2>2. /\ c \in CallRecords /\ c.at = call[p].at /\ c.file = Here(p)
        /\ c.then = call[p].then /\ Placed("probe", c)
    BY <1>1, <1>2, <2>1
  <2>3. pc' = [pc EXCEPT ![p] = "probe"] /\ call' = [call EXCEPT ![p] = c]
    BY <1>4 DEF Connect, Goto
  <2> HIDE DEF c
  <2>4. Owning("probe", c) => Owning(pc[p], call[p])
    BY <1>3, <2>2 DEF Owning
  <2>5. InOrder("probe", c)
    BY <1>1, <1>3, <2>1, <2>2, <2>4 DEF InOrder, Handles, Stores, Owns, Suspects, Owning
  <2>6. Quiet
    BY <1>4, NothingHappens DEF Connect
  <2> QED
    BY <1>3, <2>2, <2>3, <2>4, <2>5, <2>6, LocalStep
<1>5. CASE Here(p) = Nil
  <2>1. Allocates(call[p].at, Empty) /\ Empty \in Contents
    BY <1>1, <1>5 DEF Connect, Allocates, Here, Contents
  <2>2. /\ WorldInOrder' /\ Onward
        /\ NewFile \in Nat /\ NewFile \in 1..Len(disk')
        /\ files'[call[p].at] = NewFile
        /\ \A q \in Procs : Untouched(pc[q], call[q])
    BY <1>1, <2>1, AllocatesWorld
  <2>3. PICK c \in CallRecords :
          /\ c = [call[p] EXCEPT !.file = NewFile]
          /\ c.at = call[p].at /\ c.file = NewFile
          /\ c.then = call[p].then /\ Placed("probe", c)
    BY <1>2, <2>2
  <2>4. pc' = [pc EXCEPT ![p] = "probe"] /\ call' = [call EXCEPT ![p] = c]
    BY <1>5, <2>3 DEF Connect, Goto
  <2>5. ~Owning("probe", c)
    BY <1>1, <1>3, <1>5, <2>3 DEF InOrder, Owns, Owning, Here
  <2>6. InOrder("probe", c)'
    <3>1. Placed("probe", c)'
      BY <2>3 DEF Placed
    <3>2. Handles("probe", c)'
      BY <1>1, <1>3, <2>2, <2>3 DEF Handles
    <3>3. Stores("probe", c)'
      BY <1>3 DEF Stores
    <3>4. Owns("probe", c)'
      BY <1>3, <2>5 DEF Owns
    <3>5. Suspects("probe", c)'
      BY DEF Suspects
    <3> QED
      BY <3>1, <3>2, <3>3, <3>4, <3>5 DEF InOrder
  <2>7. \A q \in Procs \ {p} : /\ Untouched(pc[q], call[q])
                                /\ Apart(pc[q], call[q], "probe", c)
    BY <1>3, <2>2, <2>5 DEF Apart
  <2> QED
    BY <1>3, <2>2, <2>3, <2>4, <2>6, <2>7, WorldStep
<1> QED
  BY <1>4, <1>5

\* An open succeeds: the handle is on a database.
LEMMA OpenedStep ==
  ASSUME IInv, WorldInOrder', Onward, NEW p \in Procs, pc[p] = "probe",
         disk'[call[p].file] # Empty,
         \A q \in Procs : Untouched(pc[q], call[q]),
         Opened(p)
  PROVE  IInv'
<1>1. /\ call[p] \in CallRecords /\ InOrder("probe", call[p])
      /\ FilesInOrder /\ DiskInOrder /\ FilesInOrder' /\ DiskInOrder'
      /\ Untouched("probe", call[p])
  BY CallFacts DEF IInv, WorldInOrder
<1>2. PICK b \in CallRecords : b = call[p]
  BY <1>1
<1>3. InOrder("probe", b)'
  BY <1>1, <1>2, OnwardCall
<1>4. PICK c \in CallRecords :
        /\ c = [b EXCEPT !.existed = FALSE]
        /\ c.at = b.at /\ c.op = b.op /\ c.file = b.file /\ c.then = b.then
        /\ c.to = b.to /\ c.dir = b.dir
  <2>1. /\ [b EXCEPT !.existed = FALSE] \in CallRecords
        /\ [b EXCEPT !.existed = FALSE].at = b.at
        /\ [b EXCEPT !.existed = FALSE].op = b.op
        /\ [b EXCEPT !.existed = FALSE].file = b.file
        /\ [b EXCEPT !.existed = FALSE].then = b.then
        /\ [b EXCEPT !.existed = FALSE].to = b.to
        /\ [b EXCEPT !.existed = FALSE].dir = b.dir
    BY DEF CallRecords
  <2> QED
    BY <2>1
<1>5. PICK step \in {"created", "open"} :
        /\ step = IF b.op = "init" THEN "created" ELSE "open"
        /\ pc' = [pc EXCEPT ![p] = step]
  BY <1>2 DEF Opened, Goto
<1>6. /\ step \in Steps /\ step \notin Storing /\ step \notin Holding /\ step \notin Installed
      /\ step \in Serving => step = "open"
      /\ step \in Connected => step = "open"
      /\ step \notin {"seal", "remove", "recovered", "raw", "mark", "snapshot"}
      /\ "probe" \in Connected /\ "probe" \notin Installed /\ step \notin Inspections
  BY DEF Inspections, Steps, Storing, Holding, Installed, Serving, Connected
<1>7. call' = [call EXCEPT ![p] = c]
  BY <1>2, <1>4 DEF Opened
<1>8. Owning(step, c) => Owning("probe", b)
  BY <1>4, <1>6 DEF Owning
<1>9. InOrder(step, c)'
  <2>1. Placed(step, c)'
    BY <1>3, <1>4, <1>5, <1>6 DEF InOrder, Placed
  <2>2. Handles(step, c)'
    BY <1>2, <1>3, <1>4, <1>6 DEF InOrder, Handles
  <2>3. Stores(step, c)'
    BY <1>6 DEF Stores
  <2>4. Owns(step, c)'
    BY <1>3, <1>4, <1>6, <1>8 DEF InOrder, Owns, Owning
  <2>5. Suspects(step, c)'
    BY <1>6 DEF Suspects
  <2> QED
    BY <2>1, <2>2, <2>3, <2>4, <2>5 DEF InOrder
<1>10. ASSUME NEW q \in Procs \ {p}
       PROVE  Untouched(pc[q], call[q]) /\ Apart(pc[q], call[q], step, c)
  <2>1. Apart(pc[q], call[q], pc[p], call[p])
    BY DEF IInv, CallsInOrder
  <2> QED
    BY <1>2, <1>4, <1>6, <1>8, <2>1 DEF Apart
<1> QED
  BY <1>5, <1>6, <1>7, <1>9, <1>10, WorldStep

LEMMA ProbeStep ==
  ASSUME IInv, NEW p \in Procs, Probe(p)
  PROVE  IInv'
<1>1. /\ pc[p] = "probe" /\ call[p] \in CallRecords /\ InOrder("probe", call[p])
      /\ call[p].at \in Locations /\ call[p].file \in 1..Len(disk)
      /\ UNCHANGED <<files, marked, artifacts>>
  BY CallFacts DEF Probe, InOrder, Placed, Handles, Connected
<1>2. ASSUME UNCHANGED disk, Failing
      PROVE  /\ Quiet /\ WorldInOrder' /\ Onward
             /\ \A q \in Procs : Untouched(pc[q], call[q])
  BY <1>1, <1>2, OnlyFailures, QuietWorld
<1>3. ASSUME Bootstrap(p), Failing
      PROVE  /\ WorldInOrder' /\ Onward /\ disk'[call[p].file] # Empty
             /\ \A q \in Procs : Untouched(pc[q], call[q])
  <2> DEFINE content == NewDatabase(BindingOf(call[p].at))
  <2>1. content \in Databases /\ Kept(content.image)
    <3>1. Kept(EmptyImage(BaseSchema))
      BY EmptyKept, FilesAssumption DEF AcceptableCalls
    <3>2. EmptyImage(BaseSchema) \in Images
      BY <3>1 DEF Kept
    <3> QED
      BY <1>1, <3>1, <3>2 DEF NewDatabase, Databases, Bindings, Healths
  <2>2. Later(disk[call[p].file], content)
    BY <1>3 DEF Later, Bootstrap, Handle
  <2>3. Rewrites(call[p].file, content)
    BY <1>1, <1>3 DEF Rewrites, Bootstrap
  <2> HIDE DEF content
  <2> QED
    BY <1>1, <2>1, <2>2, <2>3, RewritesWorld
<1>4. CASE /\ Handle(p) # Empty
           /\ Handle(p).health = "physical"
           /\ Goto(p, "mark")
           /\ call' = [call EXCEPT ![p].then = "end"]
           /\ UNCHANGED <<disk, failed>>
  <2> DEFINE c == [call[p] EXCEPT !.then = "end"]
  <2>1. /\ c \in CallRecords /\ c.at = call[p].at /\ c.file = call[p].file /\ c.then = "end"
    BY <1>1 DEF CallRecords, Purposes
  <2>2. pc' = [pc EXCEPT ![p] = "mark"] /\ call' = [call EXCEPT ![p] = c]
    BY <1>4 DEF Goto
  <2> HIDE DEF c
  <2>3. /\ "mark" \in Steps /\ "mark" \notin Storing /\ "mark" \notin Holding
        /\ "mark" \notin Installed /\ "mark" \notin Serving /\ "mark" \notin Connected
    BY DEF Steps, Storing, Holding, Installed, Serving, Connected
  <2>4. Trouble
    BY <1>1, <1>4 DEF Trouble, Damaged, Handle
  <2>5. ~Owning("mark", c)
    BY <2>1, <2>3 DEF Owning
  <2>6. Placed("mark", c) /\ Handles("mark", c)
    BY <1>1, <2>1, <2>3 DEF InOrder, Placed, Handles, Inspections
  <2>7. InOrder("mark", c)
    BY <2>3, <2>4, <2>5, <2>6 DEF InOrder, Stores, Owns, Suspects, Suspected
  <2> QED
    BY <1>2, <1>4, <2>1, <2>2, <2>3, <2>5, <2>7, LocalStep DEF Failing
<1>5. CASE /\ (Handle(p) # Empty /\ UNCHANGED disk) \/ Bootstrap(p)
           /\ Fails(p) /\ Goto(p, "mark")
           /\ call' = [call EXCEPT ![p].then = "end"]
  <2>1. /\ WorldInOrder' /\ Onward
        /\ \A q \in Procs : Untouched(pc[q], call[q])
    BY <1>2, <1>3, <1>5 DEF Failing
  <2>2. call[p].at \in failed' /\ pc' = [pc EXCEPT ![p] = "mark"]
    BY <1>5 DEF Fails, Goto
  <2> QED
    BY <1>1, <1>5, <2>1, <2>2, CorruptStep
<1>6. CASE Bootstrap(p) /\ Opened(p) /\ UNCHANGED failed
  BY <1>1, <1>3, <1>6, OpenedStep DEF Failing
<1>7. CASE Handle(p) # Empty /\ Opened(p) /\ UNCHANGED <<disk, failed>>
  BY <1>1, <1>2, <1>7, OpenedStep DEF Handle, Failing
<1>8. CASE Return(p) /\ UNCHANGED <<disk, failed>>
  BY <1>2, <1>8, ReturnStep DEF Failing
<1> QED
  BY <1>4, <1>5, <1>6, <1>7, <1>8 DEF Probe

LEMMA WriteStep ==
  ASSUME IInv, NEW p \in Procs, Write(p)
  PROVE  IInv'
<1>1. /\ pc[p] = "open" /\ InOrder("open", call[p])
      /\ UNCHANGED <<files, marked, artifacts, failed, pc, call>>
      /\ \A n \in 1..Len(disk) : disk[n] # Empty => disk[n] \in Databases /\ Kept(disk[n].image)
  BY CallFacts DEF Write
<1> DEFINE n == call[p].file
<1>2. n \in 1..Len(disk) /\ disk[n] # Empty
  BY <1>1 DEF InOrder, Handles, Serving, Connected
<1>3. PICK image \in Requested(disk[n].image, Submissions, {}) :
        disk' = [disk EXCEPT ![n].image = image]
  BY DEF Write, Handle
<1>4. PICK d \in Databases : d = disk[n] /\ Kept(d.image)
  BY <1>1, <1>2
<1>5. /\ Kept(image) /\ Extends(d.image, image)
      /\ Len(d.image.events) < Len(image.events)
  BY <1>3, <1>4, RequestedKept, FilesAssumption
<1> DEFINE content == [d EXCEPT !.image = image]
<1>6. /\ content \in Databases /\ content.image = image
      /\ content.binding = d.binding /\ content.health = d.health
  BY <1>5 DEF Databases, Kept
<1>7. Rewrites(n, content)
  BY <1>1, <1>3, <1>4 DEF Rewrites, Failing
<1> HIDE DEF content
<1>8. content # Empty
  BY <1>6, FilesAssumption
<1>9. Later(disk[n], content)
  BY <1>4, <1>5, <1>6, <1>8 DEF Later, Grown, Outgrown
<1> QED
  BY <1>1, <1>2, <1>5, <1>6, <1>7, <1>9, RewritesWorld, WorldOnly

LEMMA CloseStep ==
  ASSUME IInv, NEW p \in Procs, Close(p) \/ Crash(p) \/ Recovered(p)
  PROVE  IInv'
<1>1. Quiet /\ Return(p)
  BY NothingHappens DEF Close, Crash, Recovered
<1> QED
  BY <1>1, ReturnStep

(***************************************************************************)
(* Calls that begin with an inspection.                                    *)
(***************************************************************************)
LEMMA InspectStep ==
  ASSUME IInv, NEW p \in Procs, Inspect(p) \/ Initialise(p) \/ Recover(p) \/ Confirm(p)
  PROVE  IInv'
<1>1. Quiet
  BY NothingHappens DEF Inspect, Initialise, Recover, Confirm
<1>2. CASE Inspect(p)
  <2>1. PICK l \in Locations : Inspecting(p, Calling("inspect", l), "end")
    BY <1>2 DEF Inspect
  <2>2. "inspect" \in Ops /\ "end" \in Purposes
    BY DEF Ops, Purposes
  <2> QED
    BY <1>1, <2>1, <2>2, CallingType, InspectingStep
<1>3. CASE Initialise(p)
  <2>1. PICK l \in Locations : Inspecting(p, Calling("init", l), "create")
    BY <1>3, FilesAssumption DEF Initialise
  <2>2. "init" \in Ops /\ "create" \in Purposes
    BY DEF Ops, Purposes
  <2> QED
    BY <1>1, <2>1, <2>2, CallingType, InspectingStep
<1>4. CASE Recover(p)
  <2>1. PICK l \in Locations, to \in Locations, dir \in Directories :
          Inspecting(p, [Calling("recover", l) EXCEPT !.to = to, !.dir = dir], "restore")
    BY <1>4 DEF Recover
  <2> DEFINE c == [Calling("recover", l) EXCEPT !.to = to, !.dir = dir]
  <2>2. "recover" \in Ops /\ "restore" \in Purposes
    BY DEF Ops, Purposes
  <2>3. PICK b \in CallRecords : b = Calling("recover", l) /\ b.at = l
    BY <2>2, CallingType
  <2>4. c \in CallRecords /\ c.at = l /\ c.to = to /\ c.dir = dir
    BY <2>3 DEF CallRecords
  <2> HIDE DEF c
  <2>5. Inspecting(p, c, "restore")
    BY <2>1 DEF c
  <2> QED
    BY <1>1, <2>2, <2>4, <2>5, InspectingStep
<1>5. CASE Confirm(p)
  <2>1. /\ call[p] \in CallRecords /\ call[p].at \in Locations
        /\ Inspecting(p, call[p], "confirm")
    BY <1>5, CallFacts DEF Confirm, InOrder, Placed
  <2> QED
    BY <1>1, <2>1, InspectingStep DEF Purposes
<1> QED
  BY <1>2, <1>3, <1>4, <1>5

(***************************************************************************)
(* Restores.                                                               *)
(***************************************************************************)
LEMMA VerifyArtifactStep ==
  ASSUME IInv, NEW p \in Procs, NEW c \in CallRecords, InOrder("verify", c),
         Owning("verify", c) => Owning(pc[p], call[p]) /\ c.at = call[p].at,
         VerifyArtifact(p, c)
  PROVE  IInv'
<1>1. Quiet /\ c.at \in Locations /\ c.dir \in Directories
  BY NothingHappens DEF VerifyArtifact, InOrder, Placed
<1>2. CASE ~Verifies(artifacts[c.dir], BindingOf(c.at))
  BY <1>1, <1>2, ReturnStep DEF VerifyArtifact
<1>3. CASE Verifies(artifacts[c.dir], BindingOf(c.at))
  <2> DEFINE s == artifacts[c.dir].manifest.state
             b == [c EXCEPT !.held = s]
  <2>1. s \in Genuine
    BY <1>1, <1>3, CallFacts DEF Verifies, Sealed, ArtifactsInOrder
  <2>2. /\ b \in CallRecords /\ b.at = c.at /\ b.to = c.to /\ b.dir = c.dir
        /\ b.op = c.op /\ b.file = c.file /\ b.then = c.then /\ b.held = s
    BY <2>1 DEF CallRecords
  <2>3. pc' = [pc EXCEPT ![p] = "stage"] /\ call' = [call EXCEPT ![p] = b]
    BY <1>3 DEF VerifyArtifact, Goto
  <2> HIDE DEF b, s
  <2>4. /\ "stage" \in Steps /\ "stage" \notin Storing /\ "stage" \notin Serving
        /\ "stage" \notin Installed /\ "stage" \notin Connected
        /\ "verify" \notin Installed
    BY DEF Steps, Storing, Serving, Installed, Connected, Holding
  <2>5. Owning("stage", b) => Owning("verify", c)
    BY <2>2, <2>4 DEF Owning
  <2>6. InOrder("stage", b)
    <3>1. Placed("stage", b)
      BY <1>1, <2>2, <2>4 DEF InOrder, Placed, Inspections
    <3>2. Handles("stage", b)
      BY <2>2, <2>4 DEF InOrder, Handles
    <3>3. Stores("stage", b)
      BY <2>1, <2>2, <2>4 DEF Stores
    <3>4. Owns("stage", b)
      BY <2>2, <2>4, <2>5 DEF InOrder, Owns
    <3> QED
      BY <3>1, <3>2, <3>3, <3>4 DEF InOrder, Suspects
  <2> QED
    BY <1>1, <2>2, <2>3, <2>4, <2>5, <2>6, LocalStep
<1> QED
  BY <1>2, <1>3

LEMMA RestoreStep ==
  ASSUME IInv, NEW p \in Procs, Restore(p) \/ VerifyRecovery(p)
  PROVE  IInv'
<1>1. CASE Restore(p)
  <2>1. PICK l \in Locations, dir \in Directories :
          VerifyArtifact(p, [Calling("restore", l) EXCEPT !.dir = dir])
    BY <1>1 DEF Restore
  <2> DEFINE c == [Calling("restore", l) EXCEPT !.dir = dir]
  <2>2. "restore" \in Ops
    BY DEF Ops
  <2>3. PICK b \in CallRecords :
          b = Calling("restore", l) /\ b.at = l /\ b.file = Nil /\ b.then = "end"
    BY <2>2, CallingType
  <2>4. c \in CallRecords /\ c.at = l /\ c.dir = dir /\ c.file = Nil /\ c.then = "end"
    BY <2>3 DEF CallRecords
  <2> HIDE DEF c
  <2>5. VerifyArtifact(p, c)
    BY <2>1 DEF c
  <2>6. Placed("verify", c) /\ "verify" \in Plain
    BY <2>4 DEF Placed, Serving, Storing, Plain
  <2> QED
    BY <2>4, <2>5, <2>6, PlainInOrder, VerifyArtifactStep
<1>2. CASE VerifyRecovery(p)
  <2>1. pc[p] = "verify" /\ VerifyArtifact(p, call[p])
    BY <1>2 DEF VerifyRecovery
  <2>2. call[p] \in CallRecords /\ InOrder("verify", call[p])
    BY <2>1, CallFacts
  <2> QED
    BY <2>1, <2>2, VerifyArtifactStep
<1> QED
  BY <1>1, <1>2

LEMMA StageStep ==
  ASSUME IInv, NEW p \in Procs, Stage(p)
  PROVE  IInv'
<1>1. /\ pc[p] = "stage" /\ call[p] \in CallRecords /\ InOrder("stage", call[p]) /\ Quiet
  BY CallFacts, NothingHappens DEF Stage
<1>2. CASE ~(Here(p) = Nil /\ Stages(p))
  BY <1>1, <1>2, ReturnStep DEF Stage
<1>3. CASE Here(p) = Nil /\ Stages(p)
  <2> DEFINE b == [call[p] EXCEPT !.dir = Nil]
  <2>1. /\ b \in CallRecords /\ b.at = call[p].at /\ b.to = call[p].to
        /\ b.op = call[p].op /\ b.file = call[p].file /\ b.then = call[p].then
        /\ b.held = call[p].held
    BY <1>1 DEF CallRecords
  <2>2. pc' = [pc EXCEPT ![p] = "link"] /\ call' = [call EXCEPT ![p] = b]
    BY <1>3 DEF Stage, Goto
  <2> HIDE DEF b
  <2>3. /\ "link" \in Steps /\ "link" \notin Storing /\ "link" \notin Serving
        /\ "link" \notin Installed /\ "link" \notin Connected
        /\ "stage" \notin Installed /\ "stage" \in Holding
    BY DEF Steps, Storing, Serving, Installed, Connected, Holding
  <2>4. Owning("link", b) => Owning("stage", call[p])
    BY <2>1, <2>3 DEF Owning
  <2>5. InOrder("link", b)
    <3>1. Placed("link", b)
      BY <1>1, <2>1, <2>3 DEF InOrder, Placed, Inspections
    <3>2. Handles("link", b)
      BY <1>1, <2>1, <2>3 DEF InOrder, Handles
    <3>3. Stores("link", b)
      BY <1>1, <2>1, <2>3 DEF InOrder, Stores
    <3>4. Owns("link", b)
      BY <1>1, <2>1, <2>3, <2>4 DEF InOrder, Owns
    <3> QED
      BY <3>1, <3>2, <3>3, <3>4 DEF InOrder, Suspects
  <2> QED
    BY <1>1, <2>1, <2>2, <2>3, <2>4, <2>5, LocalStep
<1> QED
  BY <1>2, <1>3

LEMMA InstallStep ==
  ASSUME IInv, NEW p \in Procs, Install(p)
  PROVE  IInv'
<1>1. /\ pc[p] = "link" /\ call[p] \in CallRecords /\ InOrder("link", call[p])
      /\ call[p].at \in Locations /\ call[p].held \in Genuine
  BY CallFacts DEF Install, InOrder, Placed, Stores, Holding
<1>2. CASE Here(p) # Nil
  <2>1. Quiet /\ Return(p)
    BY <1>2, NothingHappens DEF Install
  <2> QED
    BY <2>1, ReturnStep
<1>3. CASE Here(p) = Nil
  <2> DEFINE content == StagedDatabase(p)
  <2>1. /\ content \in Databases /\ content \in Contents /\ content # Empty
        /\ Kept(content.image) /\ content.image = Materialized(call[p].held)
        /\ content.binding = BindingOf(call[p].at)
    <3>1. /\ Kept(Materialized(call[p].held)) /\ Materialized(call[p].held) \in Images
      BY <1>1, GenuineStates DEF Kept
    <3>2. content \in Databases
      BY <1>1, <3>1 DEF StagedDatabase, Databases, Bindings, Healths
    <3> QED
      BY <3>1, <3>2, FilesAssumption DEF StagedDatabase, Contents
  <2>2. Allocates(call[p].at, content)
    BY <1>3 DEF Install, Allocates, Here
  <2> HIDE DEF content
  <2>3. /\ WorldInOrder' /\ Onward
        /\ NewFile \in Nat /\ NewFile \in 1..Len(disk')
        /\ files'[call[p].at] = NewFile /\ disk'[NewFile] = content
        /\ \A q \in Procs : Untouched(pc[q], call[q])
    BY <1>1, <2>1, <2>2, AllocatesWorld
  <2>4. PICK c \in CallRecords :
          /\ c = [call[p] EXCEPT !.file = NewFile]
          /\ c.at = call[p].at /\ c.file = NewFile /\ c.held = call[p].held
          /\ c.op = call[p].op /\ c.then = call[p].then
    <3>1. /\ [call[p] EXCEPT !.file = NewFile] \in CallRecords
          /\ [call[p] EXCEPT !.file = NewFile].at = call[p].at
          /\ [call[p] EXCEPT !.file = NewFile].file = NewFile
          /\ [call[p] EXCEPT !.file = NewFile].held = call[p].held
          /\ [call[p] EXCEPT !.file = NewFile].op = call[p].op
          /\ [call[p] EXCEPT !.file = NewFile].then = call[p].then
      BY <1>1, <2>3 DEF CallRecords
    <3> QED
      BY <3>1
  <2>5. pc' = [pc EXCEPT ![p] = "reopen"] /\ call' = [call EXCEPT ![p] = c]
    BY <1>3, <2>4 DEF Install, Goto
  <2>6. /\ "reopen" \in Steps /\ "reopen" \notin Storing /\ "reopen" \notin Serving
        /\ "reopen" \in Installed /\ "reopen" \notin Inspections
    BY DEF Steps, Storing, Serving, Installed, Holding, Inspections
  <2>7. Nil \notin Nat
    BY FilesAssumption
  <2>8. InOrder("reopen", c)'
    <3>1. Placed("reopen", c)'
      BY <1>1, <2>4, <2>6 DEF InOrder, Placed
    <3>2. Handles("reopen", c)'
      BY <1>1, <2>3, <2>4, <2>6, <2>7 DEF Handles
    <3>3. Stores("reopen", c)'
      BY <1>1, <2>4, <2>6 DEF Stores
    <3>4. Owns("reopen", c)'
      BY <1>1, <2>1, <2>3, <2>4, <2>7 DEF Owns, Grown
    <3>5. Suspects("reopen", c)'
      BY DEF Suspects
    <3> QED
      BY <3>1, <3>2, <3>3, <3>4, <3>5 DEF InOrder
  <2>9. \A q \in Procs \ {p} : /\ Untouched(pc[q], call[q])
                                /\ Apart(pc[q], call[q], "reopen", c)
    <3> SUFFICES ASSUME NEW q \in Procs \ {p} PROVE Apart(pc[q], call[q], "reopen", c)
      BY <2>3
    <3>1. InOrder(pc[q], call[q])
      BY CallFacts
    <3>2. Owning(pc[q], call[q]) => call[q].at # c.at
      BY <1>3, <2>4, <3>1 DEF InOrder, Owns, Here
    <3> QED
      BY <2>6, <3>2 DEF Apart
  <2> QED
    BY <2>3, <2>4, <2>5, <2>6, <2>8, <2>9, WorldStep
<1> QED
  BY <1>2, <1>3

\* A restore whose installation is in place goes on.
LEMMA InstalledStep ==
  ASSUME IInv, Quiet, NEW p \in Procs, pc[p] \in Installed,
         NEW step \in Installed, pc' = [pc EXCEPT ![p] = step], UNCHANGED call,
         step = "remove" =>
           \/ marked[call[p].at]
           \/ Damaged(call[p].file)
           \/ Outgrown(Materialized(call[p].held), disk[call[p].file].image)
  PROVE  IInv'
<1>1. call[p] \in CallRecords /\ InOrder(pc[p], call[p])
  BY CallFacts
<1>2. call' = [call EXCEPT ![p] = call[p]]
  BY DEF IInv, CallsInOrder
<1>3. /\ step \in Steps /\ step \notin Storing /\ step \notin Serving /\ step \notin Inspections
      /\ step \notin {"idle", "verify", "stage", "connect", "probe", "create", "seal",
                      "create-or-open", "created", "recovered", "raw", "mark", "snapshot"}
      /\ step \in Holding /\ step \in Connected
      /\ pc[p] \in Holding /\ pc[p] \in Connected /\ pc[p] # "idle"
  BY DEF Installed, Steps, Storing, Serving, Inspections, Holding, Connected
<1>4. Placed(step, call[p])
  BY <1>1, <1>3 DEF InOrder, Placed
<1>5. Handles(step, call[p])
  BY <1>1, <1>3 DEF InOrder, Handles
<1>6. Stores(step, call[p])
  BY <1>1, <1>3 DEF InOrder, Stores
<1>7. Owns(step, call[p])
  BY <1>1, <1>3 DEF InOrder, Owns, Owning
<1>8. InOrder(step, call[p])
  BY <1>3, <1>4, <1>5, <1>6, <1>7 DEF InOrder, Suspects
<1> QED
  BY <1>1, <1>2, <1>3, <1>8, LocalStep DEF Owning

\* What a restore has installed is where it put it.
LEMMA InstalledFacts ==
  ASSUME IInv, NEW p \in Procs, pc[p] \in Installed
  PROVE  /\ call[p].at \in Locations /\ call[p].file \in 1..Len(disk)
         /\ Here(p) = call[p].file /\ Here(p) # Nil
         /\ disk[Here(p)] # Empty /\ disk[Here(p)].binding = BindingOf(call[p].at)
         /\ call[p].held \in Genuine
         /\ Grown(Materialized(call[p].held), Handle(p).image)
         /\ Kept(Handle(p).image) /\ Handle(p) \in Databases
<1>1. /\ InOrder(pc[p], call[p]) /\ pc[p] \in Holding /\ pc[p] \in Connected
      /\ \A n \in 1..Len(disk) : disk[n] # Empty => disk[n] \in Databases /\ Kept(disk[n].image)
  BY CallFacts DEF Holding, Connected
<1> QED
  BY <1>1 DEF InOrder, Handles, Stores, Owns, Owning, Here, Handle

\* A restore whose work fails gives up what it has installed.
LEMMA AbandonStep ==
  ASSUME IInv, Quiet, NEW p \in Procs, pc[p] \in Installed, Abandon(p)
  PROVE  IInv'
<1>1. call[p] \in CallRecords /\ InOrder(pc[p], call[p])
  BY CallFacts
<1>2. PICK c \in CallRecords :
        /\ c = [call[p] EXCEPT !.then = "failed"]
        /\ c.at = call[p].at /\ c.op = call[p].op /\ c.file = call[p].file
        /\ c.held = call[p].held /\ c.then = "failed"
  <2> DEFINE b == [call[p] EXCEPT !.then = "failed"]
  <2>1. /\ b \in CallRecords
        /\ b.at = call[p].at /\ b.op = call[p].op /\ b.file = call[p].file
        /\ b.held = call[p].held /\ b.then = "failed"
    BY <1>1 DEF CallRecords, Purposes
  <2> HIDE DEF b
  <2> QED
    BY <2>1 DEF b
<1>3. /\ "remove" \in Steps /\ "remove" \notin Storing /\ "remove" \notin Serving
      /\ "remove" \notin Inspections
      /\ "remove" \in Installed /\ "remove" \in Holding /\ "remove" \in Connected
      /\ pc[p] \in Holding /\ pc[p] \in Connected /\ pc[p] # "idle"
  BY DEF Installed, Steps, Storing, Serving, Inspections, Holding, Connected
<1>4. Placed("remove", c) /\ Handles("remove", c) /\ Stores("remove", c)
  BY <1>1, <1>2, <1>3 DEF InOrder, Placed, Handles, Stores
<1>5. Owns("remove", c)
  BY <1>1, <1>2, <1>3 DEF InOrder, Owns, Owning
<1>6. InOrder("remove", c)
  BY <1>4, <1>5 DEF InOrder, Suspects
<1>7. pc' = [pc EXCEPT ![p] = "remove"] /\ call' = [call EXCEPT ![p] = c]
  BY <1>2 DEF Abandon, Goto
<1> QED
  BY <1>2, <1>3, <1>6, <1>7, LocalStep DEF Owning

LEMMA ReopenStep ==
  ASSUME IInv, NEW p \in Procs, Reopen(p)
  PROVE  IInv'
<1>1. /\ pc[p] = "reopen" /\ "reopen" \in Installed /\ "compare" \in Installed
      /\ "remove" \in Installed
  BY DEF Reopen, Installed
<1>2. /\ call[p].at \in Locations /\ call[p].file \in 1..Len(disk)
      /\ Here(p) = call[p].file /\ Here(p) # Nil
      /\ disk[Here(p)] # Empty /\ disk[Here(p)].binding = BindingOf(call[p].at)
  BY <1>1, InstalledFacts
<1>3. Quiet
  <2>1. MarksInOrder /\ UNCHANGED <<files, disk, artifacts>>
    BY CallFacts DEF Reopen
  <2>2. failed \subseteq failed' /\ failed' \subseteq Locations
    BY <2>1, FailuresStay DEF Reopen, Abandon, Failing, MarksInOrder
  <2>3. /\ marked' \in [Locations -> BOOLEAN]
        /\ \A l \in Locations :
             marked'[l] => marked[l] \/ (l = call[p].at /\ (DamagedHere(p) \/ l \in failed'))
        /\ \A l \in Locations : marked[l] => marked'[l]
    <3>1. CASE marked' = [marked EXCEPT ![call[p].at] = marked[call[p].at] \/ DamagedHere(p)]
      <4>1. DamagedHere(p) \in BOOLEAN
        BY DEF DamagedHere
      <4> QED
        BY <1>2, <2>1, <3>1, <4>1 DEF MarksInOrder
    <3>2. CASE Abandon(p) /\ UNCHANGED marked
      BY <2>1, <3>2 DEF MarksInOrder
    <3>3. CASE Abandon(p) /\ marked' = [marked EXCEPT ![call[p].at] = TRUE]
      BY <1>2, <2>1, <3>3 DEF MarksInOrder, Abandon, Fails
    <3> QED
      BY <3>1, <3>2, <3>3 DEF Reopen
  <2>4. DamagedHere(p) => Trouble
    BY <1>2 DEF DamagedHere, Trouble, Damaged
  <2>5. Trouble => Trouble'
    BY <2>1 DEF Trouble, Damaged, Gone
  <2>6. \A l \in Locations : marked'[l] => Suspected(l)'
    BY <2>1, <2>2, <2>3, <2>4, <2>5 DEF MarksInOrder, Suspected
  <2> QED
    BY <2>1, <2>2, <2>3, <2>6 DEF Quiet, MarksInOrder
<1>4. CASE Reopens(p) /\ Goto(p, "compare") /\ call' = [call EXCEPT ![p].file = Here(p)]
  <2>1. pc' = [pc EXCEPT ![p] = "compare"]
    BY <1>4 DEF Goto
  <2>2. call' = [call EXCEPT ![p] = [call[p] EXCEPT !.file = Here(p)]]
    BY <1>4
  <2>3. [call[p] EXCEPT !.file = Here(p)] = call[p]
    BY <1>2, CallFacts DEF CallRecords
  <2>4. UNCHANGED call
    BY <2>2, <2>3 DEF IInv, CallsInOrder
  <2> QED
    BY <1>1, <1>3, <2>1, <2>4, InstalledStep
<1>5. CASE ~Reopens(p) /\ Goto(p, "remove") /\ UNCHANGED call
  <2>1. pc' = [pc EXCEPT ![p] = "remove"] /\ UNCHANGED call
    BY <1>5 DEF Goto
  <2>2. marked[call[p].at] \/ Damaged(call[p].file)
    BY <1>2, <1>5 DEF Reopens, Damaged
  <2> QED
    BY <1>1, <1>3, <2>1, <2>2, InstalledStep
<1>6. CASE Abandon(p)
  BY <1>1, <1>3, <1>6, AbandonStep
<1> QED
  BY <1>4, <1>5, <1>6 DEF Reopen

LEMMA CompareStep ==
  ASSUME IInv, NEW p \in Procs, Compare(p)
  PROVE  IInv'
<1>1. /\ pc[p] = "compare" /\ "restored" \in Installed /\ "compare" \in Installed
      /\ "remove" \in Installed /\ Quiet
  BY OnlyFailures DEF Compare, Installed, Failing, Abandon
<1>2. /\ Here(p) = call[p].file /\ disk[Here(p)] # Empty /\ call[p].held \in Genuine
      /\ Grown(Materialized(call[p].held), Handle(p).image) /\ Kept(Handle(p).image)
  BY <1>1, InstalledFacts
<1>3. CASE SameState(p) /\ Goto(p, "restored") /\ UNCHANGED call
  BY <1>1, <1>3, InstalledStep DEF Goto
<1>4. CASE ~SameState(p) /\ Goto(p, "remove") /\ UNCHANGED call
  <2>1. Collectable(Handle(p).image)
    BY <1>2, CollectedGenuine
  <2>2. \/ Damaged(call[p].file)
        \/ Collected(Handle(p).image) # call[p].held
    BY <1>2, <1>4, <2>1 DEF SameState, Damaged, Handle
  <2>3. Collected(Materialized(call[p].held)) = call[p].held
    BY <1>2, GenuineStates
  <2>4. \/ Damaged(call[p].file)
        \/ Outgrown(Materialized(call[p].held), disk[call[p].file].image)
    BY <1>2, <2>2, <2>3 DEF Grown, Handle
  <2> QED
    BY <1>1, <1>4, <2>4, InstalledStep DEF Goto
<1>5. CASE Abandon(p)
  BY <1>1, <1>5, AbandonStep
<1> QED
  BY <1>3, <1>4, <1>5 DEF Compare

LEMMA RemoveStep ==
  ASSUME IInv, NEW p \in Procs, Remove(p)
  PROVE  IInv'
<1>1. pc[p] = "remove" /\ "remove" \in Installed
  BY DEF Remove, Installed
<1> DEFINE l == call[p].at
<1>2. l \in Locations /\ files[l] \in 1..Len(disk) /\ files[l] # Nil
  BY <1>1, InstalledFacts DEF Here
<1>3. /\ files' = [files EXCEPT ![l] = Nil]
      /\ UNCHANGED <<disk, marked, artifacts, failed>>
      /\ pc' = [pc EXCEPT ![p] = "idle"] /\ call' = [call EXCEPT ![p] = NoCall]
  BY DEF Remove, Return, Goto
<1>4. /\ FilesInOrder /\ DiskInOrder /\ MarksInOrder /\ ArtifactsInOrder /\ Len(disk) \in Nat
  BY CallFacts
<1>5. files'[l] = Nil /\ \A m \in Locations : m # l => files'[m] = files[m]
  BY <1>2, <1>3, <1>4 DEF FilesInOrder
<1>6. FilesInOrder'
  BY <1>2, <1>3, <1>4, <1>5 DEF FilesInOrder
<1>7. DiskInOrder' /\ ArtifactsInOrder'
  BY <1>3, <1>4 DEF DiskInOrder, ArtifactsInOrder
<1>8. Onward
  BY <1>3, <1>4, <1>5 DEF Onward, Later, Grown
<1>9. MarksInOrder'
  BY <1>3, <1>4, <1>7, <1>8, OnwardSuspected DEF MarksInOrder, Onward
<1>10. WorldInOrder'
  BY <1>6, <1>7, <1>9 DEF WorldInOrder
<1>11. /\ NoCall \in CallRecords /\ NoCall.file = Nil /\ NoCall.then = "end"
       /\ "idle" \in Plain /\ Placed("idle", NoCall)
  BY DEF NoCall, CallRecords, Plain, Ops, Purposes, Placed, Serving, Storing, Inspections
<1>12. /\ InOrder("idle", NoCall) /\ ~Owning("idle", NoCall)
       /\ "idle" \notin Storing /\ "idle" \in Steps
  BY <1>11, PlainInOrder
<1>13. InOrder("idle", NoCall)'
  BY <1>4, <1>6, <1>7, <1>8, <1>11, <1>12, OnwardCall DEF Untouched
<1>14. ASSUME NEW q \in Procs \ {p}
       PROVE  Untouched(pc[q], call[q]) /\ Apart(pc[q], call[q], "idle", NoCall)
  <2>1. InOrder(pc[q], call[q]) /\ Apart(pc[q], call[q], pc[p], call[p])
    BY CallFacts DEF IInv, CallsInOrder
  <2>2. Owning(pc[q], call[q]) => call[q].at \in Locations /\ call[q].at # l
    BY <1>1, <2>1 DEF InOrder, Owns, Apart, Owning
  <2>3. Untouched(pc[q], call[q])
    BY <1>3, <1>5, <2>1, <2>2 DEF Untouched, InOrder, Stores
  <2> QED
    BY <1>12, <2>3 DEF Apart
<1> QED
  BY <1>3, <1>8, <1>10, <1>11, <1>12, <1>13, <1>14, WorldStep

LEMMA RestoredStep ==
  ASSUME IInv, NEW p \in Procs, Restored(p)
  PROVE  IInv'
<1>1. /\ pc[p] = "restored" /\ "restored" \in Installed /\ Quiet
      /\ call[p] \in CallRecords /\ InOrder("restored", call[p])
  BY CallFacts, NothingHappens DEF Restored, Installed
<1>2. CASE call[p].op # "recover"
  BY <1>1, <1>2, ReturnStep DEF Restored
<1>3. CASE call[p].op = "recover"
  <2> DEFINE c == [Calling(call[p].op, call[p].at) EXCEPT
                     !.to = call[p].to, !.dir = call[p].dir, !.then = "accept"]
  <2>1. call[p].at \in Locations
    BY <1>1, InstalledFacts
  <2>2. /\ c \in CallRecords /\ c.file = Nil /\ c.then = "accept" /\ c.at = call[p].at
    BY <1>1, <2>1 DEF Calling, NoCall, CallRecords, Purposes
  <2>3. pc' = [pc EXCEPT ![p] = "inspect"] /\ call' = [call EXCEPT ![p] = c]
    BY <1>1, <1>3 DEF Restored, Inspecting, Goto
  <2> HIDE DEF c
  <2>4. /\ "inspect" \in Steps /\ "inspect" \notin Storing /\ "inspect" \notin Serving
        /\ "inspect" \notin Installed /\ "inspect" \notin Connected /\ "inspect" \notin Holding
    BY DEF Steps, Plain, Storing, Serving, Installed, Connected, Holding
  <2>5. Placed("inspect", c) /\ Handles("inspect", c) /\ Stores("inspect", c)
    BY <2>1, <2>2, <2>4 DEF Placed, Handles, Stores
  <2>6. Owns("inspect", c)
    BY <1>1, <2>2, <2>4 DEF InOrder, Owns, Owning
  <2>7. InOrder("inspect", c)
    BY <2>5, <2>6 DEF InOrder, Suspects
  <2> QED
    BY <1>1, <2>2, <2>3, <2>4, <2>7, LocalStep DEF Owning
<1> QED
  BY <1>2, <1>3

(***************************************************************************)
(* Backups and exports.                                                    *)
(***************************************************************************)
LEMMA ServingFacts ==
  ASSUME IInv, NEW p \in Procs, pc[p] \in Serving
  PROVE  /\ call[p].at \in Locations /\ call[p].file \in 1..Len(disk)
         /\ Handle(p) \in Databases /\ Kept(Handle(p).image)
         /\ call[p].op = "client" /\ call[p] \in CallRecords
         /\ pc[p] \in Storing => call[p].dir \in Directories /\ artifacts[call[p].dir] # Nil
<1>1. /\ InOrder(pc[p], call[p]) /\ pc[p] # "idle" /\ pc[p] \in Connected
      /\ call[p] \in CallRecords
      /\ \A n \in 1..Len(disk) : disk[n] # Empty => disk[n] \in Databases /\ Kept(disk[n].image)
  BY CallFacts DEF Serving, Storing, Connected
<1> QED
  BY <1>1 DEF InOrder, Placed, Handles, Stores, Handle

\* The call of an open handle, with another directory and another state held.
With(c, dir, held) == [c EXCEPT !.dir = dir, !.held = held]

\* What it stores and holds is there, and nobody else stores to its directory.
Serves(step, dir, held) ==
  /\ step \in Storing => dir \in Directories /\ artifacts'[dir] # Nil
  /\ step = "seal" => artifacts'[dir].payload # Nil
  /\ step \in Holding => held \in Genuine

LeavesOthers(p, step, dir) ==
  \A q \in Procs \ {p} :
    /\ Untouched(pc[q], call[q])
    /\ step \in Storing /\ pc[q] \in Storing => call[q].dir # dir

LEMMA ServingStep ==
  ASSUME IInv, WorldInOrder', Onward, UNCHANGED <<files, disk>>,
         NEW p \in Procs, pc[p] \in Serving, NEW step \in Serving,
         NEW dir \in Directories \cup {Nil}, NEW held \in Genuine \cup {Nil},
         pc' = [pc EXCEPT ![p] = step],
         call' = [call EXCEPT ![p] = With(call[p], dir, held)],
         Serves(step, dir, held), LeavesOthers(p, step, dir)
  PROVE  IInv'
<1>1. /\ call[p] \in CallRecords /\ InOrder(pc[p], call[p])
  BY CallFacts
<1>2. PICK c \in CallRecords :
        /\ c = With(call[p], dir, held)
        /\ c.at = call[p].at /\ c.op = call[p].op /\ c.file = call[p].file
        /\ c.then = call[p].then /\ c.to = call[p].to /\ c.dir = dir /\ c.held = held
  <2> DEFINE b == With(call[p], dir, held)
  <2>1. /\ b \in CallRecords
        /\ b.at = call[p].at /\ b.op = call[p].op /\ b.file = call[p].file
        /\ b.then = call[p].then /\ b.to = call[p].to /\ b.dir = dir /\ b.held = held
    BY <1>1 DEF CallRecords, With
  <2> HIDE DEF b
  <2> QED
    BY <2>1 DEF b
<1>3. /\ step \in Steps /\ step \notin Installed /\ step \notin Inspections
      /\ step \notin {"idle", "verify", "stage", "connect", "probe", "create",
                      "create-or-open", "created", "remove", "recovered",
                      "raw", "mark", "snapshot"}
      /\ step \in Connected /\ pc[p] \in Connected /\ pc[p] # "idle"
      /\ pc[p] \notin Installed
  BY DEF Serving, Steps, Installed, Inspections, Storing, Connected
<1>4. Owning(step, c) => Owning(pc[p], call[p])
  BY <1>2, <1>3 DEF Owning
<1>5. InOrder(step, c)'
  <2>1. Placed(step, c)'
    BY <1>1, <1>2, <1>3 DEF InOrder, Placed
  <2>2. Handles(step, c)'
    BY <1>1, <1>2, <1>3 DEF InOrder, Handles, Gone
  <2>3. Stores(step, c)'
    BY <1>2 DEF Stores, Serves
  <2>4. Owns(step, c)'
    BY <1>1, <1>2, <1>3, <1>4 DEF InOrder, Owns, Owning
  <2>5. Suspects(step, c)'
    BY <1>3 DEF Suspects
  <2> QED
    BY <2>1, <2>2, <2>3, <2>4, <2>5 DEF InOrder
<1>6. ASSUME NEW q \in Procs \ {p}
      PROVE  Untouched(pc[q], call[q]) /\ Apart(pc[q], call[q], step, c)
  <2>1. Apart(pc[q], call[q], pc[p], call[p])
    BY DEF IInv, CallsInOrder
  <2> QED
    BY <1>2, <1>4, <2>1 DEF Apart, LeavesOthers
<1>7. call' = [call EXCEPT ![p] = c]
  BY <1>2
<1> QED
  BY <1>3, <1>5, <1>6, <1>7, WorldStep

LEMMA WithType ==
  ASSUME NEW c \in CallRecords, NEW dir \in Directories \cup {Nil},
         NEW held \in Genuine \cup {Nil}
  PROVE  /\ [c EXCEPT !.dir = dir] = With(c, dir, c.held)
         /\ [c EXCEPT !.held = held] = With(c, c.dir, held)
         /\ c = With(c, c.dir, c.held)
  BY DEF CallRecords, With

\* A directory is made for the payload to come.
LEMMA MakeDirectoryStep ==
  ASSUME IInv, NEW p \in Procs, Backup(p) \/ ExportDirectory(p)
  PROVE  IInv'
<1>1. PICK step \in {"copy", "payload"} :
        /\ pc' = [pc EXCEPT ![p] = step]
        /\ pc[p] \in Serving
        /\ step = "payload" => pc[p] = "directory"
  BY DEF Backup, ExportDirectory, Goto, Serving
<1>2. PICK dir \in Directories :
        MakeDirectory(p, dir) /\ call' = [call EXCEPT ![p].dir = dir]
  BY DEF Backup, ExportDirectory
<1>3. UNCHANGED <<files, disk, marked, failed>>
  BY DEF Backup, ExportDirectory
<1>4. /\ EmptyDirectory \in Artifacts /\ EmptyDirectory # Nil /\ EmptyDirectory.payload = Nil
      /\ EmptyDirectory.manifest = Nil /\ ~EmptyDirectory.receipt
  <2>1. EmptyDirectory \in Artifacts
    BY DEF EmptyDirectory, Artifacts
  <2>2. EmptyDirectory # Nil
    BY <2>1, FilesAssumption
  <2>3. /\ EmptyDirectory.payload = Nil /\ EmptyDirectory.manifest = Nil
        /\ EmptyDirectory.receipt = FALSE
    BY DEF EmptyDirectory
  <2> QED
    BY <2>1, <2>2, <2>3
<1>5. artifacts[dir] = Nil /\ Replaces(dir, EmptyDirectory) /\ OrderlyArtifact(EmptyDirectory)
  BY <1>2, <1>3, <1>4 DEF MakeDirectory, Replaces, OrderlyArtifact
<1>6. /\ call[p] \in CallRecords /\ InOrder(pc[p], call[p])
  BY CallFacts
<1>7. \A q \in Procs : pc[q] \in Storing => call[q].dir # dir
  BY <1>5, CallFacts DEF InOrder, Stores
<1>8. /\ WorldInOrder' /\ Onward /\ artifacts'[dir] = EmptyDirectory
      /\ \A q \in Procs : Untouched(pc[q], call[q])
  BY <1>5, <1>7, ReplacesWorld
<1>9. call' = [call EXCEPT ![p] = With(call[p], dir, call[p].held)]
  BY <1>2, <1>6, WithType
<1>10. call[p].held \in Genuine \cup {Nil} /\ (pc[p] = "directory" => call[p].held \in Genuine)
  BY <1>6 DEF CallRecords, InOrder, Stores, Holding
<1>11. step \in Serving /\ step # "seal" /\ (step \in Holding => step = "payload")
  BY DEF Serving, Storing, Holding, Installed
<1>12. Serves(step, dir, call[p].held)
  BY <1>1, <1>4, <1>8, <1>10, <1>11 DEF Serves
<1>13. LeavesOthers(p, step, dir)
  BY <1>7, <1>8 DEF LeavesOthers
<1> QED
  BY <1>1, <1>3, <1>8, <1>9, <1>10, <1>11, <1>12, <1>13, ServingStep

LEMMA PayloadType ==
  ASSUME NEW x \in Databases, Kept(x.image)
  PROVE  /\ Payload(x) \in Payloads /\ Payload(x) # Nil /\ Payload(x).state \in Genuine
<1>1. Collected(x.image) \in Genuine /\ Collected(x.image) \in Summaries
  BY CollectedGenuine, GenuineStates
<1>2. Payload(x) \in Payloads
  BY <1>1 DEF Payload, Payloads, Databases
<1> QED
  BY <1>1, <1>2, FilesAssumption DEF Payload

\* A payload is written, by whichever of the two.
LEMMA PayloadStep ==
  ASSUME IInv, NEW p \in Procs, CopyPayload(p) \/ WritePayload(p)
  PROVE  IInv'
<1>1. PICK step \in {"inspect-payload", "seal"} :
        /\ pc' = [pc EXCEPT ![p] = step]
        /\ pc[p] \in Storing
        /\ step = "seal" => pc[p] = "payload"
  BY DEF CopyPayload, WritePayload, Goto, Storing
<1>2. /\ call[p] \in CallRecords /\ InOrder(pc[p], call[p]) /\ pc[p] \in Serving
      /\ ArtifactsInOrder
  BY <1>1, CallFacts DEF Serving
<1>3. /\ call[p].at \in Locations /\ Handle(p) \in Databases /\ Kept(Handle(p).image)
      /\ call[p].dir \in Directories /\ artifacts[call[p].dir] # Nil
  BY <1>1, <1>2, ServingFacts
<1>4. call[p].held \in Genuine \cup {Nil} /\ (pc[p] = "payload" => call[p].held \in Genuine)
  BY <1>2 DEF CallRecords, InOrder, Stores, Holding
<1>5. PICK payload \in Payloads :
        /\ payload # Nil /\ payload.state \in Genuine
        /\ artifacts' = [artifacts EXCEPT ![call[p].dir].payload = payload]
  <2>1. CASE CopyPayload(p)
    BY <1>3, <2>1, PayloadType DEF CopyPayload
  <2>2. CASE WritePayload(p)
    <3> DEFINE payload == [state   |-> call[p].held,
                           binding |-> BindingOf(call[p].at),
                           health  |-> "sound",
                           intact  |-> TRUE]
    <3>1. call[p].held \in Genuine /\ call[p].held \in Summaries
      BY <1>4, <2>2, GenuineStates DEF WritePayload
    <3>2. payload \in Payloads /\ payload.state \in Genuine
      BY <1>3, <3>1 DEF Payloads, Bindings, Healths
    <3>3. payload # Nil
      BY <3>2, FilesAssumption
    <3> HIDE DEF payload
    <3>4. artifacts' = [artifacts EXCEPT ![call[p].dir].payload = payload]
      BY <2>2 DEF WritePayload, payload
    <3> QED
      BY <3>2, <3>3, <3>4
  <2> QED
    BY <2>1, <2>2
<1>6. PICK a : a = [artifacts[call[p].dir] EXCEPT !.payload = payload]
  OBVIOUS
<1>7. artifacts[call[p].dir] \in Artifacts
  BY <1>2, <1>3 DEF ArtifactsInOrder
<1>8. /\ a \in Artifacts /\ a.payload = payload
      /\ a.manifest = artifacts[call[p].dir].manifest
      /\ a.receipt = artifacts[call[p].dir].receipt
  BY <1>6, <1>7 DEF Artifacts
<1>9. a # Nil
  BY <1>8, FilesAssumption
<1>10. OrderlyArtifact(a)
  BY <1>2, <1>3, <1>5, <1>8 DEF OrderlyArtifact, ArtifactsInOrder
<1>11. UNCHANGED <<files, disk, marked, failed, call>>
  BY DEF CopyPayload, WritePayload
<1>12. Replaces(call[p].dir, a)
  BY <1>5, <1>6, <1>11 DEF Replaces
<1>13. /\ WorldInOrder' /\ Onward /\ artifacts'[call[p].dir] = a
       /\ \A q \in Procs : Untouched(pc[q], call[q])
  BY <1>3, <1>5, <1>8, <1>9, <1>10, <1>12, ReplacesWorld
<1>14. call' = [call EXCEPT ![p] = With(call[p], call[p].dir, call[p].held)]
  <2>1. call[p] = With(call[p], call[p].dir, call[p].held)
    BY <1>2, <1>3, <1>4, WithType
  <2> QED
    BY <1>11, <2>1 DEF IInv, CallsInOrder
<1>15. LeavesOthers(p, step, call[p].dir)
  BY <1>1, <1>13 DEF IInv, CallsInOrder, Apart, LeavesOthers
<1>16. step \in Serving /\ (step \in Holding => step = "seal")
  BY DEF Serving, Storing, Holding, Installed
<1>17. Serves(step, call[p].dir, call[p].held)
  BY <1>1, <1>3, <1>4, <1>5, <1>8, <1>9, <1>13, <1>16 DEF Serves
<1> QED
  BY <1>2, <1>1, <1>3, <1>4, <1>11, <1>13, <1>14, <1>15, <1>16, <1>17, ServingStep

\* Steps of an open handle that change nothing but its call.
LEMMA QuietServing ==
  ASSUME IInv, UNCHANGED <<files, disk, marked, artifacts, failed>>,
         NEW p \in Procs, pc[p] \in Serving, NEW step \in Serving,
         NEW dir \in Directories \cup {Nil}, NEW held \in Genuine \cup {Nil},
         pc' = [pc EXCEPT ![p] = step],
         call' = [call EXCEPT ![p] = With(call[p], dir, held)],
         step \in Storing => pc[p] \in Storing /\ dir = call[p].dir,
         step = "seal" => artifacts[dir].payload # Nil,
         step \in Holding => held \in Genuine
  PROVE  IInv'
<1>1. /\ WorldInOrder' /\ Onward
      /\ \A q \in Procs : Untouched(pc[q], call[q])
  BY QuietWorld DEF Failing
<1>2. Serves(step, dir, held)
  BY ServingFacts DEF Serves
<1>3. LeavesOthers(p, step, dir)
  BY <1>1 DEF IInv, CallsInOrder, Apart, LeavesOthers
<1> QED
  BY <1>1, <1>2, <1>3, ServingStep

LEMMA InspectPayloadStep ==
  ASSUME IInv, NEW p \in Procs, InspectPayload(p)
  PROVE  IInv'
<1>1. /\ pc[p] = "inspect-payload" /\ pc[p] \in Storing /\ pc[p] \in Serving
      /\ pc' = [pc EXCEPT ![p] = "seal"] /\ "seal" \in Serving
      /\ UNCHANGED <<files, disk, marked, artifacts, failed>>
  BY DEF InspectPayload, Goto, Storing, Serving
<1>2. /\ call[p] \in CallRecords /\ ArtifactsInOrder
      /\ call[p].dir \in Directories /\ artifacts[call[p].dir] # Nil
  BY <1>1, CallFacts, ServingFacts
<1>3. artifacts[call[p].dir].payload # Nil
  BY DEF InspectPayload, Readable, Artifact
<1>4. PICK held \in Genuine : held = artifacts[call[p].dir].payload.state
  BY <1>2, <1>3 DEF ArtifactsInOrder
<1>5. call' = [call EXCEPT ![p] = With(call[p], call[p].dir, held)]
  <2>1. call' = [call EXCEPT ![p] = [call[p] EXCEPT !.held = held]]
    BY <1>4 DEF InspectPayload, Artifact
  <2>2. [call[p] EXCEPT !.held = held] = With(call[p], call[p].dir, held)
    BY <1>2, <1>4, WithType
  <2> QED
    BY <2>1, <2>2
<1> QED
  BY <1>1, <1>2, <1>3, <1>5, QuietServing

LEMMA ExportStep ==
  ASSUME IInv, NEW p \in Procs, Export(p)
  PROVE  IInv'
<1>1. /\ pc[p] = "open" /\ pc[p] \in Serving
      /\ pc' = [pc EXCEPT ![p] = "directory"]
      /\ "directory" \in Serving /\ "directory" \notin Storing
      /\ UNCHANGED <<files, disk, marked, artifacts, failed>>
  BY DEF Export, Goto, Storing, Serving
<1>2. /\ call[p] \in CallRecords /\ Kept(Handle(p).image)
  BY <1>1, ServingFacts
<1>3. PICK held \in Genuine : held = Collected(Handle(p).image)
  BY <1>2, CollectedGenuine
<1>4. call[p].dir \in Directories \cup {Nil}
  BY <1>2 DEF CallRecords
<1>5. call' = [call EXCEPT ![p] = With(call[p], call[p].dir, held)]
  <2>1. call' = [call EXCEPT ![p] = [call[p] EXCEPT !.held = held]]
    BY <1>3 DEF Export
  <2>2. [call[p] EXCEPT !.held = held] = With(call[p], call[p].dir, held)
    BY <1>2, <1>4, WithType
  <2> QED
    BY <2>1, <2>2
<1> QED
  BY <1>1, <1>4, <1>5, QuietServing

\* The call that is over leaves the handle open.
LEMMA BackCall ==
  ASSUME NEW p \in Procs, Back(p)
  PROVE  /\ pc' = [pc EXCEPT ![p] = "open"]
         /\ call' = [call EXCEPT ![p] = With(call[p], Nil, Nil)]
         /\ "open" \in Serving /\ "open" \notin Storing /\ "open" \notin Holding
  BY DEF Back, Goto, With, Serving, Storing, Holding, Installed

LEMMA VerifyOwnStep ==
  ASSUME IInv, NEW p \in Procs, VerifyOwn(p)
  PROVE  IInv'
<1>1. /\ pc[p] \in Serving /\ Back(p)
      /\ UNCHANGED <<files, disk, marked, artifacts, failed>>
  BY DEF VerifyOwn, Storing, Serving
<1> QED
  BY <1>1, BackCall, QuietServing

LEMMA SealStep ==
  ASSUME IInv, NEW p \in Procs, Seal(p)
  PROVE  IInv'
<1>1. /\ pc[p] = "seal" /\ pc[p] \in Storing /\ pc[p] \in Serving
      /\ pc[p] \in Holding
      /\ pc' = [pc EXCEPT ![p] = "verify-own"]
      /\ "verify-own" \in Serving /\ "verify-own" \notin Holding
      /\ UNCHANGED <<files, disk, marked, failed, call>>
  BY DEF Seal, Goto, Storing, Serving, Holding, Installed
<1>2. /\ call[p] \in CallRecords /\ InOrder(pc[p], call[p]) /\ ArtifactsInOrder
      /\ call[p].dir \in Directories /\ artifacts[call[p].dir] # Nil
      /\ call[p].at \in Locations
  BY <1>1, CallFacts, ServingFacts
<1>3. PICK b \in Artifacts :
        /\ b = artifacts[call[p].dir]
        /\ b.payload \in Payloads /\ b.payload # Nil /\ b.payload.state \in Genuine
  BY <1>1, <1>2 DEF ArtifactsInOrder, Artifacts, InOrder, Stores
<1>4. PICK m \in Manifests :
        /\ m = Manifest(call[p].held, BindingOf(call[p].at), b.payload)
        /\ m # Nil /\ m.state \in Genuine
  <2> DEFINE n == Manifest(call[p].held, BindingOf(call[p].at), b.payload)
  <2>1. call[p].held \in Genuine /\ call[p].held \in Summaries
    BY <1>1, <1>2, GenuineStates DEF InOrder, Stores
  <2>2. n \in Manifests /\ n.state \in Genuine
    BY <1>2, <1>3, <2>1 DEF Manifest, Manifests, Bindings
  <2>3. n # Nil
    BY <2>2, FilesAssumption
  <2> HIDE DEF n
  <2> QED
    BY <2>2, <2>3 DEF n
<1>5. PICK a : a = [b EXCEPT !.manifest = m, !.receipt = TRUE]
  OBVIOUS
<1>6. /\ a \in Artifacts /\ a.payload = b.payload /\ a.manifest = m /\ a.receipt
  BY <1>3, <1>4, <1>5 DEF Artifacts
<1>7. a # Nil /\ OrderlyArtifact(a)
  BY <1>3, <1>4, <1>6, FilesAssumption DEF OrderlyArtifact
<1>8. Replaces(call[p].dir, a)
  BY <1>1, <1>2, <1>3, <1>4, <1>5 DEF Seal, Replaces, Artifact, ArtifactsInOrder
<1>9. /\ WorldInOrder' /\ Onward /\ artifacts'[call[p].dir] = a
      /\ \A q \in Procs : Untouched(pc[q], call[q])
  BY <1>2, <1>3, <1>6, <1>7, <1>8, ReplacesWorld
<1>10. call[p].held \in Genuine
  BY <1>1, <1>2 DEF InOrder, Stores
<1>11. call' = [call EXCEPT ![p] = With(call[p], call[p].dir, call[p].held)]
  <2>1. call[p] = With(call[p], call[p].dir, call[p].held)
    BY <1>2, <1>10, WithType
  <2> QED
    BY <1>1, <2>1 DEF IInv, CallsInOrder
<1>12. LeavesOthers(p, "verify-own", call[p].dir)
  BY <1>1, <1>9 DEF IInv, CallsInOrder, Apart, LeavesOthers
<1>13. Serves("verify-own", call[p].dir, call[p].held)
  BY <1>1, <1>2, <1>7, <1>9 DEF Serves
<1> QED
  BY <1>1, <1>2, <1>9, <1>10, <1>11, <1>12, <1>13, ServingStep

\* The directory that goes is nobody else's.
LEMMA BackupFailsStep ==
  ASSUME IInv, NEW p \in Procs, BackupFails(p)
  PROVE  IInv'
<1>1. /\ pc[p] \in Storing /\ pc[p] \in Serving /\ Back(p)
      /\ UNCHANGED <<files, disk, marked, failed>>
  BY DEF BackupFails, Storing, Serving
<1>2. call[p].dir \in Directories
  BY <1>1, ServingFacts
<1>3. Replaces(call[p].dir, Nil) /\ OrderlyArtifact(Nil)
  BY DEF BackupFails, Replaces, OrderlyArtifact
<1>4. \A q \in Procs \ {p} : pc[q] \in Storing => call[q].dir # call[p].dir
  BY <1>1 DEF IInv, CallsInOrder, Apart
<1>5. /\ WorldInOrder' /\ Onward
      /\ \A q \in Procs \ {p} : Untouched(pc[q], call[q])
  BY <1>2, <1>3, <1>4, ReplacesWorld
<1>6. Serves("open", Nil, Nil) /\ LeavesOthers(p, "open", Nil)
  BY <1>1, <1>5, BackCall DEF Serves, LeavesOthers
<1> QED
  BY <1>1, <1>5, <1>6, BackCall, ServingStep

(***************************************************************************)
(* Damage.                                                                 *)
(***************************************************************************)
LEMMA DamageFileStep ==
  ASSUME IInv, DamageFile
  PROVE  IInv'
<1>1. PICK l \in Fragile, health \in {"physical", "semantic"} :
        /\ files[l] # Nil /\ disk[files[l]] # Empty
        /\ disk' = [disk EXCEPT ![files[l]].health = health]
  BY DEF DamageFile
<1>2. l \in Locations
  BY FilesAssumption
<1>3. PICK n \in 1..Len(disk) : n = files[l]
  BY <1>1, <1>2, FileNumbers DEF IInv, WorldInOrder
<1>4. disk[n] \in Databases /\ Kept(disk[n].image) /\ Len(disk) \in Nat
  BY <1>1, <1>3, FileNumbers DEF IInv, WorldInOrder, DiskInOrder
<1>5. PICK content : content = [disk[n] EXCEPT !.health = health]
  OBVIOUS
<1>6. /\ content \in Databases /\ content.image = disk[n].image
      /\ content.binding = disk[n].binding /\ content.health # "sound"
  BY <1>4, <1>5 DEF Databases, Healths
<1>7. Later(disk[n], content)
  BY <1>6, FilesAssumption DEF Later, Grown
<1>8. Rewrites(n, content)
  BY <1>1, <1>3, <1>5 DEF Rewrites, DamageFile, Failing
<1>9. /\ WorldInOrder' /\ Onward /\ \A q \in Procs : Untouched(pc[q], call[q])
  BY <1>4, <1>6, <1>7, <1>8, RewritesWorld
<1> QED
  BY <1>9, WorldOnly DEF DamageFile

LEMMA DamagePayloadStep ==
  ASSUME IInv, DamagePayload
  PROVE  IInv'
<1>1. PICK dir \in Directories :
        /\ artifacts[dir] # Nil /\ artifacts[dir].payload # Nil
        /\ artifacts' = [artifacts EXCEPT ![dir].payload.intact = FALSE]
  BY DEF DamagePayload
<1>2. PICK b \in Artifacts :
        /\ b = artifacts[dir]
        /\ b.payload \in Payloads /\ b.payload.state \in Genuine
        /\ b.manifest # Nil => b.manifest.state \in Genuine
        /\ b.receipt => b.manifest # Nil
  BY <1>1 DEF IInv, WorldInOrder, ArtifactsInOrder, Artifacts
<1>3. PICK payload : payload = [b.payload EXCEPT !.intact = FALSE]
  OBVIOUS
<1>4. payload \in Payloads /\ payload.state = b.payload.state
  BY <1>2, <1>3 DEF Payloads
<1>5. PICK a : a = [b EXCEPT !.payload = payload]
  OBVIOUS
<1>6. /\ a \in Artifacts /\ a.payload = payload /\ a.manifest = b.manifest
      /\ a.receipt = b.receipt
  BY <1>2, <1>4, <1>5 DEF Artifacts
<1>7. payload # Nil /\ a # Nil
  BY <1>4, <1>6, FilesAssumption
<1>8. OrderlyArtifact(a)
  BY <1>2, <1>4, <1>6, <1>7 DEF OrderlyArtifact
<1>9. Replaces(dir, a)
  BY <1>1, <1>2, <1>3, <1>5 DEF Replaces, DamagePayload
<1>10. /\ WorldInOrder' /\ Onward /\ \A q \in Procs : Untouched(pc[q], call[q])
  BY <1>6, <1>7, <1>8, <1>9, ReplacesWorld
<1> QED
  BY <1>10, WorldOnly DEF DamagePayload

(***************************************************************************)
(* The invariant is one.                                                   *)
(***************************************************************************)
LEMMA NewDatabaseInOrder ==
  ASSUME NEW binding \in Bindings
  PROVE  NewDatabase(binding) \in Databases /\ Kept(NewDatabase(binding).image)
<1>1. Kept(EmptyImage(BaseSchema))
  BY EmptyKept, FilesAssumption DEF AcceptableCalls
<1> QED
  BY <1>1 DEF NewDatabase, Databases, Healths, Kept

LEMMA InitInv == Init => IInv
<1> SUFFICES ASSUME Init PROVE IInv
  OBVIOUS
<1>1. NewDatabase(Stranger) \in Databases /\ Kept(NewDatabase(Stranger).image)
  BY NewDatabaseInOrder DEF Bindings
<1>2. FilesInOrder /\ DiskInOrder
  <2>1. CASE files = [l \in Locations |-> Nil] /\ disk = <<>>
    BY <2>1, FilesAssumption DEF FilesInOrder, DiskInOrder
  <2>2. CASE \E m \in Misplaced :
               /\ files = [l \in Locations |-> IF l = m THEN 1 ELSE Nil]
               /\ disk = <<NewDatabase(Stranger)>>
    <3>1. PICK m \in Misplaced, x \in Contents :
            /\ files = [l \in Locations |-> IF l = m THEN 1 ELSE Nil]
            /\ disk = <<x>> /\ Kept(x.image)
      BY <1>1, <2>2 DEF Contents
    <3>2. Len(disk) = 1 /\ disk[1] = x /\ disk \in Seq(Contents)
      BY <3>1
    <3> QED
      BY <3>1, <3>2, FilesAssumption DEF FilesInOrder, DiskInOrder
  <2> QED
    BY <2>1, <2>2 DEF Init
<1>3. MarksInOrder /\ ArtifactsInOrder
  BY DEF Init, MarksInOrder, ArtifactsInOrder
<1>4. /\ NoCall \in CallRecords /\ NoCall.file = Nil /\ NoCall.then = "end"
      /\ "idle" \in Plain /\ Placed("idle", NoCall)
  BY DEF NoCall, CallRecords, Plain, Ops, Purposes, Placed, Serving, Storing, Inspections
<1>5. /\ InOrder("idle", NoCall) /\ ~Owning("idle", NoCall)
      /\ "idle" \notin Storing /\ "idle" \in Steps
  BY <1>4, PlainInOrder
<1>6. CallsInOrder
  BY <1>4, <1>5 DEF Init, CallsInOrder, Apart
<1> QED
  BY <1>2, <1>3, <1>6 DEF IInv, WorldInOrder

LEMMA NextInv ==
  ASSUME IInv, [Next]_vars
  PROVE  IInv'
<1>1. CASE UNCHANGED vars
  <2>1. /\ WorldInOrder' /\ Onward /\ \A q \in Procs : Untouched(pc[q], call[q])
    BY <1>1, QuietWorld DEF vars, Failing
  <2> QED
    BY <1>1, <2>1, WorldOnly DEF vars
<1>2. CASE DamageFile \/ DamagePayload
  BY <1>2, DamageFileStep, DamagePayloadStep
<1>3. ASSUME NEW p \in Procs, Crash(p)
      PROVE  IInv'
  BY <1>3, CloseStep
<1>4. ASSUME NEW p \in Procs, Step(p)
      PROVE  IInv'
  <2>1. CASE Open(p) \/ Connect(p) \/ Probe(p) \/ Write(p) \/ Close(p)
    BY <2>1, OpenStep, ConnectStep, ProbeStep, WriteStep, CloseStep
  <2>2. CASE \/ Backup(p) \/ CopyPayload(p) \/ InspectPayload(p)
             \/ Export(p) \/ ExportDirectory(p) \/ WritePayload(p)
    BY <2>2, MakeDirectoryStep, PayloadStep, InspectPayloadStep, ExportStep
  <2>3. CASE Seal(p) \/ VerifyOwn(p) \/ BackupFails(p)
    BY <2>3, SealStep, VerifyOwnStep, BackupFailsStep
  <2>4. CASE \/ Restore(p) \/ Stage(p) \/ Install(p) \/ Reopen(p)
             \/ Compare(p) \/ Remove(p) \/ Restored(p) \/ VerifyRecovery(p)
    BY <2>4, RestoreStep, StageStep, InstallStep, ReopenStep, CompareStep, RemoveStep,
       RestoredStep
  <2>5. CASE \/ LookForFile(p) \/ OpenRaw(p) \/ InspectMigration(p)
             \/ Diagnose(p) \/ Mark(p)
    BY <2>5, LookForFileStep, OpenRawStep, InspectMigrationStep, DiagnoseStep, MarkStep
  <2>6. CASE \/ Inspect(p) \/ Recover(p) \/ Recovered(p)
             \/ Initialise(p) \/ Create(p) \/ CreateOrOpen(p) \/ Confirm(p)
    BY <2>6, InspectStep, CloseStep, CreateStep, CreateOrOpenStep
  <2> QED
    BY <1>4, <2>1, <2>2, <2>3, <2>4, <2>5, <2>6 DEF Step
<1> QED
  BY <1>1, <1>2, <1>3, <1>4 DEF Next

\* The invariant holds of every number of processes, locations, directories,
\* files and damages, from both initial states.
THEOREM FilesInvariance == Spec => []IInv
<1>1. Init => IInv
  BY InitInv
<1>2. IInv /\ [Next]_vars => IInv'
  BY NextInv
<1> QED
  BY <1>1, <1>2, PTL DEF Spec

(***************************************************************************)
(* What is restored.                                                       *)
(***************************************************************************)
\* Whatever processes do at the same locations, files and handles are of their
\* types, what a restore or a staged recovery reports is at the location, and
\* everything the artifact held is in it.
THEOREM RestoresStay == Spec => []RestoredStays
<1>1. IInv => RestoredStays
  <2> SUFFICES ASSUME IInv PROVE RestoredStays
    OBVIOUS
  <2>1. TypeOK
    <3>1. /\ FilesInOrder /\ DiskInOrder /\ MarksInOrder /\ ArtifactsInOrder
          /\ Len(disk) \in Nat
      BY FileNumbers DEF IInv, WorldInOrder
    <3>2. /\ Len(disk) \in 0..MaxFiles
          /\ \A n \in 1..Len(disk) : disk[n] \in Contents
      BY <3>1, FilesAssumption DEF DiskInOrder
    <3>3. ASSUME NEW p \in Procs
          PROVE  /\ call[p].file \in 1..Len(disk) \cup {Nil}
                 /\ pc[p] = "open" => call[p].file # Nil /\ Handle(p) \in Databases
      <4>1. InOrder(pc[p], call[p]) /\ Nil \notin Nat
        BY CallFacts
      <4>2. call[p].file \in 1..Len(disk) \cup {Nil}
        BY <4>1 DEF InOrder, Handles
      <4>3. pc[p] = "open" => call[p].file # Nil /\ Handle(p) \in Databases
        BY <4>1, ServingFacts DEF Serving
      <4> QED
        BY <4>2, <4>3
    <3>4. /\ files \in [Locations -> 1..Len(disk) \cup {Nil}]
          /\ marked \in [Locations -> BOOLEAN]
          /\ failed \subseteq Locations
          /\ \A dir \in Directories : artifacts[dir] # Nil /\ artifacts[dir].receipt =>
               artifacts[dir].manifest # Nil /\ artifacts[dir].payload # Nil
      BY <3>1 DEF FilesInOrder, MarksInOrder, ArtifactsInOrder
    <3> QED
      BY <3>2, <3>3, <3>4 DEF TypeOK
  <2>2. ASSUME NEW p \in Procs, pc[p] \in {"restored", "recovered"}
        PROVE  /\ Here(p) = call[p].file
               /\ Handle(p) # Empty
               /\ Handle(p).binding = BindingOf(call[p].at)
               /\ pc[p] = "restored" =>
                    Extends(Materialized(call[p].held), Handle(p).image)
    <3>1. InOrder(pc[p], call[p]) /\ pc[p] \in Connected
      BY <2>2, CallFacts DEF Connected, Installed
    <3>2. Owning(pc[p], call[p]) /\ call[p].file # Nil
      BY <2>2, <3>1 DEF InOrder, Handles, Owns, Owning, Installed
    <3>3. /\ Here(p) = call[p].file /\ Handle(p) # Empty
          /\ Handle(p).binding = BindingOf(call[p].at)
      BY <3>1, <3>2 DEF InOrder, Owns, Here, Handle
    <3>4. ASSUME pc[p] = "restored"
          PROVE  Extends(Materialized(call[p].held), Handle(p).image)
      <4>1. /\ Grown(Materialized(call[p].held), Handle(p).image)
            /\ call[p].held \in Genuine
        BY <3>4, InstalledFacts DEF Installed
      <4>2. Materialized(call[p].held) \in Images
        BY <4>1, GenuineStates DEF Kept
      <4> QED
        BY <4>1, <4>2, ExtendsReflexive DEF Grown
    <3> QED
      BY <3>3, <3>4
  <2> QED
    BY <2>1, <2>2 DEF RestoredStays
<1> QED
  BY <1>1, FilesInvariance, PTL

(***************************************************************************)
(* Why a location is quarantined.                                          *)
(***************************************************************************)
\* However processes create, initialise, restore to and inspect the same
\* locations, one is quarantined only after damage, after a file was taken away
\* by the restore that installed it, or after work at that location has failed.
THEOREM QuarantinesJustified == Spec => []QuarantineJustified
<1>1. IInv => QuarantineJustified
  BY DEF IInv, WorldInOrder, MarksInOrder, Suspected, Trouble, QuarantineJustified
<1> QED
  BY <1>1, FilesInvariance, PTL

(***************************************************************************)
(* What becomes of databases and of finished artifacts.                    *)
(***************************************************************************)
LEMMA FilesKept ==
  ASSUME IInv, NEW p \in Procs, Step(p) \/ Crash(p), ~Remove(p),
         NEW l \in Locations, files[l] # Nil
  PROVE  files'[l] = files[l]
<1>1. CASE Connect(p) \/ Install(p)
  <2>1. UNCHANGED files \/ (Here(p) = Nil /\ files' = [files EXCEPT ![call[p].at] = NewFile])
    BY <1>1 DEF Connect, Install
  <2> QED
    BY <2>1, CallFacts DEF Here, FilesInOrder
<1>2. CASE \/ Open(p) \/ Probe(p) \/ Write(p) \/ Close(p) \/ Crash(p)
           \/ Backup(p) \/ CopyPayload(p) \/ InspectPayload(p)
           \/ Export(p) \/ ExportDirectory(p) \/ WritePayload(p)
           \/ Seal(p) \/ VerifyOwn(p) \/ BackupFails(p)
  BY <1>2 DEF Open, OpenAt, Probe, Write, Close, Crash, Backup, CopyPayload,
              InspectPayload, Export, ExportDirectory, WritePayload, Seal, VerifyOwn,
              BackupFails
<1>3. CASE \/ Restore(p) \/ Stage(p) \/ Reopen(p) \/ Compare(p) \/ Restored(p)
           \/ VerifyRecovery(p) \/ Recovered(p)
  <2>1. CASE Restore(p)
    BY <2>1 DEF Restore, VerifyArtifact
  <2>2. CASE Stage(p)
    BY <2>2 DEF Stage
  <2>3. CASE Reopen(p)
    BY <2>3 DEF Reopen
  <2>4. CASE Compare(p)
    BY <2>4 DEF Compare
  <2>5. CASE Restored(p)
    BY <2>5 DEF Restored
  <2>6. CASE VerifyRecovery(p)
    BY <2>6 DEF VerifyRecovery, VerifyArtifact
  <2>7. CASE Recovered(p)
    BY <2>7 DEF Recovered
  <2> QED
    BY <1>3, <2>1, <2>2, <2>3, <2>4, <2>5, <2>6, <2>7
<1>4. CASE \/ LookForFile(p) \/ OpenRaw(p) \/ InspectMigration(p) \/ Diagnose(p) \/ Mark(p)
  BY <1>4 DEF LookForFile, OpenRaw, InspectMigration, Diagnose, Mark
<1>5. CASE \/ Inspect(p) \/ Recover(p) \/ Initialise(p) \/ Create(p) \/ CreateOrOpen(p)
           \/ Confirm(p)
  <2>1. CASE Inspect(p)
    BY <2>1 DEF Inspect
  <2>2. CASE Recover(p)
    BY <2>2 DEF Recover
  <2>3. CASE Initialise(p)
    BY <2>3 DEF Initialise
  <2>4. CASE Create(p)
    BY <2>4 DEF Create
  <2>5. CASE CreateOrOpen(p)
    BY <2>5 DEF CreateOrOpen, OpenAt
  <2>6. CASE Confirm(p)
    BY <2>6 DEF Confirm
  <2> QED
    BY <1>5, <2>1, <2>2, <2>3, <2>4, <2>5, <2>6
<1> QED
  BY <1>1, <1>2, <1>3, <1>4, <1>5 DEF Step

LEMMA RemoveUndoes ==
  ASSUME IInv, NEW p \in Procs, Remove(p), NEW l \in Locations, files'[l] # files[l]
  PROVE  files'[l] = Nil /\ UndoesInstall(p, l)
<1>1. pc[p] = "remove" /\ pc[p] \in Installed /\ FilesInOrder
  BY CallFacts DEF Remove, Installed
<1>2. call[p].at = l /\ files'[l] = Nil
  BY <1>1, InstalledFacts DEF Remove, FilesInOrder
<1>3. /\ call[p].file = files[l] /\ call[p].held \in Genuine
      /\ Kept(disk[files[l]].image)
  BY <1>1, <1>2, InstalledFacts DEF Here, Handle
<1>4. \/ marked[l]
      \/ call[p].then = "failed"
      \/ Damaged(files[l])
      \/ Outgrown(Materialized(call[p].held), disk[files[l]].image)
  BY <1>1, <1>2, <1>3, CallFacts DEF InOrder, Owns
<1>5. Collected(disk[files[l]].image) = call[p].held =>
        ~Outgrown(Materialized(call[p].held), disk[files[l]].image)
  <2>1. disk[files[l]].image \in Images
    BY <1>3 DEF Kept
  <2>2. Len(disk[files[l]].image.events) \in Nat
    BY <2>1 DEF Images
  <2> QED
    BY <1>3, <2>2, CollectedGenuine DEF Outgrown
<1> QED
  BY <1>1, <1>2, <1>3, <1>4, <1>5 DEF UndoesInstall

LEMMA FinishedKept ==
  ASSUME IInv, NEW p \in Procs, Step(p) \/ Crash(p),
         NEW dir \in Directories, Finished(dir)
  PROVE  artifacts'[dir] = artifacts[dir]
<1>1. artifacts[dir] # Nil /\ (call[p].dir = dir => call[p].op # "client")
  BY DEF Finished, Verifies, Sealed
<1>2. CASE Backup(p) \/ ExportDirectory(p)
  <2>1. PICK x \in Directories : MakeDirectory(p, x)
    BY <1>2 DEF Backup, ExportDirectory
  <2> QED
    BY <1>1, <2>1 DEF MakeDirectory
<1>3. CASE CopyPayload(p) \/ WritePayload(p) \/ Seal(p) \/ BackupFails(p)
  <2>1. pc[p] \in Serving
    BY <1>3 DEF CopyPayload, WritePayload, Seal, BackupFails, Serving, Storing
  <2>2. call[p].dir # dir
    BY <1>1, <2>1, ServingFacts
  <2>3. PICK a : artifacts' = [artifacts EXCEPT ![call[p].dir] = a]
    <3>1. CASE CopyPayload(p)
      BY <3>1 DEF CopyPayload
    <3>2. CASE WritePayload(p)
      BY <3>2 DEF WritePayload
    <3>3. CASE Seal(p)
      BY <3>3 DEF Seal
    <3>4. CASE BackupFails(p)
      BY <3>4 DEF BackupFails
    <3> QED
      BY <1>3, <3>1, <3>2, <3>3, <3>4
  <2> QED
    BY <2>2, <2>3
<1>4. CASE \/ Open(p) \/ Connect(p) \/ Probe(p) \/ Write(p) \/ Close(p) \/ Crash(p)
           \/ InspectPayload(p) \/ Export(p) \/ VerifyOwn(p)
  BY <1>4 DEF Open, OpenAt, Connect, Probe, Write, Close, Crash, InspectPayload, Export,
              VerifyOwn
<1>5. CASE \/ Restore(p) \/ Stage(p) \/ Install(p) \/ Reopen(p) \/ Compare(p) \/ Remove(p)
           \/ Restored(p) \/ VerifyRecovery(p) \/ Recovered(p)
  <2>1. CASE Restore(p)
    BY <2>1 DEF Restore, VerifyArtifact
  <2>2. CASE Stage(p)
    BY <2>2 DEF Stage
  <2>3. CASE Install(p)
    BY <2>3 DEF Install
  <2>4. CASE Reopen(p)
    BY <2>4 DEF Reopen
  <2>5. CASE Compare(p)
    BY <2>5 DEF Compare
  <2>6. CASE Remove(p)
    BY <2>6 DEF Remove
  <2>7. CASE Restored(p)
    BY <2>7 DEF Restored
  <2>8. CASE VerifyRecovery(p)
    BY <2>8 DEF VerifyRecovery, VerifyArtifact
  <2>9. CASE Recovered(p)
    BY <2>9 DEF Recovered
  <2> QED
    BY <1>5, <2>1, <2>2, <2>3, <2>4, <2>5, <2>6, <2>7, <2>8, <2>9
<1>6. CASE \/ LookForFile(p) \/ OpenRaw(p) \/ InspectMigration(p) \/ Diagnose(p) \/ Mark(p)
  BY <1>6 DEF LookForFile, OpenRaw, InspectMigration, Diagnose, Mark
<1>7. CASE \/ Inspect(p) \/ Recover(p) \/ Initialise(p) \/ Create(p) \/ CreateOrOpen(p)
           \/ Confirm(p)
  <2>1. CASE Inspect(p)
    BY <2>1 DEF Inspect
  <2>2. CASE Recover(p)
    BY <2>2 DEF Recover
  <2>3. CASE Initialise(p)
    BY <2>3 DEF Initialise
  <2>4. CASE Create(p)
    BY <2>4 DEF Create
  <2>5. CASE CreateOrOpen(p)
    BY <2>5 DEF CreateOrOpen, OpenAt
  <2>6. CASE Confirm(p)
    BY <2>6 DEF Confirm
  <2> QED
    BY <1>7, <2>1, <2>2, <2>3, <2>4, <2>5, <2>6
<1> QED
  BY <1>2, <1>3, <1>4, <1>5, <1>6, <1>7 DEF Step

LEMMA DamageKeepsManifest ==
  ASSUME IInv, DamagePayload, NEW dir \in Directories, artifacts'[dir] # artifacts[dir]
  PROVE  artifacts'[dir] # Nil /\ artifacts'[dir].manifest = artifacts[dir].manifest
<1>1. PICK x \in Directories :
        /\ artifacts[x] # Nil /\ artifacts[x].payload # Nil
        /\ artifacts' = [artifacts EXCEPT ![x].payload.intact = FALSE]
  BY DEF DamagePayload
<1>2. artifacts \in [Directories -> Artifacts \cup {Nil}]
  BY CallFacts DEF IInv, WorldInOrder, ArtifactsInOrder
<1>3. PICK b \in Artifacts : b = artifacts[x] /\ b.payload \in Payloads
  BY <1>1, <1>2 DEF Artifacts
<1>4. PICK a : a = [b EXCEPT !.payload.intact = FALSE]
  OBVIOUS
<1>5. a \in Artifacts /\ a.manifest = b.manifest
  BY <1>3, <1>4 DEF Artifacts, Payloads
<1>6. artifacts' = [artifacts EXCEPT ![x] = a]
  BY <1>1, <1>2, <1>3, <1>4
<1>7. dir = x /\ artifacts'[dir] = a
  BY <1>2, <1>6
<1> QED
  BY <1>3, <1>5, <1>7, FilesAssumption

\* A database is taken away only by the restore that installed it, when it may
\* not be or could not be opened or read, is damaged, or is not what was installed
\* any more; a finished
\* artifact is neither overwritten nor removed by any step of any process.
THEOREM NothingReplaced == Spec => NothingIsReplaced
<1>1. ASSUME IInv, [Next]_vars, NEW l \in Locations, files[l] # Nil, files'[l] # files[l]
      PROVE  files'[l] = Nil /\ \E p \in Procs : UndoesInstall(p, l)
  <2>1. PICK p \in Procs : Step(p) \/ Crash(p)
    BY <1>1 DEF Next, vars, DamageFile, DamagePayload
  <2>2. Remove(p)
    BY <1>1, <2>1, FilesKept
  <2> QED
    BY <1>1, <2>2, RemoveUndoes
<1>2. ASSUME IInv, [Next]_vars, NEW dir \in Directories,
             artifacts'[dir] # artifacts[dir], Finished(dir)
      PROVE  artifacts'[dir] # Nil /\ artifacts'[dir].manifest = artifacts[dir].manifest
  <2>1. CASE DamagePayload
    BY <1>2, <2>1, DamageKeepsManifest
  <2>2. CASE DamageFile \/ UNCHANGED vars
    BY <1>2, <2>2 DEF DamageFile, vars
  <2>3. CASE \E p \in Procs : Step(p) \/ Crash(p)
    BY <1>2, <2>3, FinishedKept
  <2> QED
    BY <1>2, <2>1, <2>2, <2>3 DEF Next
<1>3. IInv /\ [Next]_vars =>
        [/\ \A l \in Locations :
              files[l] # Nil /\ files'[l] # files[l] =>
                files'[l] = Nil /\ \E p \in Procs : UndoesInstall(p, l)
         /\ \A dir \in Directories : artifacts'[dir] # artifacts[dir] /\ Finished(dir) =>
              /\ artifacts'[dir] # Nil
              /\ artifacts'[dir].manifest = artifacts[dir].manifest]_vars
  BY <1>1, <1>2
<1> QED
  BY <1>3, FilesInvariance, PTL DEF Spec, NothingIsReplaced
==============================================================================
