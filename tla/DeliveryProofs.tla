--------------------------- MODULE DeliveryProofs ---------------------------
(***************************************************************************)
(* Theorems about Delivery.tla, for any number of recordings, any quota    *)
(* and any set of faults: type correctness, that no kept clip is lost, and *)
(* that the two senders never share a recording.                           *)
(***************************************************************************)
EXTENDS Delivery, FiniteSetTheorems, FunctionTheorems, TLAPS

-----------------------------------------------------------------------------
\* Facts about paths and the helpers on disk.

\* The path shapes the actions build are paths; a note's only if its depth
\* is within the bound.
LEMMA PathFacts ==
  /\ \A c \in Clip : ClipName(c) \in Name
  /\ \A p \in Path, d \in Dir : InDir(p, d) \in Path
  /\ \A p \in Path : p.name.depth < MaxDepth => NoteOf(p) \in Path
  /\ NoSend \in [file : Path, isNote : BOOLEAN,
                 answer : {"yes", "no", "raised"}]
  BY DeliveryAssumption
  DEF Path, Name, Clip, Dir, ClipName, InDir, NoteOf, NoSend

\* Disk updates keep disk a function from paths to times.
LEMMA DiskFacts ==
  ASSUME disk \in [Path -> Nat], NEW p \in Path
  PROVE  /\ Unlinked(p) \in [Path -> Nat]
         /\ \A d \in Dir : Renamed(p, d) \in [Path -> Nat]
         /\ \A t \in Nat : [disk EXCEPT ![p] = t] \in [Path -> Nat]
  BY PathFacts DEF Unlinked, Renamed

\* The usage is a number: there are finitely many paths.
LEMMA UsageFinite == Usage \in Nat
<1>1. IsFiniteSet(Clip)
  BY FS_Interval, DeliveryAssumption DEF Clip
<1>2. IsFiniteSet(0..MaxDepth)
  BY FS_Interval, DeliveryAssumption
<1>3. IsFiniteSet(Clip \X (0..MaxDepth))
  BY <1>1, <1>2, FS_Product
<1> DEFINE f ==
      [x \in Clip \X (0..MaxDepth) |-> [clip |-> x[1], depth |-> x[2]]]
<1>4. f \in Surjection(Clip \X (0..MaxDepth), Name)
  <2>1. f \in [Clip \X (0..MaxDepth) -> Name]
    BY DEF Name
  <2>2. ASSUME NEW n \in Name
        PROVE  \E x \in Clip \X (0..MaxDepth) : f[x] = n
    <3>1. <<n.clip, n.depth>> \in Clip \X (0..MaxDepth)
      BY DEF Name
    <3>2. f[<<n.clip, n.depth>>] = n
      BY <3>1 DEF Name
    <3> QED
      BY <3>1, <3>2
  <2> QED
    BY <2>1, <2>2, Fun_IsSurj
<1>5. IsFiniteSet(Name)
  BY <1>3, <1>4, FS_Surjection
<1>6. IsFiniteSet(Dir)
  <2>1. IsFiniteSet({"tmp"} \cup {"recordings"} \cup {"pending"})
    BY FS_Singleton, FS_Union
  <2>2. Dir = {"tmp"} \cup {"recordings"} \cup {"pending"}
    BY DEF Dir
  <2> QED
    BY <2>1, <2>2
<1>7. IsFiniteSet(Dir \X Name)
  BY <1>5, <1>6, FS_Product
<1> DEFINE g == [x \in Dir \X Name |-> [dir |-> x[1], name |-> x[2]]]
<1>8. g \in Surjection(Dir \X Name, Path)
  <2>1. g \in [Dir \X Name -> Path]
    BY DEF Path
  <2>2. ASSUME NEW p \in Path
        PROVE  \E x \in Dir \X Name : g[x] = p
    <3>1. <<p.dir, p.name>> \in Dir \X Name
      BY DEF Path
    <3>2. g[<<p.dir, p.name>>] = p
      BY <3>1 DEF Path
    <3> QED
      BY <3>1, <3>2
  <2> QED
    BY <2>1, <2>2, Fun_IsSurj
<1>9. IsFiniteSet(Path)
  BY <1>7, <1>8, FS_Surjection
<1>10. \A d : IsFiniteSet(In(d))
  BY <1>9, FS_Subset DEF In
<1> QED
  BY <1>10, FS_CardinalityType DEF Usage
-----------------------------------------------------------------------------
(***************************************************************************)
(* The inductive invariant.  No clip is lost because each removal of a     *)
(* clip's file has an excuse that other parts of the state carry: what is  *)
(* marked delivered was received (CallOK), what is discarded was never     *)
(* kept (LiveOK), a note's name is never a clip's.  The senders are kept   *)
(* apart by where their files come from: the live clip is the newest and   *)
(* outside pending_dir, everything the drain has listed is in pending_dir  *)
(* and older (HandedOver).                                                 *)
(***************************************************************************)
Measuring == {"measure", "reconvert", "remeasure"}
InCall == Measuring \cup {"open", "inflight", "cleanup", "settle", "stamp"}

CallOK ==
  \A s \in Sender :
    /\ pc[s] \notin InCall => ~send[s].isNote /\ send[s].answer = "no"
    /\ pc[s] \in Measuring \/ send[s].isNote => File(s).name.depth < MaxDepth
    /\ send[s].answer = "yes" => File(s).name \in received
    /\ pc[s] = "stamp" => send[s].answer = "yes"

LiveOK ==
  pc["live"] # "idle" =>
    /\ recorded \in Clip
    /\ File("live").name = ClipName(recorded)
    /\ File("live").dir \in {"tmp", "recordings"}
    /\ pc["live"] # "stamp" => Exists(File("live"))
    /\ pc["live"] \in {"record", "discard"} => recorded \notin kept

HandedOver(p) == /\ p \in Path /\ p.dir = "pending"
                 /\ p.name.clip <= recorded
                 /\ pc["live"] # "idle" => p.name.clip # recorded

PendingOK == /\ \A p \in In("pending") : HandedOver(p)
             /\ \A s \in Sender : \A e \in queue[s] : HandedOver(e.path)
             /\ RetryBusy => HandedOver(File("retry"))

KeptOK == kept \subseteq 1..recorded

IInv == TypeOK /\ CallOK /\ LiveOK /\ PendingOK /\ KeptOK /\ NoClipLost


\* A step loses no clip if it keeps a file of every kept clip, or has an
\* excuse for it, and takes none of the excuses back.
LEMMA NoClipLostStep ==
  ASSUME TypeOK, NoClipLost, kept' = kept,
         received \subseteq received', pruned \subseteq pruned',
         \A q \in Path :
           Exists(q) /\ q.name.depth = 0 /\ q.name.clip \in kept =>
             \/ \E r \in Path : r.name = q.name /\ Exists(r)'
             \/ q.name \in received'
             \/ q.name.clip \in pruned'
  PROVE  NoClipLost'
<1> SUFFICES ASSUME NEW c \in kept
             PROVE  OnDisk(c)' \/ ClipName(c) \in received' \/ c \in pruned'
  BY DEF NoClipLost
<1>1. c \in Clip
  BY DEF TypeOK
<1>2. CASE OnDisk(c)
  <2>1. PICK d \in Dir : Exists([dir |-> d, name |-> ClipName(c)])
    BY <1>2 DEF OnDisk
  <2> DEFINE q == [dir |-> d, name |-> ClipName(c)]
  <2>2. /\ q \in Path /\ q.name = ClipName(c)
        /\ q.name.depth = 0 /\ q.name.clip = c
    BY <1>1, PathFacts DEF Path, ClipName
  <2>3. CASE \E r \in Path : r.name = q.name /\ Exists(r)'
    <3>1. PICK r \in Path : r.name = q.name /\ Exists(r)'
      BY <2>3
    <3>2. r = [dir |-> r.dir, name |-> ClipName(c)] /\ r.dir \in Dir
      BY <3>1, <2>2 DEF Path
    <3> QED
      BY <3>1, <3>2 DEF OnDisk
  <2> QED
    BY <2>1, <2>2, <2>3
<1>3. CASE ~OnDisk(c)
  BY <1>3 DEF NoClipLost
<1> QED
  BY <1>2, <1>3

\* A call's fields keep their types one at a time.
LEMMA SendFacts ==
  ASSUME TypeOK, NEW s \in Sender, NEW p \in Path, NEW b \in BOOLEAN,
         NEW a \in {"yes", "no", "raised"}
  PROVE  LET Sends == [Sender -> [file : Path, isNote : BOOLEAN,
                                  answer : {"yes", "no", "raised"}]]
         IN  /\ [send EXCEPT ![s].file = p] \in Sends
             /\ [send EXCEPT ![s].isNote = b] \in Sends
             /\ [send EXCEPT ![s].answer = a] \in Sends
  BY DEF TypeOK, File, Path

\* What the type of the state says of the file in a sender's hands.
LEMMA FileFacts ==
  ASSUME TypeOK, NEW s \in Sender
  PROVE  /\ File(s) \in Path /\ File(s).name \in Name
         /\ File(s).name.clip \in Clip /\ File(s).name.depth \in Nat
  BY DEF TypeOK, File, Path, Name

\* BeginRecording keeps the invariant.
LEMMA Step_BeginRecording ==
  ASSUME IInv, BeginRecording
  PROVE  IInv'
<1> DEFINE p == [dir |-> "tmp", name |-> ClipName(recorded + 1)]
<1>0. recorded + 1 \in Clip /\ p \in Path
  BY PathFacts, DeliveryAssumption
  DEF IInv, BeginRecording, TypeOK, Clip, Path, Dir
<1>1. TypeOK'
  BY <1>0
  DEF TypeOK, Clip, BeginRecording, IsInCooldown, IInv, Goto, Controls, Sender,
      gate, ghosts
<1>2. CallOK'
  BY DEF CallOK, BeginRecording, IInv, Goto, File, InCall, Measuring, ghosts
<1>3. LiveOK'
  BY <1>0
  DEF LiveOK, TypeOK, KeptOK, BeginRecording, IInv, Goto, File, ghosts, Exists
<1>4. PendingOK'
  BY DEF PendingOK, HandedOver, TypeOK, In, Path, Name, Clip, BeginRecording,
         IInv, Goto, File, Exists, RetryBusy
<1>5. KeptOK'
  BY DEF KeptOK, TypeOK, BeginRecording, IInv, ghosts
<1>6. NoClipLost'
  <2>1. ASSUME NEW q \in Path, Exists(q), q.name.depth = 0,
               q.name.clip \in kept
        PROVE  \/ \E r \in Path : r.name = q.name /\ Exists(r)'
               \/ q.name \in received'
               \/ q.name.clip \in pruned'
    BY <2>1 DEF BeginRecording, TypeOK, IInv, Exists
  <2> QED
    BY <2>1, NoClipLostStep DEF IInv, BeginRecording, ghosts, local
<1> QED
  BY <1>1, <1>2, <1>3, <1>4, <1>5, <1>6 DEF IInv

\* EndRecording keeps the invariant.
LEMMA Step_EndRecording ==
  ASSUME IInv, EndRecording
  PROVE  IInv'
<1>0. /\ File("live").name.clip = recorded /\ File("live") \in Path
      /\ recorded \in Clip
  BY DEF IInv, EndRecording, LiveOK, TypeOK, ClipName, Sender, File
<1>a. kept' \subseteq kept \cup {recorded}
  BY <1>0 DEF EndRecording
<1>1. TypeOK'
  <2>1. disk' \in [Path -> Nat]
    BY DEF TypeOK, EndRecording, IInv
  <2>2. pc' \in [Sender -> Controls]
    BY DEF TypeOK, EndRecording, IInv, Goto, Controls
  <2>3. send' \in [Sender -> [file : Path, isNote : BOOLEAN,
                              answer : {"yes", "no", "raised"}]]
    BY DEF TypeOK, EndRecording, IInv
  <2>4. queue' \in [Sender -> SUBSET [path : Path, mtime : Nat]]
    BY DEF TypeOK, EndRecording, IInv
  <2>5. total' \in Nat /\ recorded' \in 0..MaxClips
    BY DEF TypeOK, EndRecording, IInv
  <2>6. /\ inCooldown' \in BOOLEAN /\ notifications' \in BOOLEAN
        /\ last' \in {"never", "within", "past"}
    BY DEF TypeOK, EndRecording, IInv, gate
  <2>7. received' \subseteq Name
    BY DEF TypeOK, EndRecording, IInv
  <2>8. kept' \subseteq Clip /\ pruned' \subseteq Clip
    BY <1>0, <1>a DEF TypeOK, EndRecording, IInv
  <2> QED
    BY <2>1, <2>2, <2>3, <2>4, <2>5, <2>6, <2>7, <2>8 DEF TypeOK
<1>2. CallOK'
  BY DEF CallOK, TypeOK, EndRecording, IInv, Goto, File, InCall, Measuring
<1>3. LiveOK'
  BY DEF LiveOK, TypeOK, EndRecording, IInv, Goto, File, Sender, Exists
<1>4. PendingOK'
  <2>1. /\ UNCHANGED <<disk, send, queue, recorded>>
        /\ pc["live"] # "idle" /\ pc'["retry"] = pc["retry"]
    BY DEF EndRecording, IInv, TypeOK, Goto, Sender
  <2>2. In("pending")' = In("pending") /\ File("retry")' = File("retry")
        /\ (RetryBusy' <=> RetryBusy)
    BY <2>1 DEF In, Exists, File, RetryBusy
  <2>3. \A p : HandedOver(p) => HandedOver(p)'
    BY <2>1 DEF HandedOver
  <2> QED
    BY <2>1, <2>2, <2>3 DEF IInv, PendingOK
<1>5. KeptOK'
  BY <1>0, <1>a DEF KeptOK, EndRecording, IInv, Clip
<1>6. NoClipLost'
  <2>1. OnDisk(recorded)
    BY <1>0
    DEF IInv, EndRecording, LiveOK, OnDisk, ClipName, Exists, Dir, File, Path
  <2>2. /\ kept' \subseteq kept \cup {recorded} /\ disk' = disk
        /\ received' = received /\ pruned' = pruned
    BY <1>0 DEF EndRecording
  <2> QED
    BY <2>1, <2>2 DEF IInv, NoClipLost, OnDisk, Exists
<1> QED
  BY <1>1, <1>2, <1>3, <1>4, <1>5, <1>6 DEF IInv

\* FailRecording keeps the invariant.
LEMMA Step_FailRecording ==
  ASSUME IInv, FailRecording
  PROVE  IInv'
<1>1. TypeOK'
  <2>1. disk' \in [Path -> Nat]
    BY DEF TypeOK, Unlinked, FailRecording, IInv, File, Sender
  <2>2. pc' \in [Sender -> Controls]
    BY DEF TypeOK, FailRecording, IInv, Goto, Controls
  <2>3. send' \in [Sender -> [file : Path, isNote : BOOLEAN,
                              answer : {"yes", "no", "raised"}]]
    BY PathFacts DEF TypeOK, FailRecording, IInv, Return
  <2>4. queue' \in [Sender -> SUBSET [path : Path, mtime : Nat]]
    BY DEF TypeOK, FailRecording, IInv
  <2>5. total' \in Nat /\ recorded' \in 0..MaxClips
    BY DEF TypeOK, FailRecording, IInv
  <2>6. /\ inCooldown' \in BOOLEAN /\ notifications' \in BOOLEAN
        /\ last' \in {"never", "within", "past"}
    BY DEF TypeOK, FailRecording, IInv, gate
  <2>7. received' \subseteq Name
    BY DEF TypeOK, FailRecording, IInv, ghosts
  <2>8. kept' \subseteq Clip /\ pruned' \subseteq Clip
    BY DEF TypeOK, FailRecording, IInv, ghosts
  <2> QED
    BY <2>1, <2>2, <2>3, <2>4, <2>5, <2>6, <2>7, <2>8 DEF TypeOK
<1>2. CallOK'
  BY DEF CallOK, Measuring, TypeOK, FailRecording, IInv, Goto, Return, File, NoSend,
         ghosts
<1>3. LiveOK'
  BY DEF LiveOK, TypeOK, FailRecording, IInv, Goto, Sender
<1>4. PendingOK'
  BY DEF PendingOK, HandedOver, In, Unlinked, FailRecording, IInv, Goto,
         Return, File, Exists, RetryBusy
<1>5. KeptOK'
  BY DEF KeptOK, FailRecording, IInv, ghosts
<1>6. NoClipLost'
  <2>1. ASSUME NEW q \in Path, Exists(q), q.name.depth = 0,
               q.name.clip \in kept
        PROVE  \/ \E r \in Path : r.name = q.name /\ Exists(r)'
               \/ q.name \in received'
               \/ q.name.clip \in pruned'
    BY <2>1 DEF FailRecording, LiveOK, Unlinked, ClipName, IInv, Exists
  <2> QED
    BY <2>1, NoClipLostStep DEF IInv, FailRecording, ghosts, local
<1> QED
  BY <1>1, <1>2, <1>3, <1>4, <1>5, <1>6 DEF IInv

\* Discard keeps the invariant.
LEMMA Step_Discard ==
  ASSUME IInv, Discard
  PROVE  IInv'
<1>1. TypeOK'
  BY PathFacts
  DEF TypeOK, Unlinked, Discard, IInv, Goto, Return, File, Controls, Sender,
      gate, ghosts
<1>2. CallOK'
  BY DEF CallOK, Measuring, TypeOK, Discard, IInv, Goto, Return, File, NoSend,
     ghosts
<1>3. LiveOK'
  BY DEF LiveOK, TypeOK, Discard, IInv, Goto, Sender
<1>4. PendingOK'
  BY DEF PendingOK, HandedOver, In, Unlinked, Discard, IInv, Goto, Return,
         File, Exists, RetryBusy
<1>5. KeptOK'
  BY DEF KeptOK, Discard, IInv, ghosts
<1>6. NoClipLost'
  <2>1. ASSUME NEW q \in Path, Exists(q), q.name.depth = 0,
               q.name.clip \in kept
        PROVE  \/ \E r \in Path : r.name = q.name /\ Exists(r)'
               \/ q.name \in received'
               \/ q.name.clip \in pruned'
    BY <2>1 DEF Discard, LiveOK, Unlinked, ClipName, IInv, Exists
  <2> QED
    BY <2>1, NoClipLostStep DEF IInv, Discard, ghosts, local
<1> QED
  BY <1>1, <1>2, <1>3, <1>4, <1>5, <1>6 DEF IInv

\* SaveTemp keeps the invariant.
LEMMA Step_SaveTemp ==
  ASSUME IInv, SaveTemp
  PROVE  IInv'
<1>0. File("live") \in Path /\ InDir(File("live"), StagingDir) \in Path
  BY FileFacts, PathFacts DEF IInv, Sender, Dir, StagingDir
<1>a. \/ disk' = disk /\ send' = send
      \/ /\ Exists(File("live")) /\ disk' = Renamed(File("live"), StagingDir)
         /\ send' = [send EXCEPT !["live"].file = InDir(File("live"), StagingDir)]
  BY DEF SaveTemp, File
<1>b. /\ pc["live"] = "save" /\ pc' = [pc EXCEPT !["live"] = "quota"]
      /\ UNCHANGED <<queue, total, inCooldown, recorded, gate, ghosts>>
  BY DEF SaveTemp, Goto
<1>1. TypeOK'
  BY <1>0, <1>a, <1>b DEF TypeOK, Renamed, IInv, Controls, Sender, gate, ghosts
<1>2. CallOK'
  BY <1>0, <1>a, <1>b, PathFacts
  DEF CallOK, TypeOK, InDir, IInv, File, Sender, InCall, Measuring, ghosts
<1>3. LiveOK'
  BY <1>0, <1>a, <1>b
  DEF LiveOK, TypeOK, Renamed, InDir, StagingDir, IInv, File, Sender, Exists
<1>4. PendingOK'
  BY <1>0, <1>a, <1>b, DiskFacts, DeliveryAssumption, PathFacts
  DEF PendingOK, HandedOver, TypeOK, LiveOK, CallOK, In, Renamed, InDir,
      StagingDir, Path, Name, ClipName, Clip, KeptOK, IInv, Goto, File, Sender,
      gate, ghosts, Exists, MayFail, RetryBusy
<1>5. KeptOK'
  BY DEF KeptOK, SaveTemp, IInv, ghosts
<1>6. NoClipLost'
  <2>1. ASSUME NEW q \in Path, Exists(q), q.name.depth = 0,
               q.name.clip \in kept
        PROVE  \/ \E r \in Path : r.name = q.name /\ Exists(r)'
               \/ q.name \in received'
               \/ q.name.clip \in pruned'
    BY <2>1
    DEF SaveTemp, TypeOK, Renamed, InDir, StagingDir, Path, Dir, IInv, Exists
  <2> QED
    BY <2>1, NoClipLostStep DEF IInv, SaveTemp, ghosts, local
<1> QED
  BY <1>1, <1>2, <1>3, <1>4, <1>5, <1>6 DEF IInv

\* MeasureUsage keeps the invariant.
LEMMA Step_MeasureUsage ==
  ASSUME IInv, MeasureUsage
  PROVE  IInv'
<1>1. TypeOK'
  BY UsageFinite DEF TypeOK, MeasureUsage, IInv, Goto, Controls, gate, ghosts
<1>2. CallOK'
  BY DEF CallOK, TypeOK, MeasureUsage, IInv, Goto, File, InCall, Measuring, ghosts
<1>3. LiveOK'
  BY DEF LiveOK, TypeOK, MeasureUsage, IInv, Goto, File, Exists
<1>4. PendingOK'
  BY DEF PendingOK, HandedOver, TypeOK, In, MeasureUsage, IInv, Goto, File,
         Sender, Exists, RetryBusy
<1>5. KeptOK'
  BY DEF KeptOK, MeasureUsage, IInv, ghosts
<1>6. NoClipLost'
  BY DEF IInv, NoClipLost, OnDisk, Exists, MeasureUsage, local, gate, ghosts
<1> QED
  BY <1>1, <1>2, <1>3, <1>4, <1>5, <1>6 DEF IInv

\* ListForPruning keeps the invariant.
LEMMA Step_ListForPruning ==
  ASSUME IInv, ListForPruning
  PROVE  IInv'
<1>1. TypeOK'
  BY DEF TypeOK, In, Entries, Listing, ListForPruning, IInv, Goto, Controls,
         Sender, gate, ghosts
<1>2. CallOK'
  BY DEF CallOK, ListForPruning, IInv, Goto, File, InCall, Measuring, ghosts
<1>3. LiveOK'
  BY DEF LiveOK, ListForPruning, IInv, Goto, File, Exists
<1>4. PendingOK'
  BY DEF PendingOK, HandedOver, In, Entries, Listing, ListForPruning, IInv,
         Goto, File, Exists, RetryBusy
<1>5. KeptOK'
  BY DEF KeptOK, ListForPruning, IInv, ghosts
<1>6. NoClipLost'
  BY DEF IInv, NoClipLost, OnDisk, Exists, ListForPruning, local, gate, ghosts
<1> QED
  BY <1>1, <1>2, <1>3, <1>4, <1>5, <1>6 DEF IInv

\* PruneOldest keeps the invariant.
LEMMA Step_PruneOldest ==
  ASSUME IInv, PruneOldest
  PROVE  IInv'
<1>0. \A e \in queue["live"] : e.path \in Path /\ e.path.name.clip \in Clip
  BY DEF IInv, TypeOK, Path, Name, Sender
<1>a. \/ pruned' = pruned
      \/ \E e \in queue["live"] : pruned' = pruned \cup {e.path.name.clip}
  BY DEF PruneOldest, Oldest
<1>1. TypeOK'
  <2>1. disk' \in [Path -> Nat]
    BY DEF TypeOK, Unlinked, PruneOldest, IInv
  <2>2. pc' \in [Sender -> Controls]
    BY DEF TypeOK, PruneOldest, IInv
  <2>3. send' \in [Sender -> [file : Path, isNote : BOOLEAN,
                              answer : {"yes", "no", "raised"}]]
    BY DEF TypeOK, PruneOldest, IInv
  <2>4. queue' \in [Sender -> SUBSET [path : Path, mtime : Nat]]
    BY DEF TypeOK, PruneOldest, IInv, Sender
  <2>5. total' \in Nat /\ recorded' \in 0..MaxClips
    BY DeliveryAssumption DEF TypeOK, PruneOldest, IInv
  <2>6. /\ inCooldown' \in BOOLEAN /\ notifications' \in BOOLEAN
        /\ last' \in {"never", "within", "past"}
    BY DEF TypeOK, PruneOldest, IInv, gate
  <2>7. received' \subseteq Name
    BY DEF TypeOK, PruneOldest, IInv
  <2>8. kept' \subseteq Clip /\ pruned' \subseteq Clip
    BY <1>0, <1>a DEF TypeOK, PruneOldest, IInv
  <2> QED
    BY <2>1, <2>2, <2>3, <2>4, <2>5, <2>6, <2>7, <2>8 DEF TypeOK
<1>2. CallOK'
  BY DEF CallOK, PruneOldest, IInv, File
<1>3. LiveOK'
  BY DEF LiveOK, TypeOK, PendingOK, HandedOver, Unlinked, Oldest, PruneOldest,
         IInv, File, Sender, Exists
<1>4. PendingOK'
  BY DEF PendingOK, HandedOver, TypeOK, In, Unlinked, PruneOldest, IInv, File,
         Exists, RetryBusy
<1>5. KeptOK'
  BY DEF KeptOK, PruneOldest, IInv
<1>6. NoClipLost'
  <2>1. ASSUME NEW q \in Path, Exists(q), q.name.depth = 0,
               q.name.clip \in kept
        PROVE  \/ \E r \in Path : r.name = q.name /\ Exists(r)'
               \/ q.name \in received'
               \/ q.name.clip \in pruned'
    BY <2>1 DEF PruneOldest, TypeOK, Unlinked, IInv, Exists
  <2> QED
    BY <2>1, NoClipLostStep DEF IInv, PruneOldest, ghosts, local
<1> QED
  BY <1>1, <1>2, <1>3, <1>4, <1>5, <1>6 DEF IInv

\* EndPruning keeps the invariant.
LEMMA Step_EndPruning ==
  ASSUME IInv, EndPruning
  PROVE  IInv'
<1>1. TypeOK'
  BY DEF TypeOK, EndPruning, IInv, Goto, Controls, gate, ghosts
<1>2. CallOK'
  BY DEF CallOK, EndPruning, IInv, Goto, File, InCall, Measuring, ghosts
<1>3. LiveOK'
  BY DEF LiveOK, EndPruning, IInv, Goto, File, Exists
<1>4. PendingOK'
  BY DEF PendingOK, HandedOver, In, EndPruning, IInv, Goto, File, Exists,
         RetryBusy
<1>5. KeptOK'
  BY DEF KeptOK, EndPruning, IInv, ghosts
<1>6. NoClipLost'
  BY DEF IInv, NoClipLost, OnDisk, Exists, EndPruning, local, gate, ghosts
<1> QED
  BY <1>1, <1>2, <1>3, <1>4, <1>5, <1>6 DEF IInv

\* MarkFailed keeps the invariant.
LEMMA Step_MarkFailed ==
  ASSUME IInv, MarkFailed
  PROVE  IInv'
<1>0. File("live") \in Path
  BY FileFacts DEF IInv, Sender
<1>1. TypeOK'
  <2>1. disk' \in [Path -> Nat]
    BY <1>0, DiskFacts DEF MarkFailed, Dir, TypeOK, IInv
  <2>2. pc' \in [Sender -> Controls]
    BY DEF TypeOK, MarkFailed, IInv, Goto, Controls
  <2>3. send' \in [Sender -> [file : Path, isNote : BOOLEAN,
                              answer : {"yes", "no", "raised"}]]
    BY PathFacts DEF TypeOK, MarkFailed, IInv, Return
  <2>4. queue' \in [Sender -> SUBSET [path : Path, mtime : Nat]]
    BY DEF TypeOK, MarkFailed, IInv
  <2>5. total' \in Nat /\ recorded' \in 0..MaxClips
    BY DEF TypeOK, MarkFailed, IInv
  <2>6. /\ inCooldown' \in BOOLEAN /\ notifications' \in BOOLEAN
        /\ last' \in {"never", "within", "past"}
    BY DEF TypeOK, MarkFailed, IInv, gate
  <2>7. received' \subseteq Name
    BY DEF TypeOK, MarkFailed, IInv, ghosts
  <2>8. kept' \subseteq Clip /\ pruned' \subseteq Clip
    BY DEF TypeOK, MarkFailed, IInv, ghosts
  <2> QED
    BY <2>1, <2>2, <2>3, <2>4, <2>5, <2>6, <2>7, <2>8 DEF TypeOK
<1>2. CallOK'
  BY DEF CallOK, Measuring, TypeOK, MarkFailed,
         IInv, Goto, Return, File, NoSend, ghosts
<1>3. LiveOK'
  BY DEF LiveOK, TypeOK, MarkFailed, IInv, Goto, Sender
<1>4. PendingOK'
  BY DEF PendingOK, HandedOver, TypeOK, LiveOK, In, Renamed, InDir, ClipName,
         MarkFailed, IInv, Goto, Return, File, Sender, Exists, RetryBusy
<1>5. KeptOK'
  BY DEF KeptOK, MarkFailed, IInv, ghosts
<1>6. NoClipLost'
  <2>1. ASSUME NEW q \in Path, Exists(q), q.name.depth = 0,
               q.name.clip \in kept
        PROVE  \/ \E r \in Path : r.name = q.name /\ Exists(r)'
               \/ q.name \in received'
               \/ q.name.clip \in pruned'
    BY <2>1
    DEF MarkFailed, TypeOK, CallOK, Renamed, InDir, Path, Dir, IInv, Exists
  <2> QED
    BY <2>1, NoClipLostStep DEF IInv, MarkFailed, ghosts, local
<1> QED
  BY <1>1, <1>2, <1>3, <1>4, <1>5, <1>6 DEF IInv

\* Convert keeps the invariant.
LEMMA Step_Convert ==
  ASSUME IInv, NEW s \in Sender, Convert(s)
  PROVE  IInv'
<1>1. TypeOK'
  BY DEF TypeOK, LiveOK, Now, Ended, Clip, Convert, IInv, Goto, Controls,
         Sender, local, gate, ghosts
<1>2. CallOK'
  BY DEF CallOK, TypeOK, Convert, IInv, Goto, File, InCall, Measuring, local, ghosts
<1>3. LiveOK'
  BY DeliveryAssumption, PathFacts
  DEF LiveOK, TypeOK, PendingOK, HandedOver, NoteOf, Now, Ended, Clip, KeptOK,
      ClipName, Convert, IInv, Goto, File, Sender, local, gate, ghosts, Exists
<1>4. PendingOK'
  BY DeliveryAssumption, PathFacts
  DEF PendingOK, HandedOver, TypeOK, LiveOK, CallOK, In, NoteOf, Path, Name,
      ClipName, Clip, KeptOK, Convert, IInv, Goto, File, Sender, local, gate,
      ghosts, Exists, RetryBusy
<1>5. KeptOK'
  BY DEF KeptOK, Convert, IInv, ghosts
<1>6. NoClipLost'
  <2>1. ASSUME NEW q \in Path, Exists(q), q.name.depth = 0,
               q.name.clip \in kept
        PROVE  \/ \E r \in Path : r.name = q.name /\ Exists(r)'
               \/ q.name \in received'
               \/ q.name.clip \in pruned'
    BY <2>1, PathFacts
    DEF Convert, TypeOK, CallOK, LiveOK, NoteOf, ClipName, Now, Ended, Path,
        Name, Dir, PendingOK, HandedOver, KeptOK, Clip, OnDisk, IInv, Goto,
        File, Sender, local, gate, ghosts, Exists
  <2> QED
    BY <2>1, NoClipLostStep DEF IInv, Convert, ghosts, local
<1> QED
  BY <1>1, <1>2, <1>3, <1>4, <1>5, <1>6 DEF IInv

\* MeasureNote keeps the invariant.
LEMMA Step_MeasureNote ==
  ASSUME IInv, NEW s \in Sender, MeasureNote(s)
  PROVE  IInv'
<1>0. /\ \/ send' = [send EXCEPT ![s].isNote = TRUE]
         \/ send' = [send EXCEPT ![s].answer = "raised"]
         \/ send' = send
      /\ File(s) \in Path /\ send \in
           [Sender -> [file : Path, isNote : BOOLEAN,
                       answer : {"yes", "no", "raised"}]]
  BY FileFacts DEF MeasureNote, IInv, TypeOK
<1>a. [send EXCEPT ![s].isNote = TRUE] \in
        [Sender -> [file : Path, isNote : BOOLEAN,
                    answer : {"yes", "no", "raised"}]]
  BY <1>0, SendFacts, Zenon DEF IInv
<1>b. [send EXCEPT ![s].answer = "raised"] \in
        [Sender -> [file : Path, isNote : BOOLEAN,
                    answer : {"yes", "no", "raised"}]]
  BY <1>0, SendFacts DEF IInv
<1>1. TypeOK'
  <2>1. disk' \in [Path -> Nat]
    BY DEF TypeOK, MeasureNote, IInv
  <2>2. pc' \in [Sender -> Controls]
    BY DEF TypeOK, MeasureNote, IInv, Goto, Controls
  <2>3. send' \in [Sender -> [file : Path, isNote : BOOLEAN,
                              answer : {"yes", "no", "raised"}]]
    BY <1>0, <1>a, <1>b
  <2>4. queue' \in [Sender -> SUBSET [path : Path, mtime : Nat]]
    BY DEF TypeOK, MeasureNote, IInv
  <2>5. total' \in Nat /\ recorded' \in 0..MaxClips
    BY <1>0, <1>a, SendFacts, DeliveryAssumption, PathFacts
    DEF TypeOK, CallOK, LiveOK, PendingOK, HandedOver, Clip, MeasureNote, IInv,
        Goto, File, Controls, Sender, gate, ghosts, Exists
  <2>6. /\ inCooldown' \in BOOLEAN /\ notifications' \in BOOLEAN
        /\ last' \in {"never", "within", "past"}
    BY DEF TypeOK, MeasureNote, IInv, gate
  <2>7. received' \subseteq Name
    BY DEF TypeOK, MeasureNote, IInv, ghosts
  <2>8. kept' \subseteq Clip /\ pruned' \subseteq Clip
    BY DEF TypeOK, MeasureNote, IInv, ghosts
  <2> QED
    BY <2>1, <2>2, <2>3, <2>4, <2>5, <2>6, <2>7, <2>8 DEF TypeOK
<1>2. CallOK'
  BY DEF CallOK, TypeOK, MeasureNote, IInv, Goto, File, Sender, InCall,
         Measuring, ghosts
<1>3. LiveOK'
  BY DEF LiveOK, TypeOK, MeasureNote, IInv, Goto, File, Sender, ghosts, Exists
<1>4. PendingOK'
  BY DEF PendingOK, HandedOver, TypeOK, In, MeasureNote, IInv, Goto, File,
         Sender, Exists, RetryBusy
<1>5. KeptOK'
  BY DEF KeptOK, MeasureNote, IInv, ghosts
<1>6. NoClipLost'
  BY DEF IInv, NoClipLost, OnDisk, Exists, MeasureNote, local, gate, ghosts
<1> QED
  BY <1>1, <1>2, <1>3, <1>4, <1>5, <1>6 DEF IInv

\* Reconvert keeps the invariant.
LEMMA Step_Reconvert ==
  ASSUME IInv, NEW s \in Sender, Reconvert(s)
  PROVE  IInv'
<1>1. TypeOK'
  BY DEF TypeOK, LiveOK, Now, Ended, Clip, Reconvert, IInv, Goto, Controls,
         Sender, local, gate, ghosts
<1>2. CallOK'
  BY DEF CallOK, TypeOK, Reconvert, IInv, Goto, File, InCall, Measuring, local,
     ghosts
<1>3. LiveOK'
  BY DeliveryAssumption, PathFacts
  DEF LiveOK, TypeOK, PendingOK, HandedOver, NoteOf, Now, Ended, Clip, KeptOK,
      ClipName, Reconvert, IInv, Goto, File, Sender, local, gate, ghosts, Exists
<1>4. PendingOK'
  BY DeliveryAssumption, PathFacts
  DEF PendingOK, HandedOver, TypeOK, LiveOK, CallOK, In, NoteOf, Path, Name,
      ClipName, Clip, KeptOK, Reconvert, IInv, Goto, File, Sender, local, gate,
      ghosts, Exists, RetryBusy
<1>5. KeptOK'
  BY DEF KeptOK, Reconvert, IInv, ghosts
<1>6. NoClipLost'
  <2>1. ASSUME NEW q \in Path, Exists(q), q.name.depth = 0,
               q.name.clip \in kept
        PROVE  \/ \E r \in Path : r.name = q.name /\ Exists(r)'
               \/ q.name \in received'
               \/ q.name.clip \in pruned'
    BY <2>1, PathFacts
    DEF Reconvert, TypeOK, CallOK, LiveOK, NoteOf, ClipName, Now, Ended, Path,
        Name, Dir, PendingOK, HandedOver, KeptOK, Clip, OnDisk, IInv, Goto,
        File, Sender, local, gate, ghosts, Exists
  <2> QED
    BY <2>1, NoClipLostStep DEF IInv, Reconvert, ghosts, local
<1> QED
  BY <1>1, <1>2, <1>3, <1>4, <1>5, <1>6 DEF IInv

\* ConversionRaises keeps the invariant.
LEMMA Step_ConversionRaises ==
  ASSUME IInv, NEW s \in Sender, ConversionRaises(s)
  PROVE  IInv'
<1>0. /\ send' = [send EXCEPT ![s].answer = "raised"]
      /\ pc[s] \in {"convert", "reconvert"} /\ pc' = [pc EXCEPT ![s] = "settle"]
      /\ UNCHANGED <<disk, queue, total, inCooldown, recorded, gate, ghosts>>
  BY DEF ConversionRaises, Goto
<1>1. TypeOK'
  BY <1>0, SendFacts DEF TypeOK, IInv, Controls, gate, ghosts
<1>2. CallOK'
  BY <1>0 DEF CallOK, TypeOK, IInv, File, InCall, Measuring, ghosts
<1>3. LiveOK'
  BY <1>0 DEF LiveOK, TypeOK, IInv, File, Sender, ghosts, Exists
<1>4. PendingOK'
  BY <1>0 DEF PendingOK, HandedOver, TypeOK, In, IInv, File, Sender, Exists,
     RetryBusy
<1>5. KeptOK'
  BY <1>0 DEF KeptOK, IInv, ghosts
<1>6. NoClipLost'
  BY <1>0 DEF IInv, NoClipLost, OnDisk, Exists, ghosts
<1> QED
  BY <1>1, <1>2, <1>3, <1>4, <1>5, <1>6 DEF IInv

\* OpenAndSend keeps the invariant.
LEMMA Step_OpenAndSend ==
  ASSUME IInv, NEW s \in Sender, OpenAndSend(s)
  PROVE  IInv'
<1>1. TypeOK'
  BY DEF TypeOK, OpenAndSend, IInv, Goto, Controls, local, gate, ghosts
<1>2. CallOK'
  BY DEF CallOK, OpenAndSend, IInv, Goto, File, InCall, Measuring, local, ghosts
<1>3. LiveOK'
  BY DEF LiveOK, OpenAndSend, IInv, Goto, File, local, ghosts, Exists
<1>4. PendingOK'
  BY DeliveryAssumption, PathFacts
  DEF PendingOK, HandedOver, TypeOK, LiveOK, CallOK, In, NoteOf, Path, Name,
      ClipName, Clip, KeptOK, OpenAndSend, IInv, Goto, File, Sender, local,
      gate, ghosts, Exists, RetryBusy
<1>5. KeptOK'
  BY DEF KeptOK, OpenAndSend, IInv, ghosts
<1>6. NoClipLost'
  BY DEF IInv, NoClipLost, OnDisk, Exists, OpenAndSend, local, gate, ghosts
<1> QED
  BY <1>1, <1>2, <1>3, <1>4, <1>5, <1>6 DEF IInv

\* Answer keeps the invariant.
LEMMA Step_Answer ==
  ASSUME IInv, NEW s \in Sender, Answer(s)
  PROVE  IInv'
<1>1. TypeOK'
  <2>1. disk' \in [Path -> Nat]
    BY DEF TypeOK, Answer, IInv
  <2>2. pc' \in [Sender -> Controls]
    BY DEF TypeOK, Answer, IInv, Goto, Controls
  <2>3. send' \in [Sender -> [file : Path, isNote : BOOLEAN,
                              answer : {"yes", "no", "raised"}]]
    BY PathFacts DEF TypeOK, Verdict, Answer, IInv
  <2>4. queue' \in [Sender -> SUBSET [path : Path, mtime : Nat]]
    BY DEF TypeOK, Answer, IInv
  <2>5. total' \in Nat /\ recorded' \in 0..MaxClips
    BY DEF TypeOK, Answer, IInv
  <2>6. /\ inCooldown' \in BOOLEAN /\ notifications' \in BOOLEAN
        /\ last' \in {"never", "within", "past"}
    BY DEF TypeOK, Answer, IInv, gate
  <2>7. received' \subseteq Name
    BY FileFacts DEF Answer, TypeOK, IInv
  <2>8. kept' \subseteq Clip /\ pruned' \subseteq Clip
    BY DEF TypeOK, Answer, IInv
  <2> QED
    BY <2>1, <2>2, <2>3, <2>4, <2>5, <2>6, <2>7, <2>8 DEF TypeOK
<1>2. CallOK'
  BY DEF CallOK, Results, Verdict, Answer, IInv, Goto, File, InCall, Measuring
<1>3. LiveOK'
  BY DEF LiveOK, Answer, IInv, Goto, File, Exists
<1>4. PendingOK'
  BY DEF PendingOK, HandedOver, In, Answer, IInv, Goto, File, Exists, RetryBusy
<1>5. KeptOK'
  BY DEF KeptOK, Answer, IInv
<1>6. NoClipLost'
  BY DEF IInv, NoClipLost, OnDisk, Exists, Answer, local, gate, ghosts
<1> QED
  BY <1>1, <1>2, <1>3, <1>4, <1>5, <1>6 DEF IInv

\* Cancel keeps the invariant.
LEMMA Step_Cancel ==
  ASSUME IInv, NEW s \in Sender, Cancel(s)
  PROVE  IInv'
<1>1. TypeOK'
  <2>1. disk' \in [Path -> Nat]
    BY DEF TypeOK, Cancel, IInv
  <2>2. pc' \in [Sender -> Controls]
    BY DEF TypeOK, Cancel, IInv, Goto, Controls
  <2>3. send' \in [Sender -> [file : Path, isNote : BOOLEAN,
                              answer : {"yes", "no", "raised"}]]
    BY PathFacts DEF TypeOK, Cancel, IInv
  <2>4. queue' \in [Sender -> SUBSET [path : Path, mtime : Nat]]
    BY DEF TypeOK, Cancel, IInv
  <2>5. total' \in Nat /\ recorded' \in 0..MaxClips
    BY DEF TypeOK, Cancel, IInv
  <2>6. /\ inCooldown' \in BOOLEAN /\ notifications' \in BOOLEAN
        /\ last' \in {"never", "within", "past"}
    BY DEF TypeOK, Cancel, IInv, gate
  <2>7. received' \subseteq Name
    BY FileFacts DEF Cancel, TypeOK, IInv
  <2>8. kept' \subseteq Clip /\ pruned' \subseteq Clip
    BY DEF TypeOK, Cancel, IInv
  <2> QED
    BY <2>1, <2>2, <2>3, <2>4, <2>5, <2>6, <2>7, <2>8 DEF TypeOK
<1>2. CallOK'
  BY DEF CallOK, Cancel, IInv, Goto, File, InCall, Measuring
<1>3. LiveOK'
  BY DEF LiveOK, Cancel, IInv, Goto, File, Exists
<1>4. PendingOK'
  BY DEF PendingOK, HandedOver, In, Cancel, IInv, Goto, File, Exists, RetryBusy
<1>5. KeptOK'
  BY DEF KeptOK, Cancel, IInv
<1>6. NoClipLost'
  BY DEF IInv, NoClipLost, OnDisk, Exists, Cancel, local, gate, ghosts
<1> QED
  BY <1>1, <1>2, <1>3, <1>4, <1>5, <1>6 DEF IInv

\* CancelUnstarted keeps the invariant.
LEMMA Step_CancelUnstarted ==
  ASSUME IInv, CancelUnstarted
  PROVE  IInv'
<1>0. /\ send' = [send EXCEPT !["live"].answer = "raised"]
      /\ pc["live"] = "convert" /\ pc' = [pc EXCEPT !["live"] = "settle"]
      /\ UNCHANGED <<disk, queue, total, inCooldown, recorded, gate, ghosts>>
  BY DEF CancelUnstarted, Goto
<1>1. TypeOK'
  BY <1>0, SendFacts DEF TypeOK, IInv, Controls, Sender, gate, ghosts
<1>2. CallOK'
  BY <1>0 DEF CallOK, TypeOK, IInv, File, Sender, InCall, Measuring, ghosts
<1>3. LiveOK'
  BY <1>0 DEF LiveOK, TypeOK, IInv, File, Sender, ghosts, Exists
<1>4. PendingOK'
  BY <1>0 DEF PendingOK, HandedOver, TypeOK, In, IInv, File, Sender, Exists,
     RetryBusy
<1>5. KeptOK'
  BY <1>0 DEF KeptOK, IInv, ghosts
<1>6. NoClipLost'
  BY <1>0 DEF IInv, NoClipLost, OnDisk, Exists, ghosts
<1> QED
  BY <1>1, <1>2, <1>3, <1>4, <1>5, <1>6 DEF IInv

\* RefuseCoroutine keeps the invariant.
LEMMA Step_RefuseCoroutine ==
  ASSUME IInv, RefuseCoroutine
  PROVE  IInv'
<1>0. /\ send' = [send EXCEPT !["live"] = NoSend]
      /\ pc["live"] = "convert" /\ pc' = [pc EXCEPT !["live"] = "idle"]
      /\ UNCHANGED <<disk, queue, total, inCooldown, recorded, gate, ghosts>>
  BY DEF RefuseCoroutine, Goto, Return
<1>1. TypeOK'
  BY <1>0, PathFacts DEF TypeOK, IInv, Controls, Sender, gate, ghosts
<1>2. CallOK'
  BY <1>0 DEF CallOK, Measuring, TypeOK, IInv, File, NoSend, Sender, ghosts
<1>3. LiveOK'
  BY <1>0 DEF LiveOK, TypeOK, IInv, Sender
<1>4. PendingOK'
  BY <1>0 DEF PendingOK, HandedOver, TypeOK, In, IInv, File, Sender, Exists,
     RetryBusy
<1>5. KeptOK'
  BY <1>0 DEF KeptOK, IInv, ghosts
<1>6. NoClipLost'
  BY <1>0 DEF IInv, NoClipLost, OnDisk, Exists, ghosts
<1> QED
  BY <1>1, <1>2, <1>3, <1>4, <1>5, <1>6 DEF IInv

\* Cleanup keeps the invariant.
LEMMA Step_Cleanup ==
  ASSUME IInv, NEW s \in Sender, Cleanup(s)
  PROVE  IInv'
<1>0. /\ File(s) \in Path
      /\ send[s].isNote =>
           NoteOf(File(s)) \in Path /\ File(s).name.depth \in Nat
  BY FileFacts, PathFacts DEF IInv, CallOK, Name
<1>a. \/ disk' = disk /\ send' = send
      \/ send[s].isNote /\ disk' = Unlinked(NoteOf(File(s))) /\ send' = send
      \/ disk' = disk /\ send' = [send EXCEPT ![s].answer = "raised"]
  BY DEF Cleanup
<1>b. pc[s] = "cleanup" /\ pc' = [pc EXCEPT ![s] = "settle"]
      /\ UNCHANGED <<queue, total, inCooldown, recorded, gate, ghosts>>
  BY DEF Cleanup, Goto
<1>1. TypeOK'
  BY <1>a, <1>b DEF TypeOK, Unlinked, IInv, Controls, Sender, gate, ghosts
<1>2. CallOK'
  BY <1>a, <1>b DEF CallOK, TypeOK, IInv, File, Sender, InCall, Measuring, ghosts
<1>3. LiveOK'
  BY <1>0, <1>a, <1>b, SendFacts, DeliveryAssumption, PathFacts
  DEF LiveOK, TypeOK, PendingOK, HandedOver, Unlinked, NoteOf, Clip, KeptOK,
      ClipName, IInv, Goto, File, Sender, gate, ghosts, Exists, MayFail
<1>4. PendingOK'
  BY <1>0, <1>a, <1>b, SendFacts, DeliveryAssumption, PathFacts
  DEF PendingOK, HandedOver, TypeOK, LiveOK, CallOK, In, Unlinked, NoteOf,
      Path, Name, ClipName, Clip, KeptOK, IInv, Goto, File, Sender, gate,
      ghosts, Exists, MayFail, RetryBusy
<1>5. KeptOK'
  BY DEF KeptOK, Cleanup, IInv, ghosts
<1>6. NoClipLost'
  <2>1. ASSUME NEW q \in Path, Exists(q), q.name.depth = 0,
               q.name.clip \in kept
        PROVE  \/ \E r \in Path : r.name = q.name /\ Exists(r)'
               \/ q.name \in received'
               \/ q.name.clip \in pruned'
    BY <2>1, <1>0, <1>a, <1>b, PathFacts
    DEF TypeOK, CallOK, LiveOK, Unlinked, NoteOf, ClipName, Path, Name, Dir,
        PendingOK, HandedOver, KeptOK, Clip, OnDisk, IInv, Goto, File, Sender,
        gate, ghosts, Exists, MayFail
  <2> QED
    BY <2>1, <1>b, NoClipLostStep DEF IInv, ghosts, local
<1> QED
  BY <1>1, <1>2, <1>3, <1>4, <1>5, <1>6 DEF IInv

\* MarkDelivered keeps the invariant.
LEMMA Step_MarkDelivered ==
  ASSUME IInv, NEW s \in Sender, MarkDelivered(s)
  PROVE  IInv'
<1>1. TypeOK'
  BY DEF TypeOK, Unlinked, MarkDelivered, IInv, Goto, File, Controls, local,
         gate, ghosts
<1>2. CallOK'
  BY DEF CallOK, MarkDelivered, IInv, Goto, File, InCall, Measuring, local, ghosts
<1>3. LiveOK'
  BY DEF LiveOK, TypeOK, PendingOK, HandedOver, Unlinked, MarkDelivered, IInv,
         Goto, File, Sender, local, ghosts, Exists, RetryBusy
<1>4. PendingOK'
  BY DEF PendingOK, HandedOver, In, Unlinked, MarkDelivered, IInv, Goto, File,
         local, Exists, RetryBusy
<1>5. KeptOK'
  BY DEF KeptOK, MarkDelivered, IInv, ghosts
<1>6. NoClipLost'
  <2>1. ASSUME NEW q \in Path, Exists(q), q.name.depth = 0,
               q.name.clip \in kept
        PROVE  \/ \E r \in Path : r.name = q.name /\ Exists(r)'
               \/ q.name \in received'
               \/ q.name.clip \in pruned'
    BY <2>1 DEF MarkDelivered, CallOK, Unlinked, IInv, ghosts, Exists
  <2> QED
    BY <2>1, NoClipLostStep DEF IInv, MarkDelivered, ghosts, local
<1> QED
  BY <1>1, <1>2, <1>3, <1>4, <1>5, <1>6 DEF IInv

\* RecordDeliverySuccess keeps the invariant.
LEMMA Step_RecordDeliverySuccess ==
  ASSUME IInv, NEW s \in Sender, RecordDeliverySuccess(s)
  PROVE  IInv'
<1>1. TypeOK'
  BY PathFacts
  DEF TypeOK, RecordDeliverySuccess, IInv, Goto, Return, Controls, ghosts
<1>2. CallOK'
  BY DEF CallOK, Measuring, TypeOK, RecordDeliverySuccess, IInv, Goto, Return, File,
         NoSend, ghosts
<1>3. LiveOK'
  BY DEF LiveOK, TypeOK, RecordDeliverySuccess, IInv, Goto, Return, File,
         ghosts, Exists
<1>4. PendingOK'
  BY DEF PendingOK, HandedOver, TypeOK, In, RecordDeliverySuccess, IInv, Goto,
         Return, File, Exists, RetryBusy
<1>5. KeptOK'
  BY DEF KeptOK, RecordDeliverySuccess, IInv, ghosts
<1>6. NoClipLost'
  BY DEF IInv, NoClipLost, OnDisk, Exists, RecordDeliverySuccess, local, gate,
         ghosts
<1> QED
  BY <1>1, <1>2, <1>3, <1>4, <1>5, <1>6 DEF IInv

\* RetryLater keeps the invariant.
LEMMA Step_RetryLater ==
  ASSUME IInv, RetryLater
  PROVE  IInv'
<1>1. TypeOK'
  BY PathFacts
  DEF TypeOK, RetryLater, IInv, Goto, Return, Controls, gate, ghosts
<1>2. CallOK'
  BY DEF CallOK, Measuring, TypeOK, RetryLater, IInv, Goto, Return, File,
         NoSend, ghosts
<1>3. LiveOK'
  BY DEF LiveOK, TypeOK, RetryLater, IInv, Goto, Return, File, Sender, ghosts,
         Exists
<1>4. PendingOK'
  BY DEF PendingOK, HandedOver, TypeOK, In, RetryLater, IInv, Goto, Sender,
         Exists, RetryBusy
<1>5. KeptOK'
  BY DEF KeptOK, RetryLater, IInv, ghosts
<1>6. NoClipLost'
  BY DEF IInv, NoClipLost, OnDisk, Exists, RetryLater, local, gate, ghosts
<1> QED
  BY <1>1, <1>2, <1>3, <1>4, <1>5, <1>6 DEF IInv

\* BeginDrain keeps the invariant.
LEMMA Step_BeginDrain ==
  ASSUME IInv, BeginDrain
  PROVE  IInv'
<1>1. TypeOK'
  BY DEF TypeOK, In, Entries, Listing, BeginDrain, IInv, Goto, Controls,
         Sender, gate, ghosts
<1>2. CallOK'
  BY DEF CallOK, BeginDrain, IInv, Goto, File, InCall, Measuring, ghosts
<1>3. LiveOK'
  BY DEF LiveOK, BeginDrain, IInv, Goto, File, ghosts, Exists
<1>4. PendingOK'
  BY DEF PendingOK, HandedOver, In, Entries, Listing, BeginDrain, IInv, Goto,
         Exists, RetryBusy
<1>5. KeptOK'
  BY DEF KeptOK, BeginDrain, IInv, ghosts
<1>6. NoClipLost'
  BY DEF IInv, NoClipLost, OnDisk, Exists, BeginDrain, local, gate, ghosts
<1> QED
  BY <1>1, <1>2, <1>3, <1>4, <1>5, <1>6 DEF IInv

\* NextPending keeps the invariant.
LEMMA Step_NextPending ==
  ASSUME IInv, NextPending
  PROVE  IInv'
<1>1. TypeOK'
  BY DEF TypeOK, Oldest, NextPending, IInv, Goto, Controls, Sender, gate,
         ghosts
<1>2. CallOK'
  BY DEF CallOK, NextPending, IInv, Goto, File, InCall, Measuring, ghosts
<1>3. LiveOK'
  BY DEF LiveOK, NextPending, IInv, Goto, File, ghosts, Exists
<1>4. PendingOK'
  BY DEF PendingOK, HandedOver, TypeOK, In, Oldest, NextPending, IInv, Goto,
         File, Sender, Exists
<1>5. KeptOK'
  BY DEF KeptOK, NextPending, IInv, ghosts
<1>6. NoClipLost'
  BY DEF IInv, NoClipLost, OnDisk, Exists, NextPending, local, gate, ghosts
<1> QED
  BY <1>1, <1>2, <1>3, <1>4, <1>5, <1>6 DEF IInv

\* EndDrain keeps the invariant.
LEMMA Step_EndDrain ==
  ASSUME IInv, EndDrain
  PROVE  IInv'
<1>1. TypeOK'
  BY DEF TypeOK, EndDrain, IInv, Goto, Controls, local, gate, ghosts
<1>2. CallOK'
  BY DEF CallOK, EndDrain, IInv, Goto, File, InCall, Measuring, local, ghosts
<1>3. LiveOK'
  BY DEF LiveOK, EndDrain, IInv, Goto, File, local, ghosts, Exists
<1>4. PendingOK'
  BY DEF PendingOK, HandedOver, In, EndDrain, IInv, Goto, local, Exists,
         RetryBusy
<1>5. KeptOK'
  BY DEF KeptOK, EndDrain, IInv, ghosts
<1>6. NoClipLost'
  BY DEF IInv, NoClipLost, OnDisk, Exists, EndDrain, local, gate, ghosts
<1> QED
  BY <1>1, <1>2, <1>3, <1>4, <1>5, <1>6 DEF IInv

\* The cooldown's clock and interval keep the invariant.
LEMMA Step_Cooldown ==
  ASSUME IInv, ElapseCooldown \/ Prolong
  PROVE  IInv'
<1>0. /\ UNCHANGED <<disk, pc, local, recorded, notifications, ghosts>>
      /\ last' \in {"within", "past"}
  BY DEF ElapseCooldown, Prolong
<1>1. TypeOK'
  BY <1>0 DEF TypeOK, IInv, local, ghosts
<1>2. CallOK'
  BY <1>0 DEF CallOK, IInv, File, local, ghosts
<1>3. LiveOK'
  BY <1>0 DEF LiveOK, IInv, File, local, ghosts, Exists
<1>4. PendingOK'
  BY <1>0 DEF PendingOK, HandedOver, In, IInv, File, local, Exists, RetryBusy
<1>5. KeptOK'
  BY <1>0 DEF KeptOK, IInv, ghosts
<1>6. NoClipLost'
  BY <1>0 DEF IInv, NoClipLost, OnDisk, Exists, local, ghosts
<1> QED
  BY <1>1, <1>2, <1>3, <1>4, <1>5, <1>6 DEF IInv

\* ToggleNotifications keeps the invariant.
LEMMA Step_ToggleNotifications ==
  ASSUME IInv, ToggleNotifications
  PROVE  IInv'
<1>1. TypeOK'
  BY DEF TypeOK, ToggleNotifications, IInv, local, ghosts
<1>2. CallOK'
  BY DEF CallOK, ToggleNotifications, IInv, File, local, ghosts
<1>3. LiveOK'
  BY DEF LiveOK, ToggleNotifications, IInv, File, local, ghosts, Exists
<1>4. PendingOK'
  BY DEF PendingOK, HandedOver, In, ToggleNotifications, IInv, File, local,
         Exists, RetryBusy
<1>5. KeptOK'
  BY DEF KeptOK, ToggleNotifications, IInv, ghosts
<1>6. NoClipLost'
  BY DEF IInv, NoClipLost, OnDisk, Exists, ToggleNotifications, local, gate,
         ghosts
<1> QED
  BY <1>1, <1>2, <1>3, <1>4, <1>5, <1>6 DEF IInv

\* The end of the process, crash or not, keeps the invariant.
LEMMA Step_Die ==
  ASSUME IInv, Die
  PROVE  IInv'
<1>1. TypeOK'
  BY PathFacts
  DEF TypeOK, Die, IInv, Controls, gate, ghosts, AllIdle, NoSends, NoQueues
<1>2. CallOK'
  BY DEF CallOK, Measuring, Die, NoSend, AllIdle, NoSends
<1>3. LiveOK'
  BY DEF LiveOK, Die, Sender, AllIdle
<1>4. PendingOK'
  BY DEF PendingOK, HandedOver, In, Die, IInv, Sender, Exists, AllIdle,
         NoQueues, RetryBusy
<1>5. KeptOK'
  BY DEF KeptOK, Die, IInv, ghosts
<1>6. NoClipLost'
  BY DEF IInv, NoClipLost, OnDisk, Exists, Die, local, gate, ghosts
<1> QED
  BY <1>1, <1>2, <1>3, <1>4, <1>5, <1>6 DEF IInv

-----------------------------------------------------------------------------
\* The invariant holds at the start.
LEMMA InitIInv == Init => IInv
<1> SUFFICES ASSUME Init PROVE IInv
  OBVIOUS
<1>1. TypeOK
  <2>1. /\ inCooldown \in BOOLEAN /\ notifications \in BOOLEAN
        /\ last \in {"never", "within", "past"}
    BY DEF Init
  <2>2. disk \in [Path -> Nat] /\ pc \in [Sender -> Controls] /\ total \in Nat
    BY DEF Init, AllIdle, Controls
  <2>3. recorded \in 0..MaxClips
    BY DeliveryAssumption DEF Init
  <2>4. send \in [Sender -> [file : Path, isNote : BOOLEAN,
                            answer : {"yes", "no", "raised"}]]
    BY PathFacts DEF Init, NoSends
  <2>5. queue \in [Sender -> SUBSET [path : Path, mtime : Nat]]
    BY DEF Init, NoQueues
  <2> QED
    BY <2>1, <2>2, <2>3, <2>4, <2>5 DEF Init, TypeOK
<1>2. CallOK /\ LiveOK /\ KeptOK
  BY DEF Init, CallOK, Measuring, LiveOK, KeptOK, AllIdle, NoSends, NoSend, Sender
<1>3. PendingOK
  BY DEF Init, PendingOK, In, Exists, AllIdle, NoQueues, RetryBusy, Sender
<1>4. NoClipLost
  BY DEF Init, NoClipLost
<1> QED
  BY <1>1, <1>2, <1>3, <1>4 DEF IInv

\* Every step keeps the invariant.
LEMMA NextIInv == IInv /\ [Next]_vars => IInv'
<1> SUFFICES ASSUME IInv, [Next]_vars PROVE IInv'
  OBVIOUS
<1>1. CASE MotionThread
  BY <1>1, Step_BeginRecording, Step_EndRecording, Step_FailRecording,
     Step_Discard, Step_SaveTemp, Step_MeasureUsage, Step_ListForPruning,
     Step_PruneOldest, Step_EndPruning, Step_MarkFailed DEF MotionThread
<1>2. ASSUME NEW s \in Sender, SendStep(s) PROVE IInv'
  BY <1>2, Step_Convert, Step_MeasureNote, Step_Reconvert, Step_ConversionRaises,
     Step_OpenAndSend, Step_Answer, Step_Cleanup, Step_MarkDelivered,
     Step_RecordDeliverySuccess DEF SendStep
<1>3. CASE RetryTask
  BY <1>3, Step_RetryLater, Step_BeginDrain, Step_NextPending, Step_EndDrain
     DEF RetryTask
<1>4. CASE ElapseCooldown \/ Prolong \/ ToggleNotifications
  BY <1>4, Step_Cooldown, Step_ToggleNotifications
<1>5. CASE Stop
  BY <1>5, Step_Cancel, Step_CancelUnstarted, Step_RefuseCoroutine DEF Stop
<1>6. CASE EndOfProcess \/ Crash
  BY <1>6, Step_Die DEF EndOfProcess, Crash
<1>7. CASE UNCHANGED vars
  BY <1>7
  DEF vars, local, gate, ghosts, IInv, TypeOK, CallOK, LiveOK, PendingOK, 
     KeptOK, NoClipLost, OnDisk, Exists, In, HandedOver, RetryBusy, File
<1> QED
  BY <1>1, <1>2, <1>3, <1>4, <1>5, <1>6, <1>7 DEF Next

\* The invariant holds in every reachable state.
LEMMA Inductive == Spec => []IInv
  BY InitIInv, NextIInv, PTL DEF Spec

\* The state keeps its shape whatever the environment does.
THEOREM TypeCorrect == Spec => []TypeOK
<1>1. IInv => TypeOK
  BY DEF IInv
<1> QED
  BY <1>1, Inductive, PTL

\* However many clips, crashes and failures there are, a clip recorded outside
\* the cooldown is on disk, received or pruned.
THEOREM ClipsAreNotLost == Spec => []NoClipLost
<1>1. IInv => NoClipLost
  BY DEF IInv
<1> QED
  BY <1>1, Inductive, PTL

\* The motion thread and the drain never work on the same recording.
THEOREM SendersAreApart == Spec => []SingleSender
<1>1. IInv => SingleSender
  <2> SUFFICES ASSUME IInv, LiveBusy, RetryBusy
               PROVE  File("live").name.clip # File("retry").name.clip
    BY DEF SingleSender
  <2>1. pc["live"] # "idle" /\ HandedOver(File("retry"))
    BY DEF IInv, PendingOK, LiveBusy
  <2> QED
    BY <2>1 DEF IInv, LiveOK, HandedOver, ClipName
<1> QED
  BY <1>1, Inductive, PTL

\* Nothing takes the motion thread's clip from under it.
THEOREM LiveFileIsStable == Spec => []LiveFileStays
<1>1. IInv => LiveFileStays
  BY DEF IInv, LiveOK, LiveFileStays, LiveBusy
<1> QED
  BY <1>1, Inductive, PTL

\* Where there is a last delivery, the chat has received something.
Receipted == last # "never" => received # {}

LEMMA NextReceipted == IInv /\ Receipted /\ [Next]_vars => Receipted'
<1> SUFFICES ASSUME IInv, Receipted, [Next]_vars PROVE Receipted'
  OBVIOUS
<1>1. received \subseteq received'
  BY DEF Next, MotionThread, SendStep, RetryTask, BeginRecording, EndRecording,
     FailRecording, Discard, SaveTemp, MeasureUsage, ListForPruning, PruneOldest,
     EndPruning, MarkFailed, Convert, MeasureNote, Reconvert, ConversionRaises,
     OpenAndSend, Answer, Cleanup, MarkDelivered, RecordDeliverySuccess,
     RetryLater, BeginDrain, NextPending, EndDrain, ElapseCooldown, Prolong,
     ToggleNotifications, Stop, Cancel, CancelUnstarted, RefuseCoroutine,
     EndOfProcess, Crash, Die, vars, ghosts
<1>2. CASE \E s \in Sender : RecordDeliverySuccess(s)
  BY <1>1, <1>2 DEF RecordDeliverySuccess, IInv, CallOK, Receipted
<1>3. CASE ~\E s \in Sender : RecordDeliverySuccess(s)
  <2>1. last' # "never" => last # "never"
    BY <1>3 DEF Next, MotionThread, SendStep, RetryTask, BeginRecording,
       EndRecording, FailRecording, Discard, SaveTemp, MeasureUsage,
       ListForPruning, PruneOldest, EndPruning, MarkFailed, Convert, MeasureNote,
       Reconvert, ConversionRaises, OpenAndSend, Answer, Cleanup, MarkDelivered,
       RetryLater, BeginDrain, NextPending, EndDrain, ElapseCooldown, Prolong,
       IsInCooldown, ToggleNotifications, Stop, Cancel, CancelUnstarted,
       RefuseCoroutine, EndOfProcess, Crash, Die, vars, gate
  <2> QED
    BY <1>1, <2>1 DEF Receipted
<1> QED
  BY <1>2, <1>3

\* A cooldown begins only when a sender that is told "sent" records a delivery,
\* and what it sent has been received; or, with no sender's step, when interval
\* or clock are changed after a delivery.
THEOREM CooldownFollowsReceipt == Spec => CooldownNeedsReceipt
<1> DEFINE Needs == ~IsInCooldown /\ IsInCooldown' =>
              \/ \E s \in Sender : pc[s] = "stamp" /\ File(s).name \in received
              \/ last = "past" /\ received # {} /\ UNCHANGED pc
<1>1. IInv /\ Receipted /\ [Next]_vars => [Needs]_vars
  <2> SUFFICES ASSUME IInv, Receipted, Next, ~IsInCooldown, IsInCooldown'
               PROVE  Needs
    BY DEF vars
  <2>1. Prolong \/ \E s \in Sender : RecordDeliverySuccess(s)
    BY DEF Next, MotionThread, SendStep, RetryTask, BeginRecording,
       EndRecording, FailRecording, Discard, SaveTemp, MeasureUsage,
       ListForPruning, PruneOldest, EndPruning, MarkFailed, Convert, MeasureNote,
       Reconvert, ConversionRaises, OpenAndSend, Answer, Cleanup, MarkDelivered,
       RetryLater, BeginDrain, NextPending, EndDrain, ElapseCooldown,
       ToggleNotifications, IsInCooldown, Stop, Cancel, CancelUnstarted,
       RefuseCoroutine, EndOfProcess, Crash, Die, gate
  <2>2. CASE Prolong
    BY <2>2 DEF Prolong, Receipted
  <2> QED
    BY <2>1, <2>2 DEF RecordDeliverySuccess, IInv, CallOK
<1>2. Init => Receipted
  BY DEF Init, Receipted
<1> QED
  BY <1>1, <1>2, NextReceipted, Inductive, PTL DEF Spec, CooldownNeedsReceipt

-----------------------------------------------------------------------------
(***************************************************************************)
(* Where nothing is left behind by a failure, what is written to tmp is    *)
(* the clip being recorded, and it leaves tmp before the next: the motion  *)
(* thread sends from recordings, the drain from pending.                   *)
(***************************************************************************)
Undisturbed == Faults \cap {"crash", "stop", "unlink", "rename", "recording"} = {}

InTmp == pc["live"] \in {"record", "discard", "save"}
SentFromDir == pc["live"] # "idle" /\ ~InTmp => File("live").dir = "recordings"

TmpInv == TmpOnlyLive /\ SentFromDir

\* A step that adds nothing to tmp keeps it so.
LEMMA NothingAdded ==
  ASSUME TmpOnlyLive, \A p \in Path : p.dir = "tmp" /\ Exists(p)' => Exists(p),
         ~InTmp \/ (InTmp' /\ File("live")' = File("live"))
  PROVE  TmpOnlyLive'
BY DEF TmpOnlyLive, In, InTmp

\* The motion thread's steps.
LEMMA MotionTmp ==
  ASSUME Undisturbed, IInv, TmpInv, MotionThread
  PROVE  TmpInv'
<1> USE DEF IInv, TypeOK, Sender, Goto, InTmp, SentFromDir
<1>f. MayFail("unlink") = {TRUE} /\ MayFail("rename") = {TRUE}
  BY DEF MayFail, Undisturbed
<1>l. File("live") \in Path
  BY FileFacts
<1>1. CASE BeginRecording
  <2> DEFINE p == [dir |-> "tmp", name |-> ClipName(recorded + 1)]
  <2>0. recorded + 1 \in Clip /\ p \in Path
    BY <1>1, PathFacts, DeliveryAssumption DEF BeginRecording, Clip, Path, Dir
  <2>1. /\ p \in Path /\ File("live")' = p /\ InTmp'
        /\ \A q \in Path : Exists(q)' => q = p \/ Exists(q)
    BY <1>1, <2>0 DEF BeginRecording, Exists, File
  <2>2. In("tmp") = {}
    BY <1>1 DEF BeginRecording, TmpInv, TmpOnlyLive
  <2> QED
    BY <2>1, <2>2 DEF TmpInv, TmpOnlyLive, In
<1>2. CASE EndRecording
  <2>1. InTmp /\ InTmp' /\ disk' = disk /\ File("live")' = File("live")
    BY <1>2 DEF EndRecording, File
  <2> QED
    BY <2>1, NothingAdded DEF TmpInv, Exists
<1>3. CASE Discard
  <2>1. disk' = Unlinked(File("live")) /\ ~InTmp' /\ pc'["live"] = "idle" /\ InTmp
    BY <1>f, <1>3 DEF Discard
  <2>2. \A q \in Path : Exists(q)' => Exists(q) /\ q # File("live")
    BY <1>l, <2>1 DEF Exists, Unlinked
  <2> QED
    BY <2>1, <2>2 DEF TmpInv, TmpOnlyLive, In
<1>4. CASE SaveTemp
  <2>0. /\ Exists(File("live")) /\ pc["live"] = "save"
        /\ pc' = [pc EXCEPT !["live"] = "quota"]
    BY <1>4 DEF SaveTemp, LiveOK
  <2>a. /\ disk' = Renamed(File("live"), "recordings")
        /\ send' = [send EXCEPT !["live"].file =
                                InDir(File("live"), "recordings")]
    BY <1>f, <1>4, <2>0, Zenon DEF SaveTemp, StagingDir, File
  <2>1. /\ disk' = Renamed(File("live"), "recordings")
        /\ File("live")' = InDir(File("live"), "recordings")
        /\ pc'["live"] = "quota" /\ InTmp
    BY <2>0, <2>a DEF File
  <2>2. InDir(File("live"), "recordings").dir = "recordings"
    BY DEF InDir
  <2>3. \A q \in Path : q.dir = "tmp" /\ Exists(q)' => Exists(q) /\ q # File("live")
    BY <1>l, <2>1, <2>2 DEF Exists, Renamed
  <2> QED
    BY <2>1, <2>2, <2>3 DEF TmpInv, TmpOnlyLive, In
<1>5. CASE MeasureUsage \/ ListForPruning \/ PruneOldest \/ EndPruning
  <2>1. /\ ~InTmp /\ ~InTmp' /\ pc["live"] # "idle" /\ File("live")' = File("live")
        /\ \A q \in Path : Exists(q)' => Exists(q)
    BY <1>5 DEF MeasureUsage, ListForPruning, PruneOldest, EndPruning, Exists,
       Unlinked, File
  <2> QED
    BY <2>1, NothingAdded DEF TmpInv
<1>6. CASE MarkFailed
  <2>1. ~InTmp /\ pc'["live"] = "idle"
    BY <1>6 DEF MarkFailed
  <2>2. InDir(File("live"), "pending").dir = "pending"
    BY DEF InDir
  <2>3. \A q \in Path : q.dir = "tmp" /\ Exists(q)' => Exists(q)
    BY <1>6, <1>l, <2>2 DEF MarkFailed, Exists, Renamed
  <2> QED
    BY <2>1, <2>3, NothingAdded DEF TmpInv
<1>7. ~FailRecording
  BY DEF FailRecording, Undisturbed
<1> QED
  BY <1>1, <1>2, <1>3, <1>4, <1>5, <1>6, <1>7 DEF MotionThread

\* The steps of a send: the note is made beside the clip.
LEMMA SendTmp ==
  ASSUME IInv, TmpInv, NEW s \in Sender, SendStep(s)
  PROVE  TmpInv'
<1> USE DEF IInv, TypeOK, Sender, Goto
<1>1. s = "live" => pc["live"] # "idle" /\ ~InTmp
  BY DEF InTmp, SendStep, Convert, MeasureNote, Reconvert,
     ConversionRaises, OpenAndSend, Answer,
     Cleanup, MarkDelivered, RecordDeliverySuccess
<1>2. File(s) \in Path /\ File(s).dir # "tmp"
  <2>1. CASE s = "live"
    BY <1>1, <2>1, FileFacts DEF TmpInv, SentFromDir
  <2>2. CASE s = "retry"
    BY <2>2 DEF SendStep, Convert, MeasureNote, Reconvert,
     ConversionRaises, OpenAndSend, Answer,
       Cleanup, MarkDelivered, RecordDeliverySuccess, PendingOK, HandedOver,
       RetryBusy
  <2> QED
    BY <2>1, <2>2
<1>3. \A q \in Path : q.dir = "tmp" /\ Exists(q)' => Exists(q)
  <2>1. NoteOf(File(s)).dir # "tmp"
    BY <1>2 DEF NoteOf
  <2>2. CASE Convert(s) \/ Reconvert(s)
    BY <2>1, <2>2 DEF Convert, Reconvert, Exists
  <2>3. CASE ~(Convert(s) \/ Reconvert(s))
    BY <2>3 DEF SendStep, MeasureNote, ConversionRaises, OpenAndSend, Answer,
       Cleanup, MarkDelivered, RecordDeliverySuccess, Exists, Unlinked
  <2> QED
    BY <2>2, <2>3
<1>4. \A o \in Sender \ {s} : pc'[o] = pc[o] /\ send'[o] = send[o]
  BY DEF SendStep, Convert, MeasureNote, Reconvert,
     ConversionRaises, OpenAndSend, Answer,
     Cleanup, MarkDelivered, RecordDeliverySuccess, Return, local
<1>5. /\ pc'[s] = IF s = "live" THEN "idle" ELSE "next"
      \/ /\ File(s)' = File(s)
         /\ pc'[s] \notin {"record", "discard", "save"}
  BY DEF SendStep, Convert, MeasureNote, Reconvert,
     ConversionRaises, OpenAndSend, Answer,
     Cleanup, MarkDelivered, RecordDeliverySuccess, Return, local, File
<1>6. CASE s = "live"
  <2>1. ~InTmp' /\ (pc'["live"] = "idle" \/ File("live")' = File("live"))
    BY <1>5, <1>6 DEF InTmp
  <2> QED
    BY <1>1, <1>3, <1>6, <2>1, NothingAdded DEF TmpInv, SentFromDir
<1>7. CASE s = "retry"
  <2>1. File("live")' = File("live") /\ pc'["live"] = pc["live"]
    BY <1>4, <1>7 DEF File
  <2> QED
    BY <1>3, <2>1, NothingAdded DEF TmpInv, SentFromDir, InTmp
<1> QED
  BY <1>6, <1>7

\* With no crash or stop, and where recordings, deletions and moves succeed,
\* tmp, which no quota counts and nothing cleans, has only the clip being
\* recorded.
THEOREM TmpIsEmptied ==
  ASSUME Undisturbed
  PROVE  Spec => []TmpOnlyLive
<1>1. Init => TmpInv
  BY DEF Init, TmpInv, TmpOnlyLive, SentFromDir, In, Exists, AllIdle, Sender
<1>2. IInv /\ TmpInv /\ [Next]_vars => TmpInv'
  <2> SUFFICES ASSUME IInv, TmpInv, [Next]_vars PROVE TmpInv'
    OBVIOUS
  <2>1. CASE \/ RetryTask \/ ElapseCooldown \/ Prolong \/ ToggleNotifications
             \/ UNCHANGED vars
    <3>1. /\ disk' = disk /\ pc'["live"] = pc["live"]
          /\ File("live")' = File("live")
      BY <2>1 DEF RetryTask, RetryLater, BeginDrain, NextPending, EndDrain,
         ElapseCooldown, Prolong, ToggleNotifications, vars, local, IInv, TypeOK, Sender,
         Goto, Return, File
    <3> QED
      BY <3>1 DEF TmpInv, TmpOnlyLive, SentFromDir, InTmp, In, Exists
  <2>2. ~Stop /\ ~EndOfProcess /\ ~Crash
    BY DEF Undisturbed, Stop, Cancel, CancelUnstarted, RefuseCoroutine,
       EndOfProcess, Crash
  <2> QED
    BY <2>1, <2>2, MotionTmp, SendTmp DEF Next
<1>3. TmpInv => TmpOnlyLive
  BY DEF TmpInv
<1> QED
  BY <1>1, <1>2, <1>3, Inductive, PTL DEF Spec

=============================================================================
