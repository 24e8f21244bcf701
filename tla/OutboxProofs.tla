---------------------------- MODULE OutboxProofs ----------------------------
(***************************************************************************)
(* Delivery.tla implements Outbox.tla, for any number of recordings, any   *)
(* quota and any faults.  Every step is one of a few effects on the files  *)
(* and on what was received, kept and pruned; an effect on the one file    *)
(* of a clip is a step of the outbox, or none.  From the same effects: the *)
(* retry queue is durable, only the motion thread's clip is ever stranded, *)
(* and the quota takes the oldest first.                                   *)
(***************************************************************************)
EXTENDS DeliveryProofs

\* A clip has been received or pruned only if its recording has ended.
Settled(c) == ClipName(c) \in received \/ c \in pruned
FreshOK ==
  \A c \in Clip : Settled(c) =>
    c <= recorded /\ (pc["live"] = "record" => c # recorded)

\* Files are of recordings that have begun, a clip has one file at most, and
\* none once it was pruned.
FilesOK  == \A p \in Path : Exists(p) => p.name.clip <= recorded
UniqueOK == \A p, q \in Path : Exists(p) /\ Exists(q) /\ p.name = q.name
                                 /\ p.name.depth = 0 => p = q
GoneOK   == \A p \in Path : Exists(p) /\ p.name.depth = 0 =>
                              p.name.clip \notin pruned

FileInv == FreshOK /\ FilesOK /\ UniqueOK /\ GoneOK

-----------------------------------------------------------------------------
\* What a step can do.

Same == UNCHANGED <<recorded, received, kept, pruned>>

\* A note is written, after its clip was recorded, or one is deleted.
Notes == /\ Same
         /\ \E p \in Path, t \in Nat :
              /\ p.name.depth # 0 /\ p.name.clip <= recorded
              /\ t = 0 \/ t > 2 * p.name.clip
              /\ disk' = [disk EXCEPT ![p] = t]

\* The motion thread moves its clip.
Moved == /\ Same /\ LiveBusy
         /\ \E p \in Path, d \in Dir :
              p = File("live") /\ Exists(p) /\ disk' = Renamed(p, d)

\* A file is deleted whose clip was received or is not kept.
Dropped == /\ Same
           /\ \E p \in Path :
                /\ p.name \in received \/ p.name.clip \notin kept
                /\ disk' = Unlinked(p)

Begun == /\ UNCHANGED <<received, kept, pruned>>
         /\ recorded' = recorded + 1 /\ recorded' \in Clip
         /\ \E p \in Path, t \in Nat \ {0} :
              /\ p.name = ClipName(recorded + 1) /\ t = 2 * (recorded + 1)
              /\ disk' = [disk EXCEPT ![p] = t]

Taken == /\ UNCHANGED <<disk, recorded, received, pruned>>
         /\ pc["live"] = "record" /\ recorded \in Clip \ kept
         /\ OnDisk(recorded)
         /\ kept' = kept \cup {recorded}

Got == /\ UNCHANGED <<disk, recorded, kept, pruned>>
       /\ \E n \in Name :
            /\ n.clip <= recorded /\ (pc["live"] = "record" => n.clip # recorded)
            /\ received' = received \cup {n}

GivenUp == /\ UNCHANGED <<recorded, received, kept>>
           /\ pc["live"] # "record"
           /\ \E p \in Path :
                /\ p.dir = "pending" /\ Exists(p) /\ p.name.clip <= recorded
                /\ disk' = Unlinked(p)
                /\ pruned' = IF p.name.depth = 0
                               THEN pruned \cup {p.name.clip} ELSE pruned

\* Only a new recording puts the motion thread into "record".
Effect == \/ Begun
          \/ /\ pc'["live"] = "record" => pc["live"] = "record"
             /\ \/ Same /\ UNCHANGED disk
                \/ Notes \/ Moved \/ Dropped \/ Taken \/ Got \/ GivenUp

-----------------------------------------------------------------------------
\* Every step has one of the effects.
LEMMA MotionEffect == ASSUME IInv, MotionThread PROVE Effect
<1> USE DEF Sender
<1>1. CASE BeginRecording
  <2> DEFINE p == [dir |-> "tmp", name |-> ClipName(recorded + 1)]
  <2>1. recorded + 1 \in Clip /\ p \in Path /\ 2 * (recorded + 1) \in Nat \ {0}
    BY <1>1, DeliveryAssumption, PathFacts
       DEF BeginRecording, IInv, TypeOK, Clip, Path, Dir
  <2> QED
    BY <1>1, <2>1 DEF BeginRecording, Effect, Begun, ghosts
<1>2. CASE EndRecording
  <2>1. recorded \in Clip \ kept /\ File("live").name.clip = recorded
    BY <1>2 DEF EndRecording, IInv, LiveOK, ClipName
  <2>2. OnDisk(recorded)
    BY <1>2, FileFacts DEF EndRecording, IInv, LiveOK, OnDisk, Path, File
  <2>3. pc'["live"] # "record"
    BY <1>2 DEF EndRecording, IInv, TypeOK, Goto
  <2> QED
    BY <1>2, <2>1, <2>2, <2>3 DEF EndRecording, Effect, Taken, Same
<1>3. CASE FailRecording \/ Discard
  <2>1. File("live") \in Path /\ File("live").name.clip \notin kept
    BY <1>3, FileFacts DEF FailRecording, Discard, IInv, LiveOK, ClipName
  <2>2. Same /\ (disk' = disk \/ disk' = Unlinked(File("live")))
    BY <1>3 DEF FailRecording, Discard, Same, ghosts
  <2>3. pc'["live"] # "record"
    BY <1>3 DEF FailRecording, Discard, IInv, TypeOK, Goto
  <2> QED
    BY <2>1, <2>2, <2>3 DEF Effect, Dropped
<1>4. CASE SaveTemp \/ MarkFailed
  <2>1. File("live") \in Path
    BY <1>4, FileFacts DEF IInv
  <2>2. Same /\ (\/ disk' = disk
                 \/ Exists(File("live")) /\ \E d \in Dir : disk' = Renamed(File("live"), d))
    BY <1>4 DEF SaveTemp, MarkFailed, Same, ghosts, StagingDir, Dir
  <2>3. pc'["live"] # "record" /\ LiveBusy
    BY <1>4 DEF SaveTemp, MarkFailed, IInv, TypeOK, Goto, LiveBusy
  <2> QED
    BY <2>1, <2>2, <2>3 DEF Effect, Moved
<1>5. CASE MeasureUsage \/ ListForPruning \/ EndPruning
  <2>1. pc'["live"] # "record"
    BY <1>5 DEF MeasureUsage, ListForPruning, EndPruning, IInv, TypeOK, Goto
  <2> QED
    BY <1>5, <2>1 DEF MeasureUsage, ListForPruning, EndPruning, Effect, Same, ghosts
<1>6. CASE PruneOldest
  <2>1. PICK e \in queue["live"] :
          \/ UNCHANGED <<disk, pruned>>
          \/ /\ Exists(e.path) /\ disk' = Unlinked(e.path)
             /\ pruned' = IF e.path.name.depth = 0
                            THEN pruned \cup {e.path.name.clip} ELSE pruned
    BY <1>6 DEF PruneOldest, Oldest
  <2>2. /\ e.path \in Path /\ e.path.name.clip <= recorded
        /\ e.path.dir = "pending"
    BY DEF IInv, PendingOK, HandedOver
  <2>3. pc["live"] # "record" /\ pc' = pc /\ UNCHANGED <<recorded, received, kept>>
    BY <1>6 DEF PruneOldest
  <2> QED
    BY <2>1, <2>2, <2>3 DEF Effect, Same, GivenUp
<1> QED
  BY <1>1, <1>2, <1>3, <1>4, <1>5, <1>6 DEF MotionThread

\* A sender's file is of a recording that has ended.
LEMMA SendersFile ==
  ASSUME IInv, NEW s \in Sender, s = "live" => pc["live"] \notin {"idle", "record"},
         s = "retry" => RetryBusy
  PROVE  /\ File(s) \in Path /\ File(s).name.clip <= recorded
         /\ pc["live"] = "record" => File(s).name.clip # recorded
<1>1. CASE s = "live"
  BY <1>1, FileFacts DEF IInv, LiveOK, ClipName, Clip
<1>2. CASE s = "retry"
  BY <1>2 DEF IInv, PendingOK, HandedOver
<1> QED
  BY <1>1, <1>2 DEF Sender

\* The steps of a send leave the clips where they are, but for a received one.
LEMMA SendEffect == ASSUME IInv, NEW s \in Sender, SendStep(s) PROVE Effect
<1>1. /\ File(s) \in Path /\ File(s).name.clip <= recorded
      /\ pc["live"] = "record" => File(s).name.clip # recorded
  BY SendersFile DEF SendStep, Convert, MeasureNote, Reconvert,
     ConversionRaises, OpenAndSend, Answer,
     Cleanup, MarkDelivered, RecordDeliverySuccess, RetryBusy, Sender
<1>2. pc'["live"] = "record" => pc["live"] = "record"
  BY DEF SendStep, Convert, MeasureNote, Reconvert,
     ConversionRaises, OpenAndSend, Answer,
     Cleanup, MarkDelivered, RecordDeliverySuccess, Goto, IInv, TypeOK, Sender
<1>3. ASSUME File(s).name.depth < MaxDepth
      PROVE  /\ NoteOf(File(s)) \in Path /\ NoteOf(File(s)).name.depth # 0
             /\ NoteOf(File(s)).name.clip = File(s).name.clip
             /\ NoteOf(File(s)).name.clip <= recorded
  BY <1>1, <1>3, PathFacts, FileFacts DEF NoteOf, IInv
<1>4. CASE Convert(s) \/ Reconvert(s)
  <2>1. Now \in Nat /\ Now > 2 * File(s).name.clip
    <3>1. recorded \in Nat /\ File(s).name.clip \in Nat
      BY FileFacts DEF IInv, TypeOK, Clip
    <3> QED
      BY <1>1, <3>1 DEF IInv, LiveOK, Now, Ended, Clip
  <2>2. Same /\ (\/ disk' = disk
                 \/ /\ File(s).name.depth < MaxDepth
                    /\ disk' = [disk EXCEPT ![NoteOf(File(s))] = Now])
    BY <1>4 DEF Convert, Reconvert, Same, ghosts, IInv, CallOK, Measuring
  <2> QED
    BY <1>2, <1>3, <2>1, <2>2 DEF Effect, Notes
<1>5. CASE \/ MeasureNote(s) \/ ConversionRaises(s) \/ OpenAndSend(s)
           \/ RecordDeliverySuccess(s)
  BY <1>2, <1>5 DEF MeasureNote, ConversionRaises, OpenAndSend, RecordDeliverySuccess, Effect, Same,
     ghosts
<1>6. CASE Answer(s)
  <2>1. received' = received \/ received' = received \cup {File(s).name}
    BY <1>6 DEF Answer
  <2>2. File(s).name \in Name
    BY FileFacts DEF IInv
  <2> QED
    BY <1>1, <1>2, <1>6, <2>1, <2>2 DEF Answer, Effect, Same, Got
<1>7. CASE Cleanup(s)
  <2>1. Same /\ (\/ disk' = disk
                 \/ send[s].isNote /\ disk' = [disk EXCEPT ![NoteOf(File(s))] = 0])
    BY <1>7 DEF Cleanup, Same, ghosts, Unlinked
  <2>2. send[s].isNote => File(s).name.depth < MaxDepth
    BY DEF IInv, CallOK
  <2> QED
    BY <1>2, <1>3, <2>1, <2>2 DEF Effect, Notes
<1>8. CASE MarkDelivered(s)
  <2>1. Same /\ (disk' = disk \/ disk' = Unlinked(File(s)))
    BY <1>8 DEF MarkDelivered, Same, ghosts
  <2>2. File(s).name \in received
    BY <1>8 DEF MarkDelivered, IInv, CallOK
  <2> QED
    BY <1>1, <1>2, <2>1, <2>2 DEF Effect, Dropped
<1> QED
  BY <1>4, <1>5, <1>6, <1>7, <1>8 DEF SendStep

\* A cancelled send has got through, or has no effect.
LEMMA StopEffect == ASSUME IInv, Stop PROVE Effect
<1>1. ASSUME NEW s \in Sender, Cancel(s) PROVE Effect
  <2>1. /\ File(s) \in Path /\ File(s).name.clip <= recorded
        /\ pc["live"] = "record" => File(s).name.clip # recorded
    BY <1>1, SendersFile DEF Cancel, RetryBusy, Sender
  <2>2. pc'["live"] = "record" => pc["live"] = "record"
    BY <1>1 DEF Cancel, Goto, IInv, TypeOK, Sender
  <2>3. received' = received \/ received' = received \cup {File(s).name}
    BY <1>1 DEF Cancel
  <2>4. File(s).name \in Name
    BY FileFacts DEF IInv
  <2> QED
    BY <1>1, <2>1, <2>2, <2>3, <2>4 DEF Cancel, Effect, Same, Got
<1>2. CASE CancelUnstarted \/ RefuseCoroutine
  BY <1>2 DEF CancelUnstarted, RefuseCoroutine, Goto, Effect, Same, ghosts, IInv,
     TypeOK, Sender
<1> QED
  BY <1>1, <1>2 DEF Stop

\* Every step has one of the effects.
LEMMA NextEffect == ASSUME IInv, [Next]_vars PROVE Effect
<1>1. CASE RetryTask
  BY <1>1 DEF RetryTask, RetryLater, BeginDrain, NextPending, EndDrain, Goto,
     Effect, Same, ghosts, IInv, TypeOK, Sender
<1>2. CASE ElapseCooldown \/ Prolong \/ ToggleNotifications \/ UNCHANGED vars
  BY <1>2 DEF ElapseCooldown, Prolong, ToggleNotifications, vars, Effect, Same, ghosts
<1>3. CASE EndOfProcess \/ Crash
  BY <1>3 DEF EndOfProcess, Crash, Die, AllIdle, Effect, Same, ghosts, Sender
<1> QED
  BY <1>1, <1>2, <1>3, MotionEffect, SendEffect, StopEffect DEF Next

-----------------------------------------------------------------------------
\* No file and nothing received at the start.
LEMMA InitFileInv == Init => FileInv
BY DEF Init, FileInv, FreshOK, Settled, FilesOK, UniqueOK, GoneOK, Exists

\* Every effect keeps the facts about the files.
LEMMA EffectFileInv == ASSUME IInv, FileInv, Effect PROVE FileInv'
<1> USE DEF FileInv
<1>0. /\ disk \in [Path -> Nat] /\ recorded \in Nat
      /\ \A p \in Path : p.name \in Name /\ p.name.clip \in Clip /\ p.name.clip \in Nat
  BY DEF IInv, TypeOK, Path, Name, Clip
<1>1. CASE Begun
  <2>1. FreshOK'
    BY <1>0, <1>1 DEF Begun, FreshOK, Settled, Clip
  <2>2. PICK p \in Path, t \in Nat \ {0} :
          p.name = ClipName(recorded + 1) /\ disk' = [disk EXCEPT ![p] = t]
    BY <1>1 DEF Begun
  <2>3. \A q \in Path : Exists(q)' => q = p \/ Exists(q)
    BY <1>0, <2>2 DEF Exists
  <2>4. recorded' = recorded + 1 /\ recorded' \in Clip /\ pruned' = pruned
    BY <1>1 DEF Begun
  <2>5. \A q \in Path : Exists(q) => q.name # p.name
    BY <1>0, <2>2 DEF FilesOK, ClipName
  <2>6. FilesOK'
    BY <1>0, <2>2, <2>3, <2>4 DEF FilesOK, ClipName
  <2>7. UniqueOK'
    BY <2>3, <2>5 DEF UniqueOK
  <2>8. GoneOK'
    <3>1. p.name.clip = recorded + 1
      BY <2>2 DEF ClipName
    <3>2. recorded + 1 \notin pruned
      BY <1>0, <2>4 DEF FreshOK, Settled
    <3> QED
      BY <2>3, <2>4, <3>1, <3>2 DEF GoneOK
  <2> QED
    BY <2>1, <2>6, <2>7, <2>8
<1> HIDE DEF FileInv
<1> DEFINE Rest == pc'["live"] = "record" => pc["live"] = "record"
<1>2. CASE Rest /\ Same /\ UNCHANGED disk
  BY <1>2 DEF Same, FileInv, FreshOK, Settled, FilesOK, UniqueOK, GoneOK, Exists
<1>3. CASE Rest /\ Notes
  <2>1. PICK p \in Path, t \in Nat :
          /\ p.name.depth # 0 /\ p.name.clip <= recorded
          /\ disk' = [disk EXCEPT ![p] = t]
    BY <1>3 DEF Notes
  <2>2. \A q \in Path : Exists(q)' => Exists(q) \/ q = p
    BY <1>0, <2>1 DEF Exists
  <2> QED
    BY <1>3, <2>1, <2>2
       DEF Notes, Same, FileInv, FreshOK, Settled, FilesOK, UniqueOK, GoneOK
<1>4. CASE Rest /\ Moved
  <2>1. PICK p \in Path, d \in Dir : Exists(p) /\ disk' = Renamed(p, d)
    BY <1>4 DEF Moved
  <2>2. InDir(p, d) \in Path /\ InDir(p, d).name = p.name
    BY PathFacts DEF InDir
  <2>3. \A q \in Path : Exists(q)' => q = InDir(p, d) \/ (Exists(q) /\ q # p)
    BY <1>0, <2>1, <2>2 DEF Exists, Renamed
  <2> QED
    BY <1>4, <2>1, <2>2, <2>3
       DEF Moved, Same, FileInv, FreshOK, Settled, FilesOK, UniqueOK, GoneOK
<1>5. CASE Rest /\ Dropped
  <2>1. \A q \in Path : Exists(q)' => Exists(q)
    BY <1>0, <1>5 DEF Dropped, Exists, Unlinked
  <2> QED
    BY <1>5, <2>1
       DEF Dropped, Same, FileInv, FreshOK, Settled, FilesOK, UniqueOK, GoneOK
<1>6. CASE Rest /\ Taken
  BY <1>6 DEF Taken, FileInv, FreshOK, Settled, FilesOK, UniqueOK, GoneOK, Exists
<1>7. CASE Rest /\ Got
  BY <1>7 DEF Got, FileInv, FreshOK, Settled, FilesOK, UniqueOK, GoneOK, Exists,
     ClipName
<1>8. CASE Rest /\ GivenUp
  <2>1. PICK p \in Path :
          /\ Exists(p) /\ p.name.clip <= recorded
          /\ disk' = Unlinked(p)
          /\ pruned' = IF p.name.depth = 0
                         THEN pruned \cup {p.name.clip} ELSE pruned
    BY <1>8 DEF GivenUp
  <2>2. \A q \in Path : Exists(q)' => Exists(q) /\ q # p
    BY <1>0, <2>1 DEF Exists, Unlinked
  <2>3. FreshOK'
    BY <1>8, <2>1 DEF GivenUp, FileInv, FreshOK, Settled
  <2>4. FilesOK' /\ UniqueOK'
    BY <1>8, <2>2 DEF GivenUp, FileInv, FilesOK, UniqueOK
  <2>5. GoneOK'
    <3> SUFFICES ASSUME NEW q \in Path, Exists(q)', q.name.depth = 0,
                        q.name.clip \in pruned'
                 PROVE  FALSE
      BY DEF GoneOK
    <3>1. q.name.clip \notin pruned
      BY <2>2 DEF FileInv, GoneOK
    <3>2. p.name.depth = 0 /\ p.name.clip = q.name.clip
      BY <2>1, <3>1
    <3>3. p.name = q.name
      BY <1>0, <3>2 DEF Name
    <3> QED
      BY <2>1, <2>2, <3>2, <3>3 DEF FileInv, UniqueOK
  <2> QED
    BY <2>3, <2>4, <2>5 DEF FileInv
<1> QED
  BY <1>1, <1>2, <1>3, <1>4, <1>5, <1>6, <1>7, <1>8 DEF Effect

\* The facts about the files hold in every reachable state.
LEMMA FilesInductive == Spec => []FileInv
<1>1. IInv /\ FileInv /\ [Next]_vars => FileInv'
  BY NextEffect, EffectFileInv
<1> QED
  BY <1>1, InitFileInv, Inductive, PTL DEF Spec

-----------------------------------------------------------------------------
\* The refinement mapping.
Held == {c \in kept : OnDisk(c)}
Recd == {c \in kept : ClipName(c) \in received}
Prnd == kept \cap pruned

\* Where the clips' files are is all the mapping sees of the disk.
LEMMA HeldFacts ==
  ASSUME TypeOK, NEW c \in Clip
  PROVE  /\ ClipName(c) \in Name
         /\ \A d \in Dir : [dir |-> d, name |-> ClipName(c)] \in Path
         /\ \A p \in Path : p.name = ClipName(c) /\ Exists(p) => OnDisk(c)
<1>1. ClipName(c) \in Name
  BY PathFacts
<1>2. \A p \in Path : p.name = ClipName(c) =>
                      p.dir \in Dir /\ p = [dir |-> p.dir, name |-> ClipName(c)]
  BY DEF Path
<1>3. \A p \in Path : p.name = ClipName(c) /\ Exists(p) => OnDisk(c)
  BY <1>2 DEF OnDisk
<1> QED
  BY <1>1, <1>3 DEF Path

\* A clip is on disk before and after a step that leaves its files alone.
LEMMA InPlace ==
  ASSUME NEW c \in Clip,
         \A p \in Path : p.name = ClipName(c) => (Exists(p)' <=> Exists(p))
  PROVE  OnDisk(c)' <=> OnDisk(c)
<1>1. \A d \in Dir : [dir |-> d, name |-> ClipName(c)] \in Path
  BY PathFacts DEF Path
<1> QED
  BY <1>1 DEF OnDisk

\* Deleting a file gives up its clip's only copy, and touches no other clip.
LEMMA UnlinkFacts ==
  ASSUME TypeOK, UniqueOK, NEW p \in Path, disk' = Unlinked(p), NEW c \in Clip
  PROVE  /\ p.name = ClipName(c) /\ Exists(p) => ~OnDisk(c)'
         /\ p.name # ClipName(c) => (OnDisk(c)' <=> OnDisk(c))
         /\ OnDisk(c)' => OnDisk(c)
<1>1. \A q \in Path : Exists(q)' <=> Exists(q) /\ q # p
  BY DEF TypeOK, Exists, Unlinked
<1>2. \A d \in Dir : [dir |-> d, name |-> ClipName(c)] \in Path
  BY HeldFacts
<1>3. p.name = ClipName(c) /\ Exists(p) => ~OnDisk(c)'
  BY <1>1, <1>2 DEF UniqueOK, OnDisk, ClipName
<1>4. p.name # ClipName(c) => (OnDisk(c)' <=> OnDisk(c))
  BY <1>1, <1>2 DEF OnDisk
<1>5. OnDisk(c)' => OnDisk(c)
  BY <1>1, <1>2 DEF OnDisk
<1> QED
  BY <1>3, <1>4, <1>5

\* An effect is a step of the outbox, or leaves the three sets as they are.
LEMMA EffectRefines ==
  ASSUME IInv, FileInv, Effect
  PROVE  [Outbox!Next]_(Outbox!vars)
<1>t. TypeOK /\ UniqueOK /\ kept \subseteq Clip
  BY DEF IInv, TypeOK, FileInv
<1>s. ASSUME \A c \in kept : OnDisk(c)' <=> OnDisk(c),
             Recd' = Recd, Prnd' = Prnd, kept' = kept
      PROVE  UNCHANGED Outbox!vars
  BY <1>s DEF Outbox!vars, Recd, Prnd
<1>k. \A c \in kept : c \in Clip /\ c <= recorded
  BY <1>t DEF IInv, KeptOK
<1>1. CASE Begun
  <2>1. PICK p \in Path, t \in Nat :
          p.name = ClipName(recorded + 1) /\ disk' = [disk EXCEPT ![p] = t]
    BY <1>1 DEF Begun
  <2>2. \A c \in kept : OnDisk(c)' <=> OnDisk(c)
    <3> TAKE c \in kept
    <3>1. c \in Clip /\ p.name # ClipName(c)
      BY <1>k, <2>1 DEF ClipName, IInv, TypeOK, Clip
    <3>2. \A q \in Path : q.name = ClipName(c) => (Exists(q)' <=> Exists(q))
      BY <2>1, <3>1, <1>t DEF Exists, TypeOK
    <3> QED
      BY <3>1, <3>2, InPlace
  <2> QED
    BY <1>1, <1>s, <2>2 DEF Begun, Recd, Prnd
<1>2. CASE Same /\ UNCHANGED disk
  BY <1>2, <1>s DEF Same, OnDisk, Exists, Recd, Prnd
<1>3. CASE Notes
  <2>1. PICK p \in Path, t \in Nat :
          p.name.depth # 0 /\ disk' = [disk EXCEPT ![p] = t]
    BY <1>3 DEF Notes
  <2>2. \A c \in kept : OnDisk(c)' <=> OnDisk(c)
    <3> TAKE c \in kept
    <3>1. c \in Clip /\ p.name # ClipName(c)
      BY <1>k, <2>1 DEF ClipName
    <3>2. \A q \in Path : q.name = ClipName(c) => (Exists(q)' <=> Exists(q))
      BY <2>1, <3>1, <1>t DEF Exists, TypeOK
    <3> QED
      BY <3>1, <3>2, InPlace
  <2> QED
    BY <1>3, <1>s, <2>2 DEF Notes, Same, Recd, Prnd
<1>4. CASE Moved
  <2>1. PICK p \in Path, d \in Dir : Exists(p) /\ disk' = Renamed(p, d)
    BY <1>4 DEF Moved
  <2>2. InDir(p, d) \in Path /\ InDir(p, d).name = p.name
    BY PathFacts DEF InDir
  <2>3. \A q \in Path : Exists(q)' <=> q = InDir(p, d) \/ (Exists(q) /\ q # p)
    BY <1>t, <2>1, <2>2 DEF Exists, Renamed, TypeOK
  <2>4. \A c \in kept : OnDisk(c)' <=> OnDisk(c)
    <3> TAKE c \in kept
    <3> DEFINE at(b) == [dir |-> b, name |-> ClipName(c)]
    <3>1. \A b \in Dir : at(b) \in Path /\ at(b).name = ClipName(c)
      BY <1>k, <1>t, HeldFacts
    <3>2. CASE p.name = ClipName(c)
      <4>1. OnDisk(c)
        BY <1>k, <1>t, <2>1, <3>2, HeldFacts
      <4>2. at(d) = InDir(p, d)
        BY <3>2 DEF InDir
      <4>3. OnDisk(c)'
        BY <2>2, <2>3, <4>2 DEF OnDisk
      <4> QED
        BY <4>1, <4>3
    <3>3. CASE p.name # ClipName(c)
      <4>1. \A q \in Path : q.name = ClipName(c) => (Exists(q)' <=> Exists(q))
        BY <2>2, <2>3, <3>3
      <4> QED
        BY <1>k, <4>1, InPlace
    <3> QED
      BY <3>2, <3>3
  <2> QED
    BY <1>4, <1>s, <2>4 DEF Moved, Same, Recd, Prnd
<1>5. CASE Dropped
  <2>1. PICK p \in Path : /\ p.name \in received \/ p.name.clip \notin kept
                          /\ disk' = Unlinked(p)
    BY <1>5 DEF Dropped
  <2>2. CASE \E c \in kept : p.name = ClipName(c) /\ Exists(p)
    <3>1. PICK c \in kept : p.name = ClipName(c) /\ Exists(p)
      BY <2>2
    <3>2. c \in Held /\ c \in Recd
      BY <1>k, <1>t, <2>1, <3>1, HeldFacts DEF Held, Recd, ClipName
    <3>3. Held' = Held \ {c} /\ Recd' = Recd /\ Prnd' = Prnd
      <4>1. ~OnDisk(c)' /\ \A b \in kept \ {c} : OnDisk(b)' <=> OnDisk(b)
        <5>1. \A b \in kept \ {c} : b \in Clip /\ p.name # ClipName(b)
          BY <1>k, <3>1 DEF ClipName
        <5> QED
          BY <1>k, <1>t, <2>1, <3>1, <5>1, UnlinkFacts
      <4> QED
        BY <1>5, <4>1 DEF Dropped, Same, Held, Recd, Prnd
    <3>4. Outbox!Release(c)
      BY <3>2, <3>3 DEF Outbox!Release, Held, Recd, Prnd
    <3> QED
      BY <1>k, <3>4 DEF Outbox!Next
  <2>3. CASE ~\E c \in kept : p.name = ClipName(c) /\ Exists(p)
    <3>1. \A c \in kept : OnDisk(c)' <=> OnDisk(c)
      <4> TAKE c \in kept
      <4>1. CASE p.name # ClipName(c)
        BY <1>k, <1>t, <2>1, <4>1, UnlinkFacts
      <4>2. CASE ~Exists(p)
        BY <1>t, <2>1, <4>2 DEF OnDisk, Exists, Unlinked, TypeOK
      <4> QED
        BY <2>3, <4>1, <4>2
    <3> QED
      BY <1>5, <1>s, <3>1 DEF Dropped, Same, Recd, Prnd
  <2> QED
    BY <2>2, <2>3
<1>6. CASE Taken
  <2>1. recorded \in Clip \ kept /\ ~Settled(recorded) /\ OnDisk(recorded)
    BY <1>6 DEF Taken, FileInv, FreshOK
  <2>2. /\ Held' = Held \cup {recorded} /\ Recd' = Recd /\ Prnd' = Prnd
        /\ recorded \notin Held \cup Recd \cup Prnd
    BY <1>6, <2>1 DEF Taken, Held, Recd, Prnd, Settled, OnDisk, Exists
  <2>3. Outbox!Accept(recorded)
    BY <2>2 DEF Outbox!Accept, Held, Recd, Prnd
  <2> QED
    BY <2>1, <2>3 DEF Outbox!Next
<1>7. CASE Got
  <2>1. PICK n \in Name : received' = received \cup {n}
    BY <1>7 DEF Got
  <2>2. Held' = Held /\ Prnd' = Prnd /\ kept' = kept
    BY <1>7 DEF Got, Held, Prnd, OnDisk, Exists
  <2>3. CASE \E c \in kept : n = ClipName(c) /\ c \notin Recd
    <3>1. PICK c \in kept : n = ClipName(c) /\ c \notin Recd
      BY <2>3
    <3>2. c \in Held \cup Prnd
      BY <3>1 DEF IInv, NoClipLost, Held, Recd, Prnd
    <3>3. Recd' = Recd \cup {c}
      BY <2>1, <2>2, <3>1 DEF Recd, ClipName
    <3>4. Outbox!Receive(c)
      BY <2>2, <3>2, <3>3 DEF Outbox!Receive, Held, Recd, Prnd
    <3> QED
      BY <1>k, <3>4 DEF Outbox!Next
  <2>4. CASE \A c \in kept : n = ClipName(c) => c \in Recd
    <3>1. Recd' = Recd
      BY <2>1, <2>2, <2>4 DEF Recd
    <3> QED
      BY <2>2, <3>1 DEF Outbox!vars, Held, Recd, Prnd
  <2> QED
    BY <2>3, <2>4
<1>8. CASE GivenUp
  <2>1. PICK p \in Path :
          /\ Exists(p) /\ disk' = Unlinked(p)
          /\ pruned' = IF p.name.depth = 0
                         THEN pruned \cup {p.name.clip} ELSE pruned
    BY <1>8 DEF GivenUp
  <2>2. kept' = kept /\ Recd' = Recd
    BY <1>8 DEF GivenUp, Recd
  <2>3. CASE \E c \in kept : p.name = ClipName(c)
    <3>1. PICK c \in kept : p.name = ClipName(c)
      BY <2>3
    <3>2. c \in Held
      BY <1>k, <1>t, <2>1, <3>1, HeldFacts DEF Held
    <3>3. Held' = Held \ {c}
      <4>1. ~OnDisk(c)' /\ \A b \in kept \ {c} : OnDisk(b)' <=> OnDisk(b)
        <5>1. \A b \in kept \ {c} : b \in Clip /\ p.name # ClipName(b)
          BY <1>k, <3>1 DEF ClipName
        <5> QED
          BY <1>k, <1>t, <2>1, <3>1, <5>1, UnlinkFacts
      <4> QED
        BY <2>2, <4>1 DEF Held
    <3>4. Prnd' = Prnd \cup {c}
      BY <2>1, <2>2, <3>1 DEF Prnd, ClipName
    <3>5. Outbox!Prune(c)
      BY <2>2, <3>2, <3>3, <3>4 DEF Outbox!Prune, Held, Recd, Prnd
    <3> QED
      BY <1>k, <3>5 DEF Outbox!Next
  <2>4. CASE \A c \in kept : p.name # ClipName(c)
    <3>1. \A c \in kept : OnDisk(c)' <=> OnDisk(c)
      BY <1>k, <1>t, <2>1, <2>4, UnlinkFacts
    <3>2. Prnd' = Prnd
      <4>1. p.name.depth = 0 => p.name = ClipName(p.name.clip)
        BY DEF Path, Name, ClipName
      <4> QED
        BY <2>1, <2>2, <2>4, <4>1 DEF Prnd
    <3> QED
      BY <1>s, <2>2, <3>1, <3>2
  <2> QED
    BY <2>3, <2>4
<1> QED
  BY <1>1, <1>2, <1>3, <1>4, <1>5, <1>6, <1>7, <1>8 DEF Effect

\* Delivery implements the outbox: whatever the threads, the faults and the
\* quota do, a clip is held until it was received or the quota took it, and
\* nothing is received or pruned that was not held.
THEOREM PathImplementsOutbox == Spec => ImplementsOutbox
<1>1. Init => Outbox!Init
  BY DEF Init, Outbox!Init
<1>2. IInv /\ FileInv /\ [Next]_vars => [Outbox!Next]_(Outbox!vars)
  BY NextEffect, EffectRefines
<1> QED
  BY <1>1, <1>2, FilesInductive, Inductive, PTL
     DEF Spec, ImplementsOutbox, Outbox!Spec

-----------------------------------------------------------------------------
(***************************************************************************)
(* The retry queue as a queue: a clip in it stays until it has its         *)
(* outcome, and a clip that is left outside it is the motion thread's, and *)
(* stays outside.  What the drain has listed under a name is the only file *)
(* of that name, so it never answers for a clip that lies elsewhere.       *)
(***************************************************************************)
Clipped(p) == p.name.depth = 0
Listed(p)  == \/ RetryBusy /\ p = File("retry")
              \/ \E e \in queue["retry"] : e.path = p
OnlyFile   == \A p, q \in Path :
                Listed(p) /\ Clipped(p) /\ Exists(q) /\ q.name = p.name => q = p

\* What a step does to a file of a clip: where it comes from, and why it goes.
Written(q) == \/ recorded' = recorded + 1 /\ q.name.clip = recorded + 1
              \/ LiveBusy /\ q.name = File("live").name
Removed(q) == \/ q.name \in received \/ q.name.clip \notin kept
              \/ q.dir = "pending" /\ q.name.clip \in pruned'
              \/ LiveBusy /\ q = File("live")

LEMMA ClipFileStep ==
  ASSUME IInv, [Next]_vars, NEW q \in Path, Clipped(q)
  PROVE  /\ Exists(q)' => Exists(q) \/ Written(q)
         /\ Exists(q) => Exists(q)' \/ Removed(q)
<1>0. disk \in [Path -> Nat]
  BY DEF IInv, TypeOK
<1>e. Effect
  BY NextEffect
<1>1. CASE Begun
  BY <1>0, <1>1 DEF Begun, Exists, Written, ClipName
<1>2. CASE UNCHANGED disk
  BY <1>2 DEF Exists
<1>3. CASE Notes
  BY <1>0, <1>3 DEF Notes, Exists, Clipped
<1>4. CASE Moved
  <2>1. PICK d \in Dir : disk' = Renamed(File("live"), d) /\ File("live") \in Path
    BY <1>4 DEF Moved
  <2>2. InDir(File("live"), d) \in Path
        /\ InDir(File("live"), d).name = File("live").name
    BY <2>1, PathFacts DEF InDir
  <2> QED
    BY <1>0, <1>4, <2>1, <2>2 DEF Moved, Renamed, Exists, Written, Removed
<1>5. CASE Dropped
  BY <1>0, <1>5 DEF Dropped, Unlinked, Exists, Removed
<1>6. CASE GivenUp
  BY <1>0, <1>6 DEF GivenUp, Unlinked, Exists, Removed, Clipped
<1> QED
  BY <1>e, <1>1, <1>2, <1>3, <1>4, <1>5, <1>6 DEF Effect, Taken, Got

\* Only the files that it lists come into the drain's hands.
LEMMA ListStep ==
  ASSUME IInv, [Next]_vars, ~BeginDrain
  PROVE  \A p : Listed(p)' => Listed(p)
<1> USE DEF IInv, TypeOK, Sender, Listed, RetryBusy, File
<1>1. CASE MotionThread
  BY <1>1 DEF MotionThread, BeginRecording, EndRecording, FailRecording,
     Discard, SaveTemp, MeasureUsage, ListForPruning, PruneOldest, EndPruning,
     MarkFailed, Goto, Return
<1>2. ASSUME NEW s \in Sender, SendStep(s) \/ Cancel(s)
      PROVE  \A p : Listed(p)' => Listed(p)
  <2>1. queue' = queue
    BY <1>2 DEF SendStep, Convert, MeasureNote, Reconvert,
     ConversionRaises, OpenAndSend, Answer,
       Cleanup, MarkDelivered, RecordDeliverySuccess, Cancel, local
  <2>2. \/ pc'["retry"] \in {"idle", "next"}
        \/ pc["retry"] \notin {"idle", "next"} /\ send'["retry"].file = send["retry"].file
        \/ pc'["retry"] = pc["retry"] /\ send'["retry"] = send["retry"]
    BY <1>2 DEF SendStep, Convert, MeasureNote, Reconvert,
     ConversionRaises, OpenAndSend, Answer,
       Cleanup, MarkDelivered, RecordDeliverySuccess, Cancel, Goto, Return, local
  <2> QED
    BY <2>1, <2>2
<1>3. CASE RetryLater \/ EndDrain
  BY <1>3 DEF RetryLater, EndDrain, Goto, Return, local
<1>4. CASE NextPending
  BY <1>4 DEF NextPending, Oldest, Goto
<1>5. CASE CancelUnstarted \/ RefuseCoroutine
  BY <1>5 DEF CancelUnstarted, RefuseCoroutine, Goto, Return
<1>6. CASE EndOfProcess \/ Crash
  BY <1>6 DEF EndOfProcess, Crash, Die, AllIdle, NoQueues
<1>7. CASE ElapseCooldown \/ Prolong \/ ToggleNotifications \/ UNCHANGED vars
  BY <1>7 DEF ElapseCooldown, Prolong, ToggleNotifications, vars, local
<1> QED
  BY <1>1, <1>2, <1>3, <1>4, <1>5, <1>6, <1>7 DEF Next, RetryTask, Stop

\* What the drain has listed under a clip's name is that clip's only file.
LEMMA OnlyFileStep ==
  ASSUME IInv, FileInv, OnlyFile, [Next]_vars
  PROVE  OnlyFile'
<1>1. CASE BeginDrain
  <2>1. /\ disk' = disk /\ ~RetryBusy'
        /\ queue'["retry"] = Listing
    BY <1>1 DEF BeginDrain, RetryBusy, Goto, IInv, TypeOK, Sender
  <2>2. \A p \in Path : Listed(p)' => Exists(p)
    BY <2>1 DEF Listed, Listing, Entries, In
  <2> QED
    BY <2>1, <2>2 DEF OnlyFile, FileInv, UniqueOK, Exists, Clipped
<1>2. CASE ~BeginDrain
  <2> SUFFICES ASSUME NEW p \in Path, NEW q \in Path, Listed(p)', Clipped(p),
                      Exists(q)', q.name = p.name
               PROVE  q = p
    BY DEF OnlyFile, Clipped
  <2>1. Listed(p)
    BY <1>2, ListStep
  <2>2. HandedOver(p)
    BY <2>1 DEF Listed, IInv, PendingOK, Sender
  <2>3. ~Written(q)
    BY <2>2 DEF HandedOver, Written, LiveBusy, IInv, TypeOK, LiveOK, ClipName
  <2>4. Exists(q)
    BY <2>3, ClipFileStep DEF Clipped
  <2> QED
    BY <2>1, <2>4 DEF OnlyFile
<1> QED
  BY <1>1, <1>2

\* What is received is in a sender's hands.
LEMMA ReceiptStep ==
  ASSUME IInv, [Next]_vars
  PROVE  \/ received' = received
         \/ \E s \in Sender : /\ pc[s] = "inflight"
                               /\ received' = received \cup {File(s).name}
<1>1. CASE \/ MotionThread \/ RetryTask \/ ElapseCooldown \/ Prolong
           \/ ToggleNotifications \/ EndOfProcess \/ Crash \/ UNCHANGED vars
  BY <1>1 DEF MotionThread, BeginRecording, EndRecording, FailRecording,
     Discard, SaveTemp, MeasureUsage, ListForPruning, PruneOldest, EndPruning,
     MarkFailed, RetryTask, RetryLater, BeginDrain, NextPending, EndDrain,
     ElapseCooldown, Prolong, ToggleNotifications, EndOfProcess, Crash, Die, vars,
     ghosts
<1>2. ASSUME NEW s \in Sender, SendStep(s) \/ Cancel(s)
      PROVE  \/ received' = received
             \/ pc[s] = "inflight" /\ received' = received \cup {File(s).name}
  BY <1>2 DEF SendStep, Convert, MeasureNote, Reconvert,
     ConversionRaises, OpenAndSend, Answer,
     Cleanup, MarkDelivered, RecordDeliverySuccess, Cancel, ghosts
<1>3. CASE CancelUnstarted \/ RefuseCoroutine
  BY <1>3 DEF CancelUnstarted, RefuseCoroutine, ghosts
<1> QED
  BY <1>1, <1>2, <1>3 DEF Next, Stop

\* The motion thread keeps its clip until its outcome, or dies with it.
LEMMA LiveStep ==
  ASSUME IInv, [Next]_vars
  PROVE  /\ LiveBusy' => \/ LiveBusy /\ File("live")'.name = File("live").name
                         \/ EndRecording /\ File("live")' = File("live")
         /\ LiveBusy /\ ~LiveBusy' =>
              \/ EndOfProcess \/ Crash \/ RefuseCoroutine \/ MarkFailed
              \/ pc["live"] = "stamp"
         /\ kept' = kept \/ EndRecording
<1> USE DEF IInv, TypeOK, Sender, LiveBusy, File
<1>1. CASE MotionThread
  BY <1>1 DEF MotionThread, BeginRecording, EndRecording, FailRecording,
     Discard, SaveTemp, MeasureUsage, ListForPruning, PruneOldest, EndPruning,
     MarkFailed, Goto, Return, InDir, ghosts
<1>2. ASSUME NEW s \in Sender, SendStep(s) \/ Cancel(s)
      PROVE  /\ kept' = kept
             /\ LiveBusy' => LiveBusy /\ File("live")' = File("live")
             /\ LiveBusy /\ ~LiveBusy' => pc["live"] = "stamp"
  BY <1>2 DEF SendStep, Convert, MeasureNote, Reconvert,
     ConversionRaises, OpenAndSend, Answer,
     Cleanup, MarkDelivered, RecordDeliverySuccess, Cancel, Goto, Return, local,
        ghosts
<1>3. CASE CancelUnstarted \/ RefuseCoroutine
  BY <1>3 DEF CancelUnstarted, RefuseCoroutine, Goto, Return, ghosts
<1>4. CASE RetryTask
  BY <1>4 DEF RetryTask, RetryLater, BeginDrain, NextPending, EndDrain, Goto,
     Return, local, ghosts
<1>5. CASE EndOfProcess \/ Crash
  BY <1>5 DEF EndOfProcess, Crash, Die, AllIdle, ghosts
<1>6. CASE ElapseCooldown \/ Prolong \/ ToggleNotifications \/ UNCHANGED vars
  BY <1>6 DEF ElapseCooldown, Prolong, ToggleNotifications, vars, local, ghosts
<1> QED
  BY <1>1, <1>2, <1>3, <1>4, <1>5, <1>6 DEF Next, Stop

\* What was kept stays so, and outcomes are final; a clip is kept when it
\* comes into the motion thread's hands.
LEMMA Monotone ==
  ASSUME IInv, [Next]_vars
  PROVE  /\ kept \subseteq kept' /\ received \subseteq received'
         /\ pruned \subseteq pruned'
         /\ \A c \in kept' \ kept : LiveBusy' /\ File("live")'.name.clip = c
<1>1. /\ kept \subseteq kept' /\ received \subseteq received'
      /\ pruned \subseteq pruned'
  BY NextEffect DEF Effect, Begun, Same, Notes, Moved, Dropped, Taken, Got, GivenUp
<1>2. ASSUME NEW c \in kept' \ kept
      PROVE  LiveBusy' /\ File("live")'.name.clip = c
  <2>1. EndRecording
    BY <1>2, LiveStep
  <2>2. pc'["live"] = "save" /\ c = File("live").name.clip
    BY <1>2, <2>1 DEF EndRecording, Goto, IInv, TypeOK, Sender
  <2> QED
    BY <2>1, <2>2 DEF EndRecording, LiveBusy, File
<1> QED
  BY <1>1, <1>2

\* A step takes no clip out of the queue but for its outcome.
LEMMA QueueStep ==
  ASSUME IInv, [Next]_vars, NEW c \in kept, Pending(c)
  PROVE  Pending(c)' \/ ClipName(c) \in received' \/ c \in pruned'
<1> DEFINE q == [dir |-> "pending", name |-> ClipName(c)]
<1>1. q \in Path /\ Clipped(q) /\ q.name.clip = c
  BY PathFacts DEF IInv, TypeOK, Path, Dir, Clipped, ClipName
<1>2. ~(LiveBusy /\ q = File("live"))
  BY DEF LiveBusy, IInv, LiveOK
<1>3. received \subseteq received'
  BY ReceiptStep
<1> QED
  BY <1>1, <1>2, <1>3, ClipFileStep DEF Pending, Removed

\* The retry queue is durable: whatever crashes and whatever fails, a clip in
\* it stays in it until the chat has it or the quota took it.
THEOREM QueueKeepsItsClips == Spec => QueueIsDurable
<1> DEFINE Kept == \A c \in kept : Pending(c) =>
                     Pending(c)' \/ ClipName(c) \in received' \/ c \in pruned'
<1>1. IInv /\ [Next]_vars => Kept
  BY QueueStep
<1> QED
  BY <1>1, Inductive, PTL DEF Spec, QueueIsDurable

\* A stranded clip is left alone.
LEMMA StrandedStep ==
  ASSUME IInv, FileInv, OnlyFile, [Next]_vars, NEW c \in Stranded
  PROVE  c \in Stranded'
<1>1. /\ c \in kept /\ c \in Clip /\ OnDisk(c) /\ ClipName(c) \notin received
      /\ ~Pending(c) /\ ~(LiveBusy /\ File("live").name.clip = c)
  BY DEF Stranded, IInv, TypeOK
<1>2. PICK d \in Dir : Exists([dir |-> d, name |-> ClipName(c)])
  BY <1>1 DEF OnDisk
<1> DEFINE q == [dir |-> d, name |-> ClipName(c)]
<1>3. q \in Path /\ Clipped(q) /\ q.name.clip = c /\ d # "pending"
  BY <1>1, <1>2, PathFacts DEF Path, Clipped, ClipName, Pending
<1>4. kept \subseteq kept'
  BY Monotone
<1>5. OnDisk(c)'
  <2>1. ~Removed(q)
    BY <1>1, <1>3 DEF Removed
  <2> QED
    BY <1>2, <1>3, <2>1, ClipFileStep DEF OnDisk
<1>6. ClipName(c) \notin received'
  <2> SUFFICES ASSUME NEW s \in Sender, pc[s] = "inflight",
                      File(s).name = ClipName(c)
               PROVE  FALSE
    BY <1>1, ReceiptStep
  <2>1. s # "live"
    BY <1>1 DEF LiveBusy, ClipName
  <2>2. Listed(File("retry")) /\ HandedOver(File("retry")) /\ s = "retry"
    BY <2>1 DEF Listed, RetryBusy, IInv, PendingOK, Sender
  <2>3. File("retry") \in Path /\ Clipped(File("retry"))
    BY <2>2 DEF HandedOver, Clipped, ClipName
  <2>4. q = File("retry")
    BY <1>2, <1>3, <2>2, <2>3 DEF OnlyFile
  <2> QED
    BY <1>3, <2>2, <2>4 DEF HandedOver
<1>7. ~Pending(c)'
  <2> DEFINE r == [dir |-> "pending", name |-> ClipName(c)]
  <2>1. r \in Path /\ Clipped(r) /\ r.name.clip = c
    BY <1>3 DEF Path, Dir, Clipped, ClipName
  <2>2. ~Written(r)
    <3>1. c <= recorded /\ recorded \in Nat /\ c \in Nat
      BY <1>1 DEF IInv, KeptOK, TypeOK, Clip
    <3>2. LiveBusy => r.name # File("live").name
      BY <1>1, <2>1
    <3> QED
      BY <2>1, <3>1, <3>2 DEF Written
  <2> QED
    BY <1>1, <2>1, <2>2, ClipFileStep DEF Pending
<1>8. ~(LiveBusy' /\ File("live")'.name.clip = c)
  <2>1. EndRecording => File("live").name.clip \notin kept
    BY DEF EndRecording, IInv, LiveOK, ClipName
  <2> QED
    BY <1>1, <2>1, LiveStep
<1> QED
  BY <1>1, <1>4, <1>5, <1>6, <1>7, <1>8 DEF Stranded

\* The clip of a failed send is in the queue, unless the move fails.
LEMMA FailedIsPending ==
  ASSUME IInv, MarkFailed, "rename" \notin Faults,
         NEW c, c = File("live").name.clip
  PROVE  Pending(c)'
<1>1. MayFail("rename") = {TRUE} /\ Exists(File("live"))
  BY DEF MarkFailed, MayFail, IInv, LiveOK
<1>2. disk' = Renamed(File("live"), "pending")
  BY <1>1 DEF MarkFailed
<1>3. File("live") \in Path /\ File("live").name = ClipName(c)
  BY FileFacts DEF MarkFailed, IInv, LiveOK, ClipName, Sender
<1>4. InDir(File("live"), "pending") = [dir |-> "pending", name |-> ClipName(c)]
  BY <1>3 DEF InDir
<1>5. InDir(File("live"), "pending") \in Path
  BY <1>3, PathFacts DEF Dir
<1> QED
  BY <1>1, <1>2, <1>3, <1>4, <1>5 DEF Renamed, Pending, Exists, IInv, TypeOK

\* What strands a clip, and which.
Interrupted == \/ EndOfProcess \/ Crash \/ RefuseCoroutine
               \/ MarkFailed /\ "rename" \in Faults

LEMMA StrandStep ==
  ASSUME IInv, FileInv, [Next]_vars, NEW c \in Stranded' \ Stranded
  PROVE  /\ LiveBusy /\ File("live").name.clip = c
         /\ pc["live"] # "stamp" /\ Interrupted
<1>1. /\ c \in kept' /\ OnDisk(c)' /\ ClipName(c) \notin received'
      /\ ~Pending(c)' /\ ~(LiveBusy' /\ File("live")'.name.clip = c)
  BY DEF Stranded
<1>2. FileInv' /\ IInv'
  BY NextIInv, NextEffect, EffectFileInv
<1>3. c \in Clip /\ c \notin pruned'
  <2>1. PICK d \in Dir : Exists([dir |-> d, name |-> ClipName(c)])'
    BY <1>1 DEF OnDisk
  <2>2. c \in Clip
    BY <1>1, <1>2 DEF IInv, TypeOK
  <2>3. [dir |-> d, name |-> ClipName(c)] \in Path
    BY <2>2, PathFacts DEF Path
  <2> QED
    BY <2>1, <2>2, <2>3, <1>2 DEF FileInv, GoneOK, ClipName
<1>4. c \in kept
  BY <1>1, Monotone
<1>5. received \subseteq received' /\ pruned \subseteq pruned'
  BY Monotone
<1>6. ~Pending(c)
  BY <1>1, <1>3, <1>4, QueueStep
<1>7. OnDisk(c)
  BY <1>1, <1>3, <1>4, <1>5 DEF IInv, NoClipLost
<1>8. LiveBusy /\ File("live").name.clip = c
  BY <1>1, <1>4, <1>5, <1>6, <1>7 DEF Stranded
<1>9. pc["live"] # "stamp"
  <2>1. pc["live"] = "stamp" => ClipName(c) \in received
    BY <1>8 DEF IInv, CallOK, LiveOK, Sender, LiveBusy, ClipName
  <2> QED
    BY <1>1, <1>5, <2>1
<1>10. EndOfProcess \/ Crash \/ RefuseCoroutine \/ MarkFailed
  BY <1>1, <1>8, <1>9, LiveStep DEF EndRecording, LiveBusy
<1>11. MarkFailed /\ "rename" \notin Faults => Pending(c)'
  BY <1>8, FailedIsPending
<1> QED
  BY <1>1, <1>8, <1>9, <1>10, <1>11 DEF Interrupted

\* The drain's clips are their names' only files in every reachable state.
LEMMA OnlyFileInductive == Spec => []OnlyFile
<1>1. Init => OnlyFile
  BY DEF Init, OnlyFile, Exists
<1>2. IInv /\ FileInv /\ OnlyFile /\ [Next]_vars => OnlyFile'
  BY OnlyFileStep
<1> QED
  BY <1>1, <1>2, Inductive, FilesInductive, PTL DEF Spec

\* Whatever fails, crashes or stops, the only clip a step can strand is the one
\* in the motion thread's hands, and it is stranded for good: no restart, pass
\* or quota takes it up, and the chat never gets it.
THEOREM OnlyLiveIsStranded == Spec => StrandsOnlyLive
<1> DEFINE Live == \A c \in Stranded' \ Stranded :
                     LiveBusy /\ File("live").name.clip = c
           Stay == Stranded \subseteq Stranded'
<1>1. IInv /\ FileInv /\ [Next]_vars => Live
  BY StrandStep
<1>2. IInv /\ FileInv /\ OnlyFile /\ [Next]_vars => Stay
  BY StrandedStep
<1> QED
  BY <1>1, <1>2, Inductive, FilesInductive, OnlyFileInductive, PTL
     DEF Spec, StrandsOnlyLive

\* No clip is stranded but by a crash, a stop or a failing rename: with none of
\* them a clip the motion thread is done with is received, pruned or pending.
THEOREM OnlyThreeFaultsStrand ==
  ASSUME Faults \cap {"crash", "stop", "rename"} = {}
  PROVE  Spec => [](Stranded = {})
<1>1. Init => Stranded = {}
  BY DEF Init, Stranded
<1>2. IInv /\ FileInv /\ Stranded = {} /\ [Next]_vars => (Stranded = {})'
  <2>1. ~Interrupted
    BY DEF Interrupted, EndOfProcess, Crash, RefuseCoroutine
  <2> QED
    BY <2>1, StrandStep
<1> QED
  BY <1>1, <1>2, Inductive, FilesInductive, PTL DEF Spec

\* main.py's promise, "a failure always lands the clip in storage/pending/",
\* holds of every send that fails, but for the same three.
THEOREM FailuresArePending ==
  ASSUME Faults \cap {"crash", "stop", "rename"} = {}
  PROVE  Spec => FailureIsPending
<1> DEFINE Lands(c) ==
      /\ pc["live"] = "settle" /\ send["live"].answer # "yes"
      /\ File("live").name.clip = c /\ pc'["live"] = "idle"
      => Pending(c)'
<1>1. IInv /\ [Next]_vars => \A c \in Clip : Lands(c)
  <2> SUFFICES ASSUME IInv, [Next]_vars, pc["live"] = "settle",
                      pc'["live"] = "idle",
                      NEW c \in Clip, File("live").name.clip = c
               PROVE  Pending(c)'
    OBVIOUS
  <2>1. ~EndOfProcess /\ ~Crash /\ ~RefuseCoroutine
    BY DEF EndOfProcess, Crash, RefuseCoroutine
  <2>2. MarkFailed
    BY <2>1, LiveStep DEF LiveBusy
  <2>3. "rename" \notin Faults
    OBVIOUS
  <2> QED
    BY <2>2, <2>3, FailedIsPending
<1> QED
  BY <1>1, Inductive, PTL DEF Spec, FailureIsPending

-----------------------------------------------------------------------------
(***************************************************************************)
(* The quota takes the oldest first.  A file's time tells which recording  *)
(* it is of, and all clips of the queue are in the listing that pruning    *)
(* works through: the drain adds only notes, and what it deletes is passed *)
(* over.                                                                   *)
(***************************************************************************)
Aged(p, t) == IF Clipped(p) THEN t = 2 * p.name.clip ELSE t > 2 * p.name.clip
AgesOK     == \A p \in Path : Exists(p) => Aged(p, disk[p])

PendingClip(c) == [dir |-> "pending", name |-> ClipName(c)]
PassOK ==
  /\ \A e \in queue["live"] : Aged(e.path, e.mtime)
  /\ pc["live"] = "prune" => \A c \in Clip : Pending(c) =>
                               \E e \in queue["live"] : e.path = PendingClip(c)

LEMMA PendingFacts ==
  ASSUME NEW c \in Clip
  PROVE  /\ PendingClip(c) \in Path /\ Clipped(PendingClip(c))
         /\ PendingClip(c).name = ClipName(c) /\ PendingClip(c).name.clip = c
         /\ PendingClip(c).dir = "pending"
         /\ Pending(c) <=> Exists(PendingClip(c))
         /\ Pending(c)' <=> Exists(PendingClip(c))'
  BY PathFacts DEF PendingClip, Pending, Path, Dir, Clipped, ClipName, Exists

\* Every file has the time of its recording, or of a note made after it.
LEMMA AgesStep ==
  ASSUME IInv, AgesOK, [Next]_vars
  PROVE  AgesOK'
<1>0. disk \in [Path -> Nat] /\ recorded \in Nat
  BY DEF IInv, TypeOK
<1>e. Effect
  BY NextEffect
<1>1. CASE Begun
  BY <1>0, <1>1 DEF Begun, AgesOK, Aged, Clipped, Exists, ClipName
<1>2. CASE UNCHANGED disk
  BY <1>2 DEF AgesOK, Aged, Exists
<1>3. CASE Notes
  BY <1>0, <1>3 DEF Notes, AgesOK, Aged, Clipped, Exists
<1>4. CASE Moved
  <2>1. PICK d \in Dir : /\ disk' = Renamed(File("live"), d)
                         /\ File("live") \in Path /\ Exists(File("live"))
    BY <1>4 DEF Moved
  <2>2. InDir(File("live"), d) \in Path
        /\ InDir(File("live"), d).name = File("live").name
    BY <2>1, PathFacts DEF InDir
  <2> QED
    BY <1>0, <2>1, <2>2 DEF Renamed, AgesOK, Aged, Clipped, Exists
<1>5. CASE Dropped \/ GivenUp
  <2>1. PICK p \in Path : disk' = Unlinked(p)
    BY <1>5 DEF Dropped, GivenUp
  <2> QED
    BY <1>0, <2>1 DEF Unlinked, AgesOK, Aged, Exists
<1> QED
  BY <1>e, <1>1, <1>2, <1>3, <1>4, <1>5 DEF Effect, Taken, Got

\* Only enforce_quota touches the motion thread's listing.
LEMMA PassStep ==
  ASSUME IInv, [Next]_vars
  PROVE  /\ \/ ListForPruning \/ PruneOldest
            \/ queue'["live"] = {} /\ disk' = disk /\ pc'["live"] # "prune"
            \/ queue'["live"] = queue["live"]
         /\ pc'["live"] = "prune" =>
              \/ ListForPruning \/ PruneOldest
              \/ pc["live"] = "prune" /\ recorded' = recorded
<1> USE DEF IInv, TypeOK, Sender
<1>1. CASE MotionThread
  BY <1>1 DEF MotionThread, BeginRecording, EndRecording, FailRecording,
     Discard, SaveTemp, MeasureUsage, EndPruning, MarkFailed, Goto, ghosts
<1>2. ASSUME NEW s \in Sender, SendStep(s) \/ Cancel(s)
      PROVE  /\ queue' = queue /\ recorded' = recorded
             /\ pc'["live"] = "prune" => pc["live"] = "prune"
  BY <1>2 DEF SendStep, Convert, MeasureNote, Reconvert,
     ConversionRaises, OpenAndSend, Answer,
     Cleanup, MarkDelivered, RecordDeliverySuccess, Cancel, Goto, local
<1>3. CASE CancelUnstarted \/ RefuseCoroutine
  BY <1>3 DEF CancelUnstarted, RefuseCoroutine, Goto
<1>4. CASE RetryTask
  BY <1>4 DEF RetryTask, RetryLater, BeginDrain, NextPending, EndDrain, Goto, local
<1>5. CASE EndOfProcess \/ Crash
  BY <1>5 DEF EndOfProcess, Crash, Die, AllIdle, NoQueues
<1>6. CASE ElapseCooldown \/ Prolong \/ ToggleNotifications \/ UNCHANGED vars
  BY <1>6 DEF ElapseCooldown, Prolong, ToggleNotifications, vars, local
<1> QED
  BY <1>1, <1>2, <1>3, <1>4, <1>5, <1>6 DEF Next, Stop

\* The listing keeps every clip of the queue until it is pruned.
LEMMA PassInv ==
  ASSUME IInv, AgesOK, PassOK, [Next]_vars, IInv', "unlink" \notin Faults
  PROVE  PassOK'
<1>0. disk \in [Path -> Nat] /\ recorded \in Nat
  BY DEF IInv, TypeOK
<1>1. CASE ListForPruning
  <2>1. disk' = disk /\ queue'["live"] = Entries(In("pending"))
    BY <1>1 DEF ListForPruning, Listing, IInv, TypeOK, Sender
  <2>2. \A e \in queue'["live"] : Aged(e.path, e.mtime)
    BY <2>1 DEF Entries, In, AgesOK
  <2>3. ASSUME NEW c \in Clip, Pending(c)
        PROVE  \E e \in queue'["live"] : e.path = PendingClip(c)
    <3>1. PendingClip(c) \in In("pending")
      BY <2>3, PendingFacts DEF In
    <3>2. [path |-> PendingClip(c), mtime |-> disk[PendingClip(c)]] \in queue'["live"]
      BY <2>1, <3>1 DEF Entries
    <3> QED
      BY <3>2
  <2> QED
    BY <2>1, <2>2, <2>3 DEF PassOK, Pending, Exists, Aged
<1>2. CASE PruneOldest
  <2>1. PICK e \in queue["live"] :
          /\ queue'["live"] = queue["live"] \ {e}
          /\ \/ Exists(e.path) /\ disk' = Unlinked(e.path)
             \/ ~Exists(e.path) /\ UNCHANGED disk
    BY <1>2 DEF PruneOldest, Oldest, MayFail, IInv, TypeOK, Sender
  <2>2. e.path \in Path /\ pc["live"] = "prune"
    BY <1>2 DEF PruneOldest, IInv, TypeOK, Sender
  <2>3. ASSUME NEW c \in Clip, Pending(c)'
        PROVE  Pending(c) /\ e.path # PendingClip(c)
    BY <1>0, <2>1, <2>2, <2>3, PendingFacts DEF Exists, Unlinked
  <2> QED
    BY <2>1, <2>2, <2>3 DEF PassOK, Aged
<1>3. CASE queue'["live"] = {} /\ pc'["live"] # "prune"
  BY <1>3 DEF PassOK
<1>4. CASE /\ queue'["live"] = queue["live"]
           /\ pc'["live"] = "prune" => pc["live"] = "prune" /\ recorded' = recorded
  <2> SUFFICES ASSUME pc'["live"] = "prune", NEW c \in Clip, Pending(c)'
               PROVE  Pending(c)
    BY <1>4 DEF PassOK, Aged
  <2>1. Exists(PendingClip(c)) \/ Written(PendingClip(c))
    BY PendingFacts, ClipFileStep
  <2>2. PendingClip(c) \in In("pending")'
    BY PendingFacts DEF In
  <2>3. HandedOver(PendingClip(c))'
    BY <2>2 DEF IInv, PendingOK
  <2>4. c # recorded
    BY <1>4, <2>3, PendingFacts DEF HandedOver
  <2>5. ~Written(PendingClip(c))
    <3>1. File("live").name.clip = recorded
      BY <1>4 DEF IInv, LiveOK, ClipName
    <3>2. PendingClip(c).name.clip = c
      BY PendingFacts
    <3> QED
      BY <1>0, <1>4, <2>4, <3>1, <3>2 DEF Written
  <2> QED
    BY <2>1, <2>5, PendingFacts
<1> QED
  BY <1>1, <1>2, <1>3, <1>4, PassStep

\* Where files can be deleted, enforce_quota deletes the oldest first, whatever
\* the drain does meanwhile.
THEOREM OldestArePrunedFirst ==
  ASSUME "unlink" \notin Faults
  PROVE  Spec => PrunesOldestFirst
<1> DEFINE Order == \A p \in In("pending") :
                      pc["live"] = "prune" /\ queue'["live"] # queue["live"]
                                           /\ ~Exists(p)'
                        => \A c \in 1..p.name.clip : ~Pending(c)'
<1>1. Init => AgesOK /\ PassOK
  BY DEF Init, AgesOK, PassOK, Exists, Sender, AllIdle, NoQueues
<1>2. IInv /\ AgesOK /\ PassOK /\ IInv' /\ [Next]_vars => AgesOK' /\ PassOK'
  BY AgesStep, PassInv
<1>3. IInv /\ AgesOK /\ PassOK /\ [Next]_vars => Order
  <2> SUFFICES ASSUME IInv, AgesOK, PassOK, [Next]_vars, NEW p \in In("pending"),
                      pc["live"] = "prune", queue'["live"] # queue["live"],
                      ~Exists(p)', NEW c \in 1..p.name.clip, Pending(c)'
               PROVE  FALSE
    OBVIOUS
  <2>0. /\ p \in Path /\ p.name \in Name /\ p.name.clip \in Clip /\ Exists(p)
        /\ p.dir = "pending" /\ disk \in [Path -> Nat]
    BY DEF In, Path, Name, IInv, TypeOK
  <2>1. PruneOldest
    BY <2>0, PassStep DEF ListForPruning, Exists
  <2>2. PICK e \in Oldest(queue["live"]) :
          disk' = disk \/ disk' = Unlinked(e.path)
    BY <2>1 DEF PruneOldest
  <2>3. /\ e.path = p /\ disk' = Unlinked(p) /\ e \in queue["live"]
        /\ e.mtime \in Nat
    BY <2>0, <2>2 DEF Exists, Unlinked, Oldest, IInv, TypeOK, Sender
  <2>4. c \in Clip /\ c \in Nat /\ c <= p.name.clip /\ p.name.clip \in Nat
    BY <2>0, DeliveryAssumption DEF Clip
  <2>5. PendingClip(c) \in Path /\ PendingClip(c).name = ClipName(c)
    BY <2>4, PendingFacts
  <2>6. Pending(c) /\ PendingClip(c) # p
    BY <2>0, <2>3, <2>4, <2>5, PendingFacts DEF Exists, Unlinked
  <2>7. PICK f \in queue["live"] : f.path = PendingClip(c)
    BY <2>4, <2>6 DEF PassOK
  <2>8. f.mtime = 2 * c /\ e.mtime <= f.mtime
    BY <2>2, <2>5, <2>7 DEF PassOK, Aged, Clipped, ClipName, Oldest
  <2>9. Clipped(p) /\ p.name.clip = c
    BY <2>3, <2>4, <2>8 DEF PassOK, Aged
  <2>10. p = PendingClip(c)
    BY <2>0, <2>9 DEF Clipped, Path, Name, PendingClip, ClipName
  <2> QED
    BY <2>6, <2>10
<1> QED
  BY <1>1, <1>2, <1>3, Inductive, PTL DEF Spec, PrunesOldestFirst
=============================================================================
