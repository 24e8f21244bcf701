----------------------------- MODULE OnceProofs -----------------------------
(***************************************************************************)
(* Short of a crash, a stop, a lost confirmation and whatever leaves a     *)
(* note beside its clip, the chat gets every recording at most once        *)
(* (AtMostOnce), for any number of recordings, any depth of notes, any     *)
(* quota and any other faults: what was received is deleted, its note too, *)
(* before anyone can take it up again.                                     *)
(*                                                                         *)
(* And where every send is confirmed (SendsSucceed), nothing is queued and *)
(* no live clip goes out in the cooldown.                                  *)
(***************************************************************************)
EXTENDS OutboxProofs

\* A note is left beside its clip by an ffmpeg that fails, by an unlink that
\* fails, and by an ffmpeg that does not start for a note's second conversion.
Reliable ==
  /\ Faults \cap {"crash", "stop", "ambiguous", "unlink", "conversion"} = {}
  /\ ~({"oversize", "spawn"} \subseteq Faults)

\* What a sender still has to send was not received.
ClipOf(s)   == File(s).name.clip
Working(s)  == IF s = "live" THEN pc["live"] # "idle" ELSE RetryBusy
Unsent(s)   == Working(s) /\ send[s].answer # "yes"
UnsentIsNew == \A s \in Sender : Unsent(s) => ClipOf(s) \notin Sent
SentOld     == \A c \in Sent : c <= recorded
Asking == \A s \in Sender :
  /\ pc[s] \in Measuring \cup {"open", "inflight"} => send[s].answer = "no"
  /\ pc[s] \in Measuring => ~send[s].isNote
  /\ pc[s] = "reconvert" => "oversize" \in Faults

\* A clip has one file, but for the note that its sender makes of it: what is
\* written is deleted by the same send.
HasNote(s) == \/ pc[s] \in Measuring
              \/ send[s].isNote /\ pc[s] \in {"open", "inflight", "cleanup"}
Owned(s, p) == p = File(s) \/ (HasNote(s) /\ p = NoteOf(File(s)))
OneAtATime ==
  \A p, q \in Path : Exists(p) /\ Exists(q) /\ p.name.clip = q.name.clip /\ p # q
    => \E s \in Sender : Owned(s, p) /\ Owned(s, q)

\* So a sender that has something to send has all of its clip's files, even if
\* the clip is pruned meanwhile.
Hold(s) == \/ pc[s] \in Measuring \cup {"convert", "inflight"}
           \/ pc[s] = "open" /\ (send[s].isNote \/ Exists(File(s)))
Alone == \A s \in Sender : Hold(s) =>
           \A q \in Path : Exists(q) /\ q.name.clip = ClipOf(s) => Owned(s, q)

\* What was received has no file but those its sender is about to delete.
Unlinking(s) == pc[s] \in {"cleanup", "settle"} /\ send[s].answer = "yes"
SentIsGone == \A p \in Path : Exists(p) /\ p.name.clip \in Sent =>
                \E s \in Sender : Owned(s, p) /\ Unlinking(s)

\* The drain's list has no clip twice, nor the one in its hands, nothing
\* received, and no clip that has another file.
QueueIsNew == \A e \in queue["retry"] : e.path.name.clip \notin Sent
TriedOnce  == /\ \A e, f \in queue["retry"] :
                   e.path.name.clip = f.path.name.clip => e = f
              /\ RetryBusy =>
                   \A e \in queue["retry"] : e.path.name.clip # ClipOf("retry")
QueueAlone == \A e \in queue["retry"] : \A q \in Path :
                Exists(q) /\ q.name.clip = e.path.name.clip => q = e.path

Senders == UnsentIsNew /\ SentOld /\ Asking
Files   == OneAtATime /\ Alone /\ SentIsGone
Listed1 == QueueIsNew /\ TriedOnce /\ QueueAlone
Once    == Senders /\ Files /\ Listed1

-----------------------------------------------------------------------------
\* The senders' clips differ, from each other and from what the drain listed.
LEMMA ApartFacts ==
  ASSUME IInv
  PROVE  /\ \A s, o \in Sender :
              Working(s) /\ Working(o) /\ s # o => ClipOf(s) # ClipOf(o)
         /\ Working("live") =>
              \A e \in queue["retry"] : e.path.name.clip # ClipOf("live")
         /\ \A s \in Sender : Hold(s) \/ HasNote(s) \/ Unlinking(s) => Working(s)
         /\ \A s \in Sender : File(s) \in Path
         /\ \A s \in Sender : HasNote(s) => NoteOf(File(s)) \in Path
         /\ \A s \in Sender : /\ NoteOf(File(s)).name.clip = ClipOf(s)
                              /\ NoteOf(File(s)).dir = File(s).dir
                              /\ NoteOf(File(s)) # File(s)
<1>1. \A s \in Sender : Hold(s) \/ HasNote(s) \/ Unlinking(s) => Working(s)
  BY DEF Hold, HasNote, Unlinking, Working, RetryBusy, Measuring, Sender, IInv,
     CallOK
<1>2. \A s \in Sender : File(s) \in Path /\ File(s).name.depth \in Nat
  BY FileFacts DEF IInv
<1>3. \A s \in Sender : HasNote(s) => NoteOf(File(s)) \in Path
  BY <1>2, PathFacts DEF HasNote, IInv, CallOK
<1>4. ASSUME NEW s \in Sender
      PROVE  /\ NoteOf(File(s)).name.clip = ClipOf(s)
             /\ NoteOf(File(s)).dir = File(s).dir
             /\ NoteOf(File(s)) # File(s)
  <2>1. NoteOf(File(s)).name.depth = File(s).name.depth + 1
    BY DEF NoteOf
  <2>2. NoteOf(File(s)).name.depth # File(s).name.depth
    BY <1>2, <2>1
  <2> QED
    BY <2>2 DEF NoteOf, ClipOf
<1>5. Working("live") => /\ ClipOf("live") = recorded
                         /\ \A e \in queue["retry"] : e.path.name.clip # recorded
                         /\ Working("retry") => ClipOf("retry") # recorded
  BY DEF Working, IInv, LiveOK, PendingOK, HandedOver, ClipOf, ClipName, Sender
<1> QED
  BY <1>1, <1>2, <1>3, <1>4, <1>5 DEF Sender

\* A quiet step takes up nothing new and lets go only of what is gone.
Quiet ==
  /\ \A p \in Path : Exists(p)' => Exists(p)
  /\ UNCHANGED <<received, recorded>>
  /\ queue'["retry"] \subseteq queue["retry"]
  /\ \A s \in Sender : Working(s)' => Working(s) /\ File(s)' = File(s)
  /\ \A s \in Sender : Unsent(s)' => Unsent(s)
  /\ \A s \in Sender : Hold(s)' => Hold(s) /\ (HasNote(s) => HasNote(s)')
  /\ \A s \in Sender : HasNote(s) => \/ HasNote(s)'
                                     \/ disk'[NoteOf(File(s))] = 0
                                     \/ disk'[File(s)] = 0
  /\ \A s \in Sender : Unlinking(s) =>
       \/ Unlinking(s)' /\ (HasNote(s) => HasNote(s)')
       \/ Unlinking(s)' /\ disk'[NoteOf(File(s))] = 0
       \/ ~HasNote(s) /\ disk'[File(s)] = 0
  /\ Asking'

\* A quiet step keeps what is known of sent and unsent clips.
LEMMA QuietOnce == ASSUME IInv, Once, Quiet PROVE Once'
<1> USE DEF Once, Senders, Files, Listed1
<1>f. \A s \in Sender : (Hold(s) \/ HasNote(s) \/ Unlinking(s))' =>
        File(s)' = File(s) /\ NoteOf(File(s))' = NoteOf(File(s))
  BY DEF Quiet, Hold, HasNote, Unlinking, Working, RetryBusy, Measuring, NoteOf,
     File, Sender
<1>1. UnsentIsNew' /\ SentOld'
  BY DEF Quiet, UnsentIsNew, SentOld, Sent, Unsent, ClipOf
<1>2. OneAtATime'
  <2> SUFFICES ASSUME NEW p \in Path, NEW q \in Path, Exists(p)', Exists(q)',
                      p.name.clip = q.name.clip, p # q
               PROVE  \E s \in Sender : Owned(s, p)' /\ Owned(s, q)'
    BY DEF OneAtATime
  <2>1. PICK s \in Sender : Owned(s, p) /\ Owned(s, q)
    BY DEF OneAtATime, Quiet
  <2>2. /\ HasNote(s)
        /\ \/ p = File(s) /\ q = NoteOf(File(s))
           \/ q = File(s) /\ p = NoteOf(File(s))
    BY <2>1 DEF Owned
  <2>3. HasNote(s)'
    BY <2>2 DEF Quiet, Exists
  <2> QED
    BY <1>f, <2>2, <2>3 DEF Owned
<1>3. Alone'
  <2> SUFFICES ASSUME NEW s \in Sender, Hold(s)', NEW q \in Path, Exists(q)',
                      q.name.clip = ClipOf(s)'
               PROVE  Owned(s, q)'
    BY DEF Alone
  <2>1. Owned(s, q)
    BY <1>f DEF Alone, Quiet, ClipOf
  <2> QED
    BY <1>f, <2>1 DEF Owned, Quiet
<1>4. SentIsGone'
  <2> SUFFICES ASSUME NEW p \in Path, Exists(p)', p.name.clip \in Sent
               PROVE  \E s \in Sender : Owned(s, p)' /\ Unlinking(s)'
    BY DEF SentIsGone, Quiet, Sent
  <2>1. PICK s \in Sender : Owned(s, p) /\ Unlinking(s)
    BY DEF SentIsGone, Quiet
  <2>2. Unlinking(s)' /\ (p = File(s) \/ HasNote(s)')
    BY <2>1 DEF Quiet, Exists, Owned
  <2> QED
    BY <1>f, <2>1, <2>2 DEF Owned
<1>5. QueueIsNew' /\ TriedOnce'
  BY DEF Quiet, QueueIsNew, TriedOnce, Sent, Working, ClipOf, Sender
<1>6. QueueAlone'
  BY DEF Quiet, QueueAlone
<1> QED
  BY <1>1, <1>2, <1>3, <1>4, <1>5, <1>6 DEF Quiet

\* Most of the motion thread's steps are quiet, outside the beginning of a send.
LEMMA MotionQuiet ==
  ASSUME IInv, Once,
         \/ EndRecording \/ FailRecording \/ Discard \/ MeasureUsage
         \/ ListForPruning \/ PruneOldest \/ EndPruning,
         pc'["live"] # "convert"
  PROVE  Quiet
<1> USE DEF Once, Senders, IInv
<1>1. \A p \in Path : Exists(p)' => Exists(p)
  BY DEF EndRecording, FailRecording, Discard, MeasureUsage, ListForPruning,
     PruneOldest, EndPruning, Exists, Unlinked, TypeOK
<1>2. UNCHANGED <<received, recorded>> /\ queue'["retry"] = queue["retry"]
  BY DEF EndRecording, FailRecording, Discard, MeasureUsage, ListForPruning,
     PruneOldest, EndPruning, TypeOK, Sender, ghosts
<1>3. pc'["retry"] = pc["retry"] /\ send'["retry"] = send["retry"]
  BY DEF EndRecording, FailRecording, Discard, MeasureUsage, ListForPruning,
     PruneOldest, EndPruning, TypeOK, Sender, Goto, Return
<1>4. /\ pc["live"] \notin InCall \cup {"convert", "idle"}
      /\ pc'["live"] \notin InCall \cup {"convert"}
      /\ pc'["live"] = "idle" \/ send' = send
  BY DEF EndRecording, FailRecording, Discard, MeasureUsage, ListForPruning,
     PruneOldest, EndPruning, TypeOK, Sender, Goto, InCall, Measuring
<1>5. Asking'
  BY <1>3, <1>4 DEF Asking, Measuring, Sender, InCall
<1>6. /\ ~Hold("live") /\ ~HasNote("live") /\ ~Unlinking("live")
      /\ ~Hold("live")' /\ ~HasNote("live")' /\ ~Unlinking("live")'
  BY <1>4 DEF Hold, HasNote, Unlinking, InCall, Measuring
<1>7. /\ HasNote("retry")' <=> HasNote("retry")
      /\ Unlinking("retry")' <=> Unlinking("retry")
      /\ Hold("retry")' => Hold("retry")
      /\ File("retry")' = File("retry") /\ (Working("retry")' <=> Working("retry"))
      /\ Unsent("retry")' <=> Unsent("retry")
  BY <1>1, <1>3, FileFacts DEF HasNote, Unlinking, Hold, File, Working, RetryBusy,
     Unsent, Exists, Sender
<1>8. /\ Working("live")' => Working("live") /\ File("live")' = File("live")
      /\ Unsent("live")' => Unsent("live")
  BY <1>4 DEF Working, File, Unsent, CallOK, Sender
<1> QED
  BY <1>1, <1>2, <1>5, <1>6, <1>7, <1>8 DEF Quiet, Sender

\* So are the drain's ends and the rest of the system.
LEMMA RestQuiet ==
  ASSUME IInv, Once,
         \/ RetryLater \/ EndDrain \/ ElapseCooldown \/ Prolong
         \/ ToggleNotifications \/ UNCHANGED vars
  PROVE  Quiet
<1> USE DEF Once, Senders, IInv
<1>1. CASE RetryLater \/ EndDrain
  <2>1. UNCHANGED <<disk, received, recorded>>
    BY <1>1 DEF RetryLater, EndDrain, ghosts
  <2>2. queue'["retry"] \subseteq queue["retry"]
    BY <1>1 DEF RetryLater, EndDrain, TypeOK, Sender, local
  <2>3. pc'["live"] = pc["live"] /\ send'["live"] = send["live"]
    BY <1>1 DEF RetryLater, EndDrain, TypeOK, Sender, Goto, Return, local
  <2>4. /\ pc["retry"] \in {"settle", "next"} /\ pc'["retry"] \in {"idle", "next"}
        /\ ~Unlinking("retry")
    BY <1>1 DEF RetryLater, EndDrain, TypeOK, Sender, Goto, Unlinking
  <2>5. Asking'
    BY <2>3, <2>4 DEF Asking, Measuring, Sender
  <2>6. /\ ~Hold("retry")' /\ ~HasNote("retry") /\ ~Unlinking("retry")
        /\ ~Working("retry")' /\ ~Unsent("retry")'
    BY <2>4 DEF Hold, HasNote, Unlinking, Working, Unsent, RetryBusy, Measuring
  <2>7. /\ HasNote("live")' <=> HasNote("live")
        /\ Unlinking("live")' <=> Unlinking("live")
        /\ Hold("live")' <=> Hold("live")
        /\ File("live")' = File("live") /\ (Working("live")' <=> Working("live"))
        /\ Unsent("live")' <=> Unsent("live")
    BY <2>1, <2>3 DEF HasNote, Unlinking, Hold, File, Working, Unsent, Exists
  <2> QED
    BY <2>1, <2>2, <2>5, <2>6, <2>7 DEF Quiet, Exists, Sender
<1>2. CASE ElapseCooldown \/ Prolong \/ ToggleNotifications \/ UNCHANGED vars
  <2>1. UNCHANGED <<disk, received, recorded, queue, pc, send>>
    BY <1>2 DEF ElapseCooldown, Prolong, ToggleNotifications, vars, local, ghosts
  <2> QED
    BY <2>1 DEF Quiet, Exists, Unsent, Working, RetryBusy, Unlinking, File,
       Asking, Measuring, Hold, HasNote
<1> QED
  BY <1>1, <1>2

\* So are the steps of a send that write no note and get no answer.
LEMMA SendQuiet ==
  ASSUME IInv, Once, Reliable, NEW s \in Sender, SendStep(s), ~Answer(s),
         pc'[s] \notin {"measure", "remeasure"} \/ MeasureNote(s)
  PROVE  Quiet
<1> USE DEF Once, Senders, IInv
<1>m. MayFail("unlink") = {TRUE} /\ "conversion" \notin Faults
  BY DEF MayFail, Reliable
<1>n. /\ File(s) \in Path /\ (HasNote(s) => NoteOf(File(s)) \in Path)
      /\ NoteOf(File(s)) # File(s) /\ disk \in [Path -> Nat]
  BY ApartFacts DEF TypeOK
<1>a. pc[s] \in Controls /\ pc \in [Sender -> Controls]
  BY DEF TypeOK
<1>1. \A p \in Path : Exists(p)' => Exists(p)
  <2>1. CASE Convert(s) \/ Reconvert(s)
    BY <1>a, <1>m, <2>1 DEF Convert, Reconvert, Goto, Exists, MeasureNote
  <2>2. CASE ~Convert(s) /\ ~Reconvert(s)
    BY <1>n, <2>2 DEF SendStep, MeasureNote, ConversionRaises, OpenAndSend,
       Cleanup, MarkDelivered, RecordDeliverySuccess, Exists, Unlinked
  <2> QED
    BY <2>1, <2>2
<1>2. UNCHANGED <<received, recorded, queue>>
  BY DEF SendStep, Convert, MeasureNote, Reconvert, ConversionRaises, OpenAndSend,
     Cleanup, MarkDelivered, RecordDeliverySuccess, ghosts, local
<1>3. \A o \in Sender \ {s} : pc'[o] = pc[o] /\ send'[o] = send[o]
  BY DEF SendStep, Convert, MeasureNote, Reconvert, ConversionRaises, OpenAndSend,
     Cleanup, MarkDelivered, RecordDeliverySuccess, Goto, Return, TypeOK, local
<1>4. \A o \in Sender \ {s} :
        /\ HasNote(o)' <=> HasNote(o)
        /\ Unlinking(o)' <=> Unlinking(o)
        /\ Hold(o)' => Hold(o)
        /\ File(o)' = File(o) /\ (Working(o)' <=> Working(o))
        /\ Unsent(o)' <=> Unsent(o)
  BY <1>1, <1>3, FileFacts DEF HasNote, Unlinking, Hold, File, Working, RetryBusy,
     Unsent, Exists, Sender
<1> DEFINE Mine ==
      /\ Working(s)' => Working(s) /\ File(s)' = File(s)
      /\ Unsent(s)' => Unsent(s)
      /\ Hold(s)' => Hold(s) /\ (HasNote(s) => HasNote(s)')
      /\ HasNote(s) => \/ HasNote(s)' \/ disk'[NoteOf(File(s))] = 0
                       \/ disk'[File(s)] = 0
      /\ Unlinking(s) => \/ Unlinking(s)' /\ (HasNote(s) => HasNote(s)')
                         \/ Unlinking(s)' /\ disk'[NoteOf(File(s))] = 0
                         \/ ~HasNote(s) /\ disk'[File(s)] = 0
      /\ pc'[s] \in Measuring \cup {"open", "inflight"} => send'[s].answer = "no"
      /\ pc'[s] \in Measuring => ~send'[s].isNote
      /\ pc'[s] = "reconvert" => "oversize" \in Faults
<1>5. Mine
  <2>w. pc[s] \notin {"idle", "next"} => Working(s)
    BY DEF Working, RetryBusy, Sender
  <2> USE DEF Goto, Measuring
  <2>1. CASE Convert(s)
    <3>1. /\ pc[s] = "convert" /\ pc' = [pc EXCEPT ![s] = "open"]
          /\ send' = send /\ disk' = disk
      BY <1>a, <1>m, <2>1 DEF Convert, local, MeasureNote
    <3>2. pc'[s] = "open" /\ ~send[s].isNote /\ send[s].answer = "no"
      BY <1>a, <3>1 DEF CallOK, InCall
    <3> QED
      BY <2>w, <3>1, <3>2 DEF Working, RetryBusy, Unsent, Hold, HasNote,
         Unlinking, File, Exists, Sender
  <2>2. CASE Reconvert(s)
    <3>1. /\ pc[s] = "reconvert" /\ pc' = [pc EXCEPT ![s] = "open"]
          /\ send' = send /\ disk' = disk /\ ~Exists(File(s))
      BY <1>a, <1>m, <2>2 DEF Reconvert, local, MeasureNote
    <3>2. /\ pc'[s] = "open" /\ ~send[s].isNote /\ send[s].answer = "no"
          /\ disk'[File(s)] = 0
      BY <1>a, <3>1 DEF Asking, Exists
    <3> QED
      BY <2>w, <3>1, <3>2 DEF Working, RetryBusy, Unsent, Hold, HasNote,
         Unlinking, File, Exists, Sender
  <2>3. CASE ConversionRaises(s)
    <3>1. "oversize" \notin Faults
      BY <2>3 DEF ConversionRaises, Reliable
    <3>2. /\ pc[s] = "convert" /\ pc'[s] = "settle" /\ File(s)' = File(s)
          /\ send'[s].answer = "raised" /\ ~send[s].isNote
          /\ send[s].answer = "no"
      BY <1>a, <2>3, <3>1 DEF ConversionRaises, Asking, CallOK, InCall, File, TypeOK
    <3> QED
      BY <2>w, <3>2 DEF Working, RetryBusy, Unsent, Hold, HasNote, Unlinking, Sender
  <2>4. CASE MeasureNote(s)
    <3>1. /\ pc[s] \in {"measure", "remeasure"} /\ send[s].answer = "no"
          /\ disk' = disk /\ File(s)' = File(s)
      BY <2>4 DEF MeasureNote, Asking, File, TypeOK
    <3>2. \/ pc'[s] = "open" /\ send'[s].isNote /\ send'[s].answer = "no"
          \/ /\ pc'[s] = "settle" /\ send'[s].answer = "raised"
             /\ disk[NoteOf(File(s))] = 0
          \/ /\ pc'[s] = "reconvert" /\ send' = send /\ "oversize" \in Faults
      BY <1>a, <2>4, <3>1 DEF MeasureNote, TypeOK, Exists
    <3> QED
      BY <2>w, <3>1, <3>2 DEF Working, RetryBusy, Unsent, Hold, HasNote, Unlinking,
         Asking, Sender
  <2>5. CASE OpenAndSend(s)
    <3>1. /\ pc[s] = "open" /\ send' = send /\ disk' = disk
          /\ \/ pc'[s] = "inflight" /\ Hold(s)
             \/ pc'[s] = "cleanup"
      BY <1>a, <2>5 DEF OpenAndSend, local, Hold
    <3> QED
      BY <2>w, <3>1 DEF Working, RetryBusy, Unsent, Hold, HasNote, Unlinking,
         Asking, File, Sender
  <2>6. CASE Cleanup(s)
    <3>1. /\ pc[s] = "cleanup" /\ pc'[s] = "settle" /\ send' = send
          /\ send[s].isNote => disk' = Unlinked(NoteOf(File(s)))
      BY <1>a, <1>m, <2>6, Zenon DEF Cleanup
    <3>2. send[s].isNote => disk'[NoteOf(File(s))] = 0
      BY <1>n, <3>1 DEF HasNote, Unlinked
    <3> QED
      BY <2>w, <3>1, <3>2 DEF Working, RetryBusy, Unsent, Hold, HasNote, Unlinking,
         File, Sender
  <2>7. CASE MarkDelivered(s)
    <3>1. /\ pc[s] = "settle" /\ pc'[s] = "stamp" /\ send' = send
          /\ disk' = Unlinked(File(s)) /\ send[s].answer = "yes"
      BY <1>a, <1>m, <2>7 DEF MarkDelivered, local
    <3>2. disk'[File(s)] = 0
      BY <1>n, <3>1 DEF Unlinked
    <3> QED
      BY <2>w, <3>1, <3>2 DEF Working, RetryBusy, Unsent, Hold, HasNote, Unlinking,
         File, Sender
  <2>8. CASE RecordDeliverySuccess(s)
    <3>1. pc[s] = "stamp" /\ pc'[s] = IF s = "live" THEN "idle" ELSE "next"
      BY <1>a, <2>8 DEF RecordDeliverySuccess
    <3> QED
      BY <3>1 DEF Working, RetryBusy, Unsent, Hold, HasNote, Unlinking, Sender
  <2> QED
    BY <2>1, <2>2, <2>3, <2>4, <2>5, <2>6, <2>7, <2>8 DEF SendStep
<1>6. Asking'
  BY <1>3, <1>5 DEF Asking
<1> HIDE DEF Mine
<1>7. Mine
  BY <1>5
<1> QED
  BY <1>1, <1>2, <1>4, <1>6, <1>7 DEF Quiet, Mine

\* The motion thread puts the one file of its unsent clip in place.
LEMMA PlacedOnce ==
  ASSUME IInv, Once, NEW m \in Path,
         \A q \in Path :
           Exists(q)' => q = m \/ (Exists(q) /\ q.name.clip # m.name.clip),
         m.name.clip \notin Sent,
         RetryBusy => ClipOf("retry") # m.name.clip,
         \A e \in queue["retry"] : e.path.name.clip # m.name.clip,
         UNCHANGED <<received, queue["retry"], pc["retry"], send["retry"]>>,
         SentOld', ~HasNote("live"), ~Unlinking("live"), ~HasNote("live")',
         Unsent("live")' \/ Hold("live")' => File("live")' = m,
         pc'["live"] \notin Measuring \cup {"open", "inflight"}
  PROVE  Once'
<1> USE DEF Once, Senders, Files, Listed1, Sender
<1>1. /\ HasNote("retry")' <=> HasNote("retry")
      /\ Unlinking("retry")' <=> Unlinking("retry")
      /\ File("retry")' = File("retry") /\ (RetryBusy' <=> RetryBusy)
      /\ NoteOf(File("retry"))' = NoteOf(File("retry"))
      /\ HasNote("retry") \/ Unlinking("retry") => RetryBusy
  BY DEF HasNote, Unlinking, File, RetryBusy, NoteOf, Measuring
<1>2. /\ File("retry") \in Path
      /\ NoteOf(File("retry")).name.clip = ClipOf("retry")
  BY FileFacts DEF IInv, NoteOf, ClipOf
<1>3. Hold("retry")' => Hold("retry") /\ RetryBusy
  BY <1>2 DEF Hold, File, RetryBusy, Measuring, ClipOf, Exists
<1>4. \A p \in Path : Owned("retry", p)' <=> Owned("retry", p)
  BY <1>1 DEF Owned
<1>5. UnsentIsNew'
  BY <1>1 DEF UnsentIsNew, Unsent, Working, ClipOf, Sent, File
<1>6. Asking'
  BY DEF Asking, Measuring
<1>7. OneAtATime'
  <2> SUFFICES ASSUME NEW p \in Path, NEW q \in Path, Exists(p)', Exists(q)',
                      p.name.clip = q.name.clip, p # q
               PROVE  Owned("retry", p)' /\ Owned("retry", q)'
    BY DEF OneAtATime
  <2>1. Exists(p) /\ Exists(q)
    OBVIOUS
  <2>2. PICK s \in Sender : Owned(s, p) /\ Owned(s, q)
    BY <2>1 DEF OneAtATime
  <2>3. HasNote(s)
    BY <2>2 DEF Owned
  <2> QED
    BY <1>4, <2>2, <2>3
<1>8. Alone'
  <2> SUFFICES ASSUME NEW s \in Sender, Hold(s)', NEW q \in Path, Exists(q)',
                      q.name.clip = ClipOf(s)'
               PROVE  Owned(s, q)'
    BY DEF Alone
  <2>1. CASE s = "live"
    BY <2>1 DEF Owned, ClipOf
  <2>2. CASE s = "retry"
    <3>1. ClipOf(s)' = ClipOf(s) /\ Hold(s) /\ ClipOf(s) # m.name.clip
      BY <1>1, <1>3, <2>2 DEF ClipOf
    <3>2. Owned(s, q)
      BY <3>1 DEF Alone
    <3> QED
      BY <1>4, <2>2, <3>2
  <2> QED
    BY <2>1, <2>2
<1>9. SentIsGone'
  <2> SUFFICES ASSUME NEW p \in Path, Exists(p)', p.name.clip \in Sent
               PROVE  Owned("retry", p)' /\ Unlinking("retry")'
    BY DEF SentIsGone, Sent
  <2>1. PICK s \in Sender : Owned(s, p) /\ Unlinking(s)
    BY DEF SentIsGone
  <2> QED
    BY <1>1, <1>4, <2>1
<1>10. QueueIsNew' /\ TriedOnce' /\ QueueAlone'
  BY <1>1 DEF QueueIsNew, TriedOnce, QueueAlone, ClipOf, Sent
<1> QED
  BY <1>5, <1>6, <1>7, <1>8, <1>9, <1>10

\* Beginning a recording takes up a new clip.
LEMMA BeginOnce ==
  ASSUME IInv, FileInv, Once, BeginRecording
  PROVE  Once'
<1> DEFINE m == [dir |-> "tmp", name |-> ClipName(recorded + 1)]
<1> USE DEF IInv, Sender
<1>1. /\ recorded + 1 \in Clip /\ recorded \in Nat /\ m \in Path
      /\ m.name.clip = recorded + 1
  BY DeliveryAssumption, PathFacts
     DEF BeginRecording, TypeOK, Clip, Path, Dir, ClipName
<1>2. /\ UNCHANGED <<received, queue["retry"], pc["retry"], send["retry"]>>
      /\ pc["live"] = "idle" /\ pc'["live"] = "record"
      /\ File("live")' = m /\ send'["live"].isNote = send["live"].isNote
  BY DEF BeginRecording, Goto, TypeOK, ghosts, File
<1>3. \A q \in Path :
        Exists(q)' => q = m \/ (Exists(q) /\ q.name.clip # recorded + 1)
  BY <1>1 DEF BeginRecording, Exists, TypeOK, FileInv, FilesOK, Path, Name, Clip
<1>4. /\ m.name.clip \notin Sent
      /\ RetryBusy => ClipOf("retry") # m.name.clip
      /\ \A e \in queue["retry"] : e.path.name.clip # m.name.clip
  BY <1>1 DEF Once, Senders, SentOld, PendingOK, HandedOver, ClipOf, Path, Name, Clip
<1>5. SentOld'
  <2>1. Sent' = Sent /\ recorded' = recorded + 1
    BY <1>2 DEF BeginRecording, Sent
  <2>2. \A c \in Sent : c \in Nat
    BY DEF Sent, TypeOK, Name, Clip
  <2>3. \A c \in Sent : c <= recorded
    BY DEF Once, Senders, SentOld
  <2> QED
    BY <1>1, <2>1, <2>2, <2>3 DEF SentOld
<1>6. /\ ~HasNote("live") /\ ~Unlinking("live") /\ ~HasNote("live")'
      /\ pc'["live"] \notin Measuring \cup {"open", "inflight"}
  BY <1>2 DEF HasNote, Unlinking, Measuring
<1> HIDE DEF m, IInv
<1> QED
  BY <1>1, <1>2, <1>3, <1>4, <1>5, <1>6, PlacedOnce

\* So do the motion thread's moves of its clip, and the beginning of its send.
LEMMA MoveOnce ==
  ASSUME IInv, FileInv, Once,
         SaveTemp \/ MarkFailed \/ MeasureUsage \/ EndPruning
  PROVE  Once'
<1> USE DEF IInv, Sender
<1>1. /\ UNCHANGED <<received, recorded, queue["retry"], pc["retry"], send["retry"]>>
      /\ pc["live"] \in {"save", "settle", "quota", "prune"}
      /\ send["live"].answer # "yes"
      /\ pc'["live"] \in {"quota", "idle", "convert", "list"}
  BY DEF SaveTemp, MarkFailed, MeasureUsage, EndPruning, Goto, Return, TypeOK,
     ghosts, CallOK, InCall, Measuring
<1>2. /\ recorded \in Clip /\ File("live") \in Path
      /\ ClipOf("live") = recorded /\ Exists(File("live"))
      /\ recorded \notin Sent
  <2>1. Unsent("live")
    BY <1>1 DEF Unsent, Working
  <2> QED
    BY <1>1, <2>1, FileFacts
       DEF LiveOK, Once, Senders, UnsentIsNew, ClipOf, ClipName
<1>3. /\ ~HasNote("live") /\ ~Unlinking("live") /\ ~HasNote("live")'
      /\ pc'["live"] \notin Measuring \cup {"open", "inflight"}
  BY <1>1 DEF HasNote, Unlinking, Measuring
<1>4. /\ RetryBusy => ClipOf("retry") # recorded
      /\ \A e \in queue["retry"] : e.path.name.clip # recorded
  BY <1>1 DEF PendingOK, HandedOver, ClipOf
<1>5. \A q \in Path : Exists(q) /\ q.name.clip = recorded => q = File("live")
  <2> SUFFICES ASSUME NEW q \in Path, Exists(q), q.name.clip = recorded,
                      q # File("live")
               PROVE  FALSE
    OBVIOUS
  <2>1. PICK s \in Sender : Owned(s, q) /\ Owned(s, File("live"))
    BY <1>2 DEF Once, Files, OneAtATime, ClipOf
  <2>2. HasNote(s) /\ s = "retry"
    BY <1>3, <2>1 DEF Owned
  <2>3. RetryBusy /\ ClipOf("retry") = recorded
    BY <1>2, <2>1, <2>2 DEF Owned, NoteOf, ClipOf, HasNote, RetryBusy, Measuring
  <2> QED
    BY <1>4, <2>3
<1>6. PICK m \in Path :
        /\ m.name.clip = recorded
        /\ \A q \in Path :
             Exists(q)' => q = m \/ (Exists(q) /\ q.name.clip # recorded)
        /\ pc'["live"] # "idle" => File("live")' = m
  <2>1. CASE disk' = disk /\ (File("live")' = File("live") \/ pc'["live"] = "idle")
    BY <1>2, <1>5, <2>1 DEF Exists, ClipOf
  <2>2. CASE \E d \in Dir : /\ disk' = Renamed(File("live"), d)
                            /\ \/ File("live")' = InDir(File("live"), d)
                               \/ pc'["live"] = "idle"
    <3>1. PICK d \in Dir : /\ disk' = Renamed(File("live"), d)
                           /\ \/ File("live")' = InDir(File("live"), d)
                              \/ pc'["live"] = "idle"
      BY <2>2
    <3>2. /\ InDir(File("live"), d) \in Path
          /\ InDir(File("live"), d).name.clip = recorded
      BY <1>2, PathFacts DEF InDir, ClipOf
    <3>3. \A q \in Path : Exists(q)' => q = InDir(File("live"), d)
                            \/ (Exists(q) /\ q # File("live"))
      BY <1>2, <3>1, <3>2 DEF Renamed, Exists, TypeOK
    <3> QED
      BY <1>5, <3>1, <3>2, <3>3
  <2> QED
    BY <1>1, <2>1, <2>2 DEF SaveTemp, MarkFailed, MeasureUsage, EndPruning,
       StagingDir, Dir, File, TypeOK, Goto
<1>7. SentOld'
  BY <1>1 DEF Once, Senders, SentOld, Sent
<1>8. Unsent("live")' \/ Hold("live")' => pc'["live"] # "idle"
  BY DEF Unsent, Working, Hold, Measuring
<1> HIDE DEF IInv
<1> QED
  BY <1>1, <1>2, <1>3, <1>4, <1>6, <1>7, <1>8, PlacedOnce

\* A note is written by the sender that has all of its clip's files.
LEMMA NoteOnce ==
  ASSUME IInv, Once, NEW s \in Sender, Convert(s) \/ Reconvert(s),
         pc'[s] \in {"measure", "remeasure"}
  PROVE  Once'
<1> DEFINE n == NoteOf(File(s))
<1> USE DEF Once, Senders, Files, Listed1
<1>1. /\ pc[s] \in {"convert", "reconvert"} /\ send' = send /\ queue' = queue
      /\ UNCHANGED <<received, recorded>>
      /\ \A o \in Sender \ {s} : pc'[o] = pc[o]
      /\ \A q \in Path : Exists(q)' => q = n \/ Exists(q)
  BY DEF Convert, Reconvert, local, ghosts, Goto, IInv, TypeOK, Exists
<1>2. \A o \in Sender : /\ File(o)' = File(o) /\ NoteOf(File(o))' = NoteOf(File(o))
                        /\ (Working(o)' <=> Working(o)) /\ (RetryBusy' <=> RetryBusy)
  BY <1>1 DEF File, NoteOf, Working, RetryBusy, Sender
<1>3. /\ Working(s) /\ Hold(s) /\ HasNote(s)' /\ ~Unlinking(s) /\ Unsent(s)
      /\ send[s].answer = "no" /\ ~send[s].isNote /\ n.name.clip = ClipOf(s)
  BY <1>1 DEF Working, RetryBusy, Hold, HasNote, Unlinking, Unsent, Measuring,
     Asking, IInv, CallOK, InCall, Sender, ClipOf, NoteOf
<1>4. \A o \in Sender \ {s} :
        /\ HasNote(o)' <=> HasNote(o)
        /\ Unlinking(o)' <=> Unlinking(o)
        /\ Working(o) => ClipOf(o) # ClipOf(s)
        /\ HasNote(o) \/ Unlinking(o) \/ Hold(o) => Working(o)
        /\ \A q \in Path : Owned(o, q)' <=> Owned(o, q)
  BY <1>1, <1>2, <1>3, ApartFacts DEF HasNote, Unlinking, Owned
<1>5. \A o \in Sender \ {s} : Hold(o)' => Hold(o)
  <2> SUFFICES ASSUME NEW o \in Sender \ {s}, Hold(o)' PROVE Hold(o)
    OBVIOUS
  <2>1. CASE pc[o] = "open"
    <3>1. Working(o) /\ File(o) \in Path /\ File(o) # n
      BY <1>3, <1>4, <2>1, ApartFacts DEF Working, RetryBusy, ClipOf, Sender
    <3> QED
      BY <1>1, <1>2, <2>1, <3>1 DEF Hold, Exists
  <2>2. CASE pc[o] # "open"
    BY <1>1, <2>2 DEF Hold
  <2> QED
    BY <2>1, <2>2
<1>6. \A q \in Path : Exists(q)' /\ q.name.clip = ClipOf(s) => Owned(s, q)'
  BY <1>1, <1>2, <1>3 DEF Alone, Owned
<1>7. \A o \in Sender \ {s}, q \in Path :
        Owned(o, q) /\ Working(o) => q.name.clip # ClipOf(s)
  BY <1>4 DEF Owned, NoteOf, ClipOf
<1>8. OneAtATime'
  <2> SUFFICES ASSUME NEW p \in Path, NEW q \in Path, Exists(p)', Exists(q)',
                      p.name.clip = q.name.clip, p # q, p.name.clip # ClipOf(s)
               PROVE  \E o \in Sender : Owned(o, p)' /\ Owned(o, q)'
    BY <1>6 DEF OneAtATime
  <2>1. PICK o \in Sender : Owned(o, p) /\ Owned(o, q)
    BY <1>1, <1>3 DEF OneAtATime
  <2>2. o # s
    BY <2>1 DEF Owned, ClipOf, NoteOf
  <2> QED
    BY <1>4, <2>1, <2>2
<1>9. Alone'
  <2> SUFFICES ASSUME NEW o \in Sender \ {s}, Hold(o)', NEW q \in Path, Exists(q)',
                      q.name.clip = ClipOf(o)
               PROVE  Owned(o, q)'
    BY <1>2, <1>6 DEF Alone, ClipOf
  <2>1. Hold(o) /\ Exists(q)
    BY <1>1, <1>3, <1>4, <1>5
  <2> QED
    BY <1>4, <2>1 DEF Alone
<1>10. SentIsGone'
  <2> SUFFICES ASSUME NEW p \in Path, Exists(p)', p.name.clip \in Sent
               PROVE  \E o \in Sender : Owned(o, p)' /\ Unlinking(o)'
    BY <1>1 DEF SentIsGone, Sent
  <2>1. Exists(p)
    BY <1>1, <1>3 DEF UnsentIsNew
  <2>2. PICK o \in Sender : Owned(o, p) /\ Unlinking(o)
    BY <2>1 DEF SentIsGone
  <2> QED
    BY <1>3, <1>4, <2>2
<1>11. QueueIsNew' /\ TriedOnce' /\ QueueAlone'
  <2>1. \A e \in queue["retry"] : e.path.name.clip # ClipOf(s)
    BY <1>3, ApartFacts DEF TriedOnce, Working, Sender
  <2> QED
    BY <1>1, <1>2, <1>3, <2>1
       DEF QueueIsNew, TriedOnce, QueueAlone, Sent, ClipOf, Sender
<1>12. UnsentIsNew' /\ SentOld' /\ Asking'
  <2>1. UnsentIsNew' /\ SentOld'
    BY <1>1, <1>2 DEF UnsentIsNew, SentOld, Unsent, Sent, ClipOf
  <2>2. Asking'
    BY <1>1, <1>3 DEF Asking, Measuring
  <2> QED
    BY <2>1, <2>2
<1> QED
  BY <1>8, <1>9, <1>10, <1>11, <1>12

\* What is received is deleted next, and nobody else has a file of it.
LEMMA AnswerOnce ==
  ASSUME IInv, Once, Reliable, NEW s \in Sender, Answer(s)
  PROVE  Once'
<1> USE DEF Once, Senders, Files, Listed1
<1>1. /\ disk' = disk /\ queue' = queue /\ recorded' = recorded
      /\ pc[s] = "inflight" /\ pc'[s] = "cleanup"
      /\ \A o \in Sender \ {s} : pc'[o] = pc[o] /\ send'[o] = send[o]
      /\ \A o \in Sender : File(o)' = File(o) /\ send'[o].isNote = send[o].isNote
  BY DEF Answer, Goto, IInv, TypeOK, File
<1>2. \/ received' = received /\ send'[s].answer = "no"
      \/ received' = received \cup {File(s).name} /\ send'[s].answer = "yes"
  BY DEF Answer, Results, Verdict, Reliable, IInv, TypeOK
<1>3. \A o \in Sender : /\ NoteOf(File(o))' = NoteOf(File(o))
                        /\ (Working(o)' <=> Working(o)) /\ (RetryBusy' <=> RetryBusy)
                        /\ (HasNote(o)' <=> HasNote(o)) /\ (Hold(o)' => Hold(o))
                        /\ \A q \in Path : Owned(o, q)' <=> Owned(o, q)
  BY <1>1 DEF NoteOf, Working, RetryBusy, Sender, HasNote, Owned, Measuring, Hold,
     Exists
<1>4. /\ Working(s) /\ Hold(s) /\ ~Unlinking(s) /\ Unsent(s) /\ send[s].answer = "no"
  BY <1>1 DEF Working, RetryBusy, Hold, Unlinking, Unsent, Asking, Sender
<1>5. \A o \in Sender \ {s} : (Unlinking(o)' <=> Unlinking(o))
                              /\ (Working(o) => ClipOf(o) # ClipOf(s))
  BY <1>1, <1>4, ApartFacts DEF Unlinking
<1>6. /\ ClipOf(s) <= recorded
      /\ \A e \in queue["retry"] : e.path.name.clip # ClipOf(s)
  <2>1. CASE s = "live"
    BY <1>4, <2>1, ApartFacts DEF IInv, LiveOK, Working, ClipOf, ClipName, Clip
  <2>2. CASE s = "retry"
    BY <1>4, <2>2 DEF IInv, PendingOK, HandedOver, TriedOnce, Working, ClipOf, Sender
  <2> QED
    BY <2>1, <2>2 DEF Sender
<1>7. Sent \subseteq Sent' /\ Sent' \subseteq Sent \cup {ClipOf(s)}
  BY <1>2 DEF Sent, ClipOf
<1>8. Sent' = Sent \/ send'[s].answer = "yes"
  BY <1>2 DEF Sent
<1>9. UnsentIsNew' /\ SentOld'
  <2>1. UnsentIsNew'
    <3> SUFFICES ASSUME NEW o \in Sender, Unsent(o)' PROVE ClipOf(o) \notin Sent'
      BY <1>1 DEF UnsentIsNew, ClipOf
    <3>1. Unsent(o) /\ (o # s => ClipOf(o) # ClipOf(s)) /\ (o = s => Sent' = Sent)
      BY <1>1, <1>3, <1>4, <1>5, <1>8 DEF Unsent
    <3> QED
      BY <1>7, <3>1 DEF UnsentIsNew
  <2>2. SentOld'
    BY <1>1, <1>6, <1>7 DEF SentOld
  <2> QED
    BY <2>1, <2>2
<1>10. Asking'
  BY <1>1 DEF Asking, Measuring
<1>11. OneAtATime' /\ Alone'
  BY <1>1, <1>3 DEF OneAtATime, Alone, Exists, ClipOf
<1>12. SentIsGone'
  <2> SUFFICES ASSUME NEW p \in Path, Exists(p), p.name.clip \in Sent'
               PROVE  \E o \in Sender : Owned(o, p) /\ Unlinking(o)'
    BY <1>1, <1>3 DEF SentIsGone, Exists
  <2>1. CASE p.name.clip \in Sent
    <3>1. PICK o \in Sender : Owned(o, p) /\ Unlinking(o)
      BY <2>1 DEF SentIsGone
    <3> QED
      BY <1>4, <1>5, <3>1
  <2>2. CASE p.name.clip \notin Sent
    <3>1. p.name.clip = ClipOf(s) /\ send'[s].answer = "yes"
      BY <1>7, <1>8, <2>2
    <3>2. Owned(s, p)
      BY <1>4, <3>1 DEF Alone
    <3> QED
      BY <1>1, <3>1, <3>2 DEF Unlinking
  <2> QED
    BY <2>1, <2>2
<1>13. QueueIsNew' /\ TriedOnce' /\ QueueAlone'
  <2>1. QueueIsNew'
    BY <1>1, <1>6, <1>7 DEF QueueIsNew
  <2>2. TriedOnce' /\ QueueAlone'
    BY <1>1, <1>3 DEF TriedOnce, QueueAlone, ClipOf, Exists, Sender
  <2> QED
    BY <2>1, <2>2
<1> QED
  BY <1>9, <1>10, <1>11, <1>12, <1>13

\* A listing has each clip once, and none that was received.
LEMMA ListOnce ==
  ASSUME IInv, Once, BeginDrain
  PROVE  Once'
<1> USE DEF Once, Senders, Files, Listed1, Sender
<1>1. /\ UNCHANGED <<disk, received, recorded, send>>
      /\ pc["retry"] = "idle" /\ pc'["retry"] = "next"
      /\ pc'["live"] = pc["live"] /\ queue'["retry"] = Listing
  BY DEF BeginDrain, Goto, IInv, TypeOK, ghosts
<1>2. \A e \in Listing : /\ e.path \in Path /\ e.path.dir = "pending"
                        /\ Exists(e.path)
                        /\ e = [path |-> e.path, mtime |-> disk[e.path]]
  BY DEF Listing, Entries, In
<1>3. /\ ~RetryBusy' /\ ~RetryBusy /\ Sent' = Sent
      /\ ~HasNote("retry") /\ ~Unlinking("retry") /\ ~Hold("retry")'
      /\ ~HasNote("retry")' /\ ~Unlinking("retry")'
  BY <1>1 DEF RetryBusy, HasNote, Unlinking, Hold, Measuring, Sent, IInv, CallOK
<1>4. \A o \in Sender : /\ File(o)' = File(o) /\ ClipOf(o)' = ClipOf(o)
                        /\ (Working(o)' <=> Working(o))
                        /\ (HasNote(o)' <=> HasNote(o))
                        /\ (Unlinking(o)' <=> Unlinking(o))
                        /\ (Hold(o)' => Hold(o))
                        /\ (Unsent(o)' <=> Unsent(o))
                        /\ \A q \in Path : Owned(o, q)' <=> Owned(o, q)
  BY <1>1, <1>3 DEF File, ClipOf, Working, Unsent, HasNote, Unlinking, Hold, Owned,
     NoteOf, Exists
<1>5. UnsentIsNew' /\ SentOld' /\ Asking'
  BY <1>1, <1>3, <1>4 DEF UnsentIsNew, SentOld, Asking, Measuring
<1>6. OneAtATime' /\ Alone' /\ SentIsGone'
  BY <1>1, <1>3, <1>4 DEF OneAtATime, Alone, SentIsGone, Exists
<1>7. \A o \in Sender, p \in Path : (HasNote(o) \/ Unlinking(o)) /\ Owned(o, p)
        => p.dir # "pending"
  BY <1>3, ApartFacts DEF Owned, NoteOf, IInv, LiveOK, Working
<1>8. QueueIsNew'
  BY <1>1, <1>2, <1>3, <1>7 DEF QueueIsNew, SentIsGone
<1>9. \A e \in Listing, q \in Path :
        Exists(q) /\ q.name.clip = e.path.name.clip => q = e.path
  <2> SUFFICES ASSUME NEW e \in Listing, NEW q \in Path, Exists(q),
                      q.name.clip = e.path.name.clip, q # e.path
               PROVE  FALSE
    OBVIOUS
  <2>1. PICK o \in Sender : Owned(o, q) /\ Owned(o, e.path)
    BY <1>2 DEF OneAtATime
  <2>2. HasNote(o)
    BY <2>1 DEF Owned
  <2> QED
    BY <1>2, <1>7, <2>1, <2>2
<1>10. QueueAlone'
  BY <1>1, <1>9 DEF QueueAlone, Exists
<1>11. TriedOnce'
  <2> SUFFICES ASSUME NEW e \in Listing, NEW f \in Listing,
                      e.path.name.clip = f.path.name.clip
               PROVE  e = f
    BY <1>1, <1>3 DEF TriedOnce
  <2>1. e.path = f.path
    BY <1>2, <1>9
  <2> QED
    BY <1>2, <2>1
<1> QED
  BY <1>5, <1>6, <1>8, <1>10, <1>11

\* What the drain takes from its list was not received, and has no other file.
LEMMA TakeOnce ==
  ASSUME IInv, Once, NextPending
  PROVE  Once'
<1> USE DEF Once, Senders, Files, Listed1, Sender
<1>1. PICK e \in queue["retry"] :
        /\ send' = [send EXCEPT !["retry"].file = e.path]
        /\ queue' = [queue EXCEPT !["retry"] = @ \ {e}]
  BY DEF NextPending, Oldest
<1>2. /\ UNCHANGED <<disk, received, recorded>> /\ Sent' = Sent
      /\ pc["retry"] = "next" /\ pc'["retry"] = "convert"
      /\ pc'["live"] = pc["live"] /\ send'["live"] = send["live"]
      /\ File("retry")' = e.path /\ queue'["retry"] = queue["retry"] \ {e}
      /\ e.path \in Path /\ ~send'["retry"].isNote
  BY <1>1 DEF NextPending, Goto, IInv, TypeOK, ghosts, File, Sent, CallOK, InCall,
     Measuring
<1>3. /\ ~HasNote("retry") /\ ~Unlinking("retry")
      /\ ~HasNote("retry")' /\ ~Unlinking("retry")'
  BY <1>2 DEF HasNote, Unlinking, Measuring, IInv, CallOK, InCall
<1>4. /\ HasNote("live")' <=> HasNote("live")
      /\ Unlinking("live")' <=> Unlinking("live")
      /\ Hold("live")' => Hold("live")
      /\ File("live")' = File("live") /\ ClipOf("live")' = ClipOf("live")
      /\ Unsent("live")' <=> Unsent("live")
      /\ \A q \in Path : Owned("live", q)' <=> Owned("live", q)
  BY <1>2 DEF HasNote, Unlinking, Hold, File, ClipOf, Unsent, Working, Owned, NoteOf,
     Exists
<1>5. ClipOf("retry")' = e.path.name.clip
  BY <1>2 DEF ClipOf
<1>6. UnsentIsNew' /\ SentOld' /\ Asking'
  BY <1>2, <1>4, <1>5 DEF UnsentIsNew, SentOld, QueueIsNew, Asking, Measuring
<1>7. OneAtATime'
  <2> SUFFICES ASSUME NEW p \in Path, NEW q \in Path, Exists(p), Exists(q),
                      p.name.clip = q.name.clip, p # q
               PROVE  Owned("live", p) /\ Owned("live", q)
    BY <1>2, <1>4 DEF OneAtATime, Exists
  <2>1. PICK o \in Sender : Owned(o, p) /\ Owned(o, q)
    BY DEF OneAtATime
  <2> QED
    BY <1>3, <2>1 DEF Owned
<1>8. Alone'
  <2>1. \A q \in Path :
          Exists(q)' /\ q.name.clip = ClipOf("retry")' => Owned("retry", q)'
    BY <1>2, <1>5 DEF QueueAlone, Owned, Exists
  <2> QED
    BY <1>2, <1>4, <2>1 DEF Alone, Exists
<1>9. SentIsGone'
  BY <1>2, <1>3, <1>4 DEF SentIsGone, Exists
<1>10. QueueIsNew' /\ TriedOnce' /\ QueueAlone'
  BY <1>2, <1>5 DEF QueueIsNew, TriedOnce, QueueAlone, Exists
<1> QED
  BY <1>6, <1>7, <1>8, <1>9, <1>10

-----------------------------------------------------------------------------
\* Nothing is sent or listed at the start.
LEMMA InitOnce == Init => Once
BY DEF Init, Once, Senders, Files, Listed1, UnsentIsNew, SentOld, Unsent, Working,
   RetryBusy, Asking, Measuring, OneAtATime, Alone, Hold, SentIsGone, QueueIsNew,
   TriedOnce, QueueAlone, AllIdle, NoQueues, Sender, Exists, Sent

\* Every step keeps what is known of sent and unsent clips.
LEMMA NextOnce ==
  ASSUME Reliable, IInv, FileInv, Once, [Next]_vars
  PROVE  Once'
<1>1. CASE MotionThread
  <2>1. CASE \/ EndRecording \/ FailRecording \/ Discard \/ ListForPruning
             \/ PruneOldest
    <3>1. pc'["live"] # "convert"
      BY <2>1 DEF EndRecording, FailRecording, Discard, ListForPruning,
         PruneOldest, Goto, IInv, TypeOK, Sender
    <3> QED
      BY <2>1, <3>1, MotionQuiet, QuietOnce
  <2> QED
    BY <1>1, <2>1, BeginOnce, MoveOnce DEF MotionThread
<1>2. ASSUME NEW s \in Sender, SendStep(s) PROVE Once'
  <2>1. CASE Answer(s)
    BY <2>1, AnswerOnce
  <2>2. CASE (Convert(s) \/ Reconvert(s)) /\ pc'[s] \in {"measure", "remeasure"}
    BY <2>2, NoteOnce
  <2>3. CASE ~Answer(s) /\ ~(/\ (Convert(s) \/ Reconvert(s))
                               /\ pc'[s] \in {"measure", "remeasure"})
    <3>1. pc'[s] \notin {"measure", "remeasure"} \/ MeasureNote(s)
      BY <1>2, <2>3 DEF SendStep, ConversionRaises, OpenAndSend, Cleanup,
         MarkDelivered, RecordDeliverySuccess, Goto, IInv, TypeOK
    <3> QED
      BY <1>2, <2>3, <3>1, SendQuiet, QuietOnce
  <2> QED
    BY <2>1, <2>2, <2>3
<1>3. CASE RetryTask
  BY <1>3, RestQuiet, QuietOnce, ListOnce, TakeOnce DEF RetryTask
<1>4. CASE ElapseCooldown \/ Prolong \/ ToggleNotifications \/ UNCHANGED vars
  BY <1>4, RestQuiet, QuietOnce
<1>5. ~Crash /\ ~EndOfProcess /\ ~Stop
  BY DEF Reliable, Crash, EndOfProcess, Stop, Cancel, CancelUnstarted,
     RefuseCoroutine
<1> QED
  BY <1>1, <1>2, <1>3, <1>4, <1>5 DEF Next

\* With no crash, stop or lost confirmation, and no note left beside its clip,
\* the chat gets a recording at most once, though two senders scan and retry.
THEOREM ClipsArriveOnce ==
  ASSUME Reliable
  PROVE  Spec => AtMostOnce
<1> DEFINE New == \A s \in Sender : pc[s] = "open" /\ pc'[s] = "inflight"
                    => File(s).name.clip \notin Sent
<1>1. IInv /\ FileInv /\ Once /\ [Next]_vars => Once'
  BY NextOnce
<1>2. IInv /\ Once => New
  BY DEF Once, Senders, UnsentIsNew, Asking, Measuring, Unsent, Working, RetryBusy,
     Sender, ClipOf
<1>3. Spec => []FileInv
  BY FilesInductive
<1> QED
  BY <1>1, <1>2, <1>3, InitOnce, Inductive, PTL DEF Spec, AtMostOnce

-----------------------------------------------------------------------------
(***************************************************************************)
(* Where no send fails, no clip ever reaches the queue, so that the drain  *)
(* sends nothing, and only the motion thread starts a cooldown: what it    *)
(* read before the recording is still true when it sends, unless the       *)
(* interval or the clock changes meanwhile.  A send fails when it is       *)
(* refused, not confirmed or cancelled, when its note cannot be deleted,   *)
(* and when ffmpeg does not start; a crash, a failing rename or an ffmpeg  *)
(* that starts and fails is not enough.                                    *)
(***************************************************************************)
SendsSucceed ==
  Faults \cap {"refused", "ambiguous", "stop", "unlink", "spawn"} = {}

NoQueue == /\ In("pending") = {} /\ ~RetryBusy
           /\ \A s \in Sender : queue[s] = {}
NoteInUse   == \/ pc["live"] \in Measuring
               \/ send["live"].isNote /\ pc["live"] \notin {"settle", "stamp"}
NoteIsThere == NoteInUse => Exists(NoteOf(File("live")))
Answered == pc["live"] \in {"cleanup", "settle"} => send["live"].answer = "yes"
StillWarm ==
  "prolong" \notin Faults =>
    (LiveBusy \/ (pc["live"] = "record" /\ ~inCooldown) => ~IsInCooldown)

Smooth == NoQueue /\ NoteIsThere /\ Answered /\ StillWarm

\* A step that adds nothing to pending, nor anything to a listing.
Unqueued == /\ \A p \in Path : p.dir = "pending" /\ Exists(p)' => Exists(p)
            /\ RetryBusy' => RetryBusy
            /\ \A s \in Sender : queue'[s] \subseteq queue[s]

LEMMA UnqueuedStep == NoQueue /\ Unqueued => NoQueue'
BY DEF NoQueue, Unqueued, In

\* The motion thread's steps outside the send.
LEMMA MotionSmooth ==
  ASSUME SendsSucceed, IInv, Smooth, MotionThread
  PROVE  Smooth'
<1> USE DEF IInv, TypeOK, Sender, Goto, Smooth
<1>1. ~MarkFailed
  BY DEF MarkFailed, Answered
<1>2. pc'["retry"] = pc["retry"]
  BY DEF MotionThread, BeginRecording, EndRecording, FailRecording, Discard,
     SaveTemp, MeasureUsage, ListForPruning, PruneOldest, EndPruning, MarkFailed
<1>3. \A s \in Sender : queue'[s] \subseteq queue[s]
  BY DEF NoQueue, MotionThread, BeginRecording, EndRecording, FailRecording,
     Discard, SaveTemp, MeasureUsage, ListForPruning, PruneOldest, EndPruning,
     MarkFailed, Listing, Entries
<1>4. \A p \in Path : p.dir = "pending" /\ Exists(p)' => Exists(p)
  <2>1. CASE BeginRecording
    BY <2>1 DEF BeginRecording, Exists
  <2>2. CASE SaveTemp
    <3>1. /\ File("live") \in Path
          /\ InDir(File("live"), "recordings").dir = "recordings"
      BY FileFacts DEF InDir
    <3> QED
      BY <2>2, <3>1 DEF SaveTemp, StagingDir, Renamed, Exists
  <2>3. CASE ~BeginRecording /\ ~SaveTemp
    BY <1>1, <2>3 DEF MotionThread, EndRecording, FailRecording, Discard,
       MeasureUsage, ListForPruning, PruneOldest, EndPruning, Exists, Unlinked
  <2> QED
    BY <2>1, <2>2, <2>3
<1>5. NoQueue'
  BY <1>2, <1>3, <1>4, UnqueuedStep DEF Unqueued, RetryBusy
<1>6. /\ pc'["live"] \notin InCall /\ (pc'["live"] # "idle" => ~send'["live"].isNote)
      /\ send'["live"].isNote = FALSE
  BY <1>1 DEF CallOK, InCall, Measuring, NoSend, Return, MotionThread,
     BeginRecording, EndRecording, FailRecording, Discard, SaveTemp,
     MeasureUsage, ListForPruning, PruneOldest, EndPruning
<1>7. NoteIsThere' /\ Answered'
  BY <1>6 DEF NoteIsThere, NoteInUse, Answered, InCall, Measuring
<1>8. StillWarm'
  <2>1. CASE BeginRecording
    BY <2>1 DEF BeginRecording, StillWarm, LiveBusy, gate, IsInCooldown
  <2>2. CASE ~BeginRecording
    <3>1. last' = last
      BY <2>2 DEF MotionThread, EndRecording, FailRecording, Discard, SaveTemp,
         MeasureUsage, ListForPruning, PruneOldest, EndPruning, MarkFailed, gate
    <3>2. LiveBusy' \/ (pc'["live"] = "record" /\ ~inCooldown')
            => LiveBusy \/ (pc["live"] = "record" /\ ~inCooldown)
      BY <2>2 DEF LiveBusy, MotionThread, EndRecording, FailRecording, Discard,
         SaveTemp, MeasureUsage, ListForPruning, PruneOldest, EndPruning,
         MarkFailed
    <3> QED
      BY <3>1, <3>2 DEF StillWarm, IsInCooldown
  <2> QED
    BY <2>1, <2>2
<1> QED
  BY <1>5, <1>7, <1>8

\* The motion thread's send ends with "sent".
LEMMA SendSmooth ==
  ASSUME SendsSucceed, IInv, Smooth, NEW s \in Sender, SendStep(s)
  PROVE  Smooth'
<1> USE DEF IInv, TypeOK, Sender, Goto, Smooth
<1>1. s = "live"
  BY DEF NoQueue, RetryBusy, SendStep, Convert, MeasureNote, Reconvert,
     ConversionRaises, OpenAndSend, Answer, Cleanup, MarkDelivered,
     RecordDeliverySuccess
<1>r. ~ConversionRaises(s)
  BY DEF ConversionRaises, SendsSucceed
<1>2. pc'["retry"] = pc["retry"] /\ queue' = queue
  BY <1>1, <1>r DEF SendStep, Convert, MeasureNote, Reconvert, OpenAndSend, Answer,
     Cleanup, MarkDelivered, RecordDeliverySuccess, local
<1>3. /\ LiveBusy /\ pc["live"] \notin {"save", "quota", "list", "prune"}
      /\ pc'["live"] \notin {"record"}
  BY <1>1, <1>r DEF LiveBusy, SendStep, Convert, MeasureNote, Reconvert, OpenAndSend,
     Answer, Cleanup, MarkDelivered, RecordDeliverySuccess
<1>4. /\ File("live") \in Path /\ File("live").dir # "pending"
      /\ pc["live"] # "stamp" => Exists(File("live"))
      /\ File("live").name.depth = 0
  BY <1>3, FileFacts DEF LiveOK, LiveBusy, ClipName
<1>5. NoteOf(File("live")).dir # "pending"
  BY <1>4 DEF NoteOf
<1>6. \A p \in Path : p.dir = "pending" /\ Exists(p)' => Exists(p)
  <2>1. CASE Convert("live") \/ Reconvert("live")
    BY <1>5, <2>1 DEF Convert, Reconvert, Exists
  <2>2. CASE ~Convert("live") /\ ~Reconvert("live")
    BY <1>1, <1>r, <2>2 DEF SendStep, MeasureNote, OpenAndSend, Answer, Cleanup,
       MarkDelivered, RecordDeliverySuccess, Exists, Unlinked
  <2> QED
    BY <2>1, <2>2
<1>7. NoQueue'
  BY <1>2, <1>6, UnqueuedStep DEF Unqueued, RetryBusy
<1>8. StillWarm'
  <2>1. CASE RecordDeliverySuccess("live")
    BY <2>1 DEF RecordDeliverySuccess, StillWarm, LiveBusy
  <2>2. CASE ~RecordDeliverySuccess("live")
    <3>1. last' = last
      BY <1>1, <1>r, <2>2 DEF SendStep, Convert, MeasureNote, Reconvert, OpenAndSend,
         Answer, Cleanup, MarkDelivered, gate
    <3> QED
      BY <1>3, <3>1 DEF StillWarm, IsInCooldown
  <2> QED
    BY <2>1, <2>2
<1>m. MayFail("unlink") = {TRUE}
  BY DEF MayFail, SendsSucceed
<1>9. NoteIsThere' /\ Answered'
  <2>1. CASE Convert("live")
    <3>1. Now \in Nat \ {0} /\ NoteOf(File("live"))' = NoteOf(File("live"))
      BY <1>3, <2>1 DEF Convert, Now, Ended, LiveOK, LiveBusy, Clip, File, local
    <3> DEFINE note == NoteOf(File("live"))
    <3>2. \/ pc'["live"] = "open" /\ ~send["live"].isNote
          \/ note \in Path /\ disk' = [disk EXCEPT ![note] = Now]
             /\ pc'["live"] = "measure"
      BY <1>4, <2>1, PathFacts DEF Convert, CallOK, InCall, Measuring
    <3>3. send' = send
      BY <2>1 DEF Convert, local
    <3> QED
      BY <3>1, <3>2, <3>3 DEF NoteIsThere, NoteInUse, Answered, Exists, Measuring
  <2>2. CASE Reconvert("live")
    <3>1. Now \in Nat \ {0} /\ NoteOf(File("live"))' = NoteOf(File("live"))
      BY <1>3, <2>2 DEF Reconvert, Now, Ended, LiveOK, LiveBusy, Clip, File, local
    <3> DEFINE note == NoteOf(File("live"))
    <3>2. /\ note \in Path
          /\ disk' = disk \/ disk' = [disk EXCEPT ![note] = Now]
          /\ pc'["live"] \in {"open", "remeasure"}
      BY <1>4, <2>2, PathFacts DEF Reconvert, CallOK, Measuring
    <3>3. send' = send /\ Exists(note)
      BY <2>2 DEF Reconvert, local, NoteIsThere, NoteInUse, Measuring
    <3> QED
      BY <3>1, <3>2, <3>3 DEF NoteIsThere, NoteInUse, Answered, Exists
  <2>3. CASE MeasureNote("live")
    <3>1. Exists(NoteOf(File("live")))
      BY <2>3 DEF MeasureNote, NoteIsThere, NoteInUse, Measuring
    <3>2. File("live")' = File("live") /\ disk' = disk
      BY <2>3 DEF MeasureNote, File
    <3> QED
      BY <2>3, <3>1, <3>2 DEF MeasureNote, NoteIsThere, NoteInUse, Answered,
         Exists, NoteOf
  <2>4. CASE OpenAndSend("live")
    <3>1. /\ pc["live"] = "open" /\ pc'["live"] = "inflight" /\ send' = send
          /\ disk' = disk
      BY <1>4, <2>4 DEF OpenAndSend, NoteIsThere, NoteInUse, local
    <3> QED
      BY <3>1 DEF NoteIsThere, NoteInUse, Answered, Exists, File, Measuring
  <2>5. CASE Answer("live")
    <3>1. \A r \in Results : r.told /\ Verdict(r.told) = "yes"
      BY DEF Results, SendsSucceed, Verdict
    <3>2. send' = [send EXCEPT !["live"].answer = "yes"]
      BY <2>5, <3>1 DEF Answer
    <3>3. /\ pc["live"] = "inflight" /\ pc'["live"] = "cleanup"
          /\ File("live")' = File("live") /\ disk' = disk
          /\ send'["live"].answer = "yes"
          /\ send'["live"].isNote = send["live"].isNote
      BY <2>5, <3>2 DEF Answer, File
    <3> QED
      BY <3>3 DEF NoteIsThere, NoteInUse, Answered, Exists, Measuring
  <2>6. CASE Cleanup("live")
    <3>1. send' = send /\ pc["live"] = "cleanup" /\ pc'["live"] = "settle"
      BY <1>m, <2>6, Zenon DEF Cleanup
    <3> QED
      BY <3>1 DEF NoteIsThere, NoteInUse, Answered, Measuring
  <2>7. CASE MarkDelivered("live") \/ RecordDeliverySuccess("live")
    BY <2>7 DEF MarkDelivered, RecordDeliverySuccess, NoteIsThere, NoteInUse,
       Answered, Measuring, Return, NoSend
  <2> QED
    BY <1>1, <1>r, <2>1, <2>2, <2>3, <2>4, <2>5, <2>6, <2>7 DEF SendStep
<1> QED
  BY <1>7, <1>8, <1>9

\* Every step keeps the queue empty and the sends successful.
LEMMA NextSmooth ==
  ASSUME SendsSucceed, IInv, Smooth, [Next]_vars
  PROVE  Smooth'
<1> USE DEF IInv, TypeOK, Sender, Goto
<1>1. CASE RetryTask
  <2>1. /\ UNCHANGED <<disk, inCooldown, last>>
        /\ pc'["live"] = pc["live"] /\ send'["live"] = send["live"]
    BY <1>1 DEF RetryTask, RetryLater, BeginDrain, NextPending, EndDrain,
       Return, gate, local
  <2>2. queue'["retry"] = {} /\ queue'["live"] = {} /\ ~RetryBusy'
    BY <1>1 DEF RetryTask, RetryLater, BeginDrain, NextPending, EndDrain,
       Smooth, NoQueue, RetryBusy, Listing, Entries, local
  <2> QED
    BY <2>1, <2>2 DEF Smooth, NoQueue, NoteIsThere, NoteInUse, Answered, StillWarm,
       LiveBusy, In, Exists, File, IsInCooldown
<1>2. CASE ElapseCooldown \/ Prolong \/ ToggleNotifications \/ UNCHANGED vars
  <2>1. /\ UNCHANGED <<disk, pc, send, queue, inCooldown>>
        /\ "prolong" \in Faults \/ (IsInCooldown' => IsInCooldown)
    BY <1>2 DEF ElapseCooldown, Prolong, ToggleNotifications, vars, local, gate,
       IsInCooldown
  <2> QED
    BY <2>1 DEF Smooth, NoQueue, NoteIsThere, NoteInUse, Answered, StillWarm,
       LiveBusy, RetryBusy, In, Exists, File
<1>3. CASE Crash
  BY <1>3 DEF Crash, Die, AllIdle, NoSends, NoSend, NoQueues, Smooth, NoQueue,
     NoteIsThere, NoteInUse, Answered, StillWarm, LiveBusy, RetryBusy, Measuring,
        In, Exists
<1>4. ~Stop /\ ~EndOfProcess
  BY DEF SendsSucceed, Stop, Cancel, CancelUnstarted, RefuseCoroutine, EndOfProcess
<1> QED
  BY <1>1, <1>2, <1>3, <1>4, MotionSmooth, SendSmooth DEF Next

LEMMA SmoothInductive == ASSUME SendsSucceed PROVE Spec => []Smooth
<1>1. Init => Smooth
  BY DEF Init, Smooth, NoQueue, NoteIsThere, NoteInUse, Answered, StillWarm,
     LiveBusy, RetryBusy, Measuring, In, Exists, AllIdle, NoSends, NoSend,
        NoQueues, Sender
<1>2. IInv /\ Smooth /\ [Next]_vars => Smooth'
  BY NextSmooth
<1> QED
  BY <1>1, <1>2, Inductive, PTL DEF Spec

\* "Does not send notifications more frequently than the configured interval"
\* holds of the motion thread as long as no send fails and nothing lengthens the
\* cooldown meanwhile: crashes, failing recordings and renames keep it.
THEOREM CooldownHoldsIfSendsSucceed ==
  ASSUME SendsSucceed, "prolong" \notin Faults
  PROVE  Spec => NoLiveSendInCooldown
<1> DEFINE Warm == pc["live"] = "open" /\ pc'["live"] = "inflight" => ~IsInCooldown
<1>1. Smooth => Warm
  BY DEF Smooth, StillWarm, LiveBusy
<1> QED
  BY <1>1, SmoothInductive, PTL DEF NoLiveSendInCooldown

\* Only a failed send fills the retry queue.
THEOREM OnlyFailedSendsQueue ==
  ASSUME SendsSucceed
  PROVE  Spec => [](In("pending") = {})
<1>1. Smooth => In("pending") = {}
  BY DEF Smooth, NoQueue
<1> QED
  BY <1>1, SmoothInductive, PTL
=============================================================================
