------------------------------ MODULE Delivery ------------------------------
(***************************************************************************)
(* The path of a recorded clip to the owner's chat: main.py's              *)
(* handle_motion_event, on the motion thread (sender "live"), and its      *)
(* retry-queue drain, a task of the event loop (sender "retry").  Both     *)
(* call send_video_note_with_retry on files of one StorageManager.         *)
(*                                                                         *)
(* A sender runs one action per step that another thread, the other        *)
(* coroutine or a crash can separate.  The two coroutines share the event  *)
(* loop, so neither runs between the other's awaits (LoopFree); the motion *)
(* thread's own steps run at any moment.                                   *)
(*                                                                         *)
(* Abstractions: every file has size 1; the clip of the n-th recording has *)
(* modification time 2n, and a note made before the next recording ends    *)
(* 2n+1; of the cooldown's clock, interval and file, which are             *)
(* Cooldown.tla's, only where the last delivery lies is left.              *)
(***************************************************************************)
EXTENDS Naturals, FiniteSets

CONSTANTS
  MaxClips,  \* bound: recordings in a behaviour
  MaxDepth,  \* bound: a note of a note of ... is converted at most this deep
  Quota,     \* disk_quota_mb, in files
  Faults     \* what the environment may do wrong, a subset of FaultKinds

FaultKinds == {"crash",       \* the process dies and systemd restarts it
               "stop",        \* it ends in order: coroutines are cancelled
               "ambiguous",   \* Telegram has the clip, the client gets an error
               "refused",     \* Telegram or the network refuses the send
               "unlink",      \* OSError from unlink
               "rename",      \* OSError from mkdir or rename
               "conversion",  \* ffmpeg fails to make a note
               "oversize",    \* ffmpeg's note is over max_size_mb
               "spawn",       \* OSError from starting ffmpeg for a note
               "prolong",     \* interval raised, or clock set back
               "recording"}   \* ffmpeg or the frame source fails a recording

ASSUME DeliveryAssumption == /\ MaxClips \in Nat \ {0}
                             /\ MaxDepth \in Nat
                             /\ Quota \in Nat
                             /\ Faults \subseteq FaultKinds

Clip   == 1..MaxClips
Sender == {"live", "retry"}
Dir    == {"tmp", "recordings", "pending"}

\* A file name: depth 0 is the clip <uuid>.mp4, depth d+1 the name that
\* sending depth d gives its note, <stem>_note.mp4.
Name == [clip : Clip, depth : 0..MaxDepth]
Path == [dir : Dir, name : Name]
ClipName(c) == [clip |-> c, depth |-> 0]

VARIABLES
  disk,           \* modification time of every file, 0 where there is none
  pc,             \* the next step of each sender
  send,           \* each sender's call: clip_path, is_note and its outcome
  queue,          \* listing of pending_dir each sender works through
  total,          \* total_bytes of enforce_quota
  inCooldown,     \* in_cooldown, read before the recording
  recorded,       \* recordings started
  last,           \* last_delivery_at: never, within the interval, or past it
  notifications,  \* notifications_enabled()
  received,       \* ghost: file names the owner's chat has received
  kept,           \* ghost: clips recorded outside the cooldown
  pruned          \* ghost: clips deleted for the quota

local  == <<send, queue, total, inCooldown>>
ghosts == <<received, kept, pruned>>
gate   == <<last, notifications>>
vars   == <<disk, pc, local, recorded, gate, ghosts>>

Controls == {"idle", "record", "discard", "save", "quota", "list", "prune",
             "convert", "measure", "reconvert", "remeasure", "open",
             "inflight", "cleanup", "settle", "stamp", "next"}

-----------------------------------------------------------------------------
\* Files.

Exists(p)  == disk[p] # 0
OnDisk(c)  == \E d \in Dir : Exists([dir |-> d, name |-> ClipName(c)])
Pending(c) == Exists([dir |-> "pending", name |-> ClipName(c)])
In(d)      == {p \in Path : p.dir = d /\ Exists(p)}
Usage      == Cardinality(In("recordings")) + Cardinality(In("pending"))

\* list_pending: the files with the times they are sorted by.  A listing is
\* consumed oldest first, whatever has become of the files since.
Entries(S) == {[path |-> p, mtime |-> disk[p]] : p \in S}
ListingAll == Entries(In("pending") \cup In("recordings"))  \* mutant: both directories
Listing    == Entries(In("pending"))
Unsorted(q) == q  \* mutant of Oldest: the directory's own order
Oldest(q)  == {e \in q : \A f \in q : e.mtime <= f.mtime}

KeptFile(p) == disk  \* mutant of Unlinked: the file is not deleted
Unlinked(p) == [disk EXCEPT ![p] = 0]
InDir(p, d) == [dir |-> d, name |-> p.name]
LostRename(p, d) == [disk EXCEPT ![p] = 0]  \* mutant: the file does not arrive
Renamed(p, d) == [disk EXCEPT ![p] = 0, ![InDir(p, d)] = disk[p]]
NoteInPlace(p) == p  \* mutant: the note is written over the clip
NoteOf(p)   == [dir |-> p.dir,
                name |-> [clip |-> p.name.clip, depth |-> p.name.depth + 1]]

\* Recordings that have ended, and so the time of a file written now.
Ended == IF pc["live"] = "record" THEN recorded - 1 ELSE recorded
Now   == 2 * Ended + 1

\* Whether an operation is done: it may fail of itself.
MayFail(fault) == {TRUE} \cup (IF fault \in Faults THEN {FALSE} ELSE {})

Goto(s, c) == pc' = [pc EXCEPT ![s] = c]

\* The locals of a call that is not running.
NoSend == [file |-> [dir |-> "tmp", name |-> ClipName(1)],
           isNote |-> FALSE, answer |-> "no"]
Return(s) == send' = [send EXCEPT ![s] = NoSend]
File(s)   == send[s].file

\* s is between two awaits: its coroutine has the event loop.  The drain keeps
\* it from its listing to its first request, and from one request to the next.
HasLoop(s) ==
  \/ pc[s] \in {"measure", "reconvert", "remeasure", "open", "cleanup"}
  \/ s = "retry" /\ pc[s] \in {"settle", "stamp", "next", "convert"}
LoopFree(s) == \A o \in Sender \ {s} : ~HasLoop(o)

IsInCooldown == last = "within"

-----------------------------------------------------------------------------
\* The motion thread: handle_motion_event and enforce_quota.

\* A confirmed motion event.  The cooldown is read here, before the clip is
\* recorded; ffmpeg creates its output file at once.
BeginRecording ==
  /\ pc["live"] = "idle" /\ notifications /\ recorded < MaxClips
  /\ recorded' = recorded + 1
  /\ inCooldown' = IsInCooldown
  /\ LET p == [dir |-> "tmp", name |-> ClipName(recorded + 1)]
     IN  /\ send' = [send EXCEPT !["live"].file = p]
         /\ disk' = [disk EXCEPT ![p] = 2 * (recorded + 1)]
  /\ Goto("live", "record")
  /\ UNCHANGED <<queue, total, gate, ghosts>>

EndRecording ==
  /\ pc["live"] = "record"
  /\ IF inCooldown
       THEN kept' = kept /\ Goto("live", "discard")
       ELSE kept' = kept \cup {File("live").name.clip} /\ Goto("live", "save")
  /\ inCooldown' = FALSE
  /\ UNCHANGED <<disk, send, queue, total, recorded, gate, received, pruned>>

\* RecordingFailedError or FrameSourceError: what was written stays in tmp.
FailRecording ==
  /\ pc["live"] = "record" /\ "recording" \in Faults
  /\ \E written \in BOOLEAN :
       disk' = IF written THEN disk ELSE Unlinked(File("live"))
  /\ inCooldown' = FALSE
  /\ Return("live") /\ Goto("live", "idle")
  /\ UNCHANGED <<queue, total, recorded, gate, ghosts>>

KeepDiscarded ==  \* mutant: the clip is not deleted
  /\ pc["live"] = "discard"
  /\ Return("live") /\ Goto("live", "idle")
  /\ UNCHANGED <<disk, queue, total, inCooldown, recorded, gate, ghosts>>

Discard ==
  /\ pc["live"] = "discard"
  /\ \E done \in MayFail("unlink") :
       disk' = IF done THEN Unlinked(File("live")) ELSE disk
  /\ Return("live") /\ Goto("live", "idle")
  /\ UNCHANGED <<queue, total, inCooldown, recorded, gate, ghosts>>

StagingPending == "pending"  \* mutant: unsent clips saved among the failed
StagingDir == "recordings"
SaveTemp ==
  /\ pc["live"] = "save"
  /\ \E done \in MayFail("rename") :
       IF done /\ Exists(File("live"))
         THEN /\ disk' = Renamed(File("live"), StagingDir)
              /\ send' = [send EXCEPT !["live"].file = InDir(@, StagingDir)]
         ELSE UNCHANGED <<disk, send>>
  /\ Goto("live", "quota")
  /\ UNCHANGED <<queue, total, inCooldown, recorded, gate, ghosts>>

MeasureUsage ==
  /\ pc["live"] = "quota"
  /\ IF Usage <= Quota
       THEN Goto("live", "convert") /\ UNCHANGED total
       ELSE Goto("live", "list") /\ total' = Usage
  /\ UNCHANGED <<disk, send, queue, inCooldown, recorded, gate, ghosts>>

ListForPruning ==
  /\ pc["live"] = "list"
  /\ queue' = [queue EXCEPT !["live"] = Listing]
  /\ Goto("live", "prune")
  /\ UNCHANGED <<disk, send, total, inCooldown, recorded, gate, ghosts>>

\* One turn of enforce_quota's loop: a file that is gone, or that cannot be
\* deleted, is passed over and not subtracted.
PruneOldest ==
  /\ pc["live"] = "prune" /\ total > Quota
  /\ \E e \in Oldest(queue["live"]), done \in MayFail("unlink") :
       /\ queue' = [queue EXCEPT !["live"] = @ \ {e}]
       /\ IF done /\ Exists(e.path)
            THEN /\ disk' = Unlinked(e.path)
                 /\ total' = total - 1
                 /\ pruned' = IF e.path.name.depth = 0
                                THEN pruned \cup {e.path.name.clip} ELSE pruned
            ELSE UNCHANGED <<disk, total, pruned>>
  /\ UNCHANGED <<pc, send, inCooldown, recorded, gate, received, kept>>

EndPruning ==
  /\ pc["live"] = "prune"
  /\ total <= Quota \/ queue["live"] = {}
  /\ queue' = [queue EXCEPT !["live"] = {}] /\ total' = 0
  /\ Goto("live", "convert")
  /\ UNCHANGED <<disk, send, inCooldown, recorded, gate, ghosts>>

-----------------------------------------------------------------------------
\* send_video_note_with_retry, run by both senders on the event loop.

\* convert_to_video_note up to ffmpeg's exit.  It needs its input; a failing
\* ffmpeg may leave a partial output, and overwrites what it finds there.
Convert(s) ==
  /\ pc[s] = "convert" /\ LoopFree(s)
  /\ LET ready    == Exists(File(s)) /\ File(s).name.depth < MaxDepth
         WithNote == [disk EXCEPT ![NoteOf(File(s))] = Now]
     IN  \/ ready /\ disk' = WithNote /\ Goto(s, "measure")
         \/ /\ ~ready \/ "conversion" \in Faults
            /\ UNCHANGED disk \/ (ready /\ disk' = WithNote)
            /\ Goto(s, "open")
  /\ UNCHANGED <<local, recorded, gate, ghosts>>

\* convert_to_video_note stats its output; if that is gone, the OSError leaves
\* send_video_note_with_retry too.  A note over max_size_mb is made once more,
\* smaller, and then taken at any size.
MeasureNote(s) ==
  /\ pc[s] \in {"measure", "remeasure"}
  /\ \/ /\ Exists(NoteOf(File(s)))
        /\ send' = [send EXCEPT ![s].isNote = TRUE] /\ Goto(s, "open")
     \/ /\ ~Exists(NoteOf(File(s)))
        /\ send' = [send EXCEPT ![s].answer = "raised"] /\ Goto(s, "settle")
     \/ /\ pc[s] = "measure" /\ "oversize" \in Faults
        /\ Exists(NoteOf(File(s)))
        /\ Goto(s, "reconvert") /\ UNCHANGED send
  /\ UNCHANGED <<disk, queue, total, inCooldown, recorded, gate, ghosts>>

\* The second conversion, over the first note.  If it fails the clip is sent
\* as it is, and the note, or what was written of it, stays.
Reconvert(s) ==
  /\ pc[s] = "reconvert"
  /\ LET WithNote == [disk EXCEPT ![NoteOf(File(s))] = Now]
     IN  \/ Exists(File(s)) /\ disk' = WithNote /\ Goto(s, "remeasure")
         \/ /\ ~Exists(File(s)) \/ "conversion" \in Faults
            /\ UNCHANGED disk \/ (Exists(File(s)) /\ disk' = WithNote)
            /\ Goto(s, "open")
  /\ UNCHANGED <<local, recorded, gate, ghosts>>

\* Either conversion may raise the OSError of a failed mkdir or of an ffmpeg
\* that does not start, which is not the VideoNoteConversionError the caller
\* catches.  It leaves send_video_note_with_retry before the try with the
\* "finally", and a first note with it.
ConversionRaises(s) ==
  /\ "spawn" \in Faults
  /\ pc[s] = "reconvert" \/ (pc[s] = "convert" /\ LoopFree(s))
  /\ send' = [send EXCEPT ![s].answer = "raised"]
  /\ Goto(s, "settle")
  /\ UNCHANGED <<disk, queue, total, inCooldown, recorded, gate, ghosts>>

\* Open the file and start the request; a missing file is "not delivered".
OpenAndSend(s) ==
  /\ pc[s] = "open"
  /\ Goto(s, IF Exists(IF send[s].isNote THEN NoteOf(File(s)) ELSE File(s))
               THEN "inflight" ELSE "cleanup")
  /\ UNCHANGED <<disk, local, recorded, gate, ghosts>>

\* How a request ends: the chat may have got the file or not, and the client
\* may be told so or not, but it is never told "sent" of a file not received.
AnyResult == [got : BOOLEAN, told : BOOLEAN]  \* mutant: an error taken for "sent"
Results == {r \in [got : BOOLEAN, told : BOOLEAN] :
              /\ r.told => r.got
              /\ r.got /\ ~r.told => "ambiguous" \in Faults
              /\ ~r.got => "refused" \in Faults}

\* True is returned of a send that raised nothing, False of any exception.
NoVerdict(told) == IF told THEN "yes" ELSE "none"  \* mutant: no "return False"
Verdict(told) == IF told THEN "yes" ELSE "no"

Answer(s) ==
  /\ pc[s] = "inflight" /\ LoopFree(s)
  /\ \E r \in Results :
       /\ send' = [send EXCEPT ![s].answer = Verdict(r.told)]
       /\ received' = IF r.got THEN received \cup {File(s).name} ELSE received
  /\ Goto(s, "cleanup")
  /\ UNCHANGED <<disk, queue, total, inCooldown, recorded, gate, kept, pruned>>

\* The finally clause: only a note that was converted is deleted, and an
\* OSError there replaces whatever the send returned.
Cleanup(s) ==
  /\ pc[s] = "cleanup"
  /\ IF send[s].isNote
       THEN \E done \in MayFail("unlink") :
              IF done
                THEN disk' = Unlinked(NoteOf(File(s))) /\ UNCHANGED send
                ELSE send' = [send EXCEPT ![s].answer = "raised"] /\ UNCHANGED disk
       ELSE UNCHANGED <<disk, send>>
  /\ Goto(s, "settle")
  /\ UNCHANGED <<queue, total, inCooldown, recorded, gate, ghosts>>

-----------------------------------------------------------------------------
\* An orderly stop.  Lifecycle.tla says when; here it may happen at any time.

\* CancelledError at the await of the request: no "except Exception" takes it,
\* and whether the chat has got the file is open.
CancelTakenForNo(s) ==  \* mutant: "except BaseException"
  /\ "stop" \in Faults /\ pc[s] = "inflight" /\ LoopFree(s)
  /\ send' = [send EXCEPT ![s].answer = "no"]
  /\ Goto(s, "cleanup")
  /\ UNCHANGED <<disk, queue, total, inCooldown, recorded, gate, ghosts>>

Cancel(s) ==
  /\ "stop" \in Faults /\ pc[s] = "inflight" /\ LoopFree(s)
  /\ send' = [send EXCEPT ![s].answer = "raised"]
  /\ received' \in {received, received \cup {File(s).name}}
  /\ Goto(s, "cleanup")
  /\ UNCHANGED <<disk, queue, total, inCooldown, recorded, gate, kept, pruned>>

\* The motion thread's coroutine is cancelled before its first step.
CancelEscapes ==  \* mutant: asyncio's CancelledError, no Exception
  /\ "stop" \in Faults /\ pc["live"] = "convert" /\ LoopFree("live")
  /\ Return("live") /\ Goto("live", "idle")
  /\ UNCHANGED <<disk, queue, total, inCooldown, recorded, gate, ghosts>>

CancelUnstarted ==
  /\ "stop" \in Faults /\ pc["live"] = "convert" /\ LoopFree("live")
  /\ send' = [send EXCEPT !["live"].answer = "raised"]
  /\ Goto("live", "settle")
  /\ UNCHANGED <<disk, queue, total, inCooldown, recorded, gate, ghosts>>

\* The loop is closed: run_coroutine_threadsafe raises outside _deliver_sync's
\* try, and nobody marks the clip.
RefuseCoroutine ==
  /\ "stop" \in Faults /\ pc["live"] = "convert"
  /\ Return("live") /\ Goto("live", "idle")
  /\ UNCHANGED <<disk, queue, total, inCooldown, recorded, gate, ghosts>>

-----------------------------------------------------------------------------
\* What each sender does with the outcome.

MarkDelivered(s) ==
  /\ pc[s] = "settle" /\ send[s].answer = "yes"
  /\ \E done \in MayFail("unlink") :
       disk' = IF done THEN Unlinked(File(s)) ELSE disk
  /\ Goto(s, "stamp")
  /\ UNCHANGED <<local, recorded, gate, ghosts>>

\* record_delivery_success; the drain then goes on with its list.
RecordDeliverySuccess(s) ==
  /\ pc[s] = "stamp"
  /\ last' = "within"
  /\ Return(s) /\ Goto(s, IF s = "live" THEN "idle" ELSE "next")
  /\ UNCHANGED <<disk, queue, total, inCooldown, recorded, notifications, ghosts>>

\* _deliver_sync turns an exception into False.
MarkFailed ==
  /\ pc["live"] = "settle" /\ send["live"].answer # "yes"
  /\ \E done \in MayFail("rename") :
       disk' = IF done /\ Exists(File("live"))
                 THEN Renamed(File("live"), "pending") ELSE disk
  /\ Return("live") /\ Goto("live", "idle")
  /\ UNCHANGED <<queue, total, inCooldown, recorded, gate, ghosts>>

\* A False leaves the file for the next pass; an exception ends this pass.
RetryLater ==
  /\ pc["retry"] = "settle" /\ send["retry"].answer # "yes"
  /\ IF send["retry"].answer = "no"
       THEN Goto("retry", "next") /\ UNCHANGED queue
       ELSE Goto("retry", "idle") /\ queue' = [queue EXCEPT !["retry"] = {}]
  /\ Return("retry")
  /\ UNCHANGED <<disk, total, inCooldown, recorded, gate, ghosts>>

\* _retry_queue_loop: at start-up and every _RETRY_QUEUE_INTERVAL_SECONDS.
BeginDrain ==
  /\ pc["retry"] = "idle" /\ LoopFree("retry")
  /\ queue' = [queue EXCEPT !["retry"] = Listing]
  /\ Goto("retry", "next")
  /\ UNCHANGED <<disk, send, total, inCooldown, recorded, gate, ghosts>>

ClaimPending ==  \* mutant: the clip leaves pending before it is sent
  /\ pc["retry"] = "next" /\ queue["retry"] # {} /\ LoopFree("retry")
  /\ \E e \in Oldest(queue["retry"]) :
       /\ send' = [send EXCEPT !["retry"].file = InDir(e.path, "tmp")]
       /\ queue' = [queue EXCEPT !["retry"] = @ \ {e}]
       /\ disk' = IF Exists(e.path) THEN Renamed(e.path, "tmp") ELSE disk
  /\ Goto("retry", "convert")
  /\ UNCHANGED <<total, inCooldown, recorded, gate, ghosts>>

NextPending ==
  /\ pc["retry"] = "next" /\ queue["retry"] # {} /\ LoopFree("retry")
  /\ \E e \in Oldest(queue["retry"]) :
       /\ send' = [send EXCEPT !["retry"].file = e.path]
       /\ queue' = [queue EXCEPT !["retry"] = @ \ {e}]
  /\ Goto("retry", "convert")
  /\ UNCHANGED <<disk, total, inCooldown, recorded, gate, ghosts>>

DrainOnce ==  \* mutant: the pass ends and none begins again
  /\ pc["retry"] = "next" /\ queue["retry"] = {}
  /\ UNCHANGED vars

EndDrain ==
  /\ pc["retry"] = "next" /\ queue["retry"] = {}
  /\ Goto("retry", "idle")
  /\ UNCHANGED <<disk, local, recorded, gate, ghosts>>

-----------------------------------------------------------------------------
\* The rest of the system.

\* Time passes, the interval is lowered, or a restart finds another file.
ElapseCooldown ==
  /\ IsInCooldown /\ last' = "past"
  /\ UNCHANGED <<disk, pc, local, recorded, notifications, ghosts>>

\* /cooldown raises the interval, the clock is set back, or a restart loads a
\* longer interval: an earlier delivery is within it again.
Prolong ==
  /\ "prolong" \in Faults /\ last = "past" /\ last' = "within"
  /\ UNCHANGED <<disk, pc, local, recorded, notifications, ghosts>>

\* /notifications_on and /notifications_off, handlers on the event loop.
ToggleNotifications ==
  /\ \A s \in Sender : ~HasLoop(s)
  /\ notifications' = ~notifications
  /\ UNCHANGED <<disk, pc, local, recorded, last, ghosts>>

\* A process that is gone starts again with the same files; the locals of its
\* calls are lost.
AllIdle  == [s \in Sender |-> "idle"]
NoSends  == [s \in Sender |-> NoSend]
NoQueues == [s \in Sender |-> {}]

Die == /\ pc' = AllIdle /\ send' = NoSends /\ queue' = NoQueues
       /\ total' = 0 /\ inCooldown' = FALSE
       /\ UNCHANGED <<disk, recorded, gate, ghosts>>

Crash == "crash" \in Faults /\ Die

\* An orderly end: the drain is over, and no coroutine is between two awaits.
\* The motion thread, a daemon, and what it waits for may be anywhere else.
EndOfProcess ==
  /\ "stop" \in Faults /\ pc["retry"] = "idle" /\ ~HasLoop("live")
  /\ Die

-----------------------------------------------------------------------------
Init ==
  /\ pc = AllIdle /\ send = NoSends /\ queue = NoQueues
  /\ total = 0 /\ inCooldown = FALSE
  /\ disk = [p \in Path |-> 0] /\ recorded = 0
  /\ last = "never" /\ notifications = TRUE
  /\ received = {} /\ kept = {} /\ pruned = {}

MotionThread == \/ BeginRecording \/ EndRecording \/ FailRecording \/ Discard
                \/ SaveTemp \/ MeasureUsage \/ ListForPruning \/ PruneOldest
                \/ EndPruning \/ MarkFailed

SendStep(s) ==
  \/ Convert(s) \/ MeasureNote(s) \/ Reconvert(s) \/ ConversionRaises(s)
  \/ OpenAndSend(s) \/ Answer(s) \/ Cleanup(s)
  \/ MarkDelivered(s) \/ RecordDeliverySuccess(s)

RetryTask == RetryLater \/ BeginDrain \/ NextPending \/ EndDrain

Stop == (\E s \in Sender : Cancel(s)) \/ CancelUnstarted \/ RefuseCoroutine

Next == \/ MotionThread \/ (\E s \in Sender : SendStep(s)) \/ RetryTask
        \/ ElapseCooldown \/ Prolong \/ ToggleNotifications
        \/ Stop \/ EndOfProcess \/ Crash

Spec == Init /\ [][Next]_vars

\* The system runs the motion thread, and disk, ffmpeg and requests return.
\* asyncio runs ready coroutines first come, first served, so one that is ready
\* again and again runs (SF).  The environment's part: ffmpeg starts for a clip
\* that it is to convert again and again, and Telegram takes it.
Fairness ==
  /\ WF_vars(MotionThread) /\ SF_vars(RetryTask)
  /\ \A s \in Sender : SF_vars(SendStep(s))
  /\ \A c \in Clip :
       /\ SF_vars(\E s \in Sender : Convert(s) /\ File(s).name = ClipName(c))
       /\ SF_vars(\E s \in Sender :
            Answer(s) /\ File(s).name = ClipName(c) /\ send'[s].answer = "yes")

FairSpec == Spec /\ Fairness

-----------------------------------------------------------------------------
\* Properties.

\* The state has the shape the actions rely on.
TypeOK ==
  /\ disk \in [Path -> Nat]
  /\ pc \in [Sender -> Controls]
  /\ send \in [Sender -> [file : Path, isNote : BOOLEAN,
                        answer : {"yes", "no", "raised"}]]
  /\ queue \in [Sender -> SUBSET [path : Path, mtime : Nat]]
  /\ total \in Nat
  /\ recorded \in 0..MaxClips
  /\ inCooldown \in BOOLEAN /\ notifications \in BOOLEAN
  /\ last \in {"never", "within", "past"}
  /\ received \subseteq Name
  /\ kept \subseteq Clip /\ pruned \subseteq Clip

\* A clip recorded outside the cooldown is never lost: until the chat has
\* received it, or the quota has taken it, its file is somewhere on disk,
\* whatever crashes, failures and pruning do around it.
NoClipLost ==
  \A c \in kept : OnDisk(c) \/ ClipName(c) \in received \/ c \in pruned

LiveBusy  == pc["live"] \notin {"idle", "record", "discard"}
RetryBusy == pc["retry"] \notin {"idle", "next"}

\* The motion thread and the drain never work on the same recording, though
\* they share the directories: a clip is handed over through pending_dir.
SingleSender ==
  LiveBusy /\ RetryBusy => File("live").name.clip # File("retry").name.clip

\* From its recording to its outcome the motion thread's clip stays where the
\* thread believes it is: neither its own pruning nor the drain takes it.
LiveFileStays == LiveBusy /\ pc["live"] # "stamp" => Exists(File("live"))

\* A clip in the retry queue stays there through every pass and every fault,
\* until the chat has received it or the quota has taken it.
QueueIsDurable ==
  [][\A c \in kept : Pending(c) =>
       Pending(c)' \/ ClipName(c) \in received' \/ c \in pruned']_vars

\* The quota takes the oldest first ("Delete oldest pending clips first",
\* storage.py:138), though its listing ages while the drain sends and deletes
\* the same files: no file goes while a clip as old as its own is in the queue.
PrunesOldestFirst ==
  [][\A p \in In("pending") :
       pc["live"] = "prune" /\ queue'["live"] # queue["live"] /\ ~Exists(p)'
         => \A c \in 1..p.name.clip : ~Pending(c)']_vars

\* Clips still to be delivered that are neither in the queue nor in the motion
\* thread's hands.  Nothing scans recordings or tmp.
Stranded == {c \in kept : /\ OnDisk(c) /\ ClipName(c) \notin received
                          /\ ~Pending(c)
                          /\ ~(LiveBusy /\ File("live").name.clip = c)}

\* Whatever fails, crashes or stops, it strands no clip but the one the motion
\* thread has: the drain puts none of the queue at risk.  And what is stranded
\* stays so: no restart, pass or quota takes it up again (main.py's start-up
\* drain lists pending_dir alone).
StrandsOnlyLive ==
  [][/\ Stranded \subseteq Stranded'
     /\ \A c \in Stranded' \ Stranded : LiveBusy /\ File("live").name.clip = c]_vars

\* Where recordings, deletions and moves succeed and the process goes on, tmp,
\* which no quota counts and nothing cleans, has only the clip being recorded.
TmpOnlyLive ==
  In("tmp") \subseteq
    (IF pc["live"] \in {"record", "discard", "save"} THEN {File("live")} ELSE {})

\* Recordings of which the chat has the clip, or a note that was left of it.
Sent == {n.clip : n \in received}

\* With no crash, stop or lost confirmation, and no note left beside its clip
\* by a failing conversion or unlink, the chat gets a recording at most once,
\* as clip or as note, though two senders scan and retry.
AtMostOnce ==
  [][\A s \in Sender : pc[s] = "open" /\ pc'[s] = "inflight"
        => File(s).name.clip \notin Sent]_vars

\* A cooldown begins only after the chat has received the file whose sender
\* begins it (cooldown.py: "only resets on a confirmed successful delivery"),
\* or again, when a changed interval or clock reaches back to a delivery.
CooldownNeedsReceipt ==
  [][~IsInCooldown /\ IsInCooldown' =>
       \/ \E s \in Sender : pc[s] = "stamp" /\ File(s).name \in received
       \/ last = "past" /\ received # {} /\ UNCHANGED pc]_vars

\* Every clip recorded outside the cooldown arrives or is pruned in the end.
EveryClipArrives ==
  \A c \in Clip : c \in kept ~> ClipName(c) \in received \/ c \in pruned

\* The path implements the abstract outbox.
Outbox == INSTANCE Outbox WITH
            held <- {c \in kept : OnDisk(c)},
            received <- {c \in kept : ClipName(c) \in received},
            pruned <- kept \cap pruned
ImplementsOutbox == Outbox!Spec

-----------------------------------------------------------------------------
\* What the repository says of the path and the code does not keep.

\* main.py:17: "a failure always lands the clip in storage/pending/": when the
\* motion thread leaves a send that has failed, its clip is in the retry queue.
FailureIsPending ==
  [][\A c \in Clip :
       /\ pc["live"] = "settle" /\ send["live"].answer # "yes"
       /\ File("live").name.clip = c /\ pc'["live"] = "idle"
       => Pending(c)']_vars

\* AGENT_PROMPT_EN.md:20: "Does not send notifications more frequently than the
\* configured interval": the motion thread starts no send during a cooldown.
NoLiveSendInCooldown ==
  [][pc["live"] = "open" /\ pc'["live"] = "inflight" => ~IsInCooldown]_vars
=============================================================================
