# CatCam in TLA+

CatCam watches a room through a Raspberry Pi camera, records a clip when
something moves, and sends it to its owner's Telegram chat as a video note.
These modules model the parts of `src/src/catcam` whose correctness depends on
order: two threads and an event loop on the same files, a state file written by
two threads, one camera that three programs want, a stream of pictures cut at
arbitrary places, a detector that sees only some of the frames, and a process
that must end while its parts wait for each other. Paths below are relative to
`src/`.

## The system

| Component | State | Operations | Talks to |
|---|---|---|---|
| Motion thread (`main.py`: `_motion_pipeline_thread`, `process_frame_for_motion`, `handle_motion_event`) | pre-roll deque, the detector, the clip in hand | read a frame, detect, record, save, prune, deliver and wait | camera or feed; `StorageManager`; the event loop through `run_coroutine_threadsafe`; `CooldownManager` |
| Event loop (`main.py`: `_run`, `_retry_queue_loop`, `send_video_note_with_retry`) | the send under way, the drain's listing | drain every 60 s, send, run bot commands | Telegram; `StorageManager`; `CooldownManager` |
| `StorageManager` (`storage.py`) | three directories | save_temp, mark_delivered, mark_failed, list_pending, enforce_quota | called by both of the above with no lock |
| `CooldownManager` (`cooldown.py`) | three fields and a JSON file | record_delivery_success, set_interval_minutes, enable and disable_notifications, is_in_cooldown, _load, _save | called by both with no lock |
| `MotionDetector`, `Recorder` (`motion.py`, `recorder.py`) | frame count, decided flag, is_recording_active | process_frame, record_event | the motion thread only |
| Camera (`camera.py`, `frame_source.py`, `stream_publisher.py`) | a flock, the open device, MediaMTX's feed | acquire, open, read, close, release; publish; fall back | the publisher service, the motion thread, `/snapshot` and `/record` |
| CSI backend (`camera.py`: `CsiCameraBackend`, `_split_mjpeg_frames`) | lock, `rpicam-vid`, byte buffer, frame queue | open, read_frame, close | `rpicam-vid`'s pipe |
| Process (`main.py`: `_run`, `main`) | stop event, the retry task, the signal | start, serve, stop, join, cancel what is left | all of the above; systemd |
| Bot (`telegram_bot.py`) | none of its own | commands, authorization | everything above; `systemctl restart` |
| Configuration (`config.py`) | read once per process | load, validate | every component's constants |
| `health.py`, `stream_health.py`, `logging_config.py`, `scripts/` | none that the others read | reports, log lines, installation | |
| `deploy/systemd` | which services run, `/run/catcam` | start, stop, restart on failure | the main process, the publisher, MediaMTX |

What is hard: the quota pruner deletes files the event loop is converting and
sending; a crash may come between any two file operations; Telegram may accept
what it answers with an error; a value read before a ten-second recording is
used after it; `_save` runs on two threads; a lock file can be removed while it
is locked; a fallback has no way back; the detector's and the pre-roll's
memories outlive gaps they know nothing of; a marker can lie in two chunks of a
stream; at a stop the thread waits for the loop, the loop for the thread, and
`systemctl`, which a command waits for, for both.

What makes each part correct: no clip that should be sent is lost, the two
senders keep off each other's files, every clip arrives in the end and (short
of a lost confirmation) once; a cooldown means a delivery; a saved change
survives a restart; one opener has the camera and the pipeline comes back after
an outage; what is cut from the stream is frames of the camera and none is held
back; each sustained episode the detector sees has exactly one event, and its
clip shows it; a SIGTERM ends the process without harm to what is pending.

## The modules

### `Delivery.tla`, with `Outbox.tla` and `DeliveryProofs`, `OutboxProofs`, `OnceProofs`

The path of a clip from the end of its detection to the chat. Two senders run
the same code: `live`, the motion thread (and, while it waits, its coroutine on
the loop), and `retry`, the drain. `pc` is the next step of each. A step ends
where another thread, the other coroutine or a crash can come between:

| Action | Code |
|---|---|
| BeginRecording, EndRecording, FailRecording | `process_frame_for_motion` up to the return or exception of `record_event`; the cooldown is read at the beginning |
| Discard | `handle_motion_event`, a clip recorded in the cooldown |
| SaveTemp | `save_temp`; a failed rename leaves the clip in `tmp` and it is sent from there |
| MeasureUsage, ListForPruning, PruneOldest, EndPruning | `enforce_quota`: measured once, listed once, one file a turn |
| Convert, MeasureNote, Reconvert | `convert_to_video_note`: ffmpeg, the `stat` of its output, and the second, smaller conversion of a note over the cap with its own `stat` |
| ConversionRaises | the OSError of a `mkdir` that fails or of an ffmpeg that does not start, which `send_video_note_with_retry` does not catch: False for the motion thread, the end of the pass for the drain |
| OpenAndSend, Answer, Cleanup | the rest of `send_video_note_with_retry`; Answer is the await |
| MarkDelivered, RecordDeliverySuccess, MarkFailed, RetryLater | what each caller does with the result |
| BeginDrain, NextPending, EndDrain | `_retry_queue_loop`, `drain_retry_queue_once` |
| Cancel, CancelUnstarted, RefuseCoroutine | an orderly stop: a request, or a coroutine not yet begun, is cancelled, and `run_coroutine_threadsafe` fails on a closed loop |
| ElapseCooldown, Prolong, ToggleNotifications | time and bot commands |
| Crash, EndOfProcess | the process dies anywhere, or ends in order, with the drain over and no coroutine between two awaits, and is started again |

`disk` maps each path to its modification time (0: no file), which is what
`list_pending` sorts by. A file's name is its clip and a depth: sending
`<stem>.mp4` makes `<stem>_note.mp4` beside it, and when a note is left in
`pending` the drain makes a note of it in turn. Every file has size 1 and the
quota is a number of files. Of the cooldown there is where the last delivery
lies (`last`): there was none, it is within the interval, or past it. It may
pass at any time, and Prolong brings a past one back: `/cooldown` raised the
interval, the clock was set back, or a restart loaded another interval. How
interval, clock and file do that is Cooldown's.
The two coroutines share one loop: `LoopFree` lets no step of one come between
two awaits of the other, so a long synchronous conversion keeps the loop.

`Outbox.tla` is what the path promises without files: a clip is held until it
is received or the quota takes it. `ImplementsOutbox` checks that Delivery
implements it (held: kept clips with a file anywhere). Outbox does not say where
a held clip is; three properties of Delivery do. `Stranded` are the kept clips
still to be delivered that are neither in `pending` nor in the motion thread's
hands: nothing in the code lists the directories they lie in. QueueIsDurable
keeps what is in `pending` there, and StrandsOnlyLive lets no fault of the drain's
strand a clip and has what is stranded stay so.
PrunesOldestFirst is the quota's promise, which a listing older than the files
it names could break.

### `Cooldown.tla`, `CooldownProofs.tla`

`CooldownManager`: the fields `mem`, the file (`disk`, at first NoFile), and for
each thread where its `_save` is. `_save` reads the fields one by one
(ReadField) and replaces the file (Replace, which may fail); the other thread's
changes come anywhere between. `limits` is the cooldown's section of the
configuration: a process starts only with one that `config.py` validates
(Loadable), and Restart picks any other such, then loads the file, or takes the
new defaults when there is none or it cannot be read. `clock` is
`datetime.now()`, `now` the real time; StepClock sets the former.

### `CameraOwnership.tla`, `CameraProofs.tla`

The USB camera, with systemd (`supervised`) or started by hand. The publisher,
the pipeline and a bot command each acquire the flock, open the camera, use it,
close it, and release the lock (actions of the same names); the two readers
first try MediaMTX's feed. `held` says which file a lock is on: systemd's
`RuntimeDirectory=catcam` is made at a service's start and removed at its stop,
and a flock on a removed file excludes nobody. `broken` marks what has lost its
camera or feed for good, even if that returns at once.

### `CsiStream.tla`, `CsiProofs.tla`

The CSI camera: `open` takes the lock and launches `rpicam-vid` (Acquire,
Launch, LaunchFails), `read_frame` reads chunks (Call, ReadChunk, Eof, Resume)
until the splitter has cut a frame (NoStart, NoEnd, CutFrame) and gives them out
one by one (Pop), Close ends the process. `open` releases the lock when
`rpicam-vid` is not there or exits at once (LaunchFails); any other error of its
start (LaunchRaises) leaves it with the lock held, and nobody calls `close`: the
lock's file is closed only when the backend itself goes (Drop). The stream is
positions, not bytes: a frame is its first and last, the buffer what lies after
`from` up to `read`, and `cuts` where chunks ended. A start marker is the first
two bytes of a frame and an end marker its last two; a chunk may end anywhere.
Bytes that merely look like markers inside a frame, such as those of an embedded
thumbnail, are left out: `rpicam-vid` is taken to make frames without one.

### `MotionEpisodes.tla`, `MotionProofs.tla`

The motion thread frame by frame: AnalyseFrame is one turn of
`process_frame_for_motion` (pre-roll, detector, beginning of a recording),
RecordFrame a frame of `record_event`'s own, `away` any time during which the
thread reads nothing (delivery, backoff). `moving` is the history of frames;
whether a frame shows motion stands for background subtraction and contours.
`clip` is what ffmpeg is given. It may stop at its size cap at any frame of it,
one of the pre-roll's included; the file then has what it took, and not the
event's frame if that was still to come.

### `Lifecycle.tla`, `LifecycleProofs.tla`

The process around Delivery, which it EXTENDS and composes with: each step of
the delivery path happens when the process lets it.

| Action | Code |
|---|---|
| CheckStop, StillFrame, MotionFrame, HandleEvent | `_drain_frames_until_stopped`, the look at the stop event before each frame; the events go on with Delivery's actions |
| LoopStep | a coroutine of the delivery path has a turn: never while a handler runs, during `join`, or after the loop is closed |
| BusyCommand, BusyEnds | `/snapshot`, `/record`, `/status`: work without an await on the loop |
| RestartCommand, RestartEnds | `/restart_service`: `subprocess.run(systemctl restart)` on the loop that must see the SIGTERM it causes |
| StartFails, Serve, Terminate | the application starts or (without Telegram) does not; `systemctl stop` |
| BeginStop, BeginJoin, EndJoin | `_run`'s `finally`: the stop event, `retry_task.cancel`, the application's stop, `join(timeout=5)` |
| CancelTask, AllCancelled, CloseLoop, EndProcess, Start | `asyncio.run` cancels what is left and closes the loop; the daemon thread ends with the process; systemd starts the next |

`stage` is how far `_run` has come, `handler` the command that holds the loop.
`ImplementsDelivery` checks that all this is behaviour of Delivery: there a
request may be cancelled at any await, and the process may end in order only
after the drain's end and with no coroutine in the middle of a send
(EndOfProcess). That the process's own end is such an end depends on the order
of `retry_task.cancel`, `join`, the cancellation of what is left and the closing
of the loop. What comes before the end, Delivery allows at any time, and this
module says when.

## What the runs check

Runs that must pass:

| Run | Checks | Bounds |
|---|---|---|
| delivery_faults | TypeOK, NoClipLost, SingleSender, LiveFileStays, CooldownNeedsReceipt, ImplementsOutbox, QueueIsDurable, StrandsOnlyLive under every fault | 2 recordings, quota 1, notes of depth 1 |
| delivery_live | EveryClipArrives, AtMostOnce, TmpOnlyLive and PrunesOldestFirst with refused sends and conversions that raise | 3 recordings, quota 2, notes of depth 1, fair |
| lifecycle_stop | LTypeOK, OneLateRecording, StopEndsDrain, StrandedAtExit, StopEnds, PendingArrives, ImplementsDelivery | 2 recordings, quota 2, 2 stops or failed starts, refused sends, failing recordings, fair |
| cooldown_two_threads | TypeOK, IntervalInRange, CooldownFollowsDelivery, LoneSavePersists with restarts, edited limits, failing saves and loads and a clock that is set | 2 instants, minutes 0, 1, 2 and 1441 |
| camera_live | TypeOK, ExclusiveWhereFileStays, LockedWhileOpen, IdleHoldsNothing, PipelineRecovers, with and without systemd | 2 commands, 2 restarts, fair |
| csi_stream | TypeOK, WholeFrames, OnlySplitMarkersLost, NothingWaits, ClosedHoldsNothing, EveryTurnCounts, ReadReturns | 27 bytes in frames of 4, 5 or 7, chunks of up to 9, fair |
| motion_events | TypeOK, SeenMotionIsReported, OneEventPerEpisode, EventIsSustained, ClipShowsEvent | 9 frames, episodes of 2, pre-roll 4, clips of 3 |

The bounds are enough for what the properties are about. Two recordings put one
clip with each sender, with a third file (a note) for the pruner; quota 1 is
exceeded as soon as both exist; depth 1 is enough for a note to be taken for a
clip, and a file at the last depth cannot be converted. Three recordings put two
clips in `pending` while the third is pruned for, so that the pruner and the
drain have a choice, and a clip waits behind one whose send raises. Two stops
are a stop during the start that follows another, and a clip that waits through
both. Two instants with an interval of 1 or 2 are a delivery, a moment in the
cooldown and one just after it; of the minutes, limits of 1 refuse all others,
and none admit 0 or 1441. Nine frames are two episodes around a recording, and a
pre-roll longer than the clip makes `record_event` truncate it. Two restarts let
each lock file be removed and made again while an older one is held. A chunk of
9 holds two frames of 4 or a 4 and a 5, or ends in any byte of one, its markers'
included; 27 bytes are three such chunks.

Runs that must find a violation, each of a statement of the repository that the
code does not keep:

| Run | Statement | What happens |
|---|---|---|
| lifecycle_stranded | `main.py:17` a failure lands the clip in `pending` | at a stop `asyncio.run` cancels the coroutine the motion thread waits for, and the process ends before the thread has called `mark_failed`; nothing lists `storage_dir` |
| delivery_cooldown_race | `AGENT_PROMPT_EN.md:20` not more often than the interval | a retry starts the cooldown while the live clip is recorded |
| cooldown_lost_update | `docs/operations.md:67` persisted immediately | two saves replace the file out of order |
| camera_lock_removed | `camera.py:4` never open the device twice | the lock file goes with a stopped service's runtime directory |
| camera_no_feed | `docs/streaming.md:30` the publisher runs as long as its service | the pipeline fell back first and keeps the camera |

Deadlock is checked in every run: the drain, time and the environment always
go on.

### Divergences seen in the code, without a run

Met while reading the code for the models; no run checks them.

- `main.py:71` says `send_video_note_with_retry` "never raises"; the `stat` of
  the converted note (when the pruner has taken it), the `unlink` of the note,
  the `mkdir` before the conversion and an ffmpeg that does not start do raise.
  Delivery has all of them (the answer "raised").
- `tests/test_main.py:302` has the note cleaned up; a conversion that fails half
  way leaves its partial note, which the drain later sends as if it were a clip
  (Convert, depth 1): a second message of the same recording. So does a note
  that cannot be deleted, and one whose second conversion fails or does not
  start. AtMostOnce counts such notes, and is stated where none is left.
- `telegram_bot.py:127` and `docs/configuration.md:162` have `/notifications_off`
  suppress delivery; the drain does not ask.
- `docs/configuration.md:112` deletes pending clips "until back under quota"; the
  total is summed before, and what the drain deletes meanwhile is not subtracted.
  With quota 2, a live clip, a pending one and the note of its retry are 3; the
  refused retry removes its note, and the clip is then pruned at usage 2. The
  model has these steps.
- `docs/operations.md:92` calls `tmp` transient; what a failed recording or a
  crash leaves there is never deleted (TmpOnlyLive is what holds otherwise).
  What crashes leave in `storage_dir` counts for the quota and is never deleted
  either: once it alone is over, every failed clip is pruned at the next one.
- `docs/configuration.md:148` bounds the interval by `max_minutes`; `_load` takes
  a persisted interval without checking it against an edited `config.yaml`. What
  holds is that it was valid when it was set (IntervalInRange).
- `docs/architecture.md:111` has a failed retry leave its file for the next
  interval; the `unlink` of a note is outside every `except`, so where it fails
  each time (a directory that became read-only), every pass ends at the oldest
  clip and the ones behind it are not tried.
- `docs/troubleshooting.md:44` and `docs/operations.md:112` take "Restart failed"
  for a missing sudoers rule; `/restart_service` waits in its own service's
  cgroup for its own process to end, so `systemctl` is ended by the SIGTERM it
  causes (or after 15 s) and the command says so after a restart that works.
- `camera.py:151` has the splitter keep pre-SOI garbage; it keeps nothing
  without a start marker, and half a marker at a chunk's end is lost with its
  frame. OnlySplitMarkersLost says that no other frame is.
- `camera.py:216` catches the FileNotFoundError of an `rpicam-vid` that is not
  there; any other OSError (of one without permission to run) leaves `open` with
  the lock held (LaunchRaises) until the backend is collected.
- `recorder.py:151` takes ffmpeg's size cap for the end of a clip wherever it is
  met, in the pre-roll too, although `docs/testing.md:74` has the clip show the
  motion that triggered it.
- `catcam.service:29` expects a start without Telegram to fail and be repeated;
  the motion thread runs meanwhile, and what it recorded and saved is left in
  `storage_dir` by each attempt.
- `_deliver_sync` catches what the coroutine raises, not what
  `run_coroutine_threadsafe` raises once the loop is closed (RefuseCoroutine);
  the exception ends the handling of the event, again with the clip in
  `storage_dir`.
- `AGENT_PROMPT_EN.md:119` measures the cooldown from the last delivery; it is
  measured with the wall clock, so a clock set back prolongs it
  (CooldownFollowsDelivery holds only until then).
- `docs/configuration.md:92` has the pre-roll be the seconds before the motion;
  the deque is not cleared by a recording, so a clip may begin with frames from
  before the previous one.
- `motion.py:4` promises an event per sustained episode; motion that begins after
  a still moment inside a recording is taken for the episode already reported.
  SeenMotionIsReported is what holds: it speaks of the frames the detector saw.

## Fairness

Delivery: the motion thread is weakly fair (a running thread whose calls
return). `SendStep(s)` and the drain are strongly fair: whether one of them is
enabled depends on the other coroutine having the loop, and asyncio runs ready
callbacks first come, first served, so one that is ready again and again does
run. The last conjunct is the environment's: ffmpeg starts in the end for a clip
that it is to convert again and again, and a clip that is sent again and again
is at last confirmed. Without it nothing could be promised: a clip whose
conversion always raises keeps the drain from those behind it. Nothing is assumed
of other failing calls, the quota or notifications.

Lifecycle: the motion thread is weakly fair, each coroutine's turns strongly, as
above. A handler comes to its end (`/record` is clamped to a maximum,
`subprocess.run` has a timeout), and so do the application's stop and `join`:
the steps of the shutdown are strongly fair, for the loop that takes them is
shared. A process that has ended is started again, by systemd or the operator.
Nothing is assumed of ffmpeg, whose start lifecycle_stop does not let fail.
No stop is assumed to come.

CsiStream: a read of the pipe returns when `rpicam-vid` writes or ends; nothing
is assumed of either but that one of them happens, as ReadReturns says (the
code sets no limit to the read). The splitter's own steps are weakly fair.

CameraOwnership: each actor's next step is weakly fair (a call on the device, on
ffmpeg or on the feed returns; the pipeline retries after its 5 s), and systemd
starts a failed service (`Restart=on-failure`, `StartLimitIntervalSec=0`). A
publisher whose ffmpeg ends with status 0 would not be started again; the model
assumes ffmpeg reports its failures. Commands, outages and their ends are not
fair: the properties are conditional on the camera and MediaMTX staying.

## What is proved

TLAPS proves these for all values of the constants, under the assumptions named
in each module and those in the last column:

| Theorem | States | Assumes |
|---|---|---|
| DeliveryProofs: TypeCorrect, ClipsAreNotLost, SendersAreApart, LiveFileIsStable, CooldownFollowsReceipt | TypeOK, NoClipLost, SingleSender, LiveFileStays, CooldownNeedsReceipt | |
| DeliveryProofs: TmpIsEmptied | TmpOnlyLive | no crash, no stop, no failing recording, rename or unlink |
| OutboxProofs: PathImplementsOutbox | ImplementsOutbox: the initial states and every step map to the outbox's | |
| OutboxProofs: QueueKeepsItsClips, OnlyLiveIsStranded | QueueIsDurable, StrandsOnlyLive | |
| OutboxProofs: OnlyThreeFaultsStrand, FailuresArePending | nothing is stranded; FailureIsPending, which lifecycle_stranded refutes | no crash, no stop, no failing rename |
| OutboxProofs: OldestArePrunedFirst | PrunesOldestFirst | no failing unlink |
| OnceProofs: ClipsArriveOnce | AtMostOnce | no crash or stop, no lost confirmation, and no note left: no failing unlink or conversion, and not both a note over the cap and an ffmpeg that does not start |
| OnceProofs: OnlyFailedSendsQueue | `pending` is empty | no refused, unconfirmed or cancelled send, no failing unlink, no ffmpeg that does not start |
| OnceProofs: CooldownHoldsIfSendsSucceed | NoLiveSendInCooldown, which delivery_cooldown_race refutes | the same, and nothing prolongs the cooldown |
| LifecycleProofs: LifecycleImplementsDelivery | ImplementsDelivery | |
| LifecycleProofs: StopsLoseNoClip, StopsKeepTheOutbox | NoClipLost, ImplementsOutbox, QueueIsDurable and StrandsOnlyLive of the process | |
| LifecycleProofs: LTypeCorrect, AtMostOneLate, DrainStops | LTypeOK, OneLateRecording, StopEndsDrain | |
| LifecycleProofs: OnlyExitStrands | StrandedAtExit | no failing rename |
| CooldownProofs: TypeCorrect, LoneSavesPersist, IntervalsAreValid, CooldownIsEarned | TypeOK, LoneSavePersists, IntervalInRange, CooldownFollowsDelivery | |
| CooldownProofs: OnlyThreeStepsLose | memory and file come to differ between changes only by a failed save, a failed load or a replacement that another thread's change overlapped | |
| CooldownProofs: OneThreadIsDurable | RestartLosesNothing, which cooldown_lost_update refutes | one thread |
| CameraProofs: TypeCorrect, LocksGuardOpens, NothingIsLeaked | TypeOK, LockedWhileOpen, IdleHoldsNothing, with or without systemd | |
| CameraProofs: CameraIsExclusive | ExclusiveWhereFileStays: DeviceExclusive, which camera_lock_removed refutes, without systemd | |
| CameraProofs: ExclusiveInRunDir | DeviceExclusive in every state in which all locks are on the lock file of the runtime directory | |
| CsiProofs: TypeCorrect, FramesAreWhole, LossesAreAtCuts, NoFrameWaits, ClosedIsFree | TypeOK, WholeFrames, OnlySplitMarkersLost, NothingWaits, ClosedHoldsNothing, for any chunk size and frame lengths | |
| CsiProofs: TurnsComeToAnEnd, NeverAtALoss | EveryTurnCounts, and a step at hand for every `read_frame` once `rpicam-vid` is gone | |
| MotionProofs: TypeCorrect, EventsAreApart, EventsAreSustained, EpisodesAreReported, ClipsShowTheirEvents | TypeOK, OneEventPerEpisode, EventIsSustained, SeenMotionIsReported, ClipShowsEvent, for any lengths and any number of frames | |

The assumptions are not there for the prover's sake: with any one of the faults
that the theorems of OutboxProofs and OnceProofs exclude let in (or the pair that
ClipsArriveOnce excludes), TLC finds the property violated with two clips. Four
of the five statements that the code does not keep are proved in this way where
they do hold, so that a run and a theorem together say what breaks them. The
fifth, FeedReturns, is liveness.

The delivery invariant. NoClipLost alone is not inductive: a step that unlinks a
file keeps it only if the file's clip was received, pruned or never kept, and
that follows from where the step is in its call. `CallOK` carries that a call
whose answer is "yes" sent what was received and that a note is only ever one
level below its clip; `LiveOK` that the live clip is the newest recording, lies
in `tmp` or `recordings`, exists until it is settled and is not kept before its
recording ends; `PendingOK` that all that is in `pending`, in either listing or
in the drain's hands lies in `pending` and is older than the live clip. The
last is what keeps the senders apart: `pending` is the only hand-over, and the
live clip is never in it while the thread holds it. The same conjuncts give
SingleSender and LiveFileStays directly.

The refinement needs four more facts: a clip has at most one file, files are of
recordings that have begun, a clip is neither received nor pruned before its
recording ends, and a pruned clip has no file. Every step of Delivery is first
shown to have one of eight effects on files and ghosts (a recording begun, a
clip taken over, a note written or removed, a file moved, a received or
discarded clip's file removed, a clip received, a clip given up, or nothing);
each effect keeps the four facts and is an Accept, Receive, Release or Prune of
the outbox, or a stutter.

The same effects give QueueIsDurable and StrandsOnlyLive. A
clip leaves `pending` only with a received file (removed), as a clip given up
(pruned) or in the drain's hands, which move files nowhere but where they are.
A clip becomes stranded in the step in which the motion thread lets go of it,
so it was the live one; and since a clip has one file and neither sender's is
it, no step's file is a stranded clip's. Without crash, stop and failing rename
the motion thread lets go of a clip only delivered, discarded, pruned or moved
to `pending`, which makes "nothing is stranded" inductive.

For PrunesOldestFirst each effect also says what it does to modification times:
a clip's time is that of its recording (a rename keeps it), a note's is later
than its clip's (AgesOK). During a pass of the
pruner its list has the entry of every clip now pending (PassOK): the drain
takes files away meanwhile, but only the thread that is pruning could add one.
The least entry of the list is then no younger than any pending clip. A failing
unlink breaks it: the pass goes on with the next clip and leaves an older one.

AtMostOnce speaks of recordings, not files: a note that stays beside its clip is
a file of its own, which the drain would send. Its invariant therefore says that
a clip has one file, but for the note its sender makes and deletes in one send
(OneAtATime), so that a sender with something to send has all of its clip's
files (Alone), even when the pruner takes one of them meanwhile; that what was
received has no file except those its sender is about to delete (SentIsGone);
and that the drain's list, which is older than the files it names, has no clip
twice, none that was received and none with another file (Listed1). Most steps
are `Quiet` (they take up nothing new) and keep all of this by one lemma; the
others, a recording's beginning, a move, a note, an answer, a drain's listing
and its next clip, have one each.

Where every send is confirmed, `Smooth` is inductive: nothing is in `pending` or
in a listing, so the drain never has a clip; the live call's note is there until
it is measured and sent (nobody prunes it), so that its answer is "yes"; and,
unless a changed interval or clock prolongs a cooldown, a live clip recorded
outside the cooldown is still outside it when it is sent, for only a receipt
starts one and the live clip's own is yet to come. The race of
delivery_cooldown_race therefore needs a clip in `pending`, and only a send that
failed puts one there; the one other way is `/cooldown` during the recording.

TmpIsEmptied adds to the delivery invariant that the only file of `tmp` is the
live sender's while it records, discards or saves, and that a live clip that is
being sent has been moved to `recordings`, so that its note is made there too.

The refinement of Delivery by the process needs an invariant, LInv: an end of
the process is one that Delivery allows only because the drain is gone from the
moment the cancelled tasks are over (DrainGone) and because no coroutine is
between two steps while a handler, `join` or nothing has the loop (LoopHeld).
For the latter the motion thread alone, or a cancellation, must put no coroutine
between two steps. The drain is gone because from the stop event on it is idle,
or on its way out with an exception that takes the pass with it (DrainOK), and
because `asyncio.run` waits for what it cancels. NoClipLost, ImplementsOutbox,
QueueIsDurable and StrandsOnlyLive then hold of the process because they hold of
Delivery. OneLateRecording is inductive with where the thread stands: one begun
late means that the event is set and that no frame is in hand, so the next look
ends the thread. StopEndsDrain follows from DrainOK and DrainGone and that an
idle drain has no list. With them StrandedAtExit follows: until the loop is
closed, a live clip that the thread lets go of is settled or in `pending`, and
after it only the end of the process lets go.

The cooldown invariant says of each save under way that no other change has
overlapped (`alone`) only if what it has read so far equals memory; and that the
last delivery in memory, in the file and in every snapshot is a recorded one as
long as nobody has set the clock. For the interval it says that memory, file,
snapshots and the loaded section are all within a day: each value came through
one valid configuration, and no step makes another. OnlyThreeStepsLose goes
through the steps from a state in which memory is what a restart would load: a
replacement that succeeds after an overlap-free save writes what memory holds,
so that a difference is left only by the three it names.

The camera invariant ties control to possession: an actor has a lock exactly
between acquiring and releasing, and the camera only in between. Where the
file stays, all locks are on the one file and so at most one actor has one.
Under systemd the same holds for each file: two locks are equal only when both
are on removed files (FileExcludes), which a start that makes the file anew and
a stop that removes it both keep. So two share the camera only by a removal.

The CSI invariant adds to the properties that frames share no byte and have room
for both markers, that reading is behind writing and stands at a chunk's end
when the splitter runs, and that outside the splitter no whole frame is in the
buffer. A frame before the buffer was then cut out, or its marker lay across the
end of a chunk.

ReadReturns is liveness, and two facts of it are proved that are not: StepsLeft,
twice the bytes to read, those after `from` and the control state, is a natural
number that every turn lowers once nothing more is written; and as long as
`read_frame` has not returned, one of its steps has what it waits for, because
each non-empty set of positions has a least element, found by well-founded
induction on the numbers. That fair steps therefore end the call is a temporal
argument over all values of StepsLeft, which is left to TLC.

The motion invariant speaks of the last still frame the detector saw: the
counter is the number of frames seen since, the decision means an event since,
and a counter that has reached `MinFrames` means a decision. An event therefore
comes when exactly `MinFrames` moving frames were seen, and the next one not
before a still frame. The clip ends with the frames from the event's on.

Only model-checked: the liveness properties EveryClipArrives, PendingArrives,
StopEnds, PipelineRecovers and ReadReturns, and the absence of deadlock, since
the prover reaches neither fairness nor ENABLED. Every invariant and every
action property that a run checks is stated by a theorem.

## Not modelled

- Authorization (`_authorized_only` is one comparison before each handler), the
  texts of replies, `/status` and the keyboard: no state.
- `/record`'s own files: a clip and a note in `tmp` under a fresh name, removed in
  its `finally`; no other part looks at them.
- `config.py` beyond the cooldown's section: constants of the other modules,
  whose assumptions are weaker than its checks.
- `health.py`, `stream_health.py`, `logging_config.py`: read-only, or log lines.
- `mediamtx.yml`, `scripts/`: a third-party server, and installation by hand.
  MediaMTX opens a CSI camera without the lock (`docs/streaming.md` says so).
- The SIGKILL that systemd sends after its stop timeout: Delivery's Crash has
  its effect.
- File sizes (a file counts 1), ffmpeg's and the image processing's inside, boot
  order (any order is allowed).

## Plan

Done: Delivery with its outbox and process (Lifecycle), Cooldown with its
configuration, CameraOwnership, CsiStream, MotionEpisodes, and the theorems
above. Left, in this order:

1. `/record` and `/snapshot` as steps of Lifecycle with their files in `tmp`.
2. The safety half of StopEnds: that a process told to stop always has a step
   at hand, whoever waits for whom, as NeverAtALoss says of `read_frame`.
3. The camera's invariant with the CSI backend as an opener.
