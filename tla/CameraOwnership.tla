--------------------------- MODULE CameraOwnership ---------------------------
(***************************************************************************)
(* Who opens the USB camera.  Three actors may: the publisher service,     *)
(* whose ffmpeg feeds MediaMTX, and the two readers of the main process,   *)
(* the motion pipeline (its thread) and a bot command (/snapshot or        *)
(* /record, on the event loop).  A reader prefers MediaMTX's feed and      *)
(* falls back to opening the camera itself; every opener first takes       *)
(* CameraLock, a flock on a file below the runtime directory.              *)
(*                                                                         *)
(* Where the deployment is supervised, the two services run under systemd, *)
(* which starts them again, makes RuntimeDirectory=catcam when one starts  *)
(* and removes it, lock file included, when one stops.  Otherwise (local   *)
(* development) the file stays, and what has stopped is started by hand.   *)
(* A flock is on the file that was opened, wherever its name is now: held  *)
(* says which file an actor's lock is on.                                  *)
(***************************************************************************)
EXTENDS Naturals, FiniteSets

CONSTANTS
  Deployments,  \* of supervised (TRUE) and not (FALSE), those looked at
  MaxCommands,  \* bound: bot commands that need a frame
  MaxRestarts   \* bound: stops of the main process

ASSUME OwnershipAssumption == /\ Deployments \subseteq BOOLEAN
                              /\ MaxCommands \in Nat /\ MaxRestarts \in Nat

Reader == {"pipeline", "bot"}
Actor  == Reader \cup {"publisher"}

\* run: camera.lock in the runtime directory.  tmp: the one of the fallback
\* directory, used while there is no runtime directory.  stale: one that was
\* in a runtime directory since removed.
LockFile == {"run", "tmp", "stale"}
Controls == {"stopped", "idle", "acquire", "open", "reading", "publishing",
             "feed", "release"}

VARIABLES
  supervised, \* the services run under systemd; never changes
  mtx,       \* MediaMTX is up
  plugged,   \* the camera is there
  runDir,    \* the runtime directory exists
  pc,        \* the next step of each actor
  held,      \* the file each actor's CameraLock is on, or "none"
  device,    \* the actors that have the camera open
  broken,    \* the actors whose camera or feed is lost for good
  commands,  \* bot commands so far
  restarts   \* stops of the main process so far

world  == <<supervised, mtx, plugged>>
bounds == <<commands, restarts>>
vars   == <<world, runDir, pc, held, device, broken, bounds>>

Goto(a, c) == pc' = [pc EXCEPT ![a] = c]
Feed == mtx /\ pc["publisher"] = "publishing" /\ "publisher" \notin broken

\* systemd removes the runtime directory when one of its units stops; locks on
\* its file are from then on locks on a file nobody can open again.
RunDirAfterStop == IF supervised THEN FALSE ELSE runDir
Stranded(h) ==
  [a \in Actor |-> IF supervised /\ h[a] = "run" THEN "stale" ELSE h[a]]

\* _default_lock_path: main and publisher cannot make /run/catcam themselves.
OwnPath  == IF runDir THEN "run" ELSE "home"  \* mutant: a directory of one's own
LockPath == IF runDir THEN "run" ELSE "tmp"

-----------------------------------------------------------------------------
\* The publisher service and the main process start and stop.

StartPublisher ==
  /\ pc["publisher"] = "stopped"
  /\ Goto("publisher", "acquire") /\ runDir' = TRUE
  /\ UNCHANGED <<world, held, device, broken, bounds>>

StartMain ==
  /\ pc["pipeline"] = "stopped"
  /\ pc' = [a \in Actor |-> IF a \in Reader THEN "idle" ELSE pc[a]]
  /\ runDir' = TRUE
  /\ UNCHANGED <<world, held, device, broken, bounds>>

\* The main process dies or is restarted: the kernel closes all it has open.
StopMain ==
  /\ pc["pipeline"] # "stopped" /\ restarts < MaxRestarts
  /\ restarts' = restarts + 1
  /\ pc' = [a \in Actor |-> IF a \in Reader THEN "stopped" ELSE pc[a]]
  /\ held' = Stranded([a \in Actor |-> IF a \in Reader THEN "none" ELSE held[a]])
  /\ device' = device \ Reader /\ broken' = broken \ Reader
  /\ runDir' = RunDirAfterStop
  /\ UNCHANGED <<world, commands>>

-----------------------------------------------------------------------------
\* live_frame_source: the feed if it opens, or else the camera.

ProbeFeed(r) ==
  /\ r \in Reader /\ pc[r] = "idle"
  /\ IF r = "bot" THEN commands < MaxCommands /\ commands' = commands + 1
                  ELSE UNCHANGED commands
  /\ Goto(r, IF Feed THEN "feed" ELSE "acquire")
  /\ UNCHANGED <<world, runDir, held, device, broken, restarts>>

\* A command ends when it has its frames; the pipeline only when a read fails.
NeverGivesUp(r) == r # "pipeline"  \* mutant: it reads on after a failed read
MayStop(r) == r = "bot" \/ r \in broken

LeaveFeed(r) ==
  /\ pc[r] = "feed" /\ MayStop(r)
  /\ Goto(r, "idle") /\ broken' = broken \ {r}
  /\ UNCHANGED <<world, runDir, held, device, bounds>>

-----------------------------------------------------------------------------
\* An opener's use of the lock and the camera.

\* CameraLock.acquire, without waiting.  CameraBusyError sends a reader back to
\* try again later, and ends the publisher, which systemd starts again.
Uncontended(a) == FALSE  \* mutant: a shared lock
Contended(a) == \E b \in Actor \ {a} : held[b] = LockPath

AcquireLock(a) ==
  /\ pc[a] = "acquire" /\ ~Contended(a)
  /\ held' = [held EXCEPT ![a] = LockPath] /\ Goto(a, "open")
  /\ UNCHANGED <<world, runDir, device, broken, bounds>>

Busy(a) ==
  /\ pc[a] = "acquire" /\ Contended(a)
  /\ IF a \in Reader
       THEN Goto(a, "idle") /\ UNCHANGED <<runDir, held>>
       ELSE /\ Goto(a, "stopped")
            /\ runDir' = RunDirAfterStop /\ held' = Stranded(held)
  /\ UNCHANGED <<world, device, broken, bounds>>

\* UsbCameraBackend.open, or ffmpeg's.  The camera may be gone; the driver may
\* or may not refuse a second opener.
OpenCamera(a) ==
  /\ pc[a] = "open" /\ plugged
  /\ device' = device \cup {a} /\ Goto(a, "reading")
  /\ UNCHANGED <<world, runDir, held, broken, bounds>>

LeakyOpen(a) ==  \* mutant: CameraNotFoundError leaves the lock held
  /\ pc[a] = "open" /\ (~plugged \/ device # {})
  /\ Goto(a, "idle")
  /\ UNCHANGED <<world, runDir, held, device, broken, bounds>>

OpenFails(a) ==
  /\ pc[a] = "open" /\ (~plugged \/ device # {})
  /\ Goto(a, "release")
  /\ UNCHANGED <<world, runDir, held, device, broken, bounds>>

\* ffmpeg reaches MediaMTX, and the feed is there; or it does not, and exits.
Publish ==
  /\ pc["publisher"] = "reading" /\ "publisher" \notin broken
  /\ IF mtx THEN Goto("publisher", "publishing") /\ UNCHANGED broken
            ELSE broken' = broken \cup {"publisher"} /\ UNCHANGED pc
  /\ UNCHANGED <<world, runDir, held, device, bounds>>

UnlockFirst(a) ==  \* mutant: the lock is released before the camera
  /\ pc[a] \in {"reading", "publishing"} /\ MayStop(a)
  /\ held' = [held EXCEPT ![a] = "none"]
  /\ UNCHANGED <<world, runDir, pc, device, broken, bounds>>

\* cap.release() of a reader, or the exit of the publisher's ffmpeg.
CloseCamera(a) ==
  /\ pc[a] \in {"reading", "publishing"} /\ MayStop(a)
  /\ device' = device \ {a} /\ Goto(a, "release")
  /\ UNCHANGED <<world, runDir, held, broken, bounds>>

ReleaseLock(a) ==
  /\ pc[a] = "release"
  /\ LET released == [held EXCEPT ![a] = "none"]
     IN  IF a \in Reader
           THEN Goto(a, "idle") /\ held' = released /\ UNCHANGED runDir
           ELSE /\ Goto(a, "stopped")
                /\ runDir' = RunDirAfterStop /\ held' = Stranded(released)
  /\ broken' = broken \ {a}
  /\ UNCHANGED <<world, device, bounds>>

-----------------------------------------------------------------------------
\* MediaMTX comes and goes, and so does the camera.  What was reading through
\* either has lost it, even if it is back at once.

FeedReaders == {r \in Reader : pc[r] = "feed"}

MtxUp   == /\ ~mtx /\ mtx' = TRUE
           /\ UNCHANGED <<supervised, plugged, runDir, pc, held, device, broken, bounds>>

MtxDown == /\ mtx /\ mtx' = FALSE
           /\ broken' = broken \cup FeedReaders \cup
                {a \in {"publisher"} : pc[a] = "publishing"}
           /\ UNCHANGED <<supervised, plugged, runDir, pc, held, device, bounds>>

Plug    == /\ ~plugged /\ plugged' = TRUE
           /\ UNCHANGED <<supervised, mtx, runDir, pc, held, device, broken, bounds>>

Unplug  == /\ plugged /\ plugged' = FALSE
           /\ broken' = broken \cup device \cup FeedReaders
           /\ UNCHANGED <<supervised, mtx, runDir, pc, held, device, bounds>>

-----------------------------------------------------------------------------
Init ==
  /\ supervised \in Deployments
  /\ mtx \in BOOLEAN /\ plugged \in BOOLEAN /\ runDir = FALSE
  /\ pc = [a \in Actor |-> "stopped"] /\ held = [a \in Actor |-> "none"]
  /\ device = {} /\ broken = {} /\ commands = 0 /\ restarts = 0

\* What an actor that has begun goes on with.
Step(a) == \/ AcquireLock(a) \/ Busy(a) \/ OpenCamera(a) \/ OpenFails(a)
           \/ CloseCamera(a) \/ ReleaseLock(a) \/ LeaveFeed(a)

Next == \/ \E a \in Actor : Step(a) \/ ProbeFeed(a)
        \/ Publish \/ StartPublisher \/ StartMain \/ StopMain
        \/ MtxUp \/ MtxDown \/ Plug \/ Unplug

Spec == Init /\ [][Next]_vars

\* systemd starts a service that has failed (Restart=on-failure, no limit);
\* calls on the camera, ffmpeg and the feed return; the pipeline tries again
\* after its backoff.  Commands, and MediaMTX and the camera, come as they may.
Fairness == /\ \A a \in Actor : WF_vars(Step(a))
            /\ WF_vars(ProbeFeed("pipeline")) /\ WF_vars(Publish)
            /\ WF_vars(supervised /\ StartPublisher)
            /\ WF_vars(supervised /\ StartMain)

FairSpec == Spec /\ Fairness

-----------------------------------------------------------------------------
\* Properties.

\* The state has the shape the actions rely on.
TypeOK ==
  /\ supervised \in Deployments
  /\ mtx \in BOOLEAN /\ plugged \in BOOLEAN /\ runDir \in BOOLEAN
  /\ pc \in [Actor -> Controls]
  /\ held \in [Actor -> LockFile \cup {"none"}]
  /\ device \subseteq Actor /\ broken \subseteq Actor
  /\ commands \in 0..MaxCommands /\ restarts \in 0..MaxRestarts

\* camera.py:4: components "never open the physical device twice".
DeviceExclusive == \A a, b \in device : a = b

\* It is so as long as the lock file stays, whoever fails, restarts or falls
\* back when.
ExclusiveWhereFileStays == ~supervised => DeviceExclusive

\* camera.py:6: "A file lock guards every open()": no one has the camera open
\* without a lock, under systemd too, and a lock excludes whoever locks the same
\* file: two share the camera only with locks on files of which one is gone.
LockedWhileOpen ==
  \A a \in device : /\ held[a] # "none"
                    /\ \A b \in device \ {a} : held[a] = held[b] => held[a] = "stale"

\* No failure of an open, a read or a service leaves a lock or a camera behind
\* that would keep the others out for good.
IdleHoldsNothing ==
  \A a \in Actor : pc[a] \in {"stopped", "idle", "acquire", "feed"} =>
                    held[a] = "none" /\ a \notin device

\* main.py:268: an outage of the frame source "is logged and does not
\* terminate the whole service": once MediaMTX and the camera are there to
\* stay, the pipeline reads frames again, from one or the other.
PipelineReads == pc["pipeline"] \in {"feed", "reading"}
PipelineRecovers == supervised /\ <>[](mtx /\ plugged) => []<>PipelineReads

\* docs/streaming.md:30: the publisher "runs ffmpeg for as long as the service
\* is up": once MediaMTX and the camera are there to stay, there is a feed.
FeedReturns == <>[](mtx /\ plugged) => []<>Feed
=============================================================================
