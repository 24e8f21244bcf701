------------------------------ MODULE Lifecycle ------------------------------
(***************************************************************************)
(* main.py's process from its start to its end, around the delivery path:  *)
(* _run and its shutdown, the loop of the motion thread, and the bot's     *)
(* handlers that hold the event loop.  All that Delivery.tla does is done   *)
(* here too, when the process lets it happen; its cancellations and ends   *)
(* come in the order of the shutdown.                                      *)
(*                                                                         *)
(* A stop is a SIGTERM of systemd, by systemctl or by /restart_service.    *)
(* Processes that die without one are Delivery.tla's.                      *)
(***************************************************************************)
EXTENDS Delivery

CONSTANT MaxStops  \* bound: stops and failed starts in a behaviour

ASSUME LifecycleAssumption == MaxStops \in Nat /\ "stop" \in Faults

VARIABLES
  stage,      \* how far _run has come
  stopEvent,  \* stop_event.is_set()
  thread,     \* where the motion thread's loop is
  handler,    \* the bot handler that runs without an await, if one does
  signal,     \* SIGTERM has come and _run has not seen it yet
  stops,      \* stops and failed starts so far
  late        \* ghost: recordings begun since stop_event was set

world == <<handler, signal, stops>>
life  == <<stage, stopEvent, thread, world, late>>
lvars == <<vars, life>>

\* starting: the application initialises and starts, while the motion thread
\* and the retry task run already.  serving: stop_signal.wait().  stopping: the
\* updater and the application stop.  joining: motion_thread.join.  closing:
\* _run is over, and asyncio.run cancels what is left.  cancelled: it has.
\* exiting: the loop is closed.  ended: there is no process.
Stages   == {"starting", "serving", "stopping", "joining", "closing",
             "cancelled", "exiting", "ended"}

\* The loop turns, and coroutines can run: no handler has it.
LoopAlwaysRuns ==  \* mutant: handlers have threads
  stage \notin {"joining", "exiting", "ended"}
LoopRuns == stage \notin {"joining", "exiting", "ended"} /\ handler = "none"

\* No coroutine of the delivery path is between two awaits.
NoneRuns == \A s \in Sender : ~HasLoop(s)

-----------------------------------------------------------------------------
\* _drain_frames_until_stopped: a look at stop_event before every frame.

LooksNoMore ==  \* mutant: only a failing source makes it look
  /\ stage # "ended" /\ thread = "check" /\ pc["live"] = "idle"
  /\ thread' = "frame"
  /\ UNCHANGED <<vars, stage, stopEvent, world, late>>

CheckStop ==
  /\ stage # "ended" /\ thread = "check" /\ pc["live"] = "idle"
  /\ thread' = IF stopEvent THEN "done" ELSE "frame"
  /\ UNCHANGED <<vars, stage, stopEvent, world, late>>

\* No event, or the source fails and is tried again after a time.
StillFrame ==
  /\ stage # "ended" /\ thread = "frame" /\ thread' = "check"
  /\ UNCHANGED <<vars, stage, stopEvent, world, late>>

MotionFrame ==
  /\ stage # "ended" /\ thread = "frame" /\ thread' = "check"
  /\ BeginRecording
  /\ late' = IF stopEvent THEN late + 1 ELSE late
  /\ UNCHANGED <<stage, stopEvent, world>>

\* The thread goes on with an event, without the loop; run_coroutine_threadsafe
\* fails once the loop is closed.
HandleEvent ==
  \/ pc["live"] # "idle" /\ MotionThread
  \/ pc["live"] \in {"settle", "stamp"} /\ SendStep("live")
  \/ stage = "exiting" /\ RefuseCoroutine

ThreadStep ==
  \/ CheckStop \/ StillFrame
  \/ stage # "ended" /\ HandleEvent /\ UNCHANGED life

-----------------------------------------------------------------------------
\* The event loop.

LiveCoroutine == pc["live"] \notin {"settle", "stamp"} /\ SendStep("live")
RetryRuns     == SendStep("retry") \/ RetryLater \/ NextPending \/ EndDrain

DrainGoesOn ==  \* mutant: the drain's loop takes its cancellation for an error
  /\ LoopRuns /\ UNCHANGED life
  /\ LiveCoroutine \/ RetryRuns \/ BeginDrain

LoopStep ==
  /\ LoopRuns /\ UNCHANGED life
  /\ \/ LiveCoroutine \/ RetryRuns
     \/ stage \in {"starting", "serving"} /\ BeginDrain

\* PTB runs one handler at a time.  /snapshot, /record and /status do their
\* work without an await; so does /restart_service, in subprocess.run.
HandlersRun ==
  stage \in {"serving", "stopping"} /\ handler = "none" /\ NoneRuns

ToggleCommand == HandlersRun /\ ToggleNotifications /\ UNCHANGED life

BusyCommand ==
  /\ HandlersRun /\ handler' = "busy"
  /\ UNCHANGED <<vars, stage, stopEvent, thread, signal, stops, late>>

BusyEnds ==
  /\ handler = "busy" /\ handler' = "none"
  /\ UNCHANGED <<vars, stage, stopEvent, thread, signal, stops, late>>

\* systemctl asks systemd for a restart, and systemd sends SIGTERM.
RestartCommand ==
  /\ HandlersRun /\ stops < MaxStops
  /\ handler' = "restart" /\ signal' = TRUE /\ stops' = stops + 1
  /\ UNCHANGED <<vars, stage, stopEvent, thread, late>>

RestartWaits ==  \* mutant: without timeout, and systemctl outside the cgroup
  /\ handler = "restart"
  /\ handler' = IF stage = "ended" THEN "none" ELSE handler
  /\ UNCHANGED <<vars, stage, stopEvent, thread, signal, stops, late>>

\* systemctl waits for this process to end, which waits for systemctl; it ends
\* by SIGTERM to the service's cgroup, or after 15 s.  "Restart failed".
RestartEnds ==
  /\ handler = "restart" /\ handler' = "none"
  /\ UNCHANGED <<vars, stage, stopEvent, thread, signal, stops, late>>

-----------------------------------------------------------------------------
\* The start and the end of the process: _run and asyncio.run.

\* Without Telegram the application does not start: _run raises, with the
\* motion thread and the retry task under way and stop_event not set.
StartFails ==
  /\ stage = "starting" /\ handler = "none" /\ NoneRuns
  /\ "refused" \in Faults /\ stops < MaxStops /\ stops' = stops + 1
  /\ stage' = "closing"
  /\ UNCHANGED <<vars, stopEvent, thread, handler, signal, late>>

Serve ==
  /\ stage = "starting" /\ NoneRuns /\ stage' = "serving"
  /\ UNCHANGED <<vars, stopEvent, thread, world, late>>

\* systemctl stop or restart by hand.
Terminate ==
  /\ stage \in {"starting", "serving"} /\ ~signal /\ stops < MaxStops
  /\ signal' = TRUE /\ stops' = stops + 1
  /\ UNCHANGED <<vars, stage, stopEvent, thread, handler, late>>

\* _run sees the signal: stop_event.set and retry_task.cancel.  The task
\* sleeps, or waits for a request.
BeginStop ==
  /\ stage = "serving" /\ signal /\ handler = "none" /\ NoneRuns
  /\ stage' = "stopping" /\ stopEvent' = TRUE
  /\ IF pc["retry"] = "inflight" THEN Cancel("retry") ELSE UNCHANGED vars
  /\ UNCHANGED <<thread, world, late>>

BeginJoin ==
  /\ stage = "stopping" /\ handler = "none" /\ NoneRuns
  /\ stage' = "joining"
  /\ UNCHANGED <<vars, stopEvent, thread, world, late>>

JoinForever ==  \* mutant: join without a timeout
  /\ stage = "joining"
  /\ stage' = IF thread = "done" THEN "closing" ELSE stage
  /\ UNCHANGED <<vars, stopEvent, thread, world, late>>

\* The thread is done, or 5 s have passed; meanwhile no coroutine runs, not
\* even one the thread waits for.
EndJoin ==
  /\ stage = "joining" /\ stage' = "closing"
  /\ UNCHANGED <<vars, stopEvent, thread, world, late>>

CancelTask ==
  /\ stage = "closing"
  /\ (\E s \in Sender : Cancel(s)) \/ CancelUnstarted
  /\ UNCHANGED life

CancelledUnheard ==  \* mutant: the loop ends without the cancelled tasks' end
  /\ stage = "closing" /\ NoneRuns /\ stage' = "cancelled"
  /\ UNCHANGED <<vars, stopEvent, thread, world, late>>

AllCancelled ==
  /\ stage = "closing" /\ NoneRuns /\ \A s \in Sender : pc[s] # "inflight"
  /\ stage' = "cancelled"
  /\ UNCHANGED <<vars, stopEvent, thread, world, late>>

CloseLoop ==
  /\ stage = "cancelled" /\ NoneRuns /\ stage' = "exiting"
  /\ UNCHANGED <<vars, stopEvent, thread, world, late>>

\* The motion thread is a daemon: it ends with the process, wherever it is.
EndProcess ==
  /\ stage = "exiting" /\ stage' = "ended" /\ Die
  /\ thread' = "done" /\ signal' = FALSE
  /\ UNCHANGED <<stopEvent, handler, stops, late>>

\* systemd after a failure or for systemctl restart, or else the operator.
Start ==
  /\ stage = "ended" /\ stage' = "starting"
  /\ thread' = "check" /\ stopEvent' = FALSE /\ late' = 0
  /\ UNCHANGED <<vars, world>>

-----------------------------------------------------------------------------
LInit == /\ Init
         /\ stage = "starting" /\ stopEvent = FALSE /\ thread = "check"
         /\ handler = "none" /\ signal = FALSE /\ stops = 0 /\ late = 0

Shutdown == \/ StartFails \/ Serve \/ BeginStop \/ BeginJoin \/ EndJoin
            \/ CancelTask \/ AllCancelled \/ CloseLoop \/ EndProcess \/ Start

LNext == \/ ThreadStep \/ MotionFrame \/ LoopStep
         \/ ToggleCommand \/ BusyCommand \/ BusyEnds
         \/ RestartCommand \/ RestartEnds \/ Terminate \/ Shutdown
         \/ (ElapseCooldown \/ Prolong) /\ UNCHANGED life

LSpec == LInit /\ [][LNext]_lvars

\* Threads run, and reads, ffmpeg, requests and join return.  asyncio runs what
\* is ready first come, first served (SF); every handler and PTB's stop come to
\* their end; a process that has ended is started again.  As in Delivery.tla,
\* Telegram takes a clip that it is sent again and again.
LFairness ==
  /\ WF_lvars(ThreadStep) /\ SF_lvars(LoopStep /\ RetryRuns)
  /\ SF_lvars(LoopStep /\ BeginDrain) /\ SF_lvars(LoopStep /\ LiveCoroutine)
  /\ WF_lvars(BusyEnds) /\ WF_lvars(RestartEnds)
  /\ SF_lvars(Shutdown)
  /\ \A c \in Clip : SF_lvars(LoopStep /\ \E s \in Sender :
       Answer(s) /\ File(s).name = ClipName(c) /\ send'[s].answer = "yes")

LFairSpec == LSpec /\ LFairness

-----------------------------------------------------------------------------
\* Properties.

\* The state has the shape the actions rely on.
LTypeOK ==
  /\ stage \in Stages /\ stopEvent \in BOOLEAN
  /\ thread \in {"check", "frame", "done"}
  /\ handler \in {"none", "busy", "restart"}
  /\ signal \in BOOLEAN /\ stops \in 0..MaxStops /\ late \in Nat
  /\ handler # "none" => stage \in {"serving", "stopping"} /\ NoneRuns
  /\ stage \in {"joining", "exiting", "ended"} => NoneRuns

\* main.py:263: once it is to stop, the motion thread begins no more than the
\* one recording whose frame it was looking at.
OneLateRecording == late <= 1

\* main.py:383: cancelled in the middle of a pass, the drain takes no further
\* clip (the process would wait for a request per clip), and the process does
\* not end before the drain has: a clip the chat has just confirmed would be
\* sent again by the next one.
StopEndsDrain ==
  [][/\ stopEvent /\ pc'["retry"] = "convert" => pc["retry"] = "convert"
     /\ stage' \in {"exiting", "ended"} =>
          pc'["retry"] = "idle" /\ queue'["retry"] = {}]_lvars

\* Where moves succeed, a stop strands a clip only once the loop is closed:
\* until then a send that fails or is cancelled puts its clip in the queue.
StrandedAtExit == [][Stranded' # Stranded => stage = "exiting"]_lvars

\* A SIGTERM ends the process, whoever waits for whom: the motion thread for
\* its coroutine, the loop for the thread, systemctl, which a handler waits
\* for, for the process.
StopEnds == signal ~> stage = "ended"

\* A clip in the retry queue arrives, or is pruned, through any stops.
PendingArrives ==
  \A c \in Clip : Pending(c) ~> ClipName(c) \in received \/ c \in pruned

\* The process is one that Delivery.tla describes: in particular it ends only
\* once the drain is over and no coroutine is in the middle of a send.
ImplementsDelivery == Spec
=============================================================================
