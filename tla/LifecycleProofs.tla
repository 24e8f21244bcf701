-------------------------- MODULE LifecycleProofs --------------------------
(***************************************************************************)
(* Theorems about Lifecycle.tla, for any number of recordings and stops:   *)
(* the process is one that Delivery.tla describes, so that no stop loses a *)
(* clip; and what an orderly stop may still do, which is to end the one    *)
(* request under way, to record one clip more and, at its very end, to     *)
(* strand the one the motion thread has.                                   *)
(***************************************************************************)
EXTENDS Lifecycle, OutboxProofs

-----------------------------------------------------------------------------
(***************************************************************************)
(* Type correctness.  The part of it that is not a type says that no       *)
(* coroutine is in the middle of its steps while a handler has the loop,   *)
(* or the loop does not turn; the motion thread's own steps keep it so.    *)
(***************************************************************************)
Shape ==
  /\ stage \in Stages /\ stopEvent \in BOOLEAN
  /\ thread \in {"check", "frame", "done"}
  /\ handler \in {"none", "busy", "restart"}
  /\ signal \in BOOLEAN /\ stops \in 0..MaxStops /\ late \in Nat

LoopHeld == /\ handler # "none" => stage \in {"serving", "stopping"} /\ NoneRuns
            /\ stage \in {"joining", "exiting", "ended"} => NoneRuns

\* Every step keeps the types of the process's variables.
LEMMA ShapeStep == Shape /\ [LNext]_lvars => Shape'
<1> SUFFICES ASSUME Shape, [LNext]_lvars PROVE Shape'
  OBVIOUS
<1>s. CASE UNCHANGED life
  BY <1>s DEF Shape, life, world
<1>1. ASSUME ~UNCHANGED life
      PROVE  stopEvent' \in BOOLEAN /\ signal' \in BOOLEAN
  <2>1. stopEvent' \in {stopEvent, TRUE, FALSE}
    BY <1>1 DEF LNext, ThreadStep, CheckStop, StillFrame, MotionFrame,
       LoopStep, ToggleCommand, BusyCommand, BusyEnds, RestartCommand,
       RestartEnds, Terminate, Shutdown, StartFails, Serve, BeginStop,
       BeginJoin, EndJoin, CancelTask, AllCancelled, CloseLoop, EndProcess,
          Start, lvars, life, world
  <2>2. signal' \in {signal, TRUE, FALSE}
    BY <1>1 DEF LNext, ThreadStep, CheckStop, StillFrame, MotionFrame,
       LoopStep, ToggleCommand, BusyCommand, BusyEnds, RestartCommand,
       RestartEnds, Terminate, Shutdown, StartFails, Serve, BeginStop,
       BeginJoin, EndJoin, CancelTask, AllCancelled, CloseLoop, EndProcess,
          Start, lvars, life, world
  <2> QED
    BY <2>1, <2>2 DEF Shape
<1>2. ASSUME ~UNCHANGED life
      PROVE  /\ stage' \in Stages /\ thread' \in {"check", "frame", "done"}
             /\ handler' \in {"none", "busy", "restart"}
  BY <1>2 DEF LNext, ThreadStep, CheckStop, StillFrame, MotionFrame,
       LoopStep, ToggleCommand, BusyCommand, BusyEnds, RestartCommand,
       RestartEnds, Terminate, Shutdown, StartFails, Serve, BeginStop,
       BeginJoin, EndJoin, CancelTask, AllCancelled, CloseLoop, EndProcess,
       Start, lvars, life, world, Shape, Stages
<1>3. ASSUME ~UNCHANGED life
      PROVE  stops' \in 0..MaxStops /\ late' \in Nat
  <2>1. /\ stops \in Nat /\ stops <= MaxStops /\ late \in Nat /\ MaxStops \in Nat
    BY LifecycleAssumption DEF Shape
  <2>2. stops' = stops \/ (stops < MaxStops /\ stops' = stops + 1)
    BY <1>3 DEF LNext, ThreadStep, CheckStop, StillFrame, MotionFrame,
       LoopStep, ToggleCommand, BusyCommand, BusyEnds, RestartCommand,
       RestartEnds, Terminate, Shutdown, StartFails, Serve, BeginStop,
       BeginJoin, EndJoin, CancelTask, AllCancelled, CloseLoop, EndProcess,
          Start, lvars, life, world
  <2>3. late' \in {late, late + 1, 0}
    BY <1>3 DEF LNext, ThreadStep, CheckStop, StillFrame, MotionFrame,
       LoopStep, ToggleCommand, BusyCommand, BusyEnds, RestartCommand,
       RestartEnds, Terminate, Shutdown, StartFails, Serve, BeginStop,
       BeginJoin, EndJoin, CancelTask, AllCancelled, CloseLoop, EndProcess,
          Start, lvars, life, world
  <2> QED
    BY <2>1, <2>2, <2>3
<1> QED
  BY <1>s, <1>1, <1>2, <1>3 DEF Shape

\* A step of the motion thread outside its coroutine leaves the loop free.
LEMMA ThreadLeavesLoop ==
  ASSUME TypeOK, NoneRuns, BeginRecording \/ HandleEvent
  PROVE  NoneRuns'
<1> USE DEF NoneRuns, HasLoop, TypeOK, Sender, Goto
<1>1. CASE MotionThread
  BY <1>1 DEF MotionThread, BeginRecording, EndRecording, FailRecording,
     Discard, SaveTemp, MeasureUsage, ListForPruning, PruneOldest, EndPruning,
     MarkFailed
<1>2. CASE pc["live"] \in {"settle", "stamp"} /\ SendStep("live")
  BY <1>2 DEF SendStep, Convert, MeasureNote, Reconvert, ConversionRaises,
     OpenAndSend, Answer, Cleanup, MarkDelivered, RecordDeliverySuccess
<1>3. CASE RefuseCoroutine
  BY <1>3 DEF RefuseCoroutine
<1> QED
  BY <1>1, <1>2, <1>3 DEF HandleEvent, MotionThread

\* Every step keeps the loop to the handler that has it.
LEMMA LoopHeldStep ==
  ASSUME TypeOK, Shape, LoopHeld, [LNext]_lvars
  PROVE  LoopHeld'
<1> USE DEF LoopHeld
<1>1. CASE ThreadStep \/ MotionFrame
  <2>1. stage' = stage /\ handler' = handler
    BY <1>1 DEF ThreadStep, CheckStop, StillFrame, MotionFrame, life, world
  <2>2. CASE UNCHANGED vars
    BY <2>1, <2>2 DEF vars, NoneRuns, HasLoop
  <2>3. CASE BeginRecording \/ HandleEvent
    BY <2>1, <2>3, ThreadLeavesLoop
  <2> QED
    BY <1>1, <2>2, <2>3
       DEF ThreadStep, CheckStop, StillFrame, MotionFrame
<1>2. CASE LoopStep
  BY <1>2 DEF LoopStep, LoopRuns, life, world
<1>3. CASE ToggleCommand \/ BusyCommand \/ BusyEnds \/ RestartCommand
             \/ RestartEnds \/ Terminate \/ UNCHANGED lvars
             \/ ((ElapseCooldown \/ Prolong) /\ UNCHANGED life)
  <2>1. UNCHANGED <<pc, stage>> /\ (NoneRuns' <=> NoneRuns)
    BY <1>3 DEF ToggleCommand, BusyCommand, BusyEnds, RestartCommand,
       RestartEnds, Terminate, ElapseCooldown, Prolong, ToggleNotifications, lvars,
       vars, life, NoneRuns, HasLoop
  <2>2. \/ handler' = handler \/ handler' = "none"
        \/ stage \in {"serving", "stopping"} /\ NoneRuns
    BY <1>3 DEF ToggleCommand, BusyCommand, BusyEnds, RestartCommand,
       RestartEnds, Terminate, HandlersRun, lvars, life, world
  <2> QED
    BY <2>1, <2>2
<1>4. CASE StartFails \/ Serve \/ BeginJoin \/ EndJoin \/ AllCancelled
             \/ CloseLoop \/ Start
  <2>1. pc' = pc /\ handler' = handler
    BY <1>4 DEF StartFails, Serve, BeginJoin, EndJoin, AllCancelled,
       CloseLoop, Start, vars, world
  <2>2. NoneRuns' <=> NoneRuns
    BY <2>1 DEF NoneRuns, HasLoop
  <2> QED
    BY <1>4, <2>1, <2>2 DEF StartFails, Serve, BeginJoin, EndJoin,
       AllCancelled, CloseLoop, Start
<1>5. CASE BeginStop \/ CancelTask
  BY <1>5 DEF BeginStop, CancelTask, life, world
<1>6. CASE EndProcess
  BY <1>6 DEF EndProcess, Die, AllIdle, NoneRuns, HasLoop, Sender
<1> HIDE DEF LoopHeld
<1> QED
  BY <1>1, <1>2, <1>3, <1>4, <1>5, <1>6 DEF LNext, Shutdown

-----------------------------------------------------------------------------
(***************************************************************************)
(* Once stop_event is set, the drain was idle or waited for a request,     *)
(* which ends by an exception and takes the pass with it.                  *)
(***************************************************************************)
RetryControls == Controls \ {"record", "discard", "save", "quota", "list",
                             "prune"}

DrainOK ==
  /\ pc["retry"] \in RetryControls
  /\ stopEvent =>
       /\ stage \notin {"starting", "serving"}
       /\ \/ pc["retry"] = "idle"
          \/ pc["retry"] \in {"cleanup", "settle"} /\ send["retry"].answer = "raised"

\* The motion thread's steps leave the drain alone.
LEMMA LiveLeavesRetry ==
  ASSUME TypeOK, \/ MotionThread \/ SendStep("live") \/ Cancel("live")
                 \/ CancelUnstarted \/ RefuseCoroutine
  PROVE  pc'["retry"] = pc["retry"] /\ send'["retry"] = send["retry"]
BY DEF TypeOK, Sender, MotionThread, SendStep, Cancel, CancelUnstarted,
   RefuseCoroutine, BeginRecording, EndRecording, FailRecording, Discard,
   SaveTemp, MeasureUsage, ListForPruning, PruneOldest, EndPruning, MarkFailed,
   Convert, MeasureNote, Reconvert, ConversionRaises,
       OpenAndSend, Answer, Cleanup,
   MarkDelivered, RecordDeliverySuccess, Goto, Return, local

\* The drain's own steps, and where they may lead.
LEMMA RetrySteps ==
  ASSUME TypeOK, DrainOK, RetryRuns
  PROVE  /\ pc'["retry"] \in RetryControls /\ pc["retry"] # "idle"
         /\ pc'["retry"] = "convert" => pc["retry"] = "next"
         /\ pc["retry"] \in {"cleanup", "settle"} /\ send["retry"].answer = "raised"
              => \/ pc'["retry"] = "idle"
                 \/ pc'["retry"] = "settle" /\ send'["retry"].answer = "raised"
<1> USE DEF TypeOK, Sender, Goto, RetryControls, Controls
<1>1. CASE RetryLater \/ NextPending \/ EndDrain
  BY <1>1 DEF RetryLater, NextPending, EndDrain
<1>2. CASE Convert("retry") \/ MeasureNote("retry") \/ Reconvert("retry")
             \/ ConversionRaises("retry") \/ OpenAndSend("retry") \/ Answer("retry")
  BY <1>2 DEF Convert, MeasureNote, Reconvert, ConversionRaises, OpenAndSend, Answer
<1>3. CASE Cleanup("retry")
  BY <1>3 DEF Cleanup
<1>4. CASE MarkDelivered("retry") \/ RecordDeliverySuccess("retry")
  BY <1>4 DEF MarkDelivered, RecordDeliverySuccess
<1> QED
  BY <1>1, <1>2, <1>3, <1>4 DEF RetryRuns, SendStep

\* The drain takes up a clip after the stop.
TakesClip == stopEvent /\ pc'["retry"] = "convert"

\* Every step keeps the drain so, and none takes up a clip after the stop.
LEMMA DrainStep ==
  ASSUME TypeOK, DrainOK, [LNext]_lvars
  PROVE  DrainOK' /\ ~TakesClip
<1> USE DEF DrainOK, TakesClip
<1> DEFINE Still == pc'["retry"] = pc["retry"] /\ send'["retry"] = send["retry"]
<1>1. CASE Still /\ (stopEvent' <=> stopEvent) /\ stage' = stage
  BY <1>1
<1>2. CASE ThreadStep \/ MotionFrame
  <2>1. Still
    BY <1>2, LiveLeavesRetry DEF ThreadStep, CheckStop, StillFrame,
       HandleEvent, MotionFrame, MotionThread, vars, local
  <2>2. stopEvent' = stopEvent /\ stage' = stage
    BY <1>2 DEF ThreadStep, CheckStop, StillFrame, MotionFrame, life
  <2> QED
    BY <1>1, <2>1, <2>2
<1>3. CASE LoopStep
  <2>1. stopEvent' = stopEvent /\ stage' = stage
    BY <1>3 DEF LoopStep, life
  <2>2. CASE LiveCoroutine
    BY <1>1, <2>1, <2>2, LiveLeavesRetry DEF LiveCoroutine
  <2>3. CASE RetryRuns
    BY <2>1, <2>3, RetrySteps
  <2>4. CASE stage \in {"starting", "serving"} /\ BeginDrain
    BY <2>1, <2>4 DEF BeginDrain, Goto, TypeOK, Sender, RetryControls, Controls
  <2> QED
    BY <1>3, <2>2, <2>3, <2>4 DEF LoopStep
<1>4. CASE ToggleCommand \/ BusyCommand \/ BusyEnds \/ RestartCommand
             \/ RestartEnds \/ Terminate \/ UNCHANGED lvars
             \/ ((ElapseCooldown \/ Prolong) /\ UNCHANGED life)
  <2>1. UNCHANGED <<pc, send, stopEvent, stage>>
    BY <1>4 DEF ToggleCommand, BusyCommand, BusyEnds, RestartCommand,
       RestartEnds, Terminate, ElapseCooldown, Prolong, ToggleNotifications, lvars,
       vars, life, local
  <2> QED
    BY <1>1, <2>1
<1>5. CASE StartFails \/ Serve \/ BeginJoin \/ EndJoin \/ AllCancelled
             \/ CloseLoop \/ Start
  <2>1. UNCHANGED <<pc, send>>
    BY <1>5 DEF StartFails, Serve, BeginJoin, EndJoin, AllCancelled,
       CloseLoop, Start, vars, local
  <2>2. stopEvent' => stopEvent /\ stage' \notin {"starting", "serving"}
    BY <1>5 DEF StartFails, Serve, BeginJoin, EndJoin, AllCancelled,
       CloseLoop, Start
  <2> QED
    BY <2>1, <2>2 DEF RetryControls
<1>6. CASE BeginStop
  <2>1. stage' = "stopping" /\ ~stopEvent
    BY <1>6 DEF BeginStop
  <2>2. CASE pc["retry"] = "inflight"
    <3>1. Cancel("retry")
      BY <1>6, <2>2 DEF BeginStop
    <3> QED
      BY <2>1, <3>1 DEF Cancel, Goto, TypeOK, Sender, RetryControls, Controls
  <2>3. CASE pc["retry"] # "inflight"
    <3>1. UNCHANGED <<pc, send>>
      BY <1>6, <2>3 DEF BeginStop, vars, local
    <3>2. pc["retry"] = "idle"
      BY <1>6, <2>3 DEF BeginStop, NoneRuns, HasLoop, Sender, RetryControls,
         Controls
    <3> QED
      BY <2>1, <3>1, <3>2 DEF RetryControls
  <2> QED
    BY <2>2, <2>3
<1>7. CASE CancelTask
  <2>1. stopEvent' = stopEvent /\ stage' = stage
    BY <1>7 DEF CancelTask, life
  <2>2. CASE Cancel("live") \/ CancelUnstarted
    BY <1>1, <2>1, <2>2, LiveLeavesRetry
  <2>3. CASE Cancel("retry")
    BY <2>1, <2>3 DEF Cancel, Goto, TypeOK, Sender, RetryControls, Controls
  <2> QED
    BY <1>7, <2>2, <2>3 DEF CancelTask, Sender
<1>8. CASE EndProcess
  BY <1>8 DEF EndProcess, Die, AllIdle, Sender, RetryControls, Controls
<1> HIDE DEF DrainOK, TakesClip
<1> QED
  BY <1>2, <1>3, <1>4, <1>5, <1>6, <1>7, <1>8 DEF LNext, Shutdown

-----------------------------------------------------------------------------
(***************************************************************************)
(* The end of the process.  asyncio.run ends no sooner than its tasks, and *)
(* the drain begins no pass once _run is over: when the loop is closed the *)
(* drain is idle.                                                          *)
(***************************************************************************)
DrainGone == stage \in {"cancelled", "exiting", "ended"} => pc["retry"] = "idle"

\* Once the tasks are cancelled the drain stays idle.
LEMMA GoneStep ==
  ASSUME TypeOK, DrainOK, DrainGone, [LNext]_lvars
  PROVE  DrainGone'
<1> USE DEF DrainGone
<1>1. CASE ThreadStep \/ MotionFrame
  <2>1. pc'["retry"] = pc["retry"]
    BY <1>1, LiveLeavesRetry DEF ThreadStep, CheckStop, StillFrame,
       HandleEvent, MotionFrame, MotionThread, vars
  <2>2. stage' = stage
    BY <1>1 DEF ThreadStep, CheckStop, StillFrame, MotionFrame, life
  <2> QED
    BY <2>1, <2>2
<1>2. CASE LoopStep
  <2>1. stage' = stage
    BY <1>2 DEF LoopStep, life
  <2>2. CASE LiveCoroutine
    BY <2>1, <2>2, LiveLeavesRetry DEF LiveCoroutine
  <2>3. CASE RetryRuns
    BY <2>1, <2>3, RetrySteps
  <2>4. CASE stage \in {"starting", "serving"} /\ BeginDrain
    BY <2>1, <2>4
  <2> QED
    BY <1>2, <2>2, <2>3, <2>4 DEF LoopStep
<1>3. CASE ToggleCommand \/ BusyCommand \/ BusyEnds \/ RestartCommand
             \/ RestartEnds \/ Terminate \/ UNCHANGED lvars
             \/ ((ElapseCooldown \/ Prolong) /\ UNCHANGED life)
  BY <1>3 DEF ToggleCommand, BusyCommand, BusyEnds, RestartCommand,
     RestartEnds, Terminate, ElapseCooldown, Prolong, ToggleNotifications, lvars,
     vars, life
<1>4. CASE StartFails \/ Serve \/ BeginStop \/ BeginJoin \/ EndJoin
             \/ CancelTask \/ Start
  BY <1>4 DEF StartFails, Serve, BeginStop, BeginJoin, EndJoin, CancelTask,
     Start, life
<1>5. CASE AllCancelled
  <2>1. pc["retry"] = "idle"
    BY <1>5 DEF AllCancelled, NoneRuns, HasLoop, DrainOK, RetryControls,
       Controls, Sender
  <2> QED
    BY <1>5, <2>1 DEF AllCancelled, vars
<1>6. CASE CloseLoop
  BY <1>6 DEF CloseLoop, vars
<1>7. CASE EndProcess
  BY <1>7 DEF EndProcess, Die, AllIdle, Sender
<1> HIDE DEF DrainGone
<1> QED
  BY <1>1, <1>2, <1>3, <1>4, <1>5, <1>6, <1>7 DEF LNext, Shutdown

\* So every step is one of the delivery path, or leaves it as it is.  The end of
\* the process is one because the drain is over by then, and no coroutine is
\* in the middle of its steps.
LInv == IInv /\ Shape /\ LoopHeld /\ DrainOK /\ DrainGone

LEMMA LStepRefines == LInv /\ [LNext]_lvars => [Next]_vars
<1> SUFFICES ASSUME LInv, [LNext]_lvars PROVE [Next]_vars
  OBVIOUS
<1>1. CASE ThreadStep
  BY <1>1 DEF ThreadStep, CheckStop, StillFrame, HandleEvent, Next, Stop, Sender
<1>2. CASE MotionFrame
  BY <1>2 DEF MotionFrame, Next, MotionThread
<1>3. CASE LoopStep
  BY <1>3 DEF LoopStep, LiveCoroutine, RetryRuns, RetryTask, Next, Sender
<1>4. CASE ToggleCommand \/ BusyCommand \/ BusyEnds \/ RestartCommand
             \/ RestartEnds \/ Terminate
  BY <1>4 DEF ToggleCommand, BusyCommand, BusyEnds, RestartCommand,
     RestartEnds, Terminate, Next
<1>5. CASE StartFails \/ Serve \/ BeginJoin \/ EndJoin \/ AllCancelled
             \/ CloseLoop \/ Start
  BY <1>5 DEF StartFails, Serve, BeginJoin, EndJoin, AllCancelled, CloseLoop,
     Start
<1>6. CASE BeginStop \/ CancelTask
  BY <1>6 DEF BeginStop, CancelTask, Next, Stop, Sender
<1>7. CASE EndProcess
  <2>1. pc["retry"] = "idle" /\ ~HasLoop("live")
    BY <1>7 DEF EndProcess, LInv, LoopHeld, DrainGone, NoneRuns, Sender
  <2> QED
    BY <1>7, <2>1, LifecycleAssumption DEF EndProcess, EndOfProcess, Next
<1>8. CASE ElapseCooldown \/ Prolong
  BY <1>8 DEF Next
<1>9. CASE UNCHANGED lvars
  BY <1>9 DEF lvars
<1> QED
  BY <1>1, <1>2, <1>3, <1>4, <1>5, <1>6, <1>7, <1>8, <1>9 DEF LNext, Shutdown

\* Nothing is under way at the start.
LEMMA InitLInv == LInit => LInv
<1>1. LInit => Shape
  <2>1. 0 \in 0..MaxStops /\ 0 \in Nat
    BY LifecycleAssumption
  <2> QED
    BY <2>1, Zenon DEF LInit, Shape, Stages
<1>2. LInit => LoopHeld /\ DrainOK /\ DrainGone
  BY DEF LInit, LoopHeld, Init, AllIdle, DrainOK, DrainGone, RetryControls, Controls,
     Sender
<1> QED
  BY <1>1, <1>2, InitIInv DEF LInit, LInv

\* Every step keeps the process's invariant.
LEMMA LInvStep == LInv /\ [LNext]_lvars => LInv'
BY LStepRefines, NextIInv, ShapeStep, LoopHeldStep, DrainStep, GoneStep
   DEF LInv, IInv

LEMMA LInductive == LSpec => []LInv
BY InitLInv, LInvStep, PTL DEF LSpec

\* The process with its handlers, its threads and its shutdown is one that
\* Delivery.tla describes: in particular asyncio.run ends it only after the
\* drain's end, with no coroutine in the middle of a send.
THEOREM LifecycleImplementsDelivery == LSpec => ImplementsDelivery
<1>1. LInit => Init
  BY DEF LInit
<1> QED
  BY <1>1, LStepRefines, LInductive, PTL DEF LSpec, Spec, ImplementsDelivery

\* No orderly stop, in whatever moment of a recording, a request or a pass of
\* the drain, and no start without Telegram loses a clip.
THEOREM StopsLoseNoClip == LSpec => []NoClipLost
BY LifecycleImplementsDelivery, ClipsAreNotLost, PTL DEF ImplementsDelivery

\* Stops and failed starts included, the process is an outbox, and its retry
\* queue is durable; a clip it strands is the motion thread's, and stays so.
THEOREM StopsKeepTheOutbox ==
  LSpec => ImplementsOutbox /\ QueueIsDurable /\ StrandsOnlyLive
BY LifecycleImplementsDelivery, PathImplementsOutbox, QueueKeepsItsClips,
   OnlyLiveIsStranded, PTL DEF ImplementsDelivery

\* The process's state keeps its shape, and only one handler or coroutine has
\* the event loop, through every start and stop.
THEOREM LTypeCorrect == LSpec => []LTypeOK
<1>1. LInv => LTypeOK
  BY DEF LInv, Shape, LoopHeld, LTypeOK
<1> QED
  BY <1>1, LInductive, PTL

-----------------------------------------------------------------------------
\* The motion thread looks at stop_event between two frames: a recording
\* begun after the stop is one whose frame it had already asked for.
LateOK == late \in {0, 1} /\ (late = 1 => stopEvent /\ thread # "frame")

\* Every step keeps the count.
LEMMA LateStep == LateOK /\ [LNext]_lvars => LateOK'
<1> SUFFICES ASSUME LateOK, [LNext]_lvars PROVE LateOK'
  OBVIOUS
<1>1. CASE CheckStop \/ StillFrame
  BY <1>1 DEF CheckStop, StillFrame, LateOK
<1>2. CASE MotionFrame
  BY <1>2 DEF MotionFrame, LateOK
<1>3. CASE UNCHANGED <<stopEvent, thread, late>>
  BY <1>3 DEF LateOK
<1>4. CASE BeginStop
  BY <1>4 DEF BeginStop, LateOK
<1>5. CASE EndProcess \/ Start
  BY <1>5 DEF EndProcess, Start, LateOK
<1> QED
  BY <1>1, <1>2, <1>3, <1>4, <1>5
     DEF LNext, ThreadStep, LoopStep, ToggleCommand, BusyCommand, BusyEnds,
     RestartCommand, RestartEnds, Terminate, Shutdown, StartFails, Serve,
     BeginJoin, EndJoin, CancelTask, AllCancelled, CloseLoop, lvars, life

\* However often the process is stopped, the motion thread begins one
\* recording at most after it was told to stop.
THEOREM AtMostOneLate == LSpec => []OneLateRecording
<1>1. LInit => LateOK
  BY DEF LInit, LateOK
<1>2. LateOK => OneLateRecording
  BY DEF LateOK, OneLateRecording
<1> QED
  BY <1>1, <1>2, LateStep, PTL DEF LSpec

-----------------------------------------------------------------------------
\* A drain that is over has nothing listed.
IdleIsEmpty == pc["retry"] = "idle" => queue["retry"] = {}

\* The drain ends a pass with its list empty, or drops it.
LEMMA IdleStep ==
  ASSUME TypeOK, IdleIsEmpty, [Next]_vars
  PROVE  IdleIsEmpty'
<1> USE DEF IdleIsEmpty, TypeOK, Sender, Goto
<1>1. CASE MotionThread \/ SendStep("live") \/ Cancel("live")
             \/ CancelUnstarted \/ RefuseCoroutine
  <2>1. queue'["retry"] = queue["retry"]
    BY <1>1 DEF MotionThread, SendStep, Cancel, CancelUnstarted,
       RefuseCoroutine, BeginRecording, EndRecording, FailRecording, Discard,
       SaveTemp, MeasureUsage, ListForPruning, PruneOldest, EndPruning,
       MarkFailed, Convert, MeasureNote, Reconvert, ConversionRaises,
       OpenAndSend, Answer, Cleanup, MarkDelivered, RecordDeliverySuccess, local
  <2> QED
    BY <1>1, <2>1, LiveLeavesRetry
<1>2. CASE SendStep("retry") \/ Cancel("retry")
  BY <1>2 DEF SendStep, Convert, MeasureNote, Reconvert, ConversionRaises,
     OpenAndSend, Answer, Cleanup, MarkDelivered, RecordDeliverySuccess, Cancel
<1>3. CASE RetryTask
  BY <1>3 DEF RetryTask, RetryLater, BeginDrain, NextPending, EndDrain, local
<1>4. CASE EndOfProcess \/ Crash
  BY <1>4 DEF EndOfProcess, Crash, Die, NoQueues
<1>5. CASE ElapseCooldown \/ Prolong \/ ToggleNotifications \/ UNCHANGED vars
  BY <1>5 DEF ElapseCooldown, Prolong, ToggleNotifications, vars, local
<1> QED
  BY <1>1, <1>2, <1>3, <1>4, <1>5 DEF Next, Stop

\* A drain that is told to stop takes up no further clip, whatever happens to
\* the request it waits for; and stopped or not started, the process never ends
\* in the middle of a pass, between the chat's answer and the clip's deletion.
THEOREM DrainStops == LSpec => StopEndsDrain
<1> DEFINE Ends == stopEvent /\ pc'["retry"] = "convert" => pc["retry"] = "convert"
           Last == stage' \in {"exiting", "ended"} =>
                     pc'["retry"] = "idle" /\ queue'["retry"] = {}
<1>1. LInit => IdleIsEmpty
  BY DEF LInit, Init, NoQueues, IdleIsEmpty, Sender
<1>2. LInv /\ IdleIsEmpty /\ [LNext]_lvars => IdleIsEmpty'
  BY IdleStep, LStepRefines DEF LInv, IInv
<1>3. LInv /\ [LNext]_lvars => [Ends]_lvars
  BY DrainStep DEF TakesClip, LInv, IInv
<1>4. LInv' /\ IdleIsEmpty' => Last
  BY DEF LInv, DrainGone, IdleIsEmpty
<1> QED
  BY <1>1, <1>2, <1>3, <1>4, LInductive, PTL DEF LSpec, StopEndsDrain

\* While there is a loop to run it, the motion thread's send comes to an end of
\* its own.
LEMMA LiveEnds ==
  ASSUME TypeOK, [LNext]_lvars, stage # "exiting", LiveBusy, pc'["live"] = "idle"
  PROVE  MarkFailed \/ pc["live"] = "stamp"
<1> USE DEF TypeOK, Sender, Goto, LiveBusy
<1>1. ASSUME MotionThread PROVE MarkFailed
  BY <1>1 DEF MotionThread, BeginRecording, EndRecording, FailRecording,
     Discard, SaveTemp, MeasureUsage, ListForPruning, PruneOldest, EndPruning
<1>2. ASSUME NEW s \in Sender, SendStep(s) \/ Cancel(s) PROVE pc["live"] = "stamp"
  BY <1>2 DEF SendStep, Convert, MeasureNote, Reconvert, ConversionRaises,
     OpenAndSend, Answer, Cleanup, MarkDelivered, RecordDeliverySuccess, Cancel
<1>3. ~(RetryTask \/ CancelUnstarted \/ ElapseCooldown \/ Prolong
          \/ ToggleNotifications \/ UNCHANGED vars)
  BY DEF RetryTask, RetryLater, BeginDrain, NextPending, EndDrain,
     CancelUnstarted, ElapseCooldown, Prolong, ToggleNotifications, vars
<1>4. CASE ThreadStep \/ MotionFrame
  BY <1>1, <1>2, <1>3, <1>4 DEF ThreadStep, CheckStop, StillFrame, HandleEvent,
     MotionFrame, MotionThread
<1>5. CASE LoopStep
  BY <1>2, <1>3, <1>5 DEF LoopStep, LiveCoroutine, RetryRuns, RetryTask
<1>6. CASE BeginStop \/ CancelTask
  BY <1>2, <1>3, <1>6 DEF BeginStop, CancelTask
<1>7. CASE EndProcess
  BY <1>7 DEF EndProcess
<1>8. ~(ToggleCommand \/ BusyCommand \/ BusyEnds \/ RestartCommand
          \/ RestartEnds \/ Terminate \/ StartFails \/ Serve \/ BeginJoin
          \/ EndJoin \/ AllCancelled \/ CloseLoop \/ Start
          \/ UNCHANGED lvars)
  BY <1>3 DEF ToggleCommand, BusyCommand, BusyEnds, RestartCommand,
     RestartEnds, Terminate, StartFails, Serve, BeginJoin, EndJoin,
     AllCancelled, CloseLoop, Start, lvars
<1> QED
  BY <1>3, <1>4, <1>5, <1>6, <1>7, <1>8 DEF LNext, Shutdown

\* Where moves succeed, a stop strands a clip only after the loop was closed,
\* with the motion thread still at it; a send that fails or is cancelled before
\* leaves its clip in the queue.
THEOREM OnlyExitStrands ==
  ASSUME "rename" \notin Faults
  PROVE  LSpec => StrandedAtExit
<1> DEFINE AtExit == Stranded' # Stranded => stage = "exiting"
<1>1. LInv /\ FileInv /\ OnlyFile /\ [LNext]_lvars => AtExit
  <2> SUFFICES ASSUME LInv, FileInv, OnlyFile, [LNext]_lvars,
                      Stranded' # Stranded, stage # "exiting"
               PROVE  FALSE
    OBVIOUS
  <2> USE DEF LInv
  <2>1. PICK c \in Stranded' \ Stranded : TRUE
    BY LStepRefines, StrandedStep
  <2>2. /\ LiveBusy /\ File("live").name.clip = c
        /\ pc["live"] # "stamp" /\ Interrupted /\ c \in Stranded'
    BY <2>1, LStepRefines, StrandStep
  <2>3. pc'["live"] = "idle"
    BY <2>2 DEF Interrupted, EndOfProcess, Crash, Die, AllIdle,
       RefuseCoroutine, MarkFailed, Goto, IInv, TypeOK, Sender
  <2>4. MarkFailed
    BY <2>2, <2>3, LiveEnds DEF IInv
  <2>5. Pending(c)'
    BY <2>2, <2>4, FailedIsPending
  <2> QED
    BY <2>2, <2>5 DEF Stranded
<1>2. LSpec => []FileInv /\ []OnlyFile
  BY LifecycleImplementsDelivery, FilesInductive, OnlyFileInductive, PTL
     DEF ImplementsDelivery
<1> QED
  BY <1>1, <1>2, LInductive, PTL DEF LSpec, StrandedAtExit
=============================================================================
