--------------------------- MODULE MotionEpisodes ---------------------------
(***************************************************************************)
(* The motion thread frame by frame: MotionDetector (motion.py) turns      *)
(* frames into events, the pre-roll buffer (main.py) keeps the last few,   *)
(* and Recorder.record_event (recorder.py) takes the pre-roll and then     *)
(* frames of its own until the clip is long enough.  All one thread:       *)
(* while it records, delivers or waits for the camera, the detector sees   *)
(* nothing.  Nothing is cleared when it comes back.                        *)
(*                                                                         *)
(* A frame is its number; whether it shows motion in the region of         *)
(* interest is chosen frame by frame.  The classifier is absent, as        *)
(* main.py constructs the detector.  What becomes of the clip is           *)
(* Delivery.tla's.                                                         *)
(***************************************************************************)
EXTENDS Naturals, Sequences, FiniteSets

CONSTANTS
  MinFrames,  \* min_duration_seconds, in frames
  PreLen,     \* pre_roll_seconds, in frames
  ClipLen,    \* clip_duration_seconds, in frames
  MaxFrames   \* bound: frames the camera takes

ASSUME EpisodesAssumption ==
  /\ MinFrames \in Nat \ {0} /\ PreLen \in Nat \ {0} /\ ClipLen \in Nat \ {0}
  /\ MaxFrames \in Nat

Frame == 1..MaxFrames

VARIABLES
  moving,       \* ghost: the frames taken so far, TRUE if they show motion
  phase,        \* what the thread does: "watch", "record" or "away"
  consecutive,  \* _consecutive_motion_frames
  decided,      \* _decided_for_current_motion
  preRoll,      \* the deque of the last PreLen frames
  clip,         \* the frames for ffmpeg, those of the pre-roll at once
  active,       \* is_recording_active
  event,        \* ghost: the frame of the last event, 0 before the first
  seen          \* ghost: the frames the detector has analysed

detector == <<consecutive, decided>>
vars     == <<moving, phase, detector, preRoll, clip, active, event, seen>>

Taken == Len(moving)

\* The last n of a sequence, or all of it.
Unbounded(s, n) == s  \* mutant: a deque without maxlen
Newest(s, n) == SubSeq(s, IF Len(s) > n THEN Len(s) - n + 1 ELSE 1, Len(s))

-----------------------------------------------------------------------------
\* process_frame_for_motion up to the recording.

\* MotionDetector.process_frame.
EagerCount(m) == consecutive + (IF m THEN 1 ELSE 0)  \* mutant: never reset
Count(m) == IF m THEN consecutive + 1 ELSE 0
AnyMotion(m) == m /\ Count(m) >= MinFrames /\ ~active  \* mutant: again and again
Fires(m) == m /\ Count(m) >= MinFrames /\ ~decided /\ ~active
StaysDecided(m) == decided \/ Fires(m)  \* mutant: not reset by a still frame
Decided(m) == m /\ (decided \/ Fires(m))

\* record_event gives ffmpeg the newest frames of the pre-roll that fit, one
\* after the other; at its size cap ffmpeg may stop in the middle of them.
OldestThatFit(p) == SubSeq(p, 1, IF Len(p) > ClipLen THEN ClipLen ELSE Len(p))  \* mutant: the oldest
Truncated(p) == Newest(p, ClipLen)

\* recording: notifications are enabled and ffmpeg is there.
AnalyseFrame(m, recording) ==
  LET frame == Taken + 1
      buffer == Newest(Append(preRoll, frame), PreLen)
  IN  /\ phase = "watch" /\ Taken < MaxFrames
      /\ moving' = Append(moving, m) /\ seen' = seen \cup {frame}
      /\ preRoll' = buffer
      /\ consecutive' = Count(m) /\ decided' = Decided(m)
      /\ event' = IF Fires(m) THEN frame ELSE event
      /\ IF Fires(m) /\ recording
           THEN phase' = "record" /\ active' = TRUE /\ clip' = Truncated(buffer)
           ELSE UNCHANGED <<phase, active, clip>>

\* A frame of record_event's own.
RecordFrame(m) ==
  /\ phase = "record" /\ Len(clip) < ClipLen /\ Taken < MaxFrames
  /\ moving' = Append(moving, m)
  /\ clip' = Append(clip, Taken + 1)
  /\ UNCHANGED <<phase, detector, preRoll, active, event, seen>>

\* The clip is complete, or ffmpeg stopped at its size cap; the thread goes on
\* to deliver it.  Or the frame source failed, and the thread backs off.
EndRecording ==
  /\ phase = "record"
  /\ phase' = "away" /\ active' = FALSE /\ clip' = << >>
  /\ UNCHANGED <<moving, detector, preRoll, event, seen>>

LoseSource ==
  /\ phase = "watch" /\ phase' = "away"
  /\ UNCHANGED <<moving, detector, preRoll, clip, active, event, seen>>

\* The camera goes on while the thread is away.
MissFrame(m) ==
  /\ phase = "away" /\ Taken < MaxFrames
  /\ moving' = Append(moving, m)
  /\ UNCHANGED <<phase, detector, preRoll, clip, active, event, seen>>

Return ==
  /\ phase = "away" /\ phase' = "watch"
  /\ UNCHANGED <<moving, detector, preRoll, clip, active, event, seen>>

-----------------------------------------------------------------------------
Init ==
  /\ moving = << >> /\ phase = "away" /\ consecutive = 0 /\ decided = FALSE
  /\ preRoll = << >> /\ clip = << >> /\ active = FALSE /\ event = 0 /\ seen = {}

Next == \/ \E m \in BOOLEAN : \/ \E r \in BOOLEAN : AnalyseFrame(m, r)
                              \/ RecordFrame(m) \/ MissFrame(m)
        \/ EndRecording \/ LoseSource \/ Return

Spec == Init /\ [][Next]_vars

-----------------------------------------------------------------------------
\* Properties.

\* The state has the shape the actions rely on.
TypeOK ==
  /\ moving \in Seq(BOOLEAN) /\ Taken <= MaxFrames
  /\ phase \in {"watch", "record", "away"}
  /\ consecutive \in 0..MaxFrames
  /\ decided \in BOOLEAN /\ active \in BOOLEAN
  /\ preRoll \in Seq(Frame) /\ Len(preRoll) <= PreLen
  /\ clip \in Seq(Frame) /\ Len(clip) <= ClipLen
  /\ event \in 0..MaxFrames /\ seen \subseteq Frame

\* The frames analysed after frame f.
SeenAfter(f) == {g \in seen : g > f}

\* motion.py:5: "a single MotionEvent per sustained motion episode": between
\* two events the detector has seen a frame without motion, however many
\* recordings, deliveries and outages came between.
OneEventPerEpisode ==
  [][event' # event /\ event # 0 => \E f \in SeenAfter(event) : ~moving[f]]_vars

\* docs/configuration.md:71: motion in MinFrames consecutive analysed frames
\* before an event: each of the last MinFrames the detector saw has motion.
EventIsSustained ==
  [][event' # event =>
       LET last == {f \in seen' : Cardinality({g \in seen' : g > f}) < MinFrames}
       IN  Cardinality(last) = MinFrames /\ \A f \in last : moving'[f]]_vars

\* Nothing sustained that the detector has seen goes unreported: once the last
\* MinFrames analysed frames show motion, there was an event after the last
\* still frame.
SeenMotionIsReported ==
  \A f \in seen \cup {0} :
    (f # 0 => ~moving[f]) /\ (\A g \in SeenAfter(f) : moving[g])
      /\ Cardinality(SeenAfter(f)) >= MinFrames => event > f

\* docs/testing.md:74: the clip "actually shows the motion that triggered it":
\* as long as ffmpeg takes what it is given, the event's frame is among it, and
\* every frame taken since.  A clip that meets its size cap ends before them.
ClipShowsEvent ==
  phase = "record" =>
    \A f \in event..Taken : \E i \in DOMAIN clip : clip[i] = f
=============================================================================
