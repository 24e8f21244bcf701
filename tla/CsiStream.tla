------------------------------ MODULE CsiStream ------------------------------
(***************************************************************************)
(* camera.py's CsiCameraBackend: rpicam-vid writes JPEG frames one after   *)
(* the other into a pipe; read_frame takes the pipe in chunks that know    *)
(* nothing of frames and cuts it at the start and end markers, two bytes   *)
(* each.                                                                   *)
(*                                                                         *)
(* Bytes are positions in the stream of one process, from 1.  A frame is   *)
(* <<first, last>>: its start marker is at first and first + 1, its end    *)
(* marker at last - 1 and last, and between them there is no marker (JPEG  *)
(* stuffs its data).  What the backend buffers is always a piece of the    *)
(* stream, from + 1 .. read.                                               *)
(***************************************************************************)
EXTENDS Naturals, Sequences

CONSTANTS
  Chunk,    \* stdout.read(65536): that many bytes, or all up to the end
  Lengths,  \* the lengths a frame may have
  MaxBytes  \* bound: bytes that a process writes

ASSUME StreamAssumption ==
  /\ Chunk \in Nat \ {0} /\ MaxBytes \in Nat
  /\ Lengths \subseteq {n \in Nat : n >= 4}

VARIABLES
  frames,   \* the frames the camera has taken
  written,  \* bytes that rpicam-vid has written or, while it runs, will
  running,  \* rpicam-vid is running
  lock,     \* CameraLock is held
  pc,       \* the next step of the backend
  read,     \* bytes read from the pipe
  from,     \* _buffer: the bytes after this one, up to read
  found,    \* the frames cut out since open
  popped,   \* how many of them left _frame_queue, which has the others
  cuts      \* ghost: the positions at which chunks ended

stream == <<frames, written, running>>
vars   == <<stream, lock, pc, read, from, found, popped, cuts>>

First(f) == f[1]
Last(f)  == f[2]
Least(S) == {x \in S : \A y \in S : x <= y}

-----------------------------------------------------------------------------
\* rpicam-vid.

Capture(n) ==
  /\ running /\ written + n <= MaxBytes
  /\ frames' = frames \cup {<<written + 1, written + n>>}
  /\ written' = written + n
  /\ UNCHANGED <<running, lock, pc, read, from, found, popped, cuts>>

\* The process ends; what it had not written by then is never read.
EndOfProcess ==
  /\ running /\ running' = FALSE
  /\ written' \in read..written
  /\ UNCHANGED <<frames, lock, pc, read, from, found, popped, cuts>>

-----------------------------------------------------------------------------
\* open and close.

Acquire ==
  /\ pc = "closed" /\ pc' = "launch" /\ lock' = TRUE
  /\ UNCHANGED <<stream, read, from, found, popped, cuts>>

Launch ==
  /\ pc = "launch" /\ pc' = "ready" /\ running' = TRUE
  /\ UNCHANGED <<frames, written, lock, read, from, found, popped, cuts>>

LeakyLaunch ==  \* mutant: the error leaves the lock held
  /\ pc = "launch" /\ pc' = "closed"
  /\ UNCHANGED <<stream, lock, read, from, found, popped, cuts>>

\* No rpicam-vid, or it has exited by the time of poll.
LaunchFails ==
  /\ pc = "launch" /\ pc' = "closed" /\ lock' = FALSE
  /\ UNCHANGED <<stream, read, from, found, popped, cuts>>

\* Only the error of an rpicam-vid that is not there is caught: that of one that
\* cannot be started leaves open with the lock held, and close is not called.
LaunchRaises ==
  /\ pc = "launch" /\ pc' = "raised"
  /\ UNCHANGED <<stream, lock, read, from, found, popped, cuts>>

\* The backend goes out of use with the error, and its lock file is closed.
Drop ==
  /\ pc = "raised" /\ pc' = "closed" /\ lock' = FALSE
  /\ UNCHANGED <<stream, read, from, found, popped, cuts>>

\* terminate or kill, then everything is as before open.
Close ==
  /\ pc \in {"ready", "failed"} /\ pc' = "closed"
  /\ running' = FALSE /\ lock' = FALSE
  /\ frames' = {} /\ written' = 0 /\ read' = 0 /\ from' = 0 /\ cuts' = {}
  /\ found' = << >> /\ popped' = 0

-----------------------------------------------------------------------------
\* read_frame.

Unemptied == popped <= Len(found)  \* mutant: one too many
Queued == popped < Len(found)

Call ==
  /\ pc = "ready"
  /\ pc' = IF Queued THEN "pop" ELSE "read"
  /\ UNCHANGED <<stream, lock, read, from, found, popped, cuts>>

\* read returns when the chunk is full or the pipe is at its end.
ReadChunk ==
  /\ pc = "read"
  /\ \/ written >= read + Chunk /\ read' = read + Chunk
     \/ ~running /\ read < written /\ written < read + Chunk /\ read' = written
  /\ cuts' = cuts \cup {read'}
  /\ pc' = "split"
  /\ UNCHANGED <<stream, lock, from, found, popped>>

NeverEof ==  \* mutant: an empty chunk is split like any other
  /\ pc = "read" /\ ~running /\ read = written
  /\ UNCHANGED vars

\* An empty chunk: CameraNotFoundError.
Eof ==
  /\ pc = "read" /\ ~running /\ read = written
  /\ pc' = "failed"
  /\ UNCHANGED <<stream, lock, read, from, found, popped, cuts>>

\* imdecode may reject a frame, CameraError, after it has left the queue.
Pop ==
  /\ pc = "pop"
  /\ popped' = popped + 1
  /\ pc' \in {"ready", "failed"}
  /\ UNCHANGED <<stream, lock, read, from, found, cuts>>

-----------------------------------------------------------------------------
\* _split_mjpeg_frames, a turn of its loop at a time.

\* find looks for both bytes of a marker in the buffer.
Starts == {p \in {First(f) : f \in frames} : from < p /\ p < read}
EndsAnywhere(p) ==  \* mutant: sought from the buffer's start
  {q \in {Last(f) : f \in frames} : from + 1 < q /\ q <= read}
EndsAfter(p)    == {q \in {Last(f) : f \in frames} : p + 2 < q /\ q <= read}

ResumeReading ==  \* mutant: the next chunk is read at once
  /\ pc' = "read" /\ UNCHANGED <<stream, lock, read, found, popped, cuts>>
Resume == /\ pc' = IF Queued THEN "pop" ELSE "read"
          /\ UNCHANGED <<stream, lock, read, found, popped, cuts>>

\* Without a start marker nothing is kept, not even half of one.
NoStart == /\ pc = "split" /\ Starts = {}
           /\ from' = read
           /\ Resume

DropPartial ==  \* mutant: a frame without its end is dropped
  /\ pc = "split"
  /\ \E p \in Least(Starts) : EndsAfter(p) = {} /\ from' = read
  /\ Resume

NoEnd == /\ pc = "split"
         /\ \E p \in Least(Starts) : EndsAfter(p) = {} /\ from' = p - 1
         /\ Resume

Recut ==  \* mutant: what was cut out stays in the buffer
  /\ pc = "split"
  /\ \E p \in Least(Starts) : \E q \in Least(EndsAfter(p)) :
       found' = Append(found, <<p, q>>) /\ from' = p - 1
  /\ UNCHANGED <<stream, lock, pc, read, popped, cuts>>

CutFrame ==
  /\ pc = "split"
  /\ \E p \in Least(Starts) : \E q \in Least(EndsAfter(p)) :
       found' = Append(found, <<p, q>>) /\ from' = q
  /\ UNCHANGED <<stream, lock, pc, read, popped, cuts>>

-----------------------------------------------------------------------------
Init ==
  /\ frames = {} /\ written = 0 /\ running = FALSE /\ lock = FALSE
  /\ pc = "closed" /\ read = 0 /\ from = 0 /\ found = << >> /\ popped = 0
  /\ cuts = {}

ReadFrame == ReadChunk \/ Eof \/ Pop \/ NoStart \/ NoEnd \/ CutFrame

Next == \/ \E n \in Lengths : Capture(n)
        \/ EndOfProcess \/ Acquire \/ Launch \/ LaunchFails
        \/ LaunchRaises \/ Drop \/ Close \/ Call \/ ReadFrame

Spec == Init /\ [][Next]_vars

\* A call of read_frame goes on as long as the pipe does not make it wait.
FairSpec == Spec /\ WF_vars(ReadFrame)

-----------------------------------------------------------------------------
\* Properties.

\* The state has the shape the actions rely on.
TypeOK ==
  /\ frames \subseteq Nat \X Nat /\ written \in Nat
  /\ running \in BOOLEAN /\ lock \in BOOLEAN
  /\ pc \in {"closed", "launch", "ready", "read", "split", "pop", "failed",
             "raised"}
  /\ read \in Nat /\ from \in 0..read
  /\ found \in Seq(Nat \X Nat) /\ popped \in 0..Len(found)
  /\ cuts \subseteq Nat

\* What is cut out of the stream is exactly frames of the camera, in their
\* order and none twice, wherever the chunks end: never two run together, a
\* half, or the rest of one whose start was lost.
WholeFrames ==
  /\ \A i \in DOMAIN found : found[i] \in frames /\ Last(found[i]) <= from
  /\ \A i, j \in DOMAIN found : i < j => Last(found[i]) < First(found[j])

\* Of the frames whose bytes the buffer no longer has, only those are lost
\* whose start marker two chunks share; the docstring of _split_mjpeg_frames
\* (camera.py:151) would keep these too.
OnlySplitMarkersLost ==
  \A f \in frames :
    First(f) <= from => First(f) \in cuts \/ \E i \in DOMAIN found : found[i] = f

\* A frame is only ever waited for with nothing complete at hand: when the pipe
\* is read, every frame wholly in the buffer has been cut out of it.
NothingWaits ==
  pc = "read" => ~Queued /\ \A f \in frames : from < First(f) => read < Last(f)

\* A camera that was closed keeps neither the lock nor rpicam-vid, which would
\* keep everyone else out; one that could not be opened has no rpicam-vid, and
\* the lock at most while its caller has the error of open in its hands.
ClosedHoldsNothing == /\ pc \in {"closed", "raised"} => ~running
                      /\ lock => pc # "closed"

\* Both loops of read_frame, over the chunks and over the frames in one, are at
\* every turn nearer their end, once rpicam-vid writes no more: no frame, half
\* a frame or rest without markers is gone over twice.
StepsLeft == 2 * (written - read) + (written - from)
             + (CASE pc = "split" -> 2 [] pc \in {"read", "pop"} -> 1 [] OTHER -> 0)
EveryTurnCounts ==
  [][~running /\ pc \in {"read", "split", "pop"} => StepsLeft' < StepsLeft]_vars

\* When rpicam-vid is gone, a read_frame under way ends: with one of the frames
\* read before, or with the error that makes the pipeline try again.
ReadReturns ==
  ~running /\ pc \in {"read", "split", "pop"} ~> pc \in {"ready", "failed"}
=============================================================================
