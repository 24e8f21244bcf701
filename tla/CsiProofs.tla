------------------------------ MODULE CsiProofs ------------------------------
(***************************************************************************)
(* Theorems about CsiStream.tla, for any chunk size, any frame lengths of  *)
(* at least two markers and a stream of any length: what is cut out of the *)
(* stream is the camera's frames, only those with a start marker across    *)
(* two chunks are lost, and none is kept back.  Of the liveness of         *)
(* read_frame, the two facts that are no liveness: every turn of its loops *)
(* lowers a number (EveryTurnCounts), and a turn is always at hand.        *)
(***************************************************************************)
EXTENDS CsiStream, WellFoundedInduction, TLAPS

\* Frames have room for both markers, share no byte and, while rpicam-vid
\* runs, are all to be written.
FramesOK ==
  /\ \A f \in frames : First(f) >= 1 /\ First(f) + 3 <= Last(f)
  /\ \A f, g \in frames : f = g \/ Last(f) < First(g) \/ Last(g) < First(f)
  /\ running => \A f \in frames : Last(f) <= written

\* How far reading has come, and what is left of the chunks read.
ReadingOK ==
  /\ read <= written
  /\ pc = "split" => read \in cuts
  /\ pc = "pop" => Queued
  /\ pc \in {"split", "read"} \/ Queued \/ popped = Len(found)

\* Before open and after close there is nothing.
ClosedOK ==
  /\ pc \in {"closed", "launch", "raised"} =>
       /\ frames = {} /\ written = 0 /\ read = 0 /\ ~running
       /\ found = << >> /\ popped = 0
  /\ lock <=> pc # "closed"

\* Outside the split loop no whole frame is left in the buffer.
DrainedOK ==
  pc # "split" => \A f \in frames : from < First(f) => read < Last(f)

IInv == /\ TypeOK /\ FramesOK /\ ReadingOK /\ ClosedOK /\ DrainedOK
        /\ WholeFrames /\ OnlySplitMarkersLost /\ NothingWaits

\* TypeOK in two parts: no prover takes the flags and the sequence at once.
FlagsOK   == running \in BOOLEAN /\ lock \in BOOLEAN
NumbersOK ==
  /\ frames \subseteq Nat \X Nat /\ written \in Nat
  /\ pc \in {"closed", "launch", "ready", "read", "split", "pop", "failed",
             "raised"}
  /\ read \in Nat /\ from \in 0..read
  /\ found \in Seq(Nat \X Nat) /\ popped \in 0..Len(found)
  /\ cuts \subseteq Nat

LEMMA TypeParts == TypeOK <=> FlagsOK /\ NumbersOK
  BY Zenon DEF TypeOK, FlagsOK, NumbersOK

LEMMA TypePartsNext == FlagsOK' /\ NumbersOK' => TypeOK'
  BY TypeParts, PTL

-----------------------------------------------------------------------------
\* The invariant holds at the start.
LEMMA InitIInv == Init => IInv
<1> SUFFICES ASSUME Init PROVE IInv
  OBVIOUS
<1>1. TypeOK
  <2>1. running \in BOOLEAN /\ lock \in BOOLEAN
    BY Zenon DEF Init
  <2>2. found \in Seq(Nat \X Nat) /\ popped \in 0..Len(found)
    BY DEF Init
  <2>3. NumbersOK
    BY <2>2 DEF Init, NumbersOK
  <2> QED
    BY <2>1, <2>3, TypeParts DEF FlagsOK
<1>2. FramesOK /\ ReadingOK /\ ClosedOK /\ DrainedOK
  BY DEF Init, FramesOK, ReadingOK, ClosedOK, DrainedOK
<1>3. WholeFrames /\ OnlySplitMarkersLost /\ NothingWaits
  BY DEF Init, WholeFrames, OnlySplitMarkersLost, NothingWaits
<1> QED
  BY <1>1, <1>2, <1>3 DEF IInv

\* A new frame lies beyond everything written so far.
LEMMA CaptureIInv ==
  ASSUME IInv, NEW n \in Lengths, Capture(n)
  PROVE  IInv'
<1>0. FlagsOK' /\ NumbersOK' => TypeOK'
  BY TypePartsNext
<1> DEFINE new == <<written + 1, written + n>>
<1>1. n \in Nat /\ n >= 4 /\ written \in Nat
  BY StreamAssumption DEF IInv, TypeOK
<1>2. new \in Nat \X Nat /\ First(new) = written + 1 /\ Last(new) = written + n
  BY <1>1 DEF First, Last
<1>3. frames' = frames \cup {new} /\ written' = written + n /\ running
  BY DEF Capture
<1>4. UNCHANGED <<running, lock, pc, read, from, found, popped, cuts>>
  BY DEF Capture
<1>5. pc \notin {"closed", "launch", "raised"}
  BY <1>3 DEF IInv, ClosedOK
<1> HIDE DEF new
<1>6. TypeOK'
  <2>1. FlagsOK'
    BY <1>4, TypeParts DEF IInv, FlagsOK
  <2>2. NumbersOK'
    BY <1>1, <1>2, <1>3, <1>4, TypeParts DEF IInv, NumbersOK
  <2> QED
    BY <1>0, <2>1, <2>2
<1>7. FramesOK'
  <2>1. \A f \in frames : /\ First(f) \in Nat /\ Last(f) \in Nat
                         /\ First(f) >= 1 /\ First(f) + 3 <= Last(f)
                         /\ Last(f) <= written
    BY <1>3, TypeParts DEF IInv, NumbersOK, FramesOK, First, Last
  <2>2. \A f, g \in frames : f = g \/ Last(f) < First(g) \/ Last(g) < First(f)
    BY DEF IInv, FramesOK
  <2>3. \A f \in frames : Last(f) < First(new)
    BY <1>1, <1>2, <2>1
  <2>4. \A f \in frames' : First(f) >= 1 /\ First(f) + 3 <= Last(f)
    BY <1>1, <1>2, <1>3, <2>1
  <2>5. \A f, g \in frames' : f = g \/ Last(f) < First(g) \/ Last(g) < First(f)
    BY <1>3, <2>2, <2>3
  <2>6. \A f \in frames' : Last(f) <= written'
    BY <1>1, <1>2, <1>3, <2>1
  <2> QED
    BY <2>4, <2>5, <2>6 DEF FramesOK
<1>8. ReadingOK' /\ ClosedOK'
  BY <1>1, <1>3, <1>4, <1>5 DEF IInv, TypeOK, ReadingOK, ClosedOK, Queued
<1>9. DrainedOK' /\ NothingWaits' /\ OnlySplitMarkersLost'
  BY <1>1, <1>2, <1>3, <1>4
  DEF IInv, TypeOK, ReadingOK, DrainedOK, NothingWaits, OnlySplitMarkersLost, Queued
<1>10. WholeFrames'
  BY <1>3, <1>4 DEF IInv, WholeFrames
<1> QED
  BY <1>6, <1>7, <1>8, <1>9, <1>10 DEF IInv

\* The frame between the first start marker of the buffer and the next end
\* marker is one of the camera's.
LEMMA SliceIsFrame ==
  ASSUME IInv, NEW p \in Least(Starts), NEW q \in Least(EndsAfter(p))
  PROVE  <<p, q>> \in frames /\ from < p /\ p < q /\ q <= read
<1>1. PICK f \in frames : p = First(f)
  BY DEF Least, Starts
<1>2. PICK g \in frames : q = Last(g)
  BY DEF Least, EndsAfter
<1>3. from < p /\ p < read /\ p + 2 < q /\ q <= read
  BY DEF Least, Starts, EndsAfter
<1>4. /\ f \in Nat \X Nat /\ g \in Nat \X Nat /\ read \in Nat /\ from \in Nat
      /\ First(f) \in Nat /\ Last(f) \in Nat /\ First(g) \in Nat /\ Last(g) \in Nat
  BY DEF IInv, TypeOK, First, Last
<1>5. First(f) + 3 <= Last(f) /\ First(g) + 3 <= Last(g)
  BY DEF IInv, FramesOK
<1>6. f = g \/ Last(f) < First(g) \/ Last(g) < First(f)
  BY DEF IInv, FramesOK
<1>7. f = g
  <2> SUFFICES ASSUME Last(f) < First(g) PROVE FALSE
    BY <1>1, <1>2, <1>3, <1>4, <1>6
  <2>1. Last(f) \in EndsAfter(p)
    BY <1>1, <1>2, <1>3, <1>4, <1>5 DEF EndsAfter
  <2>2. q <= Last(f)
    BY <2>1 DEF Least
  <2> QED
    BY <1>2, <1>4, <1>5, <2>2
<1>8. f = <<First(f), Last(f)>>
  BY <1>4 DEF First, Last
<1> QED
  BY <1>1, <1>2, <1>3, <1>4, <1>7, <1>8

\* A turn of the split loop keeps the invariant.
LEMMA SplitIInv ==
  ASSUME IInv, NoStart \/ NoEnd \/ CutFrame
  PROVE  IInv'
<1>0. /\ read \in Nat /\ from \in Nat /\ from <= read /\ pc = "split"
      /\ read \in cuts /\ UNCHANGED <<frames, written, running, lock, read, cuts>>
  BY DEF IInv, TypeOK, ReadingOK, NoStart, NoEnd, CutFrame, Resume, stream
<1>a. \A f \in frames : First(f) \in Nat /\ Last(f) \in Nat /\ First(f) + 3 <= Last(f)
  BY DEF IInv, TypeOK, FramesOK, First, Last
<1>1. CASE NoStart \/ NoEnd
  <2>1. /\ UNCHANGED <<found, popped>>
        /\ pc' = IF Queued THEN "pop" ELSE "read"
    BY <1>1 DEF NoStart, NoEnd, Resume
  <2>2. /\ from' \in Nat /\ from <= from' /\ from' <= read
        /\ \A f \in frames : from < First(f) /\ First(f) <= from' => First(f) = read
        /\ \A f \in frames : from' < First(f) => read < Last(f)
    <3>1. CASE NoStart
      BY <3>1, <1>0, <1>a DEF NoStart, Starts
    <3>2. CASE NoEnd
      <4>1. PICK p \in Least(Starts) : EndsAfter(p) = {} /\ from' = p - 1
        BY <3>2 DEF NoEnd
      <4>2. p \in Nat /\ from < p /\ p < read
        BY <4>1, <1>a DEF Least, Starts
      <4>3. \A f \in frames : from < First(f) /\ First(f) < read => p <= First(f)
        BY <4>1 DEF Least, Starts
      <4>4. \A f \in frames : p + 2 < Last(f) => read < Last(f)
        BY <4>1, <4>2, <1>0, <1>a DEF EndsAfter
      <4> QED
        BY <4>1, <4>2, <4>3, <4>4, <1>0, <1>a
    <3> QED
      BY <1>1, <3>1, <3>2
  <2>3. TypeOK'
    BY <1>0, <2>1, <2>2 DEF IInv, TypeOK
  <2>4. FramesOK' /\ ReadingOK' /\ ClosedOK' /\ DrainedOK' /\ NothingWaits'
    BY <1>0, <2>1, <2>2
    DEF IInv, TypeOK, FramesOK, ReadingOK, ClosedOK, DrainedOK, NothingWaits, Queued
  <2>5. WholeFrames'
    <3>1. \A i \in DOMAIN found : Last(found[i]) \in Nat
      BY <1>a DEF IInv, WholeFrames
    <3> QED
      BY <1>0, <2>1, <2>2, <3>1 DEF IInv, WholeFrames
  <2>6. OnlySplitMarkersLost'
    BY <1>0, <1>a, <2>1, <2>2 DEF IInv, OnlySplitMarkersLost
  <2> QED
    BY <2>3, <2>4, <2>5, <2>6 DEF IInv
<1>2. CASE CutFrame
  <2>1. PICK p \in Least(Starts) :
          \E q \in Least(EndsAfter(p)) : found' = Append(found, <<p, q>>) /\ from' = q
    BY <1>2 DEF CutFrame
  <2>2. PICK q \in Least(EndsAfter(p)) : found' = Append(found, <<p, q>>) /\ from' = q
    BY <2>1
  <2>3. UNCHANGED <<pc, popped>>
    BY <1>2 DEF CutFrame
  <2> DEFINE new == <<p, q>>
  <2>4. /\ new \in frames /\ First(new) = p /\ Last(new) = q
        /\ from < p /\ p < q /\ q <= read
    BY SliceIsFrame DEF First, Last
  <2>5. p \in Nat /\ q \in Nat /\ new \in Nat \X Nat
    BY <2>4, <1>a DEF IInv, TypeOK
  <2>6. \A f \in frames : from < First(f) /\ First(f) < read => p <= First(f)
    BY DEF Least, Starts
  <2>7. /\ found \in Seq(Nat \X Nat) /\ Len(found') = Len(found) + 1
        /\ DOMAIN found' = 1..(Len(found) + 1) /\ Len(found) \in Nat
        /\ found'[Len(found) + 1] = new
        /\ \A i \in DOMAIN found : i # Len(found) + 1 /\ found'[i] = found[i]
        /\ \A i \in DOMAIN found' : i = Len(found) + 1 \/ i \in DOMAIN found
        /\ \A i \in DOMAIN found : i \in DOMAIN found' /\ i < Len(found) + 1
    BY <2>2, <2>5 DEF IInv, TypeOK
  <2> HIDE DEF new
  <2>8. TypeOK'
    BY <1>0, <2>2, <2>3, <2>4, <2>5, <2>7 DEF IInv, TypeOK, new
  <2>9. FramesOK' /\ ReadingOK' /\ ClosedOK' /\ DrainedOK' /\ NothingWaits'
    BY <1>0, <2>3, <2>7
    DEF IInv, FramesOK, ReadingOK, ClosedOK, DrainedOK, NothingWaits, TypeOK, Queued
  <2>10. WholeFrames'
    <3>1. \A i \in DOMAIN found : found[i] \in frames /\ Last(found[i]) <= from
                                  /\ Last(found[i]) \in Nat
      BY <1>a DEF IInv, WholeFrames
    <3>2. \A i \in DOMAIN found' : found'[i] \in frames' /\ Last(found'[i]) <= from'
      <4> SUFFICES ASSUME NEW i \in DOMAIN found'
                   PROVE  found'[i] \in frames /\ Last(found'[i]) <= q
        BY <1>0, <2>2
      <4>1. CASE i \in DOMAIN found
        BY <4>1, <1>0, <2>4, <2>5, <2>7, <3>1
      <4>2. CASE i = Len(found) + 1
        BY <4>2, <2>4, <2>5, <2>7
      <4> QED
        BY <4>1, <4>2, <2>7
    <3>3. \A i, j \in DOMAIN found : i < j => Last(found[i]) < First(found[j])
      BY DEF IInv, WholeFrames
    <3>4. \A i, j \in DOMAIN found' : i < j => Last(found'[i]) < First(found'[j])
      <4> SUFFICES ASSUME NEW i \in DOMAIN found', NEW j \in DOMAIN found', i < j
                   PROVE  Last(found'[i]) < First(found'[j])
        OBVIOUS
      <4>1. i \in DOMAIN found /\ i \in Nat /\ j \in Nat
        BY <2>7
      <4>2. CASE j \in DOMAIN found
        BY <4>1, <4>2, <2>7, <3>3
      <4>3. CASE j = Len(found) + 1
        BY <4>1, <4>3, <1>0, <2>4, <2>5, <2>7, <3>1
      <4> QED
        BY <4>2, <4>3, <2>7
    <3> QED
      BY <3>2, <3>4 DEF WholeFrames
  <2>11. OnlySplitMarkersLost'
    <3> SUFFICES ASSUME NEW f \in frames, First(f) <= q
                 PROVE  First(f) \in cuts \/ \E i \in DOMAIN found' : found'[i] = f
      BY <1>0, <2>2 DEF OnlySplitMarkersLost
    <3>1. CASE First(f) <= from
      <4>1. First(f) \in cuts \/ \E i \in DOMAIN found : found[i] = f
        BY <3>1 DEF IInv, OnlySplitMarkersLost
      <4> QED
        BY <4>1, <2>7
    <3>2. CASE from < First(f)
      <4>1. f = new \/ Last(f) < p \/ q < First(f)
        BY <2>4 DEF IInv, FramesOK
      <4>2. f = new
        BY <3>2, <4>1, <1>0, <1>a, <2>4, <2>5, <2>6
      <4> QED
        BY <4>2, <2>7
    <3> QED
      BY <3>1, <3>2, <1>0, <1>a
  <2> QED
    BY <2>8, <2>9, <2>10, <2>11 DEF IInv
<1> QED
  BY <1>1, <1>2

\* The other steps neither cut nor drop anything of the stream.
LEMMA OtherIInv ==
  ASSUME IInv,
         \/ EndOfProcess \/ Acquire \/ Launch \/ LaunchFails \/ LaunchRaises
         \/ Drop \/ Close \/ Call \/ ReadChunk \/ Eof \/ Pop \/ UNCHANGED vars
  PROVE  IInv'
<1>0. FlagsOK /\ NumbersOK /\ (FlagsOK' /\ NumbersOK' => TypeOK')
  BY TypeParts, TypePartsNext DEF IInv
<1> USE DEF IInv, FramesOK, ReadingOK, ClosedOK, DrainedOK, Queued,
            WholeFrames, OnlySplitMarkersLost, NothingWaits, stream
<1>1. CASE EndOfProcess
  <2>1. running' = FALSE /\ written' \in read..written
    BY <1>1 DEF EndOfProcess
  <2>2. UNCHANGED <<frames, lock, pc, read, from, found, popped, cuts>>
    BY <1>1 DEF EndOfProcess
  <2>3. FlagsOK'
    BY <1>0, <2>1, <2>2 DEF FlagsOK
  <2>4. NumbersOK'
    BY <1>0, <2>1, <2>2 DEF NumbersOK
  <2>5. pc \notin {"closed", "launch", "raised"} /\ written' \in Nat /\ read <= written'
    BY <1>0, <1>1, <2>1 DEF EndOfProcess, NumbersOK
  <2>6. FramesOK' /\ ReadingOK' /\ ClosedOK' /\ DrainedOK'
    BY <2>1, <2>2, <2>5
  <2> QED
    BY <1>0, <2>2, <2>3, <2>4, <2>6
<1>2. CASE Acquire \/ Launch \/ LaunchFails \/ LaunchRaises \/ Drop
  <2>1. /\ pc \in {"closed", "launch", "raised"} /\ FlagsOK'
        /\ pc' \in {"closed", "launch", "ready", "raised"}
        /\ lock' <=> pc' # "closed"
        /\ pc' \in {"closed", "launch", "raised"} => ~running'
    <3>1. CASE Acquire
      BY <1>0, <3>1 DEF Acquire, FlagsOK, stream
    <3>2. CASE Launch
      BY <1>0, <3>2 DEF Launch, FlagsOK
    <3>3. CASE LaunchFails
      BY <1>0, <3>3 DEF LaunchFails, FlagsOK, stream
    <3>5. CASE Drop
      <4>1. pc = "raised" /\ pc' = "closed" /\ lock' = FALSE /\ UNCHANGED running
        BY <3>5 DEF Drop, stream
      <4> QED
        BY <1>0, <4>1 DEF FlagsOK
    <3>4. CASE LaunchRaises
      <4>1. UNCHANGED <<running, lock>> /\ pc = "launch" /\ pc' = "raised"
        BY <3>4 DEF LaunchRaises, stream
      <4>2. lock /\ ~running
        BY <4>1
      <4> QED
        BY <1>0, <4>1, <4>2 DEF FlagsOK
    <3> QED
      BY <1>2, <3>1, <3>2, <3>3, <3>4, <3>5
  <2>2. UNCHANGED <<frames, written, read, from, found, popped, cuts>>
    BY <1>2 DEF Acquire, Launch, LaunchFails, LaunchRaises, Drop, stream
  <2>3. frames = {} /\ found = << >> /\ popped = 0 /\ Len(found) = 0
    BY <2>1
  <2>4. NumbersOK'
    BY <1>0, <2>1, <2>2 DEF NumbersOK
  <2>5. FramesOK' /\ ReadingOK' /\ ClosedOK' /\ DrainedOK'
    BY <2>1, <2>2, <2>3
  <2>6. WholeFrames' /\ OnlySplitMarkersLost' /\ NothingWaits'
    BY <2>1, <2>2, <2>3
  <2> QED
    BY <1>0, <2>1, <2>4, <2>5, <2>6
<1>3. CASE Close
  <2>1. /\ frames' = {} /\ written' = 0 /\ read' = 0 /\ from' = 0 /\ cuts' = {}
        /\ found' = << >> /\ popped' = 0 /\ pc' = "closed"
        /\ running' = FALSE /\ lock' = FALSE
    BY <1>3 DEF Close
  <2>2. FlagsOK'
    BY <2>1 DEF FlagsOK
  <2>3. NumbersOK'
    BY <2>1 DEF NumbersOK
  <2>4. FramesOK' /\ ReadingOK' /\ ClosedOK' /\ DrainedOK'
    BY <2>1
  <2>5. WholeFrames' /\ OnlySplitMarkersLost' /\ NothingWaits'
    BY <2>1
  <2> QED
    BY <1>0, <2>2, <2>3, <2>4, <2>5
<1>4. CASE Call \/ Eof \/ UNCHANGED vars
  <2>1. UNCHANGED <<frames, written, running, lock, read, from, found, popped, cuts>>
    BY <1>4 DEF Call, Eof, vars
  <2>2. \/ pc = "ready" /\ pc' = IF Queued THEN "pop" ELSE "read"
        \/ pc = "read" /\ pc' = "failed"
        \/ pc' = pc
    BY <1>4 DEF Call, Eof, vars
  <2>3. FlagsOK' /\ NumbersOK'
    BY <1>0, <2>1, <2>2 DEF FlagsOK, NumbersOK
  <2>4. FramesOK' /\ DrainedOK' /\ WholeFrames' /\ OnlySplitMarkersLost'
    BY <2>1, <2>2
  <2>5. ReadingOK' /\ ClosedOK' /\ NothingWaits'
    BY <1>0, <2>1, <2>2 DEF NumbersOK
  <2> QED
    BY <1>0, <2>3, <2>4, <2>5
<1>5. CASE ReadChunk
  <2>1. /\ read' \in Nat /\ read <= read' /\ read' <= written
        /\ cuts' = cuts \cup {read'} /\ pc = "read" /\ pc' = "split"
        /\ UNCHANGED <<frames, written, running, lock, from, found, popped>>
    BY <1>0, <1>5, StreamAssumption DEF ReadChunk, NumbersOK
  <2>2. FlagsOK' /\ NumbersOK'
    BY <1>0, <2>1 DEF FlagsOK, NumbersOK
  <2> QED
    BY <1>0, <2>1, <2>2
<1>6. CASE Pop
  <2>1. /\ popped' = popped + 1 /\ popped' <= Len(found) /\ pc' \in {"ready", "failed"}
        /\ UNCHANGED <<frames, written, running, lock, read, from, found, cuts>>
    BY <1>0, <1>6 DEF Pop, NumbersOK
  <2>2. FlagsOK' /\ NumbersOK'
    BY <1>0, <2>1 DEF FlagsOK, NumbersOK
  <2> QED
    BY <1>0, <1>6, <2>1, <2>2 DEF Pop, NumbersOK
<1> QED
  BY <1>1, <1>2, <1>3, <1>4, <1>5, <1>6

\* The invariant holds in every reachable state.
LEMMA Inductive == Spec => []IInv
<1>1. IInv /\ [Next]_vars => IInv'
  <2> SUFFICES ASSUME IInv, [Next]_vars PROVE IInv'
    OBVIOUS
  <2> QED
    BY CaptureIInv, SplitIInv, OtherIInv DEF Next, ReadFrame
<1> QED
  BY InitIInv, <1>1, PTL DEF Spec

-----------------------------------------------------------------------------
\* The state keeps its shape.
THEOREM TypeCorrect == Spec => []TypeOK
<1>1. IInv => TypeOK
  BY DEF IInv
<1> QED
  BY <1>1, Inductive, PTL

\* For any chunk size: what read_frame decodes is the camera's frames, in order.
THEOREM FramesAreWhole == Spec => []WholeFrames
<1>1. IInv => WholeFrames
  BY DEF IInv
<1> QED
  BY <1>1, Inductive, PTL

\* For any chunk size: only frames whose start marker is split are lost.
THEOREM LossesAreAtCuts == Spec => []OnlySplitMarkersLost
<1>1. IInv => OnlySplitMarkersLost
  BY DEF IInv
<1> QED
  BY <1>1, Inductive, PTL

\* The pipe is read only when no whole frame is at hand.
THEOREM NoFrameWaits == Spec => []NothingWaits
<1>1. IInv => NothingWaits
  BY DEF IInv
<1> QED
  BY <1>1, Inductive, PTL

\* Closed means closed: neither the lock nor the process is kept; and the error
\* that open lets through has no process behind it.
THEOREM ClosedIsFree == Spec => []ClosedHoldsNothing
<1>1. IInv => ClosedHoldsNothing
  BY DEF IInv, ClosedOK, ClosedHoldsNothing
<1> QED
  BY <1>1, Inductive, PTL

-----------------------------------------------------------------------------
\* read_frame comes to an end when the process has: every turn is nearer to it,
\* and there is always one to make.

\* A number of turns is left: a variant as it should be.
LEMMA StepsLeftInNat == IInv => StepsLeft \in Nat
<1> SUFFICES ASSUME IInv PROVE StepsLeft \in Nat
  OBVIOUS
<1>1. /\ written \in Nat /\ read \in Nat /\ from \in Nat
      /\ from <= read /\ read <= written
  BY TypeParts DEF IInv, NumbersOK, ReadingOK
<1> QED
  BY <1>1 DEF StepsLeft

\* Each turn of either loop leaves fewer.
LEMMA TurnCounts ==
  ASSUME IInv, ReadFrame
  PROVE  StepsLeft' < StepsLeft
<1>1. /\ written \in Nat /\ read \in Nat /\ from \in Nat
      /\ from <= read /\ read <= written /\ Chunk \in Nat \ {0}
  BY TypeParts, StreamAssumption DEF IInv, NumbersOK, ReadingOK
<1>2. CASE ReadChunk
  <2>1. /\ pc = "read" /\ pc' = "split" /\ written' = written /\ from' = from
        /\ read' \in Nat /\ read < read' /\ read' <= written
    BY <1>1, <1>2 DEF ReadChunk, stream
  <2> QED
    BY <1>1, <2>1 DEF StepsLeft
<1>3. CASE Eof
  BY <1>1, <1>3 DEF Eof, stream, StepsLeft
<1>4. CASE Pop
  <2>1. /\ pc = "pop" /\ pc' \in {"ready", "failed"}
        /\ UNCHANGED <<written, read, from>>
    BY <1>4 DEF Pop, stream
  <2> QED
    BY <1>1, <2>1 DEF StepsLeft
<1>5. CASE NoStart \/ NoEnd
  <2>1. pc = "split" /\ pc' \in {"read", "pop"} /\ UNCHANGED <<written, read>>
    BY <1>5 DEF NoStart, NoEnd, Resume, stream
  <2>2. from' \in Nat /\ from <= from' /\ from' <= read
    <3>1. CASE NoStart
      BY <1>1, <3>1 DEF NoStart
    <3>2. CASE NoEnd
      <4>1. PICK p \in Least(Starts) : from' = p - 1
        BY <3>2 DEF NoEnd
      <4>2. p \in Nat /\ from < p /\ p < read
        BY <4>1 DEF Least, Starts, IInv, TypeOK, First
      <4> QED
        BY <1>1, <4>1, <4>2
    <3> QED
      BY <1>5, <3>1, <3>2
  <2> QED
    BY <1>1, <2>1, <2>2 DEF StepsLeft
<1>6. CASE CutFrame
  <2>1. pc = "split" /\ UNCHANGED <<pc, written, read>>
    BY <1>6 DEF CutFrame, stream
  <2>2. PICK p \in Least(Starts) : \E q \in Least(EndsAfter(p)) : from' = q
    BY <1>6 DEF CutFrame
  <2>3. PICK q \in Least(EndsAfter(p)) : from' = q
    BY <2>2
  <2>4. from < p /\ p < q /\ q <= read
    BY SliceIsFrame
  <2>5. p \in Nat /\ q \in Nat
    BY DEF Least, Starts, EndsAfter, IInv, TypeOK, First, Last
  <2> QED
    BY <1>1, <2>1, <2>3, <2>4, <2>5 DEF StepsLeft
<1> QED
  BY <1>2, <1>3, <1>4, <1>5, <1>6 DEF ReadFrame

\* For any chunk size and frame lengths: every turn leaves fewer to
\* make, and what is left is a number of turns.
THEOREM TurnsComeToAnEnd == Spec => EveryTurnCounts /\ [](StepsLeft \in Nat)
<1>1. IInv /\ [Next]_vars =>
        [~running /\ pc \in {"read", "split", "pop"} => StepsLeft' < StepsLeft]_vars
  <2> SUFFICES ASSUME IInv, Next, ~running, pc \in {"read", "split", "pop"}
               PROVE  StepsLeft' < StepsLeft
    BY Zenon
  <2>1. ReadFrame
    BY DEF Next, Capture, EndOfProcess, Acquire, Launch, LaunchFails, LaunchRaises,
       Drop, Close, Call
  <2> QED
    BY <2>1, TurnCounts
<1> QED
  BY <1>1, StepsLeftInNat, Inductive, PTL DEF Spec, EveryTurnCounts

\* What a turn asks for, without what it does.
TurnAtHand ==
  \/ pc = "read" /\ (written >= read + Chunk \/ ~running)
  \/ pc = "pop" /\ Queued
  \/ pc = "split" /\ Starts = {}
  \/ pc = "split" /\ \E p \in Least(Starts) : EndsAfter(p) = {}
  \/ pc = "split" /\ \E p \in Least(Starts) : Least(EndsAfter(p)) # {}

\* find returns the first of the markers there are.
LEMMA FirstOne ==
  ASSUME NEW S \in SUBSET Nat, S # {}
  PROVE  Least(S) # {}
<1> DEFINE below == OpToRel(<, Nat)
<1>1. IsWellFoundedOn(below, Nat)
  BY NatLessThanWellFounded
<1>2. \A x, y \in Nat : y < x => <<y, x>> \in below
  BY DEF OpToRel
<1> HIDE DEF below
<1>3. \E x \in S : \A y \in S : ~ (<<y, x>> \in below)
  BY <1>1, WFMin
<1>4. PICK x \in S : \A y \in S : ~ (<<y, x>> \in below)
  BY <1>3
<1>5. x \in Nat /\ \A y \in S : y \in Nat /\ ~ (y < x)
  BY <1>2, <1>4
<1> QED
  BY <1>5 DEF Least

\* With the process gone there is always a turn to make: the split loop's three
\* cases leave none out, and the pipe is not waited for.
THEOREM NeverAtALoss ==
  Spec => [](~running /\ pc \in {"read", "split", "pop"} => TurnAtHand)
<1>1. IInv => (~running /\ pc \in {"read", "split", "pop"} => TurnAtHand)
  <2> SUFFICES ASSUME IInv, ~running, pc \in {"read", "split", "pop"}
               PROVE  TurnAtHand
    OBVIOUS
  <2>1. CASE pc = "read"
    BY <2>1 DEF TurnAtHand
  <2>2. CASE pc = "pop"
    BY <2>2 DEF TurnAtHand, IInv, ReadingOK
  <2>3. CASE pc = "split" /\ Starts # {}
    <3>1. Starts \in SUBSET Nat
      BY DEF Starts, IInv, TypeOK, First
    <3>2. PICK p : p \in Least(Starts)
      BY <2>3, <3>1, FirstOne
    <3>3. EndsAfter(p) \in SUBSET Nat
      BY DEF EndsAfter, IInv, TypeOK, Last
    <3>4. EndsAfter(p) = {} \/ Least(EndsAfter(p)) # {}
      BY <3>3, FirstOne
    <3> QED
      BY <2>3, <3>2, <3>4 DEF TurnAtHand
  <2> QED
    BY <2>1, <2>2, <2>3 DEF TurnAtHand
<1> QED
  BY <1>1, Inductive, PTL
=============================================================================
