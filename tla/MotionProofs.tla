---------------------------- MODULE MotionProofs ----------------------------
(***************************************************************************)
(* Theorems about MotionEpisodes.tla for any lengths of episode, pre-roll  *)
(* and clip, and any number of frames: one event per episode, no episode   *)
(* the detector saw unreported, and the event's frame in its clip.         *)
(***************************************************************************)
EXTENDS MotionEpisodes, FiniteSetTheorems, SequenceTheorems, TLAPS

\* What the detector's counters say: everything lies in the frames taken, and
\* a recording is under way exactly while is_recording_active.
BoundOK == /\ consecutive <= Taken /\ event <= Taken
           /\ \A f \in seen : f <= Taken
           /\ active <=> phase = "record"

\* The frames of fs after f; and f as the last still one of them, or 0 where
\* there is none.
Since(fs, f) == {g \in fs : g > f}
LastStill(fs, m, f) == /\ f \in fs \cup {0} /\ (f # 0 => ~m[f])
                       /\ \A g \in Since(fs, f) : m[g]

\* The counter counts the frames since, and a decision has its event there.
RunOK ==
  /\ \E f \in seen \cup {0} : LastStill(seen, moving, f)
  /\ \A f \in seen \cup {0} : LastStill(seen, moving, f) =>
       /\ consecutive = Cardinality(Since(seen, f))
       /\ decided => event > f
  /\ consecutive >= MinFrames => decided

\* Without a decision there was a still frame since the last event.
EpisodeOK ==
  event # 0 /\ ~decided => \E f \in SeenAfter(event) : ~moving[f]

\* The clip ends with the frames from the event's on.
ClipOK ==
  phase = "record" =>
    /\ event > 0 /\ Len(clip) > Taken - event
    /\ \A f \in event..Taken : clip[Len(clip) - (Taken - f)] = f

IInv == TypeOK /\ BoundOK /\ RunOK /\ EpisodeOK /\ ClipOK

-----------------------------------------------------------------------------
\* The newest elements of a sequence are a sequence of at most so many, and
\* end with its last.
LEMMA NewestFacts ==
  ASSUME NEW S, NEW s \in Seq(S), NEW n \in Nat, n > 0, Len(s) > 0
  PROVE  /\ Newest(s, n) \in Seq(S)
         /\ Len(Newest(s, n)) \in 1..n
         /\ Newest(s, n)[Len(Newest(s, n))] = s[Len(s)]
<1> DEFINE first == IF Len(s) > n THEN Len(s) - n + 1 ELSE 1
<1>1. Len(s) \in Nat /\ first \in 1..Len(s)
  OBVIOUS
<1>2. \A i \in first..Len(s) : s[i] \in S
  BY <1>1
<1>3. Newest(s, n) = SubSeq(s, first, Len(s))
  BY DEF Newest
<1> HIDE DEF first
<1>4. /\ Newest(s, n) \in Seq(S)
      /\ Len(Newest(s, n)) = Len(s) - first + 1
      /\ \A i \in 1..(Len(s) - first + 1) : Newest(s, n)[i] = s[first + i - 1]
  BY <1>1, <1>2, <1>3, SubSeqProperties
<1>5. Len(s) - first + 1 \in 1..n
  BY <1>1 DEF first
<1> QED
  BY <1>1, <1>4, <1>5

\* The assumptions, as the steps read them.
LEMMA Numbers == /\ MinFrames \in Nat /\ PreLen \in Nat /\ ClipLen \in Nat
                 /\ MinFrames > 0 /\ PreLen > 0 /\ ClipLen > 0
                 /\ MaxFrames \in Nat
BY EpisodesAssumption

\* The pre-roll with the frame just read.
Buffer == Newest(Append(preRoll, Taken + 1), PreLen)

\* The deque keeps its bound, and the clip taken from it its own; the clip
\* ends with the frame just read.
LEMMA BufferFacts ==
  ASSUME TypeOK, Taken < MaxFrames
  PROVE  /\ Taken + 1 \in Frame
         /\ Buffer \in Seq(Frame) /\ Len(Buffer) <= PreLen
         /\ Truncated(Buffer) \in Seq(Frame)
         /\ Len(Truncated(Buffer)) \in 1..ClipLen
         /\ Truncated(Buffer)[Len(Truncated(Buffer))] = Taken + 1
<1> DEFINE s == Append(preRoll, Taken + 1)
<1>1. Taken + 1 \in Frame
  BY Numbers DEF TypeOK, Taken, Frame
<1>2. s \in Seq(Frame) /\ Len(s) > 0 /\ s[Len(s)] = Taken + 1
  <2>1. preRoll \in Seq(Frame) /\ Len(preRoll) \in Nat
    BY DEF TypeOK
  <2> QED
    BY <1>1, <2>1, AppendProperties
<1> HIDE DEF s
<1>3. /\ Buffer \in Seq(Frame) /\ Len(Buffer) \in 1..PreLen
      /\ Buffer[Len(Buffer)] = Taken + 1
  BY <1>2, NewestFacts, Numbers DEF Buffer, s
<1>4. /\ Truncated(Buffer) \in Seq(Frame)
      /\ Len(Truncated(Buffer)) \in 1..ClipLen
      /\ Truncated(Buffer)[Len(Truncated(Buffer))] = Taken + 1
  BY <1>3, NewestFacts, Numbers DEF Truncated
<1> QED
  BY <1>1, <1>3, <1>4

\* The history grows at its end.
LEMMA History ==
  ASSUME TypeOK, NEW m \in BOOLEAN, moving' = Append(moving, m)
  PROVE  /\ moving' \in Seq(BOOLEAN) /\ Taken \in Nat /\ Taken' = Taken + 1
         /\ \A f \in 1..Taken : moving'[f] = moving[f]
         /\ moving'[Taken + 1] = m
<1>1. moving \in Seq(BOOLEAN) /\ Len(moving) \in Nat
  BY DEF TypeOK
<1> QED
  BY <1>1, AppendProperties DEF Taken

-----------------------------------------------------------------------------
\* The invariant holds at the start.
LEMMA InitIInv == Init => IInv
<1> SUFFICES ASSUME Init PROVE IInv
  OBVIOUS
<1>1. Taken = 0 /\ moving \in Seq(BOOLEAN)
  BY DEF Init, Taken
<1>2. TypeOK
  <2>1. preRoll \in Seq(Frame) /\ clip \in Seq(Frame)
    BY DEF Init
  <2>2. Len(preRoll) <= PreLen /\ Len(clip) <= ClipLen
    BY Numbers DEF Init
  <2>3. consecutive \in 0..MaxFrames /\ event \in 0..MaxFrames
    BY Numbers DEF Init
  <2>4. /\ phase \in {"watch", "record", "away"}
        /\ decided \in BOOLEAN /\ active \in BOOLEAN /\ seen \subseteq Frame
    BY DEF Init
  <2>5. Taken <= MaxFrames
    BY <1>1, Numbers
  <2> QED
    BY <1>1, <2>1, <2>2, <2>3, <2>4, <2>5 DEF TypeOK
<1>3. RunOK
  <2>1. Since(seen, 0) = {}
    BY DEF Init, Since
  <2>2. LastStill(seen, moving, 0) /\ Cardinality(Since(seen, 0)) = 0
    BY <2>1, FS_EmptySet DEF Init, LastStill
  <2> QED
    BY <2>2, Numbers DEF Init, RunOK
<1> QED
  BY <1>1, <1>2, <1>3 DEF Init, IInv, BoundOK, EpisodeOK, ClipOK

\* A frame analysed keeps the invariant.
LEMMA AnalyseIInv ==
  ASSUME IInv, NEW m \in BOOLEAN, NEW r \in BOOLEAN, AnalyseFrame(m, r)
  PROVE  IInv'
<1> DEFINE frame == Taken + 1
<1> USE DEF IInv
<1>1. /\ moving' \in Seq(BOOLEAN) /\ Taken \in Nat /\ Taken' = frame
      /\ \A f \in 1..Taken : moving'[f] = moving[f]
      /\ moving'[frame] = m
  BY History DEF AnalyseFrame
<1>2. /\ Taken < MaxFrames /\ phase = "watch" /\ ~active
      /\ consecutive' = Count(m) /\ decided' = Decided(m)
      /\ event' = (IF Fires(m) THEN frame ELSE event)
      /\ seen' = seen \cup {frame} /\ preRoll' = Buffer
  BY DEF AnalyseFrame, BoundOK, Buffer
<1>3. \/ UNCHANGED <<phase, active, clip>>
      \/ /\ Fires(m) /\ phase' = "record" /\ active' = TRUE
         /\ clip' = Truncated(Buffer)
  BY DEF AnalyseFrame, Buffer
<1>4. /\ seen \subseteq 1..Taken /\ frame \in Frame /\ frame \notin seen
      /\ event \in 0..Taken /\ consecutive \in 0..Taken
  BY <1>1, <1>2, BufferFacts DEF TypeOK, BoundOK, Frame
<1>5. TypeOK'
  <2>1. consecutive' \in 0..MaxFrames /\ decided' \in BOOLEAN
    BY <1>1, <1>2, <1>4, Numbers DEF Count, Decided, Fires, TypeOK
  <2>2. event' \in 0..MaxFrames /\ seen' \subseteq Frame
    BY <1>1, <1>2, <1>4, Numbers DEF TypeOK, Frame
  <2>3. preRoll' \in Seq(Frame) /\ Len(preRoll') <= PreLen
    BY <1>2, BufferFacts
  <2>4. clip' \in Seq(Frame) /\ Len(clip') <= ClipLen
    BY <1>2, <1>3, BufferFacts DEF TypeOK
  <2>5. phase' \in {"watch", "record", "away"} /\ active' \in BOOLEAN
    BY <1>3 DEF TypeOK
  <2> QED
    BY <1>1, <1>2, <2>1, <2>2, <2>3, <2>4, <2>5, Numbers DEF TypeOK
<1>6. BoundOK'
  <2>1. consecutive' <= frame /\ event' <= frame
    BY <1>1, <1>2, <1>4 DEF Count
  <2>2. \A f \in seen' : f <= frame
    BY <1>1, <1>2, <1>4
  <2>3. active' <=> phase' = "record"
    BY <1>2, <1>3
  <2> QED
    BY <1>1, <2>1, <2>2, <2>3 DEF BoundOK
<1>7. EpisodeOK'
  <2> SUFFICES ASSUME event' # 0, ~decided'
               PROVE  \E f \in seen' : f > event' /\ ~moving'[f]
    BY DEF EpisodeOK, SeenAfter
  <2>1. ~Fires(m) /\ event' = event
    BY <1>2 DEF Decided, Fires
  <2>2. CASE m
    <3>1. ~decided
      BY <1>2, <2>2 DEF Decided
    <3>2. PICK f \in seen : f > event /\ ~moving[f]
      BY <2>1, <3>1 DEF EpisodeOK, SeenAfter
    <3> QED
      BY <1>1, <1>2, <1>4, <2>1, <3>2
  <2>3. CASE ~m
    BY <1>1, <1>2, <1>4, <2>1, <2>3
  <2> QED
    BY <2>2, <2>3
<1>8. ClipOK'
  <2> SUFFICES ASSUME phase' = "record" PROVE ClipOK'
    BY DEF ClipOK
  <2>1. clip' = Truncated(Buffer) /\ event' = frame
    BY <1>2, <1>3
  <2>2. Len(clip') \in Nat /\ Len(clip') > 0 /\ clip'[Len(clip')] = frame
    BY <1>2, <2>1, BufferFacts
  <2> QED
    BY <1>1, <2>1, <2>2 DEF ClipOK
<1>9. RunOK'
  <2>1. CASE m
    <3>1. \A f \in seen \cup {0} :
            LastStill(seen', moving', f) <=> LastStill(seen, moving, f)
      BY <1>1, <1>2, <1>4, <2>1 DEF LastStill, Since
    <3>2. ~LastStill(seen', moving', frame)
      BY <1>1, <2>1 DEF LastStill
    <3>3. \A f \in seen \cup {0} :
            Since(seen', f) = Since(seen, f) \cup {frame}
      BY <1>1, <1>2, <1>4 DEF Since
    <3>4. \A f \in seen \cup {0} :
            /\ IsFiniteSet(Since(seen, f)) /\ frame \notin Since(seen, f)
      <4>1. IsFiniteSet(1..Taken)
        BY <1>1, FS_Interval
      <4> QED
        BY <1>4, <4>1, FS_Subset DEF Since
    <3>5. ASSUME NEW f \in seen \cup {0}, LastStill(seen, moving, f)
          PROVE  /\ consecutive' = Cardinality(Since(seen', f))
                 /\ decided' => event' > f
      <4>1. Cardinality(Since(seen', f)) = Cardinality(Since(seen, f)) + 1
        BY <3>3, <3>4, FS_AddElement
      <4>2. consecutive' = consecutive + 1
        BY <1>2, <2>1 DEF Count
      <4>3. f < frame
        BY <1>1, <1>4
      <4> QED
        BY <1>2, <3>5, <4>1, <4>2, <4>3 DEF RunOK, Decided, Fires
    <3>6. consecutive' >= MinFrames => decided'
      BY <1>2, <2>1 DEF Decided, Fires
    <3> QED
      BY <1>2, <3>1, <3>2, <3>5, <3>6 DEF RunOK
  <2>2. CASE ~m
    <3>1. Since(seen', frame) = {}
      <4>1. \A g \in seen' : g <= frame
        BY <1>1, <1>2, <1>4
      <4>2. \A g \in seen' : g \in Nat
        BY <1>1, <1>2, <1>4
      <4> QED
        BY <1>1, <4>1, <4>2 DEF Since
    <3>2. LastStill(seen', moving', frame)
      BY <1>1, <1>2, <2>2, <3>1 DEF LastStill
    <3>3. \A f \in seen \cup {0} : ~LastStill(seen', moving', f)
      BY <1>1, <1>2, <1>4, <2>2 DEF LastStill, Since
    <3>4. consecutive' = 0 /\ decided' = FALSE
      BY <1>2, <2>2 DEF Count, Decided
    <3>5. Cardinality(Since(seen', frame)) = 0
      BY <3>1, FS_EmptySet
    <3> QED
      BY <1>2, <3>2, <3>3, <3>4, <3>5, Numbers DEF RunOK
  <2> QED
    BY <2>1, <2>2
<1> QED
  BY <1>5, <1>6, <1>7, <1>8, <1>9

\* A frame the detector does not see keeps what it knows.
LEMMA UnseenIInv ==
  ASSUME IInv, NEW m \in BOOLEAN, moving' = Append(moving, m),
         UNCHANGED <<detector, event, seen>>
  PROVE  RunOK' /\ EpisodeOK'
<1> USE DEF IInv
<1>1. /\ \A f \in 1..Taken : moving'[f] = moving[f]
      /\ Taken \in Nat
  BY History
<1>2. seen \subseteq 1..Taken
  BY <1>1, Numbers DEF BoundOK, TypeOK, Frame
<1>3. RunOK'
  <2>1. \A f \in seen \cup {0} :
          LastStill(seen', moving', f) <=> LastStill(seen, moving, f)
    BY <1>1, <1>2 DEF LastStill, Since
  <2> QED
    BY <2>1 DEF RunOK, detector
<1>4. EpisodeOK'
  BY <1>1, <1>2 DEF EpisodeOK, SeenAfter, detector
<1> QED
  BY <1>3, <1>4

\* A frame of the recorder's own keeps the invariant.
LEMMA RecordIInv ==
  ASSUME IInv, NEW m \in BOOLEAN, RecordFrame(m)
  PROVE  IInv'
<1> DEFINE frame == Taken + 1
<1> USE DEF IInv
<1>1. /\ moving' \in Seq(BOOLEAN) /\ Taken \in Nat /\ Taken' = frame
      /\ Taken < MaxFrames /\ frame \in Frame
  BY History, BufferFacts DEF RecordFrame
<1>2. /\ clip \in Seq(Frame) /\ Len(clip) \in Nat /\ clip' \in Seq(Frame)
      /\ Len(clip') = Len(clip) + 1 /\ clip'[Len(clip) + 1] = frame
      /\ \A i \in 1..Len(clip) : clip'[i] = clip[i]
  <2>1. clip \in Seq(Frame) /\ Len(clip) \in Nat
    BY DEF TypeOK
  <2> QED
    BY <1>1, <2>1, AppendProperties DEF RecordFrame
<1>3. TypeOK'
  <2>1. Len(clip') <= ClipLen
    BY <1>2, Numbers DEF RecordFrame
  <2>2. UNCHANGED <<phase, consecutive, decided, preRoll, active, event, seen>>
    BY DEF RecordFrame, detector
  <2> QED
    BY <1>1, <1>2, <2>1, <2>2, Numbers DEF TypeOK
<1>4. BoundOK'
  BY <1>1 DEF RecordFrame, BoundOK, TypeOK, Frame, detector
<1>5. RunOK' /\ EpisodeOK'
  BY UnseenIInv DEF RecordFrame
<1>6. ClipOK'
  <2>1. event' = event /\ event \in Nat /\ event <= Taken /\ event > 0
    BY DEF RecordFrame, TypeOK, BoundOK, ClipOK
  <2>2. Len(clip) > Taken - event
        /\ \A f \in event..Taken : clip[Len(clip) - (Taken - f)] = f
    BY DEF RecordFrame, ClipOK
  <2>3. ASSUME NEW f \in event..frame
        PROVE  clip'[Len(clip') - (frame - f)] = f
    <3>1. CASE f = frame
      BY <1>1, <1>2, <3>1
    <3>2. CASE f # frame
      <4>1. /\ f \in event..Taken
            /\ Len(clip') - (frame - f) = Len(clip) - (Taken - f)
        BY <1>1, <1>2, <2>1, <3>2
      <4>2. Len(clip) - (Taken - f) \in 1..Len(clip)
        BY <1>1, <1>2, <2>1, <2>2, <4>1
      <4> QED
        BY <1>2, <2>2, <4>1, <4>2
    <3> QED
      BY <3>1, <3>2
  <2> QED
    BY <1>1, <1>2, <2>1, <2>2, <2>3 DEF ClipOK
<1> QED
  BY <1>3, <1>4, <1>5, <1>6

\* A frame nobody reads keeps the invariant.
LEMMA MissIInv ==
  ASSUME IInv, NEW m \in BOOLEAN, MissFrame(m)
  PROVE  IInv'
<1> USE DEF IInv
<1>1. /\ moving' \in Seq(BOOLEAN) /\ Taken \in Nat /\ Taken' = Taken + 1
      /\ Taken < MaxFrames
      /\ UNCHANGED <<phase, consecutive, decided, preRoll, clip, active,
                     event, seen>>
  BY History DEF MissFrame, detector
<1>2. TypeOK'
  BY <1>1, Numbers DEF TypeOK
<1>3. BoundOK'
  BY <1>1 DEF BoundOK, TypeOK, Frame
<1>4. RunOK' /\ EpisodeOK'
  BY UnseenIInv DEF MissFrame
<1>5. ClipOK'
  BY DEF MissFrame, ClipOK
<1> QED
  BY <1>2, <1>3, <1>4, <1>5

\* Ends of recordings, outages and returns keep the invariant.
LEMMA OtherIInv ==
  ASSUME IInv, EndRecording \/ LoseSource \/ Return \/ UNCHANGED vars
  PROVE  IInv'
<1> USE DEF IInv
<1>1. /\ UNCHANGED <<moving, consecutive, decided, preRoll, event, seen>>
      /\ phase' \in {"watch", "record", "away"}
      /\ active' \in BOOLEAN /\ (active' <=> phase' = "record")
      /\ \/ clip' = clip
         \/ clip' = << >> /\ phase' # "record"
      /\ phase' = "record" => phase = "record"
  <2>1. CASE EndRecording
    BY <2>1 DEF EndRecording, detector
  <2>2. CASE LoseSource \/ Return
    BY <2>2 DEF LoseSource, Return, detector, BoundOK, TypeOK
  <2>3. CASE UNCHANGED vars
    BY <2>3 DEF vars, detector, BoundOK, TypeOK
  <2> QED
    BY <2>1, <2>2, <2>3
<1>2. Taken' = Taken
  BY <1>1 DEF Taken
<1>3. clip' \in Seq(Frame) /\ Len(clip') <= ClipLen
  <2>1. << >> \in Seq(Frame) /\ Len(<< >>) <= ClipLen
    BY Numbers
  <2> QED
    BY <1>1, <2>1 DEF TypeOK
<1>4. TypeOK'
  BY <1>1, <1>2, <1>3 DEF TypeOK
<1>5. BoundOK' /\ EpisodeOK' /\ ClipOK'
  BY <1>1, <1>2 DEF BoundOK, SeenAfter, EpisodeOK, ClipOK
<1>6. RunOK'
  BY <1>1 DEF RunOK
<1> QED
  BY <1>4, <1>5, <1>6

\* Every step keeps the invariant.
LEMMA Step == IInv /\ [Next]_vars => IInv'
BY AnalyseIInv, RecordIInv, MissIInv, OtherIInv DEF Next

\* The invariant holds in every reachable state.
LEMMA Inductive == Spec => []IInv
BY InitIInv, Step, PTL DEF Spec

-----------------------------------------------------------------------------
\* The state keeps its shape: the deque and the clip their bounds.
THEOREM TypeCorrect == Spec => []TypeOK
<1>1. IInv => TypeOK
  BY DEF IInv
<1> QED
  BY <1>1, Inductive, PTL

\* No episode that the detector sees for long enough stays unreported.
THEOREM EpisodesAreReported == Spec => []SeenMotionIsReported
<1>1. IInv => SeenMotionIsReported
  <2> SUFFICES ASSUME IInv, NEW f \in seen \cup {0},
                      f # 0 => ~moving[f], \A g \in SeenAfter(f) : moving[g],
                      Cardinality(SeenAfter(f)) >= MinFrames
               PROVE  event > f
    BY DEF SeenMotionIsReported
  <2>1. SeenAfter(f) = Since(seen, f)
    BY DEF SeenAfter, Since
  <2>2. LastStill(seen, moving, f)
    BY <2>1 DEF LastStill
  <2> QED
    BY <2>1, <2>2 DEF IInv, RunOK
<1> QED
  BY <1>1, Inductive, PTL

\* A clip shows the frame of its event and all that was taken since.
THEOREM ClipsShowTheirEvents == Spec => []ClipShowsEvent
<1>1. IInv => ClipShowsEvent
  <2> SUFFICES ASSUME IInv, phase = "record", NEW f \in event..Taken
               PROVE  \E i \in DOMAIN clip : clip[i] = f
    BY DEF ClipShowsEvent
  <2>1. /\ Len(clip) \in Nat /\ DOMAIN clip = 1..Len(clip)
        /\ Taken \in Nat /\ event \in Nat
    BY DEF IInv, TypeOK, Taken
  <2>2. Len(clip) - (Taken - f) \in 1..Len(clip)
    BY <2>1 DEF IInv, ClipOK
  <2> QED
    BY <2>1, <2>2 DEF IInv, ClipOK
<1> QED
  BY <1>1, Inductive, PTL

\* A frame's event comes from an undecided detector.
LEMMA NewEvent ==
  ASSUME IInv, [Next]_vars, event' # event
  PROVE  \E m, r \in BOOLEAN : AnalyseFrame(m, r) /\ Fires(m)
<1>1. \E m, r \in BOOLEAN : AnalyseFrame(m, r)
  BY DEF Next, vars, RecordFrame, MissFrame, EndRecording, LoseSource, Return
<1> QED
  BY <1>1 DEF AnalyseFrame

\* Between two events the detector has seen a still frame.
THEOREM EventsAreApart == Spec => OneEventPerEpisode
<1> DEFINE Apart == event' # event /\ event # 0 =>
                      \E f \in SeenAfter(event) : ~moving[f]
<1>1. IInv /\ [Next]_vars => [Apart]_vars
  BY NewEvent DEF IInv, EpisodeOK, Fires
<1> QED
  BY <1>1, Inductive, PTL DEF Spec, OneEventPerEpisode

\* An event's frame is the last of MinFrames with motion that the detector
\* saw in a row: at the event the frames since the last still one are exactly
\* the newest MinFrames.
THEOREM EventsAreSustained == Spec => EventIsSustained
<1> DEFINE Last ==
             {f \in seen' : Cardinality({g \in seen' : g > f}) < MinFrames}
           Sustained == event' # event =>
             /\ Cardinality(Last) = MinFrames
             /\ \A f \in Last : moving'[f]
<1>1. IInv /\ [Next]_vars => [Sustained]_vars
  <2> SUFFICES ASSUME IInv, [Next]_vars, event' # event
               PROVE  /\ Cardinality(Last) = MinFrames
                      /\ \A f \in Last : moving'[f]
    OBVIOUS
  <2>1. IInv'
    BY Step
  <2>2. consecutive' = MinFrames
    <3>1. PICK m, r \in BOOLEAN : AnalyseFrame(m, r) /\ Fires(m)
      BY NewEvent
    <3>2. consecutive \in Nat /\ ~(consecutive >= MinFrames)
      BY <3>1 DEF IInv, TypeOK, RunOK, Fires
    <3>3. consecutive' = consecutive + 1 /\ consecutive + 1 >= MinFrames
      BY <3>1 DEF AnalyseFrame, Fires, Count
    <3> QED
      BY <3>2, <3>3, Numbers
  <2>3. PICK f \in seen' \cup {0} : LastStill(seen', moving', f)
    BY <2>1 DEF IInv, RunOK
  <2>4. Cardinality(Since(seen', f)) = MinFrames
    BY <2>1, <2>2, <2>3 DEF IInv, RunOK
  <2>5. /\ seen' \subseteq 1..MaxFrames /\ IsFiniteSet(seen')
        /\ \A g : IsFiniteSet(Since(seen', g))
    <3>1. seen' \subseteq 1..MaxFrames
      BY <2>1 DEF IInv, TypeOK, Frame
    <3>2. IsFiniteSet(1..MaxFrames)
      BY Numbers, FS_Interval
    <3> QED
      BY <3>1, <3>2, FS_Subset DEF Since
  <2> f \in Nat /\ seen' \subseteq Nat
    BY <2>3, <2>5, Numbers
  <2>6. ASSUME NEW g \in seen', g > f
        PROVE  Cardinality(Since(seen', g)) < MinFrames
    <3>1. /\ Since(seen', g) \subseteq Since(seen', f)
          /\ g \in Since(seen', f) /\ g \notin Since(seen', g)
      <4>1. ~(g > g) /\ \A h \in seen' : h > g => h > f
        BY <2>6
      <4> QED
        BY <2>6, <4>1 DEF Since
    <3>2. Since(seen', g) # Since(seen', f)
      BY <3>1
    <3> QED
      BY <2>4, <2>5, <3>1, <3>2, FS_Subset, FS_CardinalityType, Numbers
  <2>7. ASSUME NEW g \in seen', ~(g > f)
        PROVE  ~(Cardinality(Since(seen', g)) < MinFrames)
    <3>1. Since(seen', f) \subseteq Since(seen', g)
      <4>1. \A h \in seen' : h > f => h > g
        BY <2>7
      <4> QED
        BY <4>1 DEF Since
    <3> QED
      BY <2>4, <2>5, <3>1, FS_Subset, FS_CardinalityType, Numbers
  <2>8. Last = Since(seen', f)
    BY <2>6, <2>7 DEF Since
  <2> QED
    BY <2>3, <2>4, <2>8 DEF LastStill
<1> QED
  BY <1>1, Inductive, PTL DEF Spec, EventIsSustained
=============================================================================
