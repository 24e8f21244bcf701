--------------------------- MODULE CooldownProofs ---------------------------
(***************************************************************************)
(* Theorems about Cooldown.tla for any intervals, configurations and       *)
(* length of time: what a save that no other thread overlaps leaves on     *)
(* disk, that with one thread a restart loses nothing, that the interval   *)
(* is a valid one, and that with a clock that is not stepped the cooldown  *)
(* always follows a delivery.                                              *)
(***************************************************************************)
EXTENDS Cooldown, TLAPS

\* What an overlap-free save has read is still what memory holds.
ReadOK ==
  \A t \in Threads : alone[t] =>
    /\ saving[t] \in {"interval", "on", "replace"} => snap[t].last = mem.last
    /\ saving[t] \in {"on", "replace"} => snap[t].interval = mem.interval
    /\ saving[t] = "replace" => snap[t].on = mem.on

IInv == TypeOK /\ ReadOK

-----------------------------------------------------------------------------
\* A change sets one field to a value of its type, and starts a save.
LEMMA ChangeFacts ==
  ASSUME TypeOK, Next
  PROVE  \/ \E t \in Threads, m \in State : Change(t, m) /\ delivered' \subseteq Time
         \/ \E t \in Threads : ReadField(t)
         \/ \E t \in Threads : Replace(t)
         \/ Restart \/ Tick \/ StepClock
<1>1. ASSUME NEW t \in Threads, RecordDeliverySuccess(t)
      PROVE  [mem EXCEPT !.last = clock] \in State /\ delivered' \subseteq Time
  BY <1>1 DEF RecordDeliverySuccess, TypeOK, State
<1>2. ASSUME NEW v \in Values, SetInterval(v)
      PROVE  [mem EXCEPT !.interval = v] \in State /\ delivered' \subseteq Time
  BY <1>2 DEF SetInterval, TypeOK, State
<1>3. ASSUME NEW b \in BOOLEAN, SetNotifications(b)
      PROVE  [mem EXCEPT !.on = b] \in State /\ delivered' \subseteq Time
  BY <1>3 DEF SetNotifications, TypeOK, State
<1>4. ASSUME NEW t \in Threads, RecordDeliverySuccess(t)
      PROVE  \E m \in State : Change(t, m)
  BY <1>1, <1>4 DEF RecordDeliverySuccess
<1>5. ASSUME NEW v \in Values, SetInterval(v)
      PROVE  "loop" \in Threads /\ \E m \in State : Change("loop", m)
  BY <1>2, <1>5 DEF SetInterval
<1>6. ASSUME NEW b \in BOOLEAN, SetNotifications(b)
      PROVE  "loop" \in Threads /\ \E m \in State : Change("loop", m)
  BY <1>3, <1>6 DEF SetNotifications
<1> QED
  BY <1>1, <1>2, <1>3, <1>4, <1>5, <1>6 DEF Next

\* The defaults of a configuration are a state, and so is what _load leaves.
LEMMA LoadedState ==
  /\ Loadable \subseteq Section
  /\ \A c \in Section : Defaults(c) \in State
  /\ TypeOK => \A c \in Section : Loaded(c) \in State
<1>1. Loadable \subseteq Section
  BY DEF Loadable
<1>2. ASSUME NEW c \in Section PROVE Defaults(c) \in State
  BY <1>2 DEF Defaults, State, Section
<1>3. ASSUME TypeOK, NEW c \in Section PROVE Loaded(c) \in State
  BY <1>2, <1>3 DEF Loaded, TypeOK
<1> QED
  BY <1>1, <1>2, <1>3

\* No state that _save writes is taken for a missing file.
LEMMA NoFileIsNoState == NoFile \notin State
<1> SUFFICES ASSUME NoFile \in State PROVE FALSE
  OBVIOUS
<1>1. DOMAIN NoFile = {"missing"}
  BY DEF NoFile
<1>2. "last" \in DOMAIN NoFile
  BY DEF State
<1> QED
  BY <1>1, <1>2

\* The invariant holds at the start.
LEMMA InitIInv == Init => IInv
<1> SUFFICES ASSUME Init PROVE IInv
  OBVIOUS
<1>1. limits \in Section /\ Defaults(limits) \in State
  BY LoadedState DEF Init
<1>2. TypeOK
  <2>1. stepped \in BOOLEAN /\ unsaved \in BOOLEAN /\ alone \in [Threads -> BOOLEAN]
    BY Zenon DEF Init
  <2>2. clock \in Time /\ now \in Time
    BY CooldownAssumption DEF Init, Time
  <2> QED
    BY <1>1, <2>1, <2>2 DEF Init, TypeOK, Steps
<1>3. ReadOK
  BY DEF Init, ReadOK
<1> QED
  BY <1>2, <1>3 DEF IInv

\* Every step keeps the state's shape.
LEMMA NextTypeOK == TypeOK /\ [Next]_vars => TypeOK'
<1> SUFFICES ASSUME TypeOK, [Next]_vars PROVE TypeOK'
  OBVIOUS
<1>1. ASSUME NEW t \in Threads, NEW m \in State, Change(t, m), delivered' \subseteq Time
      PROVE  TypeOK'
  BY <1>1 DEF TypeOK, Change, Steps
<1>2. ASSUME NEW t \in Threads, ReadField(t) PROVE TypeOK'
  <2>1. snap' \in [Threads -> State]
    <3>1. [snap[t] EXCEPT ![saving[t]] = mem[saving[t]]] \in State
      BY <1>2 DEF ReadField, TypeOK, State
    <3> QED
      BY <3>1, <1>2 DEF ReadField, TypeOK
  <2> QED
    BY <2>1, <1>2 DEF ReadField, TypeOK, Steps, After, ghosts
<1>3. ASSUME NEW t \in Threads, Replace(t) PROVE TypeOK'
  BY <1>3, LoadedState DEF Replace, TypeOK, Steps
<1>4. CASE Restart
  <2>1. limits' \in Section /\ mem' \in State
    BY <1>4, LoadedState DEF Restart
  <2>2. snap' \in [Threads -> State]
    BY <1>4, <2>1, LoadedState DEF Restart
  <2> QED
    BY <1>4, <2>1, <2>2 DEF Restart, TypeOK, Steps
<1>5. CASE Tick
  BY <1>5, CooldownAssumption DEF Tick, TypeOK, Time
<1>6. CASE StepClock
  BY <1>6 DEF StepClock, TypeOK, ghosts
<1>7. CASE UNCHANGED vars
  BY <1>7 DEF vars, ghosts, TypeOK
<1> QED
  BY <1>1, <1>2, <1>3, <1>4, <1>5, <1>6, <1>7, ChangeFacts

\* Every step keeps what the saves have read.
LEMMA NextReadOK == IInv /\ [Next]_vars => ReadOK'
<1> SUFFICES ASSUME IInv, [Next]_vars PROVE ReadOK'
  OBVIOUS
<1> USE DEF IInv
<1>1. ASSUME NEW t \in Threads, NEW m \in State, Change(t, m) PROVE ReadOK'
  BY <1>1 DEF TypeOK, Change, ReadOK
<1>2. ASSUME NEW t \in Threads, ReadField(t) PROVE ReadOK'
  BY <1>2 DEF ReadField, ReadOK, TypeOK, State, After, ghosts
<1>3. ASSUME NEW t \in Threads, Replace(t) PROVE ReadOK'
  BY <1>3 DEF Replace, ReadOK, TypeOK
<1>4. CASE Restart
  BY <1>4 DEF Restart, ReadOK
<1>5. CASE Tick \/ StepClock \/ UNCHANGED vars
  BY <1>5 DEF Tick, StepClock, vars, ghosts, ReadOK
<1> QED
  BY <1>1, <1>2, <1>3, <1>4, <1>5, ChangeFacts

\* The invariant holds in every reachable state.
LEMMA Inductive == Spec => []IInv
<1>1. IInv /\ [Next]_vars => IInv'
  BY NextTypeOK, NextReadOK DEF IInv
<1> QED
  BY InitIInv, <1>1, PTL DEF Spec

\* The state keeps its shape.
THEOREM TypeCorrect == Spec => []TypeOK
<1>1. IInv => TypeOK
  BY DEF IInv
<1> QED
  BY <1>1, Inductive, PTL

\* An overlap-free save reads the memory it leaves on disk.
LEMMA AloneReads ==
  ASSUME IInv, NEW t \in Threads, Replace(t), alone[t]
  PROVE  snap[t] = mem'
<1>1. snap[t] \in State /\ mem \in State
  BY DEF IInv, TypeOK
<1>2. snap[t].last = mem.last /\ snap[t].interval = mem.interval /\ snap[t].on = mem.on
  BY DEF IInv, ReadOK, Replace
<1> QED
  BY <1>1, <1>2 DEF State, Replace

\* Whatever the threads do, a save no other change overlapped persists.
THEOREM LoneSavesPersist == Spec => LoneSavePersists
<1> DEFINE Persists == \A t \in Threads : Replace(t) /\ alone[t] /\ ~unsaved' => disk' = mem'
<1>1. IInv /\ [Next]_vars => [Persists]_vars
  BY AloneReads DEF Replace
<1> QED
  BY <1>1, Inductive, PTL DEF Spec, LoneSavePersists

-----------------------------------------------------------------------------
\* Once nothing has failed, only a replacement with a dict that another thread's
\* change overlapped makes a restart lose something.
LEMMA LosingStep ==
  ASSUME IInv, RestartLosesNothing, [Next]_vars
  PROVE  RestartLosesNothing' \/ \E t \in Threads : Replace(t) /\ ~alone[t]
<1> USE DEF RestartLosesNothing, Idle, Loaded
<1>1. ASSUME NEW t \in Threads, NEW m \in State, Change(t, m)
      PROVE  RestartLosesNothing'
  BY <1>1 DEF Change, IInv, TypeOK
<1>2. ASSUME NEW t \in Threads, ReadField(t) PROVE RestartLosesNothing'
  BY <1>2 DEF ReadField, After, ghosts, IInv, TypeOK
<1>3. ASSUME NEW t \in Threads, Replace(t), alone[t] PROVE RestartLosesNothing'
  <2>1. CASE unsaved'
    BY <2>1
  <2>2. CASE ~unsaved'
    <3>1. disk' = snap[t] /\ snap[t] = mem'
      BY <1>3, <2>2, AloneReads DEF Replace
    <3>2. disk' # NoFile
      BY <3>1, NoFileIsNoState DEF IInv, TypeOK
    <3>3. mem' = Loaded(limits)'
      BY <3>1, <3>2
    <3> QED
      BY <3>3
  <2> QED
    BY <2>1, <2>2
<1>4. CASE Restart
  BY <1>4 DEF Restart
<1>5. CASE Tick \/ StepClock \/ UNCHANGED vars
  BY <1>5 DEF Tick, StepClock, vars, ghosts
<1> QED
  BY <1>1, <1>2, <1>3, <1>4, <1>5, ChangeFacts DEF IInv

\* Between two changes memory is what a restart would load.
Saved == (\A t \in Threads : Idle(t)) => mem = Loaded(limits)

\* The step is a save that fails, or a load.
SaveFails(t) == Replace(t) /\ unsaved'
LoadFails == Restart /\ unsaved'

\* What makes memory and file differ between changes: every step that is none
\* of the three keeps them alike.
LEMMA SavedStep ==
  ASSUME IInv, Saved, [Next]_vars
  PROVE  \/ Saved' \/ LoadFails
         \/ \E t \in Threads : SaveFails(t) \/ (Replace(t) /\ ~alone[t])
<1> USE DEF Saved, Idle, Loaded
<1>1. ASSUME NEW t \in Threads, NEW m \in State, Change(t, m) PROVE Saved'
  BY <1>1 DEF Change, IInv, TypeOK
<1>2. ASSUME NEW t \in Threads, ReadField(t) PROVE Saved'
  BY <1>2 DEF ReadField, After, ghosts, IInv, TypeOK
<1>3. ASSUME NEW t \in Threads, Replace(t), alone[t], ~unsaved' PROVE Saved'
  <2>1. disk' = snap[t] /\ snap[t] = mem'
    BY <1>3, AloneReads DEF Replace
  <2>2. disk' # NoFile
    BY <2>1, NoFileIsNoState DEF IInv, TypeOK
  <2> QED
    BY <2>1, <2>2
<1>4. ASSUME Restart, ~unsaved' PROVE Saved'
  BY <1>4 DEF Restart
<1>5. CASE Tick \/ StepClock \/ UNCHANGED vars
  BY <1>5 DEF Tick, StepClock, vars, ghosts
<1> QED
  BY <1>1, <1>2, <1>3, <1>4, <1>5, ChangeFacts DEF IInv, SaveFails, LoadFails

\* However many threads change the object, what a restart between changes would
\* lose it loses from one of three steps: a save whose OSError cooldown.py logs
\* and swallows, a load that leaves the defaults, or a replacement whose save
\* another thread's change overlapped; never from a restart, new limits or a set
\* clock as such.
THEOREM OnlyThreeStepsLose ==
  Spec => [][Saved /\ ~Saved' =>
               \/ LoadFails
               \/ \E t \in Threads : SaveFails(t) \/ (Replace(t) /\ ~alone[t])]_vars
<1> DEFINE Blamed == Saved /\ ~Saved' =>
             \/ LoadFails
             \/ \E t \in Threads : SaveFails(t) \/ (Replace(t) /\ ~alone[t])
<1>1. IInv /\ [Next]_vars => [Blamed]_vars
  BY SavedStep
<1> QED
  BY <1>1, Inductive, PTL DEF Spec

\* With a single thread every save is overlap-free, and what is on disk when
\* it is idle is what it last set.
Durable == (\A t \in Threads : alone[t]) /\ RestartLosesNothing

\* If only one thread changes the object, a restart between changes whose save
\* did not fail loses nothing: the promise of docs/operations.md, and the
\* assumption it needs.
THEOREM OneThreadIsDurable ==
  ASSUME NEW CONSTANT one, Threads = {one}
  PROVE  Spec => []RestartLosesNothing
<1>1. Init => Durable
  BY Zenon DEF Init, Durable, RestartLosesNothing, Loaded
<1>2. IInv /\ Durable /\ [Next]_vars => Durable'
  <2> SUFFICES ASSUME IInv, Durable, [Next]_vars PROVE Durable'
    OBVIOUS
  <2>1. \A t \in Threads : (alone[t])'
    <3> USE DEF Durable, Idle
    <3>1. ASSUME NEW t \in Threads, NEW m \in State, Change(t, m)
          PROVE  \A u \in Threads : (alone[u])'
      <4>1. ~(\E u \in Threads : ~Idle(u))
        BY <3>1 DEF Change
      <4> QED
        BY <3>1, <4>1 DEF Change
    <3>2. CASE UNCHANGED alone
      BY <3>2
    <3> QED
      BY <3>1, <3>2, ChangeFacts
         DEF IInv, ReadField, Replace, Restart, Tick, StepClock, vars, ghosts
  <2>2. RestartLosesNothing'
    BY LosingStep DEF Durable
  <2> QED
    BY <2>1, <2>2 DEF Durable
<1>3. Durable => RestartLosesNothing
  BY DEF Durable
<1> QED
  BY <1>1, <1>2, <1>3, Inductive, PTL DEF Spec

\* Every interval comes from a configuration that was valid when it was set.
Checked ==
  /\ limits \in Loadable
  /\ mem.interval \in 1..Limit
  /\ disk # NoFile => disk.interval \in 1..Limit
  /\ \A t \in Threads : snap[t].interval \in 1..Limit

\* A valid section bounds its default and what lies between its limits.
LEMMA ValidBounds ==
  ASSUME NEW c \in Loadable, NEW v \in Values, c.min <= v, v <= c.max
  PROVE  v \in 1..Limit
<1>1. Valid(c) /\ c \in [min : Nat, max : Nat, default : Nat] /\ v \in Nat
  BY CooldownAssumption DEF Loadable, Section
<1> QED
  BY <1>1 DEF Valid, Limit

\* The defaults of a valid section are in range.
LEMMA DefaultInRange ==
  ASSUME NEW c \in Loadable
  PROVE  Defaults(c).interval \in 1..Limit
<1>1. c.default \in Values /\ c.min <= c.default /\ c.default <= c.max
  BY DEF Loadable, Section, Valid
<1> QED
  BY <1>1, ValidBounds DEF Defaults

\* The interval is never zero and never more than a day, however the owner
\* edits the limits between two starts, whatever loads and saves fail.
THEOREM IntervalsAreValid == Spec => []IntervalInRange
<1>1. Init => Checked
  BY DefaultInRange DEF Init, Checked
<1>2. IInv /\ Checked /\ [Next]_vars => Checked'
  <2> SUFFICES ASSUME IInv, Checked, [Next]_vars PROVE Checked'
    OBVIOUS
  <2> USE DEF Checked, IInv, TypeOK, State
  <2>1. ASSUME NEW t \in Threads, RecordDeliverySuccess(t) PROVE Checked'
    BY <2>1 DEF RecordDeliverySuccess, Change
  <2>2. ASSUME NEW v \in Values, SetInterval(v) PROVE Checked'
    BY <2>2, ValidBounds DEF SetInterval, Change
  <2>3. ASSUME NEW b \in BOOLEAN, SetNotifications(b) PROVE Checked'
    BY <2>3 DEF SetNotifications, Change
  <2>4. ASSUME NEW t \in Threads, ReadField(t) PROVE Checked'
    BY <2>4 DEF ReadField, ghosts
  <2>5. ASSUME NEW t \in Threads, Replace(t) PROVE Checked'
    BY <2>5, DefaultInRange DEF Replace
  <2>6. CASE Restart
    <3>1. limits' \in Loadable /\ Defaults(limits').interval \in 1..Limit
      BY <2>6, DefaultInRange DEF Restart
    <3> QED
      BY <2>6, <3>1 DEF Restart, Loaded
  <2>7. CASE Tick \/ StepClock \/ UNCHANGED vars
    BY <2>7 DEF Tick, StepClock, vars, ghosts
  <2> QED
    BY <2>1, <2>2, <2>3, <2>4, <2>5, <2>6, <2>7 DEF Next
<1>3. Checked => IntervalInRange
  BY DEF Checked, IntervalInRange
<1> QED
  BY <1>1, <1>2, <1>3, Inductive, PTL DEF Spec

\* As long as the clock is the real time, every last_delivery_at in memory, on
\* disk or in a save under way is the time of a delivery.
Earned == ~stepped =>
            /\ clock = now
            /\ mem.last \in {Never} \cup delivered
            /\ disk # NoFile => disk.last \in {Never} \cup delivered
            /\ \A t \in Threads : snap[t].last \in {Never} \cup delivered

\* Until the clock is stepped, the cooldown never outlasts the interval after
\* a delivery, whatever the threads, failed saves and restarts do.
THEOREM CooldownIsEarned == Spec => []CooldownFollowsDelivery
<1>1. Init => Earned
  BY DEF Init, Earned, Defaults
<1>2. IInv /\ Earned /\ [Next]_vars => Earned'
  <2> SUFFICES ASSUME IInv, Earned, [Next]_vars, ~stepped' PROVE Earned'
    BY DEF Earned
  <2> USE DEF Earned, IInv, TypeOK, State
  <2>1. ASSUME NEW t \in Threads, RecordDeliverySuccess(t) PROVE Earned'
    BY <2>1 DEF RecordDeliverySuccess, Change
  <2>2. ASSUME NEW v \in Values, SetInterval(v) PROVE Earned'
    BY <2>2 DEF SetInterval, Change
  <2>3. ASSUME NEW b \in BOOLEAN, SetNotifications(b) PROVE Earned'
    BY <2>3 DEF SetNotifications, Change
  <2>4. ASSUME NEW t \in Threads, ReadField(t) PROVE Earned'
    BY <2>4 DEF ReadField, ghosts
  <2>5. ASSUME NEW t \in Threads, Replace(t) PROVE Earned'
    BY <2>5 DEF Replace, Defaults
  <2>6. CASE Restart
    BY <2>6 DEF Restart, Loaded, Defaults
  <2>7. CASE Tick \/ UNCHANGED vars
    BY <2>7 DEF Tick, vars, ghosts
  <2>8. ~StepClock
    BY DEF StepClock
  <2> QED
    BY <2>1, <2>2, <2>3, <2>4, <2>5, <2>6, <2>7, <2>8 DEF Next
<1>3. IInv /\ Earned => CooldownFollowsDelivery
  BY DEF IInv, TypeOK, Earned, CooldownFollowsDelivery, IsInCooldown, Never
<1> QED
  BY <1>1, <1>2, <1>3, Inductive, PTL DEF Spec
=============================================================================
