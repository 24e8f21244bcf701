---------------------------- MODULE CameraProofs ----------------------------
(***************************************************************************)
(* Theorems about CameraOwnership.tla, for any number of commands and      *)
(* restarts: nobody has the camera open without a lock, nobody keeps a     *)
(* lock or the camera who is done with it, and where the lock file stays   *)
(* (not supervised) the camera is never opened twice.  Under systemd it    *)
(* may be, by two with locks on two files.                                 *)
(***************************************************************************)
EXTENDS CameraOwnership, TLAPS

Using == {"open", "reading", "publishing", "release"}

\* The control state tells who has a lock and who may have the camera.
HoldsOK ==
  \A a \in Actor :
    /\ held[a] # "none" <=> pc[a] \in Using
    /\ a \in device => pc[a] \in {"reading", "publishing"}

\* The two readers are one process.
MainTogether == pc["pipeline"] = "stopped" <=> pc["bot"] = "stopped"

IInv == TypeOK /\ HoldsOK /\ MainTogether

\* Where the runtime directory stays, every lock is on the one file in it.
OneLock == ~supervised =>
  /\ \A a \in Actor : pc[a] # "stopped" => runDir
  /\ \A a \in Actor : held[a] \in {"none", "run"}
  /\ \A a, b \in Actor : held[a] = "run" /\ held[b] = "run" => a = b

-----------------------------------------------------------------------------
\* The initial states satisfy the invariant.
LEMMA InitIInv == Init => IInv
<1> SUFFICES ASSUME Init PROVE IInv
  OBVIOUS
<1>1. TypeOK
  <2>1. /\ supervised \in Deployments /\ mtx \in BOOLEAN
        /\ plugged \in BOOLEAN /\ runDir \in BOOLEAN
    BY Zenon DEF Init
  <2>2. /\ pc \in [Actor -> Controls]
        /\ held \in [Actor -> LockFile \cup {"none"}]
        /\ device \subseteq Actor /\ broken \subseteq Actor
    BY DEF Init, Controls
  <2>3. commands \in 0..MaxCommands /\ restarts \in 0..MaxRestarts
    BY OwnershipAssumption DEF Init
  <2> QED
    BY <2>1, <2>2, <2>3 DEF TypeOK
<1>2. HoldsOK /\ MainTogether
  BY DEF Init, HoldsOK, MainTogether, Using, Actor, Reader
<1> QED
  BY <1>1, <1>2 DEF IInv

\* What the stop of a unit makes of the directory and the locks has its type,
\* and takes no lock away.
LEMMA StopFacts ==
  ASSUME runDir \in BOOLEAN,
         NEW h \in [Actor -> LockFile \cup {"none"}]
  PROVE  /\ RunDirAfterStop \in BOOLEAN
         /\ Stranded(h) \in [Actor -> LockFile \cup {"none"}]
         /\ \A a \in Actor : Stranded(h)[a] # "none" <=> h[a] # "none"
<1>1. RunDirAfterStop \in BOOLEAN
  BY Zenon DEF RunDirAfterStop
<1>2. CASE supervised
  BY <1>1, <1>2 DEF Stranded, LockFile
<1>3. CASE ~supervised
  BY <1>1, <1>3 DEF Stranded, LockFile
<1> QED
  BY <1>2, <1>3

\* A step of one actor keeps the invariant.
LEMMA StepIInv ==
  ASSUME IInv, NEW a \in Actor, Step(a)
  PROVE  IInv'
<1> USE DEF IInv, TypeOK, HoldsOK, MainTogether, Using, Actor, Reader, Controls,
            LockFile, Goto, world, bounds
<1>1. CASE AcquireLock(a)
  BY <1>1 DEF AcquireLock, LockPath
<1>2. CASE Busy(a)
  <2> DEFINE h == held
  <2>1. /\ h \in [Actor -> LockFile \cup {"none"}] /\ runDir \in BOOLEAN
        /\ RunDirAfterStop \in BOOLEAN
        /\ Stranded(h) \in [Actor -> LockFile \cup {"none"}]
        /\ \A b \in Actor : Stranded(h)[b] # "none" <=> h[b] # "none"
    BY StopFacts
  <2>2. \/ held' = h /\ runDir' = runDir
        \/ held' = Stranded(h) /\ runDir' = RunDirAfterStop
    BY <1>2 DEF Busy
  <2>3. runDir' \in BOOLEAN
    BY <2>1, <2>2, Zenon
  <2> QED
    BY <1>2, <2>1, <2>2, <2>3 DEF Busy
<1>3. CASE OpenCamera(a)
  BY <1>3 DEF OpenCamera
<1>4. CASE OpenFails(a)
  BY <1>4 DEF OpenFails
<1>5. CASE CloseCamera(a)
  BY <1>5 DEF CloseCamera
<1>6. CASE ReleaseLock(a)
  <2> DEFINE h == [held EXCEPT ![a] = "none"]
  <2>1. /\ h \in [Actor -> LockFile \cup {"none"}] /\ runDir \in BOOLEAN
        /\ RunDirAfterStop \in BOOLEAN
        /\ Stranded(h) \in [Actor -> LockFile \cup {"none"}]
        /\ \A b \in Actor : Stranded(h)[b] # "none" <=> h[b] # "none"
    BY StopFacts
  <2>2. \/ held' = h /\ runDir' = runDir
        \/ held' = Stranded(h) /\ runDir' = RunDirAfterStop
    BY <1>6 DEF ReleaseLock
  <2>3. runDir' \in BOOLEAN
    BY <2>1, <2>2, Zenon
  <2> QED
    BY <1>6, <2>1, <2>2, <2>3 DEF ReleaseLock
<1>7. CASE LeaveFeed(a)
  BY <1>7 DEF LeaveFeed
<1> QED
  BY <1>1, <1>2, <1>3, <1>4, <1>5, <1>6, <1>7 DEF Step

\* Every step keeps the invariant.
LEMMA NextIInv == IInv /\ [Next]_vars => IInv'
<1> SUFFICES ASSUME IInv, [Next]_vars PROVE IInv'
  OBVIOUS
<1>1. ASSUME NEW a \in Actor, Step(a) PROVE IInv'
  BY <1>1, StepIInv
<1> USE DEF IInv, TypeOK, HoldsOK, MainTogether, Using, Actor, Reader, Controls,
            LockFile, Goto, world, bounds
<1>2. ASSUME NEW a \in Actor, ProbeFeed(a) PROVE IInv'
  BY <1>2, OwnershipAssumption DEF ProbeFeed
<1>3. CASE Publish
  <2>1. \/ pc' = [pc EXCEPT !["publisher"] = "publishing"] /\ broken' = broken
        \/ broken' = broken \cup {"publisher"} /\ pc' = pc
    BY <1>3, Zenon DEF Publish
  <2>2. /\ pc["publisher"] = "reading" /\ mtx' \in BOOLEAN
        /\ supervised' \in Deployments
        /\ plugged' \in BOOLEAN /\ runDir' \in BOOLEAN
    BY <1>3 DEF Publish
  <2>3. UNCHANGED <<held, device, commands, restarts>>
    BY <1>3 DEF Publish
  <2> QED
    BY <2>1, <2>2, <2>3
<1>4. CASE StartPublisher
  BY <1>4 DEF StartPublisher
<1>5. CASE StartMain
  BY <1>5 DEF StartMain
<1>6. CASE StopMain
  <2> DEFINE h == [b \in Actor |-> IF b \in Reader THEN "none" ELSE held[b]]
  <2>1. /\ h \in [Actor -> LockFile \cup {"none"}]
        /\ RunDirAfterStop \in BOOLEAN
        /\ Stranded(h) \in [Actor -> LockFile \cup {"none"}]
        /\ \A b \in Actor : Stranded(h)[b] # "none" <=> h[b] # "none"
    BY StopFacts
  <2>2. held' = Stranded(h) /\ runDir' = RunDirAfterStop
    BY <1>6 DEF StopMain
  <2>3. runDir' \in BOOLEAN
    BY <2>1, <2>2, Zenon
  <2> QED
    BY <1>6, <2>1, <2>2, <2>3, OwnershipAssumption DEF StopMain
<1>7. CASE MtxUp \/ MtxDown \/ Plug \/ Unplug
  BY <1>7 DEF MtxUp, MtxDown, Plug, Unplug, FeedReaders
<1>8. CASE UNCHANGED vars
  BY <1>8 DEF vars
<1> QED
  BY <1>1, <1>2, <1>3, <1>4, <1>5, <1>6, <1>7, <1>8 DEF Next

\* The invariant holds in every reachable state.
LEMMA Inductive == Spec => []IInv
  BY InitIInv, NextIInv, PTL DEF Spec

\* Every state has the shape the actions rely on.
THEOREM TypeCorrect == Spec => []TypeOK
<1>1. IInv => TypeOK
  BY DEF IInv
<1> QED
  BY <1>1, Inductive, PTL

\* What is stopped or waiting has neither a lock nor the camera.
THEOREM NothingIsLeaked == Spec => []IdleHoldsNothing
<1>1. IInv => IdleHoldsNothing
  BY DEF IInv, HoldsOK, IdleHoldsNothing, Using
<1> QED
  BY <1>1, Inductive, PTL

-----------------------------------------------------------------------------
\* Without systemd no step opens a second lock file.
LEMMA NextOneLock == IInv /\ OneLock /\ [Next]_vars => OneLock'
<1> SUFFICES ASSUME IInv, OneLock, [Next]_vars PROVE OneLock'
  OBVIOUS
<1> USE DEF IInv, TypeOK, HoldsOK, MainTogether, OneLock, Using, Actor, Reader,
            Goto, Stranded, RunDirAfterStop, world
<1>1. ASSUME NEW a \in Actor, Step(a) PROVE OneLock'
  <2>1. CASE AcquireLock(a)
    BY <2>1 DEF AcquireLock, LockPath, Contended
  <2>2. CASE Busy(a)
    BY <2>2 DEF Busy
  <2>3. CASE OpenCamera(a) \/ OpenFails(a)
    BY <2>3 DEF OpenCamera, OpenFails
  <2>4. CASE CloseCamera(a) \/ LeaveFeed(a)
    BY <2>4 DEF CloseCamera, LeaveFeed
  <2>5. CASE ReleaseLock(a)
    BY <2>5 DEF ReleaseLock
  <2> QED
    BY <1>1, <2>1, <2>2, <2>3, <2>4, <2>5 DEF Step
<1>2. ASSUME NEW a \in Actor, ProbeFeed(a) PROVE OneLock'
  BY <1>2 DEF ProbeFeed
<1>3. CASE Publish
  BY <1>3 DEF Publish
<1>4. CASE StartPublisher \/ StartMain
  BY <1>4 DEF StartPublisher, StartMain
<1>5. CASE StopMain
  BY <1>5 DEF StopMain
<1>6. CASE MtxUp \/ MtxDown \/ Plug \/ Unplug
  BY <1>6 DEF MtxUp, MtxDown, Plug, Unplug
<1>7. CASE UNCHANGED vars
  BY <1>7 DEF vars
<1> QED
  BY <1>1, <1>2, <1>3, <1>4, <1>5, <1>6, <1>7 DEF Next

\* Where the lock file stays, two actors never have the camera open at once:
\* each holds a lock, and there is only one to hold.
THEOREM CameraIsExclusive == Spec => []ExclusiveWhereFileStays
<1>1. Init => OneLock
  BY DEF Init, OneLock
<1>2. IInv /\ OneLock => ExclusiveWhereFileStays
  BY DEF IInv, TypeOK, HoldsOK, OneLock, ExclusiveWhereFileStays,
         DeviceExclusive, Using
<1> QED
  BY <1>1, <1>2, Inductive, NextOneLock, PTL DEF Spec

-----------------------------------------------------------------------------
\* A file that can still be opened is locked by one actor at most.
FileExcludes ==
  \A a, b \in Actor : a # b /\ held[a] = held[b] => held[a] \in {"none", "stale"}

\* A stop of a unit makes locks stale, and no two equal that can be opened.
LEMMA StrandedExcludes ==
  ASSUME NEW h \in [Actor -> LockFile \cup {"none"}],
         \A a, b \in Actor : a # b /\ h[a] = h[b] => h[a] \in {"none", "stale"}
  PROVE  \A a, b \in Actor : a # b /\ Stranded(h)[a] = Stranded(h)[b]
                               => Stranded(h)[a] \in {"none", "stale"}
  BY DEF Stranded, LockFile

\* Whatever is removed, made again or fallen back to, under systemd or not.
LEMMA NextFileExcludes == IInv /\ FileExcludes /\ [Next]_vars => FileExcludes'
<1> SUFFICES ASSUME IInv, FileExcludes, [Next]_vars PROVE FileExcludes'
  OBVIOUS
<1> USE DEF FileExcludes
<1>0. held \in [Actor -> LockFile \cup {"none"}]
  BY DEF IInv, TypeOK
<1>1. ASSUME NEW a \in Actor, Step(a) PROVE FileExcludes'
  <2>1. CASE AcquireLock(a)
    BY <1>0, <2>1 DEF AcquireLock, Contended
  <2>2. CASE Busy(a)
    <3>1. held' = held \/ held' = Stranded(held)
      BY <2>2 DEF Busy
    <3> QED
      BY <1>0, <3>1, StrandedExcludes
  <2>3. CASE OpenCamera(a) \/ OpenFails(a) \/ CloseCamera(a) \/ LeaveFeed(a)
    BY <2>3 DEF OpenCamera, OpenFails, CloseCamera, LeaveFeed
  <2>4. CASE ReleaseLock(a)
    <3> DEFINE h == [held EXCEPT ![a] = "none"]
    <3>1. held' = h \/ held' = Stranded(h)
      BY <2>4 DEF ReleaseLock
    <3>2. h \in [Actor -> LockFile \cup {"none"}]
      BY <1>0
    <3>3. \A b, c \in Actor : b # c /\ h[b] = h[c] => h[b] \in {"none", "stale"}
      BY <1>0
    <3> HIDE DEF h
    <3> QED
      BY <3>1, <3>2, <3>3, StrandedExcludes
  <2> QED
    BY <1>1, <2>1, <2>2, <2>3, <2>4 DEF Step
<1>2. CASE StopMain
  <2> DEFINE h == [b \in Actor |-> IF b \in Reader THEN "none" ELSE held[b]]
  <2>1. held' = Stranded(h)
    BY <1>2 DEF StopMain
  <2>2. h \in [Actor -> LockFile \cup {"none"}]
    BY <1>0 DEF LockFile
  <2>3. \A b, c \in Actor : b # c /\ h[b] = h[c] => h[b] \in {"none", "stale"}
    BY <1>0
  <2> HIDE DEF h
  <2> QED
    BY <2>1, <2>2, <2>3, StrandedExcludes
<1>3. CASE UNCHANGED held
  BY <1>3
<1>4. held' = held \/ StopMain \/ \E a \in Actor : Step(a)
  BY DEF Next, vars, ProbeFeed, Publish, StartPublisher, StartMain, MtxUp, MtxDown,
         Plug, Unplug
<1> QED
  BY <1>1, <1>2, <1>3, <1>4

\* In either deployment: no camera without a lock, and two actors with the
\* camera open hold different files, or both hold files that are gone.
THEOREM LocksGuardOpens == Spec => []LockedWhileOpen
<1>1. Init => FileExcludes
  BY DEF Init, FileExcludes
<1>2. IInv /\ FileExcludes => LockedWhileOpen
  BY DEF IInv, TypeOK, HoldsOK, FileExcludes, LockedWhileOpen, Using
<1> QED
  BY <1>1, <1>2, Inductive, NextFileExcludes, PTL DEF Spec

\* In either deployment: as long as every lock in use is on the lock file of
\* the runtime directory, the camera is open once.
THEOREM ExclusiveInRunDir ==
  Spec => []((\A a \in Actor : held[a] \in {"none", "run"}) => DeviceExclusive)
<1>1. Init => FileExcludes
  BY DEF Init, FileExcludes
<1>2. IInv /\ FileExcludes
        => ((\A a \in Actor : held[a] \in {"none", "run"}) => DeviceExclusive)
  BY DEF IInv, TypeOK, HoldsOK, FileExcludes, DeviceExclusive, Using
<1> QED
  BY <1>1, <1>2, Inductive, NextFileExcludes, PTL DEF Spec
=============================================================================
