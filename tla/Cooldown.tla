------------------------------ MODULE Cooldown ------------------------------
(***************************************************************************)
(* cooldown.py's CooldownManager: one object in memory, changed by the     *)
(* event loop (bot commands and the retry drain) and by the motion thread, *)
(* with no lock, and one JSON file that every change rewrites whole.       *)
(*                                                                         *)
(* _save reads the three fields one after another, writes a temporary file *)
(* and renames it over the state file: a read of each field and then a     *)
(* replacement that may fail, with the other thread anywhere in between.   *)
(* datetime.now() is the real time unless the clock is stepped.            *)
(*                                                                         *)
(* The limits of the interval come from config.py when the process starts: *)
(* the owner may edit them between two starts, and the file keeps what was *)
(* set under older ones.                                                   *)
(***************************************************************************)
EXTENDS Naturals

CONSTANTS
  Threads,  \* threads that change the object, from {"loop", "motion"}
  Values,   \* minutes the owner tries, with /cooldown and in the configuration
  MaxTime,  \* bound: the time at which the behaviour ends
  Faults    \* a subset of {"restart", "save", "load", "step"}

ASSUME CooldownAssumption ==
  /\ Threads \subseteq {"loop", "motion"}
  /\ Values \subseteq Nat /\ MaxTime \in Nat \ {0}

Time  == 1..MaxTime
Never == 0  \* last_delivery_at is None
State == [last : {Never} \cup Time, interval : Values, on : BOOLEAN]
NoFile == [missing |-> TRUE]

\* The section "cooldown" of config.yaml, under the CATCAM_COOLDOWN_ variables.
\* A process that finds it invalid ends at once and changes nothing.
Limit   == 1440  \* minutes in a day
Section == [min : Values, max : Values, default : Values]
ValidNoFloor(c) ==  \* mutant: zero is let through
  c.max <= Limit /\ c.min <= c.default /\ c.default <= c.max
ValidNoCeiling(c) ==  \* mutant: so is more than a day
  1 <= c.min /\ c.min <= c.default /\ c.default <= c.max
Valid(c) == /\ 1 <= c.min /\ c.min <= Limit
            /\ 1 <= c.max /\ c.max <= Limit
            /\ c.min <= c.max
            /\ c.min <= c.default /\ c.default <= c.max
Loadable == {c \in Section : Valid(c)}

\* The order in which _save reads the fields into its dict.
Steps == {"idle", "last", "interval", "on", "replace"}
AfterTwo(f) ==  \* mutant: the dict leaves out the flag
  CASE f = "last" -> "interval" [] f = "interval" -> "replace" [] f = "on" -> "replace"
After(f) ==
  CASE f = "last" -> "interval" [] f = "interval" -> "on" [] f = "on" -> "replace"

VARIABLES
  mem,         \* the object's fields
  disk,        \* the state file
  limits,      \* the configuration that this process loaded
  saving,      \* the next step of each thread's _save
  snap,        \* the dict each _save is building, the defaults when it has none
  clock,       \* datetime.now()
  now,         \* ghost: the real time
  stepped,     \* ghost: the clock was set during the behaviour
  delivered,   \* ghost: the real times of the recorded deliveries
  unsaved,     \* ghost: the last replacement or load failed
  alone        \* ghost: no other thread's change overlapped this save so far

ghosts == <<now, stepped, delivered, unsaved, alone>>
vars   == <<mem, disk, limits, saving, snap, clock, ghosts>>

Defaults(c) == [last |-> Never, interval |-> c.default, on |-> TRUE]

\* _load: no file leaves the defaults, and so does one that cannot be read.
UncheckedLoad(c) == disk  \* mutant: the file is taken to be there
Loaded(c) == IF disk = NoFile THEN Defaults(c) ELSE disk

Idle(t) == saving[t] = "idle"

\* is_in_cooldown: clock - last < interval.  A time in the future counts.
LateCooldown == mem.last # Never /\ clock <= mem.last + mem.interval  \* mutant: <=
IsInCooldown == mem.last # Never /\ clock < mem.last + mem.interval

-----------------------------------------------------------------------------
\* Every change assigns a field and calls _save.
Change(t, m) ==
  /\ Idle(t)
  /\ mem' = m
  /\ saving' = [saving EXCEPT ![t] = "last"]
  /\ alone' = [u \in Threads |-> u = t /\ \A v \in Threads : Idle(v)]
  /\ UNCHANGED <<disk, limits, snap, clock, now, stepped, unsaved>>

RecordDeliverySuccess(t) ==
  /\ Change(t, [mem EXCEPT !.last = clock])
  /\ delivered' = delivered \cup {now}

\* A value out of the configured range raises and changes nothing.
SetInterval(v) ==
  /\ "loop" \in Threads /\ limits.min <= v /\ v <= limits.max
  /\ Change("loop", [mem EXCEPT !.interval = v])
  /\ UNCHANGED delivered

\* enable_notifications and disable_notifications.
SetNotifications(b) ==
  /\ "loop" \in Threads
  /\ Change("loop", [mem EXCEPT !.on = b])
  /\ UNCHANGED delivered

ReadField(t) ==
  /\ saving[t] \in {"last", "interval", "on"}
  /\ snap' = [snap EXCEPT ![t] = [@ EXCEPT ![saving[t]] = mem[saving[t]]]]
  /\ saving' = [saving EXCEPT ![t] = After(@)]
  /\ UNCHANGED <<mem, disk, limits, clock, ghosts>>

\* os.replace, or an OSError that is logged and swallowed.
Replace(t) ==
  /\ saving[t] = "replace"
  /\ \/ disk' = snap[t] /\ unsaved' = FALSE
     \/ "save" \in Faults /\ unsaved' = TRUE /\ UNCHANGED disk
  /\ saving' = [saving EXCEPT ![t] = "idle"]
  /\ snap' = [snap EXCEPT ![t] = Defaults(limits)]
  /\ UNCHANGED <<mem, limits, clock, now, stepped, delivered, alone>>

\* The process stops anywhere; __init__ and _load start it again, with what the
\* owner has made of the configuration.
Restart ==
  /\ "restart" \in Faults
  /\ limits' \in Loadable
  /\ \/ mem' = Loaded(limits') /\ unsaved' = FALSE
     \/ "load" \in Faults /\ mem' = Defaults(limits') /\ unsaved' = TRUE
  /\ saving' = [t \in Threads |-> "idle"]
  /\ snap' = [t \in Threads |-> Defaults(limits')]
  /\ UNCHANGED <<disk, clock, now, stepped, delivered, alone>>

Tick == /\ now < MaxTime /\ clock < MaxTime
        /\ now' = now + 1 /\ clock' = clock + 1
        /\ UNCHANGED <<mem, disk, limits, saving, snap, stepped, delivered>>
        /\ UNCHANGED <<unsaved, alone>>

\* The system clock is set: NTP after a boot without a battery clock.
StepClock == /\ "step" \in Faults
             /\ clock' \in Time /\ stepped' = TRUE
             /\ UNCHANGED <<mem, disk, limits, saving, snap, now, delivered>>
             /\ UNCHANGED <<unsaved, alone>>

Init ==
  /\ limits \in Loadable /\ mem = Defaults(limits) /\ disk = NoFile
  /\ saving = [t \in Threads |-> "idle"]
  /\ snap = [t \in Threads |-> Defaults(limits)]
  /\ clock = 1 /\ now = 1 /\ stepped = FALSE
  /\ delivered = {} /\ unsaved = FALSE /\ alone = [t \in Threads |-> TRUE]

Next == \/ \E t \in Threads : RecordDeliverySuccess(t) \/ ReadField(t) \/ Replace(t)
        \/ \E v \in Values : SetInterval(v)
        \/ \E b \in BOOLEAN : SetNotifications(b)
        \/ Restart \/ Tick \/ StepClock

Spec == Init /\ [][Next]_vars

-----------------------------------------------------------------------------
\* Properties.

\* The state has the shape the actions rely on.
TypeOK ==
  /\ mem \in State /\ disk \in State \cup {NoFile} /\ limits \in Section
  /\ saving \in [Threads -> Steps] /\ snap \in [Threads -> State]
  /\ clock \in Time /\ now \in Time /\ stepped \in BOOLEAN
  /\ delivered \subseteq Time /\ unsaved \in BOOLEAN
  /\ alone \in [Threads -> BOOLEAN]

\* A save that no other thread's change overlapped, and that does not fail,
\* leaves the file equal to memory: its late reads see what its caller set.
LoneSavePersists ==
  [][\A t \in Threads : Replace(t) /\ alone[t] /\ ~unsaved' => disk' = mem']_vars

\* Between changes a restart would lose nothing ("persisted to
\* storage/state/cooldown.json immediately", docs/operations.md:67): true of
\* one thread, false of two, whose saves can replace the file out of order.
RestartLosesNothing == (\A t \in Threads : Idle(t)) /\ ~unsaved =>
  mem = Loaded(limits)

\* Whatever limits the owner sets in between, and whatever a failing load or
\* two saves leave in the file, the interval is one of those the bot names
\* ("sets it (1-1440)", docs/telegram-setup.md:99): never 0, which would send
\* every clip, and never more than a day.
IntervalInRange ==
  /\ mem.interval \in 1..Limit
  /\ disk # NoFile => disk.interval \in 1..Limit

\* The cooldown is never longer than the interval after some delivery, across
\* restarts, failed saves and both threads' races ("measured from the last
\* successful delivery", AGENT_PROMPT_EN.md:119), as long as nobody sets the
\* clock, which it is measured with.
CooldownFollowsDelivery ==
  ~stepped /\ IsInCooldown => \E d \in delivered : now < d + mem.interval
=============================================================================
