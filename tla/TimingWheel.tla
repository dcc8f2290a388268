----------------------------- MODULE TimingWheel -----------------------------
(***************************************************************************)
(* core/collection/timingwheel.go.                                         *)
(*                                                                         *)
(* One goroutine, run, owns the wheel: SetTimer, MoveTimer, RemoveTimer    *)
(* and Drain hand it their arguments over unbuffered channels, so each is  *)
(* one step.  Time is counted in intervals; delay 0 stands for a positive  *)
(* delay below one interval.  A slot is a set of entries: the order of the *)
(* list is only the order in which one goroutine runs what fires together. *)
(* The value of a task is passed along and left out.                       *)
(***************************************************************************)
EXTENDS Integers, FiniteSets, Functions, TLC

CONSTANTS TimerKeys,      \* keys of the tasks
          Items,     \* identities of timingEntry objects: a set of numbers
          NumSlots,  \* tw.numSlots
          Delays,    \* delays of SetTimer, in intervals
          MoveDelays,\* delays of MoveTimer
          Draining   \* whether Drain is called

ASSUME NumSlotsAssumption == NumSlots \in Nat \ {0}
ASSUME DelaysAssumption == Delays \subseteq Nat /\ MoveDelays \subseteq Nat
ASSUME ItemsAssumption == Items \subseteq Nat /\ Draining \in BOOLEAN

Slots == 0..NumSlots - 1

VARIABLES state,     \* "running", "closing" (stopChannel closed), "stopped"
          slots,     \* the entries linked in each slot
          item,      \* the fields of every timingEntry
          timers,    \* SafeMap: key to positionEntry, a function on the keys it has
          tickedPos,
          fired,     \* output: the keys whose task the last step executes
          due,       \* history: intervals until the task of an armed key should run
          past       \* history: what has happened to a key's timer since it was set

wheel == <<slots, item, timers, tickedPos>>
wheelVars == <<state, slots, item, timers, tickedPos, fired, due, past>>

NewEntry(k, circle) == [key |-> k, circle |-> circle, diff |-> 0, removed |-> FALSE]

WheelInit ==
  /\ state = "running"
  /\ slots = [s \in Slots |-> {}]
  /\ item = [i \in {} |-> NewEntry(i, 0)]
  /\ timers = [k \in {} |-> [pos |-> 0, item |-> 0]]
  /\ tickedPos = NumSlots - 1
  /\ fired = {}
  /\ due = [k \in {} |-> 0]
  /\ past = [k \in TimerKeys |-> {}]

Without(f, S) == Restrict(f, DOMAIN f \ S)
With(f, x, y) == (x :> y) @@ f

\* Objects nobody refers to are collected.
Reachable(ss, ts) == UNION {ss[s] : s \in Slots} \cup {ts[k].item : k \in DOMAIN ts}
Collect(f, ss, ts) == Restrict(f, Reachable(ss, ts))
Allocated == Reachable(slots, timers)
NewItem == CHOOSE i \in Items \ Allocated : \A j \in Items \ Allocated : i <= j

Pos(d) == (tickedPos + d) % NumSlots
\* Mutant of Circle: steps / numSlots.
CircleOffByOne(d) == d \div NumSlots
Circle(d) == (d - 1) \div NumSlots

(***************************************************************************)
(* moveTask, for a key that has a timer.                                   *)
(***************************************************************************)
\* The entry stays in its slot and waits there before it shifts by diff.
Retime(k, circle, diff) ==
  /\ item' = [item EXCEPT ![timers[k].item].circle = circle, ![timers[k].item].diff = diff]
  /\ UNCHANGED <<slots, timers>>

\* Mutant of Relocate: the old entry is not marked.
RelocateKeepsOld(k, pos) ==
  /\ slots' = [slots EXCEPT ![pos] = @ \cup {NewItem}]
  /\ timers' = With(timers, k, [pos |-> pos, item |-> NewItem])
  /\ item' = With(item, NewItem, NewEntry(k, 0))

\* The entry is marked removed and a new one takes its place.
Relocate(k, pos) ==
  /\ slots' = [slots EXCEPT ![pos] = @ \cup {NewItem}]
  /\ timers' = With(timers, k, [pos |-> pos, item |-> NewItem])
  /\ item' = Collect(With([item EXCEPT ![timers[k].item].removed = TRUE], NewItem, NewEntry(k, 0)),
                     slots', timers')

Move(k, d) ==
  LET pos == Pos(d)
      old == timers[k].pos
  IN \/ pos >= old /\ Retime(k, Circle(d), pos - old)
     \/ pos < old /\ Circle(d) > 0 /\ Retime(k, Circle(d) - 1, NumSlots + pos - old)
     \/ pos < old /\ Circle(d) = 0 /\ Relocate(k, pos)

(***************************************************************************)
(* The cases of run's select.  Once stopChannel is closed the select may   *)
(* still choose another case that is ready.                                *)
(***************************************************************************)
AtLeastOne(d) == IF d = 0 THEN 1 ELSE d

\* setTask on a key without a timer.
SetNew(k, d) ==
  /\ state # "stopped" /\ k \notin DOMAIN timers /\ Items \ Allocated # {}
  /\ LET n == AtLeastOne(d)
     IN /\ item' = With(item, NewItem, NewEntry(k, Circle(n)))
        /\ slots' = [slots EXCEPT ![Pos(n)] = @ \cup {NewItem}]
        /\ timers' = With(timers, k, [pos |-> Pos(n), item |-> NewItem])
        /\ due' = With(due, k, n)
  /\ past' = [past EXCEPT ![k] = {}]
  /\ fired' = {}
  /\ UNCHANGED <<state, tickedPos>>

\* setTask on a key that has one: the value is replaced and moveTask called.
SetAgain(k, d) ==
  /\ state # "stopped" /\ k \in DOMAIN timers /\ Items \ Allocated # {}
  /\ Move(k, AtLeastOne(d))
  /\ due' = With(due, k, AtLeastOne(d))
  /\ past' = [past EXCEPT ![k] = (@ \ {"soon"}) \cup {"moved"}]
  /\ fired' = {}
  /\ UNCHANGED <<state, tickedPos>>

\* moveTask with at least an interval to go.
MoveTask(k, d) ==
  /\ state # "stopped" /\ k \in DOMAIN timers /\ d > 0 /\ Items \ Allocated # {}
  /\ Move(k, d)
  /\ due' = With(due, k, d)
  /\ past' = [past EXCEPT ![k] = (@ \ {"soon"}) \cup {"moved"}]
  /\ fired' = {}
  /\ UNCHANGED <<state, tickedPos>>

\* moveTask with less: the task is executed and its entry left as it is.
MoveSoon(k) ==
  /\ state # "stopped" /\ k \in DOMAIN timers /\ 0 \in MoveDelays
  /\ fired' = {k}
  /\ due' = Without(due, {k})
  /\ past' = [past EXCEPT ![k] = @ \cup {"soon"}]
  /\ UNCHANGED <<state, wheel>>

\* Mutant of RemoveTask: the entry is not marked.
RemoveUnmarked(k) ==
  /\ state # "stopped" /\ k \in DOMAIN timers
  /\ timers' = Without(timers, {k})
  /\ due' = Without(due, {k})
  /\ past' = [past EXCEPT ![k] = {}]
  /\ fired' = {}
  /\ UNCHANGED <<state, slots, item, tickedPos>>

RemoveTask(k) ==
  /\ state # "stopped" /\ k \in DOMAIN timers
  /\ timers' = Without(timers, {k})
  /\ item' = Collect([item EXCEPT ![timers[k].item].removed = TRUE], slots, timers')
  /\ due' = Without(due, {k})
  /\ past' = [past EXCEPT ![k] = {}]
  /\ fired' = {}
  /\ UNCHANGED <<state, slots, tickedPos>>

\* drainAll unlinks every entry and executes those not removed; timers keeps
\* its keys.
DrainAll ==
  /\ state # "stopped" /\ Draining
  /\ LET run == {i \in UNION {slots[s] : s \in Slots} : ~item[i].removed}
     IN /\ fired' = {item[i].key : i \in run}
        /\ due' = Without(due, {item[i].key : i \in run})
        /\ past' = [k \in TimerKeys |-> IF \E i \in run : item[i].key = k
                                   THEN past[k] \cup {"drained"} ELSE past[k]]
  /\ slots' = [s \in Slots |-> {}]
  /\ item' = Collect(item, slots', timers)
  /\ UNCHANGED <<state, timers, tickedPos>>

\* scanAndRunTasks on the slot the wheel reaches: what happens to an entry.
Waits(i) == ~item[i].removed /\ item[i].circle > 0
Shifts(i) == ~item[i].removed /\ item[i].circle = 0 /\ item[i].diff % NumSlots # 0
Runs(i) == ~item[i].removed /\ item[i].circle = 0 /\ item[i].diff % NumSlots = 0

ScanAndRun(p) ==
  LET target(i) == (p + item[i].diff) % NumSlots
      shifting  == {i \in slots[p] : Shifts(i)}
      running   == {item[i].key : i \in {j \in slots[p] : Runs(j)}}
  IN /\ slots' = [s \in Slots |->
                    {i \in slots[s] : s # p \/ Waits(i)} \cup {i \in shifting : target(i) = s}]
     /\ timers' = [k \in DOMAIN timers \ running |->
                     IF \E i \in shifting : item[i].key = k
                     THEN LET i == CHOOSE i \in shifting : item[i].key = k
                          IN [pos |-> target(i), item |-> i]
                     ELSE timers[k]]
     /\ item' = [i \in Reachable(slots', timers') |->
                   IF i \in slots[p] /\ Waits(i) THEN [item[i] EXCEPT !.circle = @ - 1]
                   ELSE IF i \in shifting THEN [item[i] EXCEPT !.diff = 0]
                   ELSE item[i]]
     /\ fired' = running

\* A timer that is never going to fire stops counting at one circle too late.
Overdue == -NumSlots - 1

OnTick ==
  /\ state # "stopped"
  /\ tickedPos' = (tickedPos + 1) % NumSlots
  /\ ScanAndRun(tickedPos')
  /\ due' = [k \in DOMAIN due \ fired' |-> IF due[k] > Overdue THEN due[k] - 1 ELSE Overdue]
  /\ past' = [k \in TimerKeys |-> IF k \in fired' THEN {} ELSE past[k]]
  /\ UNCHANGED state

\* Stop closes stopChannel; run returns when its select takes that case.
WheelStop ==
  /\ state = "running"
  /\ state' = "closing" /\ fired' = {}
  /\ UNCHANGED <<wheel, due, past>>

RunReturns ==
  /\ state = "closing"
  /\ state' = "stopped" /\ fired' = {}
  /\ UNCHANGED <<wheel, due, past>>

WheelNext ==
  \/ \E k \in TimerKeys, d \in Delays : SetNew(k, d) \/ SetAgain(k, d)
  \/ \E k \in TimerKeys, d \in MoveDelays : MoveTask(k, d)
  \/ \E k \in TimerKeys : RemoveTask(k) \/ MoveSoon(k)
  \/ DrainAll \/ OnTick \/ WheelStop \/ RunReturns

WheelSpec == WheelInit /\ [][WheelNext]_wheelVars

-----------------------------------------------------------------------------
\* Each variable keeps its Go type, and diff stays below numSlots: the comment
\* in scanAndRunTasks that an entry never shifts to the slot being scanned.
WheelTyped ==
  /\ state \in {"running", "closing", "stopped"}
  /\ slots \in [Slots -> SUBSET Items]
  /\ DOMAIN item = Allocated
  /\ \A i \in DOMAIN item :
       item[i] \in [key : TimerKeys, circle : Nat, diff : Slots, removed : BOOLEAN]
  /\ DOMAIN timers \subseteq TimerKeys
  /\ \A k \in DOMAIN timers : timers[k] \in [pos : Slots, item : Items]
  /\ tickedPos \in Slots
  /\ fired \subseteq TimerKeys
  /\ DOMAIN due \subseteq DOMAIN timers
  /\ past \in [TimerKeys -> SUBSET {"moved", "soon", "drained"}]

\* timers and the slots agree: a key's entry is linked in the slot timers says
\* (unless Drain has unlinked it), and every linked entry that is not removed
\* is the entry of its key, so no task has two entries that can fire.
Located ==
  /\ \A k \in DOMAIN timers : "drained" \notin past[k] =>
       /\ timers[k].item \in slots[timers[k].pos]
       /\ item[timers[k].item].key = k
       /\ ~item[timers[k].item].removed
  /\ \A s \in Slots : \A i \in slots[s] : ~item[i].removed =>
       /\ item[i].key \in DOMAIN timers
       /\ timers[item[i].key] = [pos |-> s, item |-> i]

\* Intervals until the wheel will run the task of k.
Remaining(k) ==
  ((timers[k].pos - tickedPos - 1) % NumSlots) + 1
    + item[timers[k].item].circle * NumSlots + item[timers[k].item].diff

\* A task runs exactly when its delay has passed if its timer was set once, and
\* one circle of the wheel off at most, never more, however often it was moved.
OnSchedule ==
  \A k \in DOMAIN due : "drained" \notin past[k] =>
    \/ Remaining(k) = due[k]
    \/ "moved" \in past[k] /\ Remaining(k) \in {due[k] - NumSlots, due[k] + NumSlots}

\* The wheel executes only tasks that are waiting to run: not after RemoveTimer,
\* and once for each time they are set (a MoveTimer below an interval, and the
\* keys Drain leaves in timers, aside).
FiresArmed ==
  [][\A k \in fired' : k \in DOMAIN due \/ past[k] \cap {"soon", "drained"} # {}]_wheelVars

(***************************************************************************)
(* What the documentation says and the wheel does not do.                  *)
(***************************************************************************)
\* "MoveTimer moves the task with the given key to the given delay."
Punctual == \A k \in DOMAIN due : k \in DOMAIN timers => Remaining(k) = due[k]

\* However timers are set, moved, removed and drained, a task has one entry that
\* can fire, in the slot and circle of its delay, and fires when it is armed.
WheelSound == [](WheelTyped /\ Located /\ OnSchedule) /\ FiresArmed

=============================================================================
