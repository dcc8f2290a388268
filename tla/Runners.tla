------------------------------- MODULE Runners -------------------------------
(***************************************************************************)
(* core/threading: the runners that limit their goroutines; and the        *)
(* LockedCalls of core/syncx, which runs calls one after the other.        *)
(***************************************************************************)
EXTENDS Integers, FiniteSets, Sequences

(***************************************************************************)
(* core/threading/taskrunner.go: goroutines under a limit, and a Wait for  *)
(* all of them.  A call is one Schedule or ScheduleImmediately with its    *)
(* task.  sync.WaitGroup is external: the Done that brings it to zero      *)
(* wakes its waiters, and a woken waiter that finds it in use again        *)
(* panics.                                                                 *)
(***************************************************************************)
CONSTANTS RunnerCalls, RunnerWaiters, Concurrency

ASSUME RunnerAssumption == IsFiniteSet(RunnerCalls) /\ Concurrency \in Nat

VARIABLES runnerCall,     \* where a call and then its task is
          limitChan,      \* number of places taken
          waitGroup,
          runnerWaiter,
          covers          \* history: the calls that had begun when a Wait began

runnerVars == <<runnerCall, limitChan, waitGroup, runnerWaiter, covers>>

RunnerInit ==
  /\ runnerCall = [c \in RunnerCalls |-> "idle"]
  /\ limitChan = 0 /\ waitGroup = 0
  /\ runnerWaiter = [w \in RunnerWaiters |-> "idle"]
  /\ covers = [w \in RunnerWaiters |-> {}]

CallStep(c, from, to) == runnerCall[c] = from /\ runnerCall' = [runnerCall EXCEPT ![c] = to]

\* Mutant of AddFirst: the wait group is left to a later step.
AddNothing(c, to) ==
  /\ CallStep(c, "idle", to)
  /\ UNCHANGED <<limitChan, waitGroup, runnerWaiter, covers>>

\* rp.waitGroup.Add(1), before there is a place.
AddFirst(c, to) ==
  /\ CallStep(c, "idle", to)
  /\ waitGroup' = waitGroup + 1
  /\ UNCHANGED <<limitChan, runnerWaiter, covers>>

Schedule(c) == AddFirst(c, "block")
ScheduleImmediately(c) == AddFirst(c, "try")

\* limitChan <- Placeholder, and the goroutine starts.
TakePlace(c, from) ==
  /\ limitChan < Concurrency
  /\ CallStep(c, from, "task")
  /\ limitChan' = limitChan + 1
  /\ UNCHANGED <<waitGroup, runnerWaiter, covers>>

Woken(n) ==
  [w \in RunnerWaiters |-> IF n = 0 /\ runnerWaiter[w] = "waiting" THEN "woken" ELSE runnerWaiter[w]]

\* ErrTaskRunnerBusy.
RunnerRefuse(c) ==
  /\ limitChan = Concurrency
  /\ CallStep(c, "try", "refused")
  /\ waitGroup' = waitGroup - 1
  /\ runnerWaiter' = Woken(waitGroup - 1)
  /\ UNCHANGED <<limitChan, covers>>

\* The task returns or panics; the deferred function first frees its place.
TaskEnds(c) ==
  /\ CallStep(c, "task", "done")
  /\ limitChan' = limitChan - 1
  /\ UNCHANGED <<waitGroup, runnerWaiter, covers>>

\* Mutant of TaskDone: a task that panicked is not counted out.
TaskDoneSkipped(c) ==
  /\ CallStep(c, "done", "over")
  /\ waitGroup' \in {waitGroup - 1, waitGroup}
  /\ runnerWaiter' = Woken(waitGroup')
  /\ UNCHANGED <<limitChan, covers>>

TaskDone(c) ==
  /\ CallStep(c, "done", "over")
  /\ waitGroup' = waitGroup - 1
  /\ runnerWaiter' = Woken(waitGroup - 1)
  /\ UNCHANGED <<limitChan, covers>>

\* The calls that have been made and whose task is not over.
Begun == {c \in RunnerCalls : runnerCall[c] \in {"block", "try", "task", "done"}}

RunnerWait(w) ==
  /\ runnerWaiter[w] = "idle"
  /\ runnerWaiter' = [runnerWaiter EXCEPT ![w] = IF waitGroup = 0 THEN "returned" ELSE "waiting"]
  /\ covers' = [covers EXCEPT ![w] = Begun]
  /\ UNCHANGED <<runnerCall, limitChan, waitGroup>>

RunnerWaitReturns(w) ==
  /\ runnerWaiter[w] = "woken"
  /\ runnerWaiter' = [runnerWaiter EXCEPT ![w] = IF waitGroup = 0 THEN "returned" ELSE "panicked"]
  /\ UNCHANGED <<runnerCall, limitChan, waitGroup, covers>>

CallRuns(c) == TakePlace(c, "block") \/ TakePlace(c, "try") \/ RunnerRefuse(c) \/ TaskEnds(c) \/ TaskDone(c)

RunnerNext ==
  \/ \E c \in RunnerCalls : Schedule(c) \/ ScheduleImmediately(c) \/ CallRuns(c)
  \/ \E w \in RunnerWaiters : RunnerWait(w) \/ RunnerWaitReturns(w)

RunnerSpec == RunnerInit /\ [][RunnerNext]_runnerVars

\* What happens by itself: tasks end, goroutines are scheduled, a channel with
\* room takes an element.
RunnerGoes == (\E c \in RunnerCalls : CallRuns(c)) \/ \E w \in RunnerWaiters : RunnerWaitReturns(w)

-----------------------------------------------------------------------------
\* Both counters are what the goroutines hold: the channel never has more
\* tasks than its capacity, and a refused call leaves no trace in either.
RunnerCounted ==
  /\ limitChan = Cardinality({c \in RunnerCalls : runnerCall[c] = "task"}) /\ limitChan <= Concurrency
  /\ waitGroup = Cardinality(Begun)

\* "in case of race condition on starting a task and wait returns": when Wait
\* returns, no task whose Schedule came before it is running or still to run.
WaitCovers ==
  \A w \in RunnerWaiters : runnerWaiter[w] \in {"woken", "returned", "panicked"} => covers[w] \cap Begun = {}

\* Nobody is left behind: every call takes a bounded number of steps, and when
\* none can be taken, every Schedule has had its place, every task is over and
\* every Wait is back.
RunnerNoneStuck ==
  ~ENABLED RunnerGoes =>
    /\ \A c \in RunnerCalls : runnerCall[c] \in {"idle", "over", "refused"}
    /\ \A w \in RunnerWaiters : runnerWaiter[w] \in {"idle", "returned", "panicked"}

(***************************************************************************)
(* core/threading/stablerunner.go: messages are handled concurrently and   *)
(* taken out in the order they were pushed.                                *)
(*                                                                         *)
(* A message is named by the index that its Push got.  holder.lock is      *)
(* taken by Push and released by the task when it has put its result in    *)
(* holder.value.  The TaskRunner is its number of places.                  *)
(***************************************************************************)
CONSTANTS Pushers,
          BufSize,      \* slots of the ring
          NumCPU,       \* places of the runner
          MaxMessages   \* bound: messages pushed

ASSUME StableAssumption == IsFiniteSet(Pushers) /\ BufSize \in Nat \ {0} /\ MaxMessages \in Nat

VARIABLES pusher,     \* where a Push is, and the index it got
          written, consumed,
          value,      \* holder.value of each slot; 0 is empty
          lockedBy,   \* holder.lock of each slot: the message, or 0
          task,       \* the messages whose task runs, and how far it is
          getter, gotten,
          waitStep,   \* Wait: none, runner, loop, returned
          overtaken, handlerPanicked, latePush, \* history
          accepted    \* history: the messages whose Push had returned when Wait was called

stableVars == <<pusher, written, consumed, value, lockedBy, task, getter, gotten, waitStep,
                overtaken, handlerPanicked, latePush, accepted>>

Messages == 1..MaxMessages
Slot(m) == (m - 1) % BufSize
closed == waitStep # "none"

StableInit ==
  /\ pusher = [p \in Pushers |-> <<"out", 0>>]
  /\ written = 0 /\ consumed = 0
  /\ value = [s \in 0..(BufSize - 1) |-> 0]
  /\ lockedBy = [s \in 0..(BufSize - 1) |-> 0]
  /\ task = [m \in Messages |-> "none"]
  /\ getter = "get" /\ gotten = <<>> /\ waitStep = "none"
  /\ overtaken = FALSE /\ handlerPanicked = FALSE /\ latePush = FALSE /\ accepted = {}

PusherAt(p, s, m) == pusher' = [pusher EXCEPT ![p] = <<s, m>>]

\* Push finds r.done open; the index comes later.
Push(p) ==
  /\ pusher[p][1] = "out" /\ ~closed
  /\ written + Cardinality({q \in Pushers : pusher[q][1] = "index"}) < MaxMessages
  /\ PusherAt(p, "index", 0)
  /\ UNCHANGED <<written, consumed, value, lockedBy, task, getter, gotten, waitStep,
                 overtaken, handlerPanicked, latePush, accepted>>

PushIndex(p) ==
  /\ pusher[p][1] = "index"
  /\ written' = written + 1
  /\ PusherAt(p, "lock", written + 1)
  /\ UNCHANGED <<consumed, value, lockedBy, task, getter, gotten, waitStep,
                 overtaken, handlerPanicked, latePush, accepted>>

\* Mutant of PushLock: the slot is not locked.
PushLockFree(p) ==
  /\ pusher[p][1] = "lock"
  /\ PusherAt(p, "schedule", pusher[p][2])
  /\ UNCHANGED <<written, consumed, value, lockedBy, task, getter, gotten, waitStep,
                 overtaken, handlerPanicked, latePush, accepted>>

\* holder.lock.Lock(): in no order among several pushers.
PushLock(p) ==
  LET m == pusher[p][2]
  IN /\ pusher[p][1] = "lock" /\ lockedBy[Slot(m)] = 0
     /\ lockedBy' = [lockedBy EXCEPT ![Slot(m)] = m]
     /\ PusherAt(p, "schedule", m)
     /\ overtaken' = (overtaken \/ \E q \in Pushers : /\ pusher[q][1] = "lock"
                                                      /\ pusher[q][2] < m
                                                      /\ Slot(pusher[q][2]) = Slot(m))
     /\ UNCHANGED <<written, consumed, value, task, getter, gotten, waitStep, handlerPanicked, latePush, accepted>>

StableRunning == {m \in Messages : task[m] \in {"handle", "send"}}

\* runner.Schedule waits for a place; then Push returns nil.
PushSchedule(p) ==
  /\ pusher[p][1] = "schedule" /\ Cardinality(StableRunning) < NumCPU
  /\ task' = [task EXCEPT ![pusher[p][2]] = "handle"]
  /\ PusherAt(p, "out", 0)
  /\ UNCHANGED <<written, consumed, value, lockedBy, getter, gotten, waitStep,
                 overtaken, handlerPanicked, latePush, accepted>>

Handled(m) ==
  /\ task[m] = "handle"
  /\ task' = [task EXCEPT ![m] = "send"]
  /\ UNCHANGED <<pusher, written, consumed, value, lockedBy, getter, gotten, waitStep,
                 overtaken, handlerPanicked, latePush, accepted>>

\* The runner recovers the panic; the lock is released and there is no result.
HandlePanics(m) ==
  /\ task[m] = "handle"
  /\ task' = [task EXCEPT ![m] = "panicked"] /\ handlerPanicked' = TRUE
  /\ lockedBy' = [lockedBy EXCEPT ![Slot(m)] = 0]
  /\ UNCHANGED <<pusher, written, consumed, value, getter, gotten, waitStep, overtaken, latePush, accepted>>

\* Mutant of StableSend: the lock is not released.
StableSendKeeps(m) ==
  /\ task[m] = "send" /\ value[Slot(m)] = 0
  /\ value' = [value EXCEPT ![Slot(m)] = m]
  /\ task' = [task EXCEPT ![m] = "sent"]
  /\ UNCHANGED <<pusher, written, consumed, lockedBy, getter, gotten, waitStep,
                 overtaken, handlerPanicked, latePush, accepted>>

\* holder.value <- o waits for the room of the slot's last result; then Unlock.
StableSend(m) ==
  /\ task[m] = "send" /\ value[Slot(m)] = 0
  /\ value' = [value EXCEPT ![Slot(m)] = m]
  /\ lockedBy' = [lockedBy EXCEPT ![Slot(m)] = 0]
  /\ task' = [task EXCEPT ![m] = "sent"]
  /\ UNCHANGED <<pusher, written, consumed, getter, gotten, waitStep, overtaken, handlerPanicked, latePush, accepted>>

\* Get: the value of the next slot, and the deferred increment.
GetValue ==
  /\ getter \in {"get", "last"} /\ value[consumed % BufSize] # 0
  /\ gotten' = Append(gotten, value[consumed % BufSize])
  /\ value' = [value EXCEPT ![consumed % BufSize] = 0]
  /\ consumed' = consumed + 1 /\ getter' = "get"
  /\ UNCHANGED <<pusher, written, lockedBy, task, waitStep, overtaken, handlerPanicked, latePush, accepted>>

\* Mutant of GetDone: a closed runner is not asked for what it still has.
GetDoneLoses ==
  /\ getter = "get" /\ closed
  /\ getter' = "over" /\ consumed' = consumed + 1
  /\ UNCHANGED <<pusher, written, value, lockedBy, task, gotten, waitStep,
                 overtaken, handlerPanicked, latePush, accepted>>

\* Get finds r.done: it waits for a message that is still to come, or returns
\* ErrRunnerClosed (and increments consumedIndex all the same).
GetDone ==
  /\ getter = "get" /\ closed
  /\ IF consumed < written THEN getter' = "last" /\ UNCHANGED consumed
                           ELSE getter' = "over" /\ consumed' = consumed + 1
  /\ UNCHANGED <<pusher, written, value, lockedBy, task, gotten, waitStep,
                 overtaken, handlerPanicked, latePush, accepted>>

Pushing(m) == \E p \in Pushers : pusher[p][2] = m

StableWait ==
  /\ waitStep = "none"
  /\ waitStep' = "runner" /\ accepted' = {m \in 1..written : ~Pushing(m)}
  /\ latePush' = \E p \in Pushers : pusher[p][1] = "index"
  /\ UNCHANGED <<pusher, written, consumed, value, lockedBy, task, getter, gotten, overtaken, handlerPanicked>>

\* runner.Wait(): no task runs and none waits for a place.
WaitRunner ==
  /\ waitStep = "runner" /\ StableRunning = {} /\ \A p \in Pushers : pusher[p][1] # "schedule"
  /\ waitStep' = "loop"
  /\ UNCHANGED <<pusher, written, consumed, value, lockedBy, task, getter, gotten,
                 overtaken, handlerPanicked, latePush, accepted>>

WaitLoop ==
  /\ waitStep = "loop" /\ consumed >= written
  /\ waitStep' = "returned"
  /\ UNCHANGED <<pusher, written, consumed, value, lockedBy, task, getter, gotten,
                 overtaken, handlerPanicked, latePush, accepted>>

StablePush(p) == PushIndex(p) \/ PushLock(p) \/ PushSchedule(p)
StableGet == GetValue \/ GetDone
StableWaits == WaitRunner \/ WaitLoop

StableNext ==
  \/ \E p \in Pushers : Push(p) \/ StablePush(p)
  \/ \E m \in Messages : Handled(m) \/ HandlePanics(m) \/ StableSend(m)
  \/ StableGet \/ StableWait \/ StableWaits

StableSpec == StableInit /\ [][StableNext]_stableVars

\* What happens by itself: handlers end, and somebody calls Get until it fails.
StableGoes ==
  \/ \E p \in Pushers : PushLock(p) \/ PushSchedule(p) \/ PushIndex(p)
  \/ \E m \in Messages : Handled(m) \/ StableSend(m)
  \/ StableGet \/ StableWaits

-----------------------------------------------------------------------------
\* "messages are taken out with the pushed order": the n-th Get returns the n-th
\* message, unless a handler has panicked (its slot then passes to the message
\* BufSize later) or a Push took the lock of a slot before an earlier Push did.
TakenInOrder ==
  ~overtaken /\ ~handlerPanicked => \A i \in 1..Len(gotten) : gotten[i] = i

\* "Wait waits all the messages to be processed and taken from inner buffer":
\* every message whose Push had returned before Wait was called.  A Push that
\* runs into Wait may lose its message, since Get counts its last call too.
WaitTakesAll ==
  waitStep = "returned" /\ ~overtaken /\ ~handlerPanicked =>
    \A m \in accepted : \E i \in 1..Len(gotten) : gotten[i] = m

\* Wait comes back: when nothing can happen by itself, it is not waiting, unless
\* a handler has panicked, slots were taken out of order, or a Push that had found
\* the runner open took its index after Wait was called.
WaitReturns ==
  ~ENABLED StableGoes /\ waitStep # "none" =>
    waitStep = "returned" \/ handlerPanicked \/ overtaken \/ latePush

-----------------------------------------------------------------------------
(***************************************************************************)
(* core/syncx/lockedcalls.go: Do for one key.  The wait group of a call is *)
(* named by the goroutine that makes the call; the sections under lg.mu    *)
(* are one step each, and Done wakes whoever has found the wait group.     *)
(***************************************************************************)
CONSTANTS LockedCallers, Nobody

ASSUME LockedAssumption == Nobody \notin LockedCallers

VARIABLES lockedCaller,  \* out, begin, wait, fn, done
          inMap,         \* lg.m[key]: whose call
          waitsFor       \* whose wait group a goroutine waits for

lockedVars == <<lockedCaller, inMap, waitsFor>>

LockedInit ==
  /\ lockedCaller = [c \in LockedCallers |-> "out"]
  /\ inMap = Nobody
  /\ waitsFor = [c \in LockedCallers |-> Nobody]

LockedCallerAt(c, s) == lockedCaller' = [lockedCaller EXCEPT ![c] = s]

LockedDo(c) ==
  /\ lockedCaller[c] = "out" /\ LockedCallerAt(c, "begin")
  /\ UNCHANGED <<inMap, waitsFor>>

FoundCall(c) ==
  /\ lockedCaller[c] = "begin" /\ inMap # Nobody
  /\ LockedCallerAt(c, "wait")
  /\ waitsFor' = [waitsFor EXCEPT ![c] = inMap]
  /\ UNCHANGED inMap

\* Mutant of MakeLockedCall: a goroutine that has waited does not look again.
MakeCallAnyhow(c) ==
  /\ lockedCaller[c] = "begin" /\ (inMap = Nobody \/ waitsFor[c] # Nobody)
  /\ LockedCallerAt(c, "fn") /\ inMap' = c
  /\ UNCHANGED waitsFor

MakeLockedCall(c) ==
  /\ lockedCaller[c] = "begin" /\ inMap = Nobody
  /\ LockedCallerAt(c, "fn") /\ inMap' = c
  /\ UNCHANGED waitsFor

\* Mutant of LockedFnEnds: a panic leaves the key in the map.
LockedFnEndsDirty(c) ==
  /\ lockedCaller[c] = "fn"
  /\ LockedCallerAt(c, "done") /\ inMap' \in {inMap, Nobody}
  /\ UNCHANGED waitsFor

\* fn returns or panics; the deferred function deletes the key, then calls Done.
LockedFnEnds(c) ==
  /\ lockedCaller[c] = "fn"
  /\ LockedCallerAt(c, "done") /\ inMap' = Nobody
  /\ UNCHANGED waitsFor

LockedDone(c) ==
  /\ lockedCaller[c] = "done"
  /\ lockedCaller' = [d \in LockedCallers |->
                        IF d = c THEN "out"
                        ELSE IF lockedCaller[d] = "wait" /\ waitsFor[d] = c THEN "begin"
                        ELSE lockedCaller[d]]
  /\ UNCHANGED <<inMap, waitsFor>>

LockedNext ==
  \E c \in LockedCallers : \/ LockedDo(c) \/ FoundCall(c) \/ MakeLockedCall(c)
                           \/ LockedFnEnds(c) \/ LockedDone(c)

LockedSpec == LockedInit /\ [][LockedNext]_lockedVars

\* "LockedCalls makes sure the calls with the same key to be called sequentially."
CallsAlone == Cardinality({c \in LockedCallers : lockedCaller[c] = "fn"}) <= 1

\* A goroutine in Wait will be woken: the call it has found has not called Done,
\* and a call in the map is one that will delete itself.
LockedNoneStuck ==
  /\ \A c \in LockedCallers : lockedCaller[c] = "wait" => lockedCaller[waitsFor[c]] \in {"fn", "done"}
  /\ inMap # Nobody => lockedCaller[inMap] = "fn"
=============================================================================
