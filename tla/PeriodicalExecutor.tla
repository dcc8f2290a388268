------------------------- MODULE PeriodicalExecutor -------------------------
(***************************************************************************)
(* core/executors/periodicalexecutor.go, with the containers of            *)
(* bulkexecutor.go and chunkexecutor.go.                                   *)
(*                                                                         *)
(* The goroutines are the callers (Clients: Add, Flush, Wait) and the      *)
(* background flushers (Flushers) that the executor starts and stops by    *)
(* itself.  A section under pe.lock never blocks, so it is one step; the   *)
(* barrier is held across waitGroup.Wait and is a variable.  A task is a   *)
(* model value and a batch a set of tasks.  Execute is the user's and      *)
(* RunSafe recovers its panics: a batch is executed when Execute has       *)
(* ended, in either way.                                                   *)
(***************************************************************************)
EXTENDS Integers, Sequences, FiniteSets, Functions

CONSTANTS Clients,    \* goroutines that call the executor
          Adders,     \* those of them that call Add
          Waiters,    \* those of them that call Flush and Wait
          Flushers,   \* identities of background goroutines (bounds those alive)
          Tasks,      \* each is added at most once
          Chunked,    \* the container: chunkContainer or bulkContainer
          Size,       \* size of each task of a chunkContainer
          MaxSize,    \* maxTasks, maxChunkSize
          IdleRound   \* const idleRound

ASSUME GoroutinesAssumption ==
  /\ Adders \subseteq Clients /\ Waiters \subseteq Clients
  /\ Clients \cap Flushers = {}
  /\ IsFiniteSet(Clients) /\ IsFiniteSet(Flushers)
ASSUME SizeAssumption == Chunked \in BOOLEAN /\ Size \in [Tasks -> Nat] /\ MaxSize \in Nat \ {0}
ASSUME IdleRoundAssumption == IdleRound \in Nat

Procs == Clients \cup Flushers

VARIABLES container,  \* the container's tasks
          commander,  \* chan any, buffer 1: batches on their way to the flusher
          inflight,   \* batches taken by Add and received by no flusher yet
          guarded,    \* a background flusher serves the executor
          waitGroup,  \* the counter of waitGroup
          barrier,    \* the clients inside Wait's wgBarrier.Guard
          pc,         \* control point of every goroutine
          ret,        \* where a goroutine continues after executeTasks
          batch,      \* the batch a goroutine holds
          commanded,  \* the flushers whose local commanded is set
          ticker,     \* the flushers with a tick in ticker.Chan()
          idle,       \* intervals since a flusher's last
          added,      \* history: tasks handed to AddTask
          returned,   \* history: tasks whose Add has returned
          adding,     \* history: the task (as a set) a client is adding
          executed,   \* history: tasks Execute has handled
          runs,       \* history: how often Execute has been handed a task
          awaited     \* history: what had returned when a client called Wait

pool == <<container, commander, inflight, guarded>>
group == <<waitGroup, barrier>>
local == <<commanded, ticker, idle>>
history == <<added, returned, adding, executed, runs, awaited>>
vars == <<container, commander, inflight, guarded, waitGroup, barrier, pc, ret,
          batch, commanded, ticker, idle, added, returned, adding, executed,
          runs, awaited>>

Goto(p, l) == pc' = [pc EXCEPT ![p] = l]

Init ==
  /\ container = {} /\ commander = <<>> /\ inflight = 0 /\ guarded = FALSE
  /\ waitGroup = 0 /\ barrier = {}
  /\ pc = [p \in Procs |-> IF p \in Clients THEN "ready" ELSE "off"]
  /\ ret = [p \in Procs |-> "ready"]
  /\ batch = [p \in Procs |-> {}]
  /\ commanded = {} /\ ticker = {} /\ idle = [f \in Flushers |-> 0]
  /\ added = {} /\ returned = {} /\ executed = {} /\ runs = [t \in Tasks |-> 0]
  /\ adding = [c \in Clients |-> {}]
  /\ awaited = [c \in Clients |-> {}]

(***************************************************************************)
(* The container: AddTask answers whether the tasks must be flushed now.   *)
(***************************************************************************)
BulkFull(tasks) == Cardinality(tasks) >= MaxSize
ChunkFull(tasks) == FoldFunctionOnSet(+, 0, Size, tasks) >= MaxSize

AddTask(tasks) == IF Chunked THEN ChunkFull(tasks) ELSE BulkFull(tasks)

HasTasks(tasks) == tasks # {}

(***************************************************************************)
(* Add.  The locked section of addAndCheck adds the task, takes the batch  *)
(* when the container is full, and claims the flusher's start; the go      *)
(* statement runs after the unlock.                                        *)
(***************************************************************************)
\* Mutant of AddAndCheck: the batch is taken before the task is in it.
AddDropsTask(c, t) ==
  /\ pc[c] = "ready" /\ c \in Adders /\ t \notin added
  /\ added' = added \cup {t} /\ guarded' = TRUE
  /\ LET full == AddTask(container \cup {t})
     IN /\ container' = IF full THEN {} ELSE container \cup {t}
        /\ inflight' = IF full THEN inflight + 1 ELSE inflight
        /\ batch' = [batch EXCEPT ![c] = IF full THEN container ELSE {}]
        /\ Goto(c, IF ~guarded THEN "go" ELSE IF full THEN "send" ELSE "return")
  /\ adding' = [adding EXCEPT ![c] = {t}]
  /\ UNCHANGED <<commander, group, ret, local, returned, executed, runs, awaited>>

AddAndCheck(c, t) ==
  /\ pc[c] = "ready" /\ c \in Adders /\ t \notin added
  /\ added' = added \cup {t}
  /\ adding' = [adding EXCEPT ![c] = {t}]
  /\ guarded' = TRUE
  /\ LET tasks == container \cup {t}
         full  == AddTask(tasks)
     IN /\ container' = IF full THEN {} ELSE tasks
        /\ inflight' = IF full THEN inflight + 1 ELSE inflight
        /\ batch' = [batch EXCEPT ![c] = IF full THEN tasks ELSE {}]
        /\ Goto(c, IF ~guarded THEN "go" ELSE IF full THEN "send" ELSE "return")
  /\ UNCHANGED <<commander, group, ret, local, returned, executed, runs, awaited>>

\* go func() in backgroundFlush: a fresh goroutine with its ticker.
BackgroundFlush(c, f) ==
  /\ pc[c] = "go" /\ pc[f] = "off"
  /\ pc' = [pc EXCEPT ![c] = IF batch[c] = {} THEN "return" ELSE "send", ![f] = "select"]
  /\ ret' = [ret EXCEPT ![f] = "select"]
  /\ commanded' = commanded \ {f}
  /\ ticker' = ticker \ {f}
  /\ idle' = [idle EXCEPT ![f] = 0]
  /\ UNCHANGED <<pool, group, batch, history>>

AddReturn(c) ==
  /\ pc[c] = "return"
  /\ Goto(c, "ready")
  /\ returned' = returned \cup adding[c]
  /\ adding' = [adding EXCEPT ![c] = {}]
  /\ UNCHANGED <<pool, group, ret, batch, local, added, executed, runs, awaited>>

\* pe.commander <- vals
Send(c) ==
  /\ pc[c] = "send" /\ commander = <<>>
  /\ commander' = <<batch[c]>>
  /\ batch' = [batch EXCEPT ![c] = {}]
  /\ Goto(c, "confirm")
  /\ UNCHANGED <<container, inflight, guarded, group, ret, local, history>>

(***************************************************************************)
(* Flush and executeTasks, shared by all the goroutines: ret says where    *)
(* the caller continues.                                                   *)
(***************************************************************************)
EnterExecution ==
  /\ barrier = {}
  /\ waitGroup' = waitGroup + 1
  /\ UNCHANGED barrier

FlushEnter(p) ==
  /\ pc[p] = "flush"
  /\ EnterExecution
  /\ Goto(p, "remove")
  /\ UNCHANGED <<pool, ret, batch, local, history>>

\* Mutant of FlushRemove: RemoveAll leaves the tasks in the container.
FlushKeeps(p) ==
  /\ pc[p] = "remove"
  /\ batch' = [batch EXCEPT ![p] = container]
  /\ Goto(p, "execute")
  /\ UNCHANGED <<pool, group, ret, local, history>>

FlushRemove(p) ==
  /\ pc[p] = "remove"
  /\ batch' = [batch EXCEPT ![p] = container]
  /\ container' = {}
  /\ Goto(p, "execute")
  /\ UNCHANGED <<commander, inflight, guarded, group, ret, local, history>>

Execute(p) ==
  /\ pc[p] = "execute"
  /\ executed' = executed \cup batch[p]
  /\ runs' = [t \in Tasks |-> IF t \in batch[p] THEN runs[t] + 1 ELSE runs[t]]
  /\ Goto(p, "done")
  /\ UNCHANGED <<pool, group, ret, batch, local, added, returned, adding, awaited>>

\* Mutant of DoneExecution: last = Now() after every Flush.
DoneRefreshes(p) ==
  /\ pc[p] = "done"
  /\ waitGroup' = waitGroup - 1
  /\ batch' = [batch EXCEPT ![p] = {}]
  /\ Goto(p, IF ret[p] = "tick"
             THEN IF HasTasks(batch[p]) THEN "select" ELSE "shallquit"
             ELSE ret[p])
  /\ idle' = [f \in Flushers |-> IF f = p THEN 0 ELSE idle[f]]
  /\ UNCHANGED <<pool, barrier, ret, commanded, ticker, history>>

\* After a tick, Flush() decides between last = Now() and shallQuit.
DoneExecution(p) ==
  /\ pc[p] = "done"
  /\ waitGroup' = waitGroup - 1
  /\ batch' = [batch EXCEPT ![p] = {}]
  /\ Goto(p, IF ret[p] = "tick"
             THEN IF HasTasks(batch[p]) THEN "select" ELSE "shallquit"
             ELSE ret[p])
  /\ idle' = [f \in Flushers |->
                IF f = p /\ (ret[p] = "select" \/ (ret[p] = "tick" /\ HasTasks(batch[p])))
                THEN 0 ELSE idle[f]]
  /\ UNCHANGED <<pool, barrier, ret, commanded, ticker, history>>

(***************************************************************************)
(* Callers of Flush and Wait.                                              *)
(***************************************************************************)
CallFlush(c) ==
  /\ pc[c] = "ready" /\ c \in Waiters
  /\ Goto(c, "flush")
  /\ ret' = [ret EXCEPT ![c] = "ready"]
  /\ UNCHANGED <<pool, group, batch, local, history>>

CallWait(c) ==
  /\ pc[c] = "ready" /\ c \in Waiters
  /\ Goto(c, "flush")
  /\ ret' = [ret EXCEPT ![c] = "guard"]
  /\ awaited' = [awaited EXCEPT ![c] = returned]
  /\ UNCHANGED <<pool, group, batch, local, added, returned, adding, executed,
                  runs>>

WaitGuard(c) ==
  /\ pc[c] = "guard" /\ barrier = {}
  /\ barrier' = {c}
  /\ Goto(c, "wait")
  /\ UNCHANGED <<pool, waitGroup, ret, batch, local, history>>

\* Mutant of WaitReturn: the waitGroup is not waited for.
WaitUncounted(c) ==
  /\ pc[c] = "wait"
  /\ barrier' = {}
  /\ Goto(c, "ready")
  /\ awaited' = [awaited EXCEPT ![c] = {}]
  /\ UNCHANGED <<pool, waitGroup, ret, batch, local, added, returned, adding, executed,
                  runs>>

WaitReturn(c) ==
  /\ pc[c] = "wait" /\ waitGroup = 0
  /\ barrier' = {}
  /\ Goto(c, "ready")
  /\ awaited' = [awaited EXCEPT ![c] = {}]
  /\ UNCHANGED <<pool, waitGroup, ret, batch, local, added, returned, adding, executed,
                  runs>>

(***************************************************************************)
(* The background flusher's select loop.                                   *)
(***************************************************************************)
Receive(f) ==
  /\ pc[f] = "select" /\ commander # <<>>
  /\ batch' = [batch EXCEPT ![f] = commander[1]]
  /\ commander' = <<>>
  /\ commanded' = commanded \cup {f}
  /\ inflight' = inflight - 1
  /\ Goto(f, "enter")
  /\ UNCHANGED <<container, guarded, group, ret, ticker, idle, history>>

CommandEnter(f) ==
  /\ pc[f] = "enter"
  /\ EnterExecution
  /\ Goto(f, "reply")
  /\ UNCHANGED <<pool, ret, batch, local, history>>

\* pe.confirmChan <- Placeholder meets any client at <-pe.confirmChan.
Confirm(f, c) ==
  /\ pc[f] = "reply" /\ pc[c] = "confirm"
  /\ pc' = [pc EXCEPT ![f] = "execute", ![c] = "return"]
  /\ ret' = [ret EXCEPT ![f] = "select"]
  /\ UNCHANGED <<pool, group, batch, local, history>>

Tick(f) ==
  /\ pc[f] = "select" /\ f \in ticker
  /\ ticker' = ticker \ {f}
  /\ commanded' = commanded \ {f}
  /\ IF f \in commanded
     THEN UNCHANGED <<pc, ret>>
     ELSE Goto(f, "flush") /\ ret' = [ret EXCEPT ![f] = "tick"]
  /\ UNCHANGED <<pool, group, batch, idle, history>>

\* Mutants of ShallQuit: inflight is not looked at; no Flush before quitting.
QuitUnchecked(f) ==
  /\ pc[f] = "shallquit" /\ idle[f] > IdleRound
  /\ guarded' = FALSE
  /\ Goto(f, "flush")
  /\ ret' = [ret EXCEPT ![f] = "off"]
  /\ UNCHANGED <<container, commander, inflight, group, batch, local, history>>

QuitUnflushed(f) ==
  /\ pc[f] = "shallquit"
  /\ IF idle[f] > IdleRound /\ inflight = 0
     THEN guarded' = FALSE /\ Goto(f, "off")
     ELSE Goto(f, "select") /\ UNCHANGED guarded
  /\ UNCHANGED <<container, commander, inflight, group, ret, batch, local, history>>

\* Quitting stops the ticker and runs the deferred Flush.
ShallQuit(f) ==
  /\ pc[f] = "shallquit"
  /\ IF idle[f] > IdleRound /\ inflight = 0
     THEN /\ guarded' = FALSE
          /\ Goto(f, "flush")
          /\ ret' = [ret EXCEPT ![f] = "off"]
          /\ ticker' = ticker \ {f}
          /\ idle' = [idle EXCEPT ![f] = 0]
     ELSE Goto(f, "select") /\ UNCHANGED <<guarded, ret, ticker, idle>>
  /\ UNCHANGED <<container, commander, inflight, group, batch, commanded, history>>

\* An interval passes: the ticker keeps one tick, last lies further back.
IntervalElapses(f) ==
  /\ pc[f] # "off" /\ ret[f] # "off"
  /\ f \notin ticker \/ idle[f] <= IdleRound
  /\ ticker' = ticker \cup {f}
  /\ idle' = [idle EXCEPT ![f] = IF @ <= IdleRound THEN @ + 1 ELSE @]
  /\ UNCHANGED <<pool, group, pc, ret, batch, commanded, history>>

(***************************************************************************)
(* The specification.  Fairness: the Go scheduler runs every goroutine     *)
(* that can run, Execute ends and tickers tick.  It is strong because a    *)
(* mutex starves nobody, senders and receivers of a channel queue in       *)
(* order, and a select picks at random among its ready cases.  A client    *)
(* stays at one step of a call until it takes it, so one condition covers  *)
(* them all; clients owe no calls.                                         *)
(***************************************************************************)
Flush(p) == FlushEnter(p) \/ FlushRemove(p) \/ Execute(p) \/ DoneExecution(p)

\* The steps of a client that is in a call.
Call(c) == \/ Flush(c) \/ Send(c) \/ AddReturn(c) \/ WaitGuard(c) \/ WaitReturn(c)
           \/ \E f \in Flushers : BackgroundFlush(c, f) \/ Confirm(f, c)

\* The steps of a flusher other than the command case of its select.
Loop(f) == Flush(f) \/ CommandEnter(f) \/ Tick(f) \/ ShallQuit(f)

Next ==
  \/ \E c \in Clients : \/ \E t \in Tasks : AddAndCheck(c, t)
                        \/ CallFlush(c) \/ CallWait(c) \/ Call(c)
  \/ \E f \in Flushers : Receive(f) \/ Loop(f) \/ IntervalElapses(f)

Fairness ==
  /\ \A c \in Clients : SF_vars(Call(c))
  /\ \A f \in Flushers : SF_vars(Receive(f)) /\ SF_vars(Loop(f)) /\ WF_vars(IntervalElapses(f))

Spec == Init /\ [][Next]_vars
FairSpec == Spec /\ Fairness

-----------------------------------------------------------------------------
(***************************************************************************)
(* Safety.                                                                 *)
(***************************************************************************)
ClientPC == {"ready", "go", "send", "confirm", "return", "flush", "remove",
             "execute", "done", "guard", "wait"}
FlusherPC == {"off", "select", "enter", "reply", "flush", "remove", "execute",
              "done", "shallquit"}

PoolTypes ==
  /\ container \subseteq Tasks
  /\ batch \in [Procs -> SUBSET Tasks]
  /\ commander \in {<<>>} \cup {<<b>> : b \in SUBSET Tasks}
  /\ inflight \in Int /\ waitGroup \in Int /\ barrier \subseteq Clients
ThreadTypes ==
  /\ pc \in [Procs -> ClientPC \cup FlusherPC]
  /\ \A c \in Clients : pc[c] \in ClientPC
  /\ \A f \in Flushers : pc[f] \in FlusherPC
  /\ ret \in [Procs -> {"ready", "guard", "select", "tick", "off"}]
LoopTypes ==
  /\ commanded \subseteq Flushers /\ ticker \subseteq Flushers
  /\ idle \in [Flushers -> 0..IdleRound + 1]
HistoryTypes ==
  /\ added \subseteq Tasks /\ returned \subseteq Tasks /\ executed \subseteq Tasks
  /\ runs \in [Tasks -> Nat]
  /\ adding \in [Clients -> SUBSET Tasks] /\ awaited \in [Clients -> SUBSET Tasks]

\* Every variable keeps its Go type; the buffer of commander holds one batch.
TypeOK == PoolTypes /\ guarded \in BOOLEAN /\ ThreadTypes /\ LoopTypes /\ HistoryTypes

\* Which control points hold a batch, and where executeTasks may return to.
Control ==
  /\ \A c \in Clients : ret[c] \in {"ready", "guard"}
  /\ \A f \in Flushers :
       /\ pc[f] \in {"flush", "remove"} => ret[f] \in {"tick", "off"}
       /\ pc[f] \in {"execute", "done"} => ret[f] \in {"tick", "off", "select"}
       /\ ret[f] = "off" => pc[f] \in {"flush", "remove", "execute", "done", "off"}
  /\ \A p \in Procs : pc[p] \notin {"go", "send", "enter", "reply", "execute", "done"}
                        => batch[p] = {}

\* Goroutines between enterExecution and doneExecution; adders with a batch to
\* send; adders and flushers on the two sides of a confirmation.
Executing == {p \in Procs : pc[p] \in {"remove", "reply", "execute", "done"}}
Sending == {c \in Clients : pc[c] = "send" \/ (pc[c] = "go" /\ batch[c] # {})}
Confirming == {c \in Clients : pc[c] = "confirm"}
Replying == {f \in Flushers : pc[f] \in {"enter", "reply"}}

\* The counters and the handshake agree with the goroutines: waitGroup counts
\* the executions entered and not done, inflight the batches that no flusher
\* has received, and every Add at confirmChan has its own confirmation to come.
CountersExact ==
  /\ waitGroup = Cardinality(Executing)
  /\ inflight = Cardinality(Sending) + Len(commander)
  /\ Cardinality(Confirming) = Cardinality(Replying) + Len(commander)

\* The tasks a goroutine still has to execute.
Held(p) == IF pc[p] = "done" THEN {} ELSE batch[p]
InHands == {t \in Tasks : \E p \in Procs : t \in Held(p)}
Queued == IF commander = <<>> THEN {} ELSE commander[1]

\* No task is lost between Add, the channel, the flushers and Execute: every
\* added task is in the container, in the channel, with a goroutine, or executed.
NoTaskLost ==
  added = container \cup Queued \cup InHands \cup executed

\* A task is in one of those places only, so no interleaving of Add, Flush,
\* Wait and the flushers hands it to Execute twice.
NoTaskTwice ==
  /\ container \cap (Queued \cup executed) = {}
  /\ Queued \cap executed = {}
  /\ \A p \in Procs : Held(p) \cap (container \cup Queued \cup executed) = {}
  /\ \A p, q \in Procs : p # q => Held(p) \cap Held(q) = {}

\* Whatever Add, Flush, Wait and the flushers do, every added task is in one
\* place, and the goroutines hold batches only where the code does.
TasksKept == TypeOK /\ Control /\ NoTaskLost /\ NoTaskTwice

\* A flusher in its loop, or about to be started.
Serving(p) == \/ p \in Clients /\ pc[p] = "go"
              \/ p \in Flushers /\ pc[p] # "off" /\ ret[p] # "off"

\* guarded says whether a flusher serves the executor, and there is never a
\* second one to receive commands.
OneFlusher ==
  /\ guarded <=> \E p \in Procs : Serving(p)
  /\ \A p, q \in Procs : Serving(p) /\ Serving(q) => p = q

\* A flusher never quits under an Add that waits for it: while a batch is on
\* its way or unconfirmed, a flusher serves the executor (shallQuit's check of
\* inflight).
NoAdderStranded ==
  (commander # <<>> \/ \E c \in Clients : pc[c] \in {"send", "confirm"}) => guarded

\* Tasks left in the container have a flusher that will look at it: one in its
\* loop, or one (or a caller) about to run RemoveAll.
ContainerWatched ==
  container # {} => \/ guarded
                    \/ \E p \in Procs : pc[p] \in {"flush", "remove"}

\* A flusher serves the executor whenever one is needed: one at most, for every
\* Add that waits and for every task in the container, with exact counters.
FlushersServe == OneFlusher /\ CountersExact /\ NoAdderStranded /\ ContainerWatched

\* Wait waits the execution to be done: when it returns to a goroutine that adds
\* tasks, every task whose Add had returned before the call has been executed.
WaitCoversReturned ==
  [][\A c \in Adders : pc[c] = "wait" /\ pc'[c] # "wait" => awaited[c] \subseteq executed]_vars

\* The executor implements the abstract delivery: Execute is handed each added
\* task once, in batches, whatever goroutines do it.
Delivery == INSTANCE TaskDelivery
DeliverySpec == Delivery!Spec

(***************************************************************************)
(* Liveness.                                                               *)
(***************************************************************************)
\* No Add waits for ever on commander or confirmChan, and no Flush or Wait on
\* the barrier or the waitGroup.
CallsReturn == \A c \in Clients : pc[c] # "ready" ~> pc[c] = "ready"

\* Every added task is executed in the end, without any call of Flush or Wait.
Delivered == Delivery!Delivered

\* Once the callers stop adding, the background goroutine goes away.
FlusherQuits == <>[](\A f \in Flushers : pc[f] = "off")

\* Calls return, tasks are executed and the background goroutine goes away.
ExecutorProgress == CallsReturn /\ Delivered /\ FlusherQuits
=============================================================================
