---------------------- MODULE PeriodicalExecutorProofs ----------------------
(***************************************************************************)
(* Proofs about PeriodicalExecutor for every set of goroutines and tasks,  *)
(* every size of the tasks and every limit: where the tasks are, that the  *)
(* executor implements TaskDelivery, who flushes and what the counters     *)
(* count.                                                                  *)
(*                                                                         *)
(* TasksKept is inductive: the types, the control points that may hold a   *)
(* batch, and the two statements about the places of the tasks.  ServeInv  *)
(* needs it and adds the flusher and the counters.                         *)
(***************************************************************************)
EXTENDS PeriodicalExecutor, TLAPS

\* The provers of a leaf, in turn, and their time.
USE ZenonT(5), SMTT(30)

ServeInv == OneFlusher /\ CountersExact

-----------------------------------------------------------------------------
(***************************************************************************)
(* Types and control points.                                               *)
(***************************************************************************)
\* The locals of the flushers, guarded and the history keep their types.
LEMMA StepLocals == PoolTypes /\ guarded \in BOOLEAN /\ LoopTypes /\ HistoryTypes /\ [Next]_vars => (guarded \in BOOLEAN /\ LoopTypes /\ HistoryTypes)'
<1> SUFFICES ASSUME PoolTypes /\ guarded \in BOOLEAN /\ LoopTypes /\ HistoryTypes, [Next]_vars PROVE (guarded \in BOOLEAN /\ LoopTypes /\ HistoryTypes)'
  OBVIOUS
<1> USE IdleRoundAssumption DEF HistoryTypes, LoopTypes, history, local, pool
<1>1. ASSUME NEW c \in Clients, NEW t \in Tasks, AddAndCheck(c, t) PROVE (guarded \in BOOLEAN /\ LoopTypes /\ HistoryTypes)'
  BY <1>1 DEF AddAndCheck
<1>2. ASSUME NEW c \in Clients, NEW f \in Flushers, BackgroundFlush(c, f) PROVE (guarded \in BOOLEAN /\ LoopTypes /\ HistoryTypes)'
  BY <1>2 DEF BackgroundFlush
<1>3. ASSUME NEW c \in Clients, AddReturn(c) PROVE (guarded \in BOOLEAN /\ LoopTypes /\ HistoryTypes)'
  BY <1>3 DEF AddReturn
<1>4. ASSUME NEW c \in Clients, Send(c) PROVE (guarded \in BOOLEAN /\ LoopTypes /\ HistoryTypes)'
  BY <1>4 DEF Send
<1>5. ASSUME NEW c \in Clients, CallFlush(c) PROVE (guarded \in BOOLEAN /\ LoopTypes /\ HistoryTypes)'
  BY <1>5 DEF CallFlush
<1>6. ASSUME NEW c \in Clients, CallWait(c) PROVE (guarded \in BOOLEAN /\ LoopTypes /\ HistoryTypes)'
  BY <1>6 DEF CallWait
<1>7. ASSUME NEW c \in Clients, WaitGuard(c) PROVE (guarded \in BOOLEAN /\ LoopTypes /\ HistoryTypes)'
  BY <1>7 DEF WaitGuard
<1>8. ASSUME NEW c \in Clients, WaitReturn(c) PROVE (guarded \in BOOLEAN /\ LoopTypes /\ HistoryTypes)'
  BY <1>8 DEF WaitReturn
<1>9. ASSUME NEW p \in Procs, FlushEnter(p) PROVE (guarded \in BOOLEAN /\ LoopTypes /\ HistoryTypes)'
  BY <1>9 DEF FlushEnter, EnterExecution
<1>10. ASSUME NEW p \in Procs, FlushRemove(p) PROVE (guarded \in BOOLEAN /\ LoopTypes /\ HistoryTypes)'
  BY <1>10 DEF FlushRemove
<1>11. ASSUME NEW p \in Procs, Execute(p) PROVE (guarded \in BOOLEAN /\ LoopTypes /\ HistoryTypes)'
  <2>1. batch[p] \subseteq Tasks
    BY DEF PoolTypes
  <2> QED  BY <1>11, <2>1 DEF Execute
<1>12. ASSUME NEW p \in Procs, DoneExecution(p) PROVE (guarded \in BOOLEAN /\ LoopTypes /\ HistoryTypes)'
  BY <1>12 DEF DoneExecution
<1>13. ASSUME NEW f \in Flushers, Receive(f) PROVE (guarded \in BOOLEAN /\ LoopTypes /\ HistoryTypes)'
  BY <1>13 DEF Receive
<1>14. ASSUME NEW f \in Flushers, CommandEnter(f) PROVE (guarded \in BOOLEAN /\ LoopTypes /\ HistoryTypes)'
  BY <1>14 DEF CommandEnter, EnterExecution
<1>15. ASSUME NEW f \in Flushers, NEW c \in Clients, Confirm(f, c) PROVE (guarded \in BOOLEAN /\ LoopTypes /\ HistoryTypes)'
  BY <1>15 DEF Confirm
<1>16. ASSUME NEW f \in Flushers, Tick(f) PROVE (guarded \in BOOLEAN /\ LoopTypes /\ HistoryTypes)'
  BY <1>16 DEF Tick
<1>17. ASSUME NEW f \in Flushers, ShallQuit(f) PROVE (guarded \in BOOLEAN /\ LoopTypes /\ HistoryTypes)'
  <2>1. (guarded \in BOOLEAN)'
    BY <1>17 DEF ShallQuit
  <2>2. (LoopTypes /\ HistoryTypes)'
    BY <1>17 DEF ShallQuit
  <2> QED  BY <2>1, <2>2
<1>18. ASSUME NEW f \in Flushers, IntervalElapses(f) PROVE (guarded \in BOOLEAN /\ LoopTypes /\ HistoryTypes)'
  BY <1>18 DEF IntervalElapses
<1>19. CASE UNCHANGED vars
  BY <1>19 DEF vars
<1> QED
  BY <1>1, <1>2, <1>3, <1>4, <1>5, <1>6, <1>7, <1>8, <1>9, <1>10, <1>11,
     <1>12, <1>13, <1>14, <1>15, <1>16, <1>17, <1>18, <1>19
  DEF Next, Call, Loop, Flush, Procs

\* The shared state and the control points keep their types.
LEMMA StepThreads == PoolTypes /\ ThreadTypes /\ Control /\ [Next]_vars => (PoolTypes /\ ThreadTypes)'
<1> SUFFICES ASSUME PoolTypes /\ ThreadTypes /\ Control, [Next]_vars PROVE (PoolTypes /\ ThreadTypes)'
  OBVIOUS
<1> USE GoroutinesAssumption
    DEF Control, PoolTypes, ThreadTypes, ClientPC, FlusherPC, Procs, Goto, pool, group
<1>1. ASSUME NEW c \in Clients, NEW t \in Tasks, AddAndCheck(c, t) PROVE (PoolTypes /\ ThreadTypes)'
  BY <1>1 DEF AddAndCheck
<1>2. ASSUME NEW c \in Clients, NEW f \in Flushers, BackgroundFlush(c, f) PROVE (PoolTypes /\ ThreadTypes)'
  BY <1>2 DEF BackgroundFlush
<1>3. ASSUME NEW c \in Clients, AddReturn(c) PROVE (PoolTypes /\ ThreadTypes)'
  BY <1>3 DEF AddReturn
<1>4. ASSUME NEW c \in Clients, Send(c) PROVE (PoolTypes /\ ThreadTypes)'
  BY <1>4 DEF Send
<1>5. ASSUME NEW c \in Clients, CallFlush(c) PROVE (PoolTypes /\ ThreadTypes)'
  BY <1>5 DEF CallFlush
<1>6. ASSUME NEW c \in Clients, CallWait(c) PROVE (PoolTypes /\ ThreadTypes)'
  BY <1>6 DEF CallWait
<1>7. ASSUME NEW c \in Clients, WaitGuard(c) PROVE (PoolTypes /\ ThreadTypes)'
  BY <1>7 DEF WaitGuard
<1>8. ASSUME NEW c \in Clients, WaitReturn(c) PROVE (PoolTypes /\ ThreadTypes)'
  BY <1>8 DEF WaitReturn
<1>9. ASSUME NEW p \in Procs, FlushEnter(p) PROVE (PoolTypes /\ ThreadTypes)'
  BY <1>9 DEF FlushEnter, EnterExecution
<1>10. ASSUME NEW p \in Procs, FlushRemove(p) PROVE (PoolTypes /\ ThreadTypes)'
  BY <1>10 DEF FlushRemove
<1>11. ASSUME NEW p \in Procs, Execute(p) PROVE (PoolTypes /\ ThreadTypes)'
  BY <1>11 DEF Execute
<1>12. ASSUME NEW p \in Procs, DoneExecution(p) PROVE (PoolTypes /\ ThreadTypes)'
  BY <1>12 DEF DoneExecution
<1>13. ASSUME NEW f \in Flushers, Receive(f) PROVE (PoolTypes /\ ThreadTypes)'
  BY <1>13 DEF Receive
<1>14. ASSUME NEW f \in Flushers, CommandEnter(f) PROVE (PoolTypes /\ ThreadTypes)'
  BY <1>14 DEF CommandEnter, EnterExecution
<1>15. ASSUME NEW f \in Flushers, NEW c \in Clients, Confirm(f, c) PROVE (PoolTypes /\ ThreadTypes)'
  BY <1>15 DEF Confirm
<1>16. ASSUME NEW f \in Flushers, Tick(f) PROVE (PoolTypes /\ ThreadTypes)'
  BY <1>16 DEF Tick
<1>17. ASSUME NEW f \in Flushers, ShallQuit(f) PROVE (PoolTypes /\ ThreadTypes)'
  BY <1>17 DEF ShallQuit
<1>18. ASSUME NEW f \in Flushers, IntervalElapses(f) PROVE (PoolTypes /\ ThreadTypes)'
  BY <1>18 DEF IntervalElapses
<1>19. CASE UNCHANGED vars
  BY <1>19 DEF vars
<1> QED
  BY <1>1, <1>2, <1>3, <1>4, <1>5, <1>6, <1>7, <1>8, <1>9, <1>10, <1>11,
     <1>12, <1>13, <1>14, <1>15, <1>16, <1>17, <1>18, <1>19
  DEF Next, Call, Loop, Flush, Procs

\* Only control points between taking a batch and doneExecution hold one, and a
\* goroutine returns from executeTasks to the loop or the call it came from.
LEMMA StepControl == PoolTypes /\ ThreadTypes /\ Control /\ [Next]_vars => Control'
<1> SUFFICES ASSUME PoolTypes /\ ThreadTypes /\ Control, [Next]_vars PROVE Control'
  OBVIOUS
<1> USE GoroutinesAssumption
    DEF ThreadTypes, Control, ClientPC, FlusherPC, Procs, Goto, pool
<1>1. ASSUME NEW c \in Clients, NEW t \in Tasks, AddAndCheck(c, t) PROVE Control'
  <2>1. /\ ret' = ret
        /\ \A p \in Procs : p # c => pc'[p] = pc[p] /\ batch'[p] = batch[p]
    BY <1>1 DEF AddAndCheck, PoolTypes
  <2>2. pc'[c] \in {"go", "send"} \/ batch'[c] = {}
    <3> DEFINE full == AddTask(container \cup {t})
    <3>1. /\ batch' = [batch EXCEPT ![c] = IF full THEN container \cup {t} ELSE {}]
          /\ pc' = [pc EXCEPT ![c] = IF ~guarded THEN "go" ELSE IF full THEN "send" ELSE "return"]
      BY <1>1, Zenon DEF AddAndCheck
    <3> HIDE DEF full
    <3>2. /\ batch'[c] = IF full THEN container \cup {t} ELSE {}
          /\ pc'[c] = IF ~guarded THEN "go" ELSE IF full THEN "send" ELSE "return"
      BY <3>1 DEF PoolTypes
    <3> QED  BY <3>2
  <2>3. c \notin Flushers
    OBVIOUS
  <2> QED  BY <2>1, <2>2, <2>3
<1>2. ASSUME NEW c \in Clients, NEW f \in Flushers, BackgroundFlush(c, f) PROVE Control'
  BY <1>2 DEF BackgroundFlush
<1>3. ASSUME NEW c \in Clients, AddReturn(c) PROVE Control'
  BY <1>3 DEF AddReturn
<1>4. ASSUME NEW c \in Clients, Send(c) PROVE Control'
  BY <1>4 DEF Send, PoolTypes
<1>5. ASSUME NEW c \in Clients, CallFlush(c) PROVE Control'
  BY <1>5 DEF CallFlush
<1>6. ASSUME NEW c \in Clients, CallWait(c) PROVE Control'
  BY <1>6 DEF CallWait
<1>7. ASSUME NEW c \in Clients, WaitGuard(c) PROVE Control'
  BY <1>7 DEF WaitGuard
<1>8. ASSUME NEW c \in Clients, WaitReturn(c) PROVE Control'
  BY <1>8 DEF WaitReturn
<1>9. ASSUME NEW p \in Procs, FlushEnter(p) PROVE Control'
  BY <1>9 DEF FlushEnter, EnterExecution
<1>10. ASSUME NEW p \in Procs, FlushRemove(p) PROVE Control'
  BY <1>10 DEF FlushRemove
<1>11. ASSUME NEW p \in Procs, Execute(p) PROVE Control'
  BY <1>11 DEF Execute
<1>12. ASSUME NEW p \in Procs, DoneExecution(p) PROVE Control'
  BY <1>12 DEF DoneExecution, PoolTypes
<1>13. ASSUME NEW f \in Flushers, Receive(f) PROVE Control'
  BY <1>13 DEF Receive
<1>14. ASSUME NEW f \in Flushers, CommandEnter(f) PROVE Control'
  BY <1>14 DEF CommandEnter, EnterExecution
<1>15. ASSUME NEW f \in Flushers, NEW c \in Clients, Confirm(f, c) PROVE Control'
  BY <1>15 DEF Confirm
<1>16. ASSUME NEW f \in Flushers, Tick(f) PROVE Control'
  BY <1>16 DEF Tick
<1>17. ASSUME NEW f \in Flushers, ShallQuit(f) PROVE Control'
  BY <1>17 DEF ShallQuit
<1>18. ASSUME NEW f \in Flushers, IntervalElapses(f) PROVE Control'
  BY <1>18 DEF IntervalElapses
<1>19. CASE UNCHANGED vars
  BY <1>19 DEF vars
<1> QED
  BY <1>1, <1>2, <1>3, <1>4, <1>5, <1>6, <1>7, <1>8, <1>9, <1>10, <1>11,
     <1>12, <1>13, <1>14, <1>15, <1>16, <1>17, <1>18, <1>19
  DEF Next, Call, Loop, Flush, Procs

-----------------------------------------------------------------------------
(***************************************************************************)
(* Where the tasks are.                                                    *)
(***************************************************************************)
\* addAndCheck puts a new task into the container or, with the container's
\* tasks, into the adder's hands.
LEMMA AddPlaces ==
  ASSUME PoolTypes, ThreadTypes, Control, NoTaskLost, NoTaskTwice,
         NEW c \in Clients, NEW t \in Tasks, AddAndCheck(c, t)
  PROVE  (NoTaskLost /\ NoTaskTwice)'
<1>1. \A p \in Procs \ {c} : Held(p)' = Held(p)
  BY DEF AddAndCheck, Held, Goto, PoolTypes, ThreadTypes
<1>2. /\ Queued' = Queued /\ executed' = executed /\ added' = added \cup {t}
      /\ c \in Procs /\ Held(c) = {}
  BY DEF AddAndCheck, Queued, Held, Control, Procs
<1>3. \/ container' = container \cup {t} /\ Held(c)' = {}
      \/ container' = {} /\ Held(c)' = container \cup {t}
  <2>1. CASE AddTask(container \cup {t})
    BY <2>1, <1>2 DEF AddAndCheck, Held, Goto, PoolTypes, ThreadTypes
  <2>2. CASE ~AddTask(container \cup {t})
    BY <2>2, <1>2 DEF AddAndCheck, Held, Goto, PoolTypes, ThreadTypes
  <2> QED  BY <2>1, <2>2
<1>4. t \notin container \cup Queued \cup executed /\ \A p \in Procs : t \notin Held(p)
  BY DEF NoTaskLost, InHands, AddAndCheck
<1>5. NoTaskLost'
  BY <1>1, <1>2, <1>3 DEF NoTaskLost, InHands, PoolTypes
<1>6. NoTaskTwice'
  BY <1>1, <1>2, <1>3, <1>4 DEF NoTaskTwice
<1> QED  BY <1>5, <1>6

\* A step that moves no task.
Stay == /\ UNCHANGED <<container, Queued, executed, added>>
        /\ \A p \in Procs : Held(p)' = Held(p)

\* A step that leaves a task where it is keeps it safe.
LEMMA StaySafe ==
  ASSUME NoTaskLost, NoTaskTwice, Stay
  PROVE  (NoTaskLost /\ NoTaskTwice)'
<1>1. InHands' = InHands
  BY DEF Stay, InHands
<1> QED  BY <1>1 DEF Stay, NoTaskLost, NoTaskTwice

\* Every step keeps every added task in exactly one place.
LEMMA StepPlaces == PoolTypes /\ ThreadTypes /\ Control /\ NoTaskLost /\ NoTaskTwice /\ [Next]_vars => (NoTaskLost /\ NoTaskTwice)'
<1> SUFFICES ASSUME PoolTypes /\ ThreadTypes /\ Control /\ NoTaskLost /\ NoTaskTwice, [Next]_vars PROVE (NoTaskLost /\ NoTaskTwice)'
  OBVIOUS
<1> USE GoroutinesAssumption
    DEF PoolTypes, ThreadTypes, Control, Held, Queued, Procs, Goto, pool
<1>1. ASSUME NEW c \in Clients, NEW t \in Tasks, AddAndCheck(c, t) PROVE (NoTaskLost /\ NoTaskTwice)'
  BY <1>1, AddPlaces
<1>2. ASSUME NEW c \in Clients, NEW f \in Flushers, BackgroundFlush(c, f) PROVE (NoTaskLost /\ NoTaskTwice)'
  <2>1. Stay
    BY <1>2 DEF BackgroundFlush, Stay, history
  <2> QED  BY <2>1, StaySafe
<1>3. ASSUME NEW c \in Clients, AddReturn(c) PROVE (NoTaskLost /\ NoTaskTwice)'
  <2>1. Stay
    BY <1>3 DEF AddReturn, Stay, history
  <2> QED  BY <2>1, StaySafe
<1>4. ASSUME NEW c \in Clients, Send(c) PROVE (NoTaskLost /\ NoTaskTwice)'
  <2>1. NoTaskLost'
    BY <1>4 DEF Send, NoTaskLost, InHands, history
  <2>2. NoTaskTwice'
    BY <1>4 DEF Send, NoTaskTwice, history
  <2> QED  BY <2>1, <2>2
<1>5. ASSUME NEW c \in Clients, CallFlush(c) PROVE (NoTaskLost /\ NoTaskTwice)'
  <2>1. Stay
    BY <1>5 DEF CallFlush, Stay, history
  <2> QED  BY <2>1, StaySafe
<1>6. ASSUME NEW c \in Clients, CallWait(c) PROVE (NoTaskLost /\ NoTaskTwice)'
  <2>1. Stay
    BY <1>6 DEF CallWait, Stay, history
  <2> QED  BY <2>1, StaySafe
<1>7. ASSUME NEW c \in Clients, WaitGuard(c) PROVE (NoTaskLost /\ NoTaskTwice)'
  <2>1. Stay
    BY <1>7 DEF WaitGuard, Stay, history
  <2> QED  BY <2>1, StaySafe
<1>8. ASSUME NEW c \in Clients, WaitReturn(c) PROVE (NoTaskLost /\ NoTaskTwice)'
  <2>1. Stay
    BY <1>8 DEF WaitReturn, Stay, history
  <2> QED  BY <2>1, StaySafe
<1>9. ASSUME NEW p \in Procs, FlushEnter(p) PROVE (NoTaskLost /\ NoTaskTwice)'
  <2>1. Stay
    BY <1>9 DEF FlushEnter, EnterExecution, Stay, history
  <2> QED  BY <2>1, StaySafe
<1>10. ASSUME NEW p \in Procs, FlushRemove(p) PROVE (NoTaskLost /\ NoTaskTwice)'
  <2>1. NoTaskLost'
    BY <1>10 DEF FlushRemove, NoTaskLost, InHands, history
  <2>2. NoTaskTwice'
    BY <1>10 DEF FlushRemove, NoTaskTwice, history
  <2> QED  BY <2>1, <2>2
<1>11. ASSUME NEW p \in Procs, Execute(p) PROVE (NoTaskLost /\ NoTaskTwice)'
  <2>1. NoTaskLost'
    BY <1>11 DEF Execute, NoTaskLost, InHands, history
  <2>2. NoTaskTwice'
    BY <1>11 DEF Execute, NoTaskTwice, history
  <2> QED  BY <2>1, <2>2
<1>12. ASSUME NEW p \in Procs, DoneExecution(p) PROVE (NoTaskLost /\ NoTaskTwice)'
  <2>1. UNCHANGED <<container, commander, executed, added>>
    BY <1>12 DEF DoneExecution, history
  <2>2. PICK next : pc' = [pc EXCEPT ![p] = next]
    BY <1>12 DEF DoneExecution
  <2>3. pc[p] = "done" /\ batch' = [batch EXCEPT ![p] = {}]
    BY <1>12 DEF DoneExecution
  <2>4. ASSUME NEW q \in Procs PROVE Held(q)' = Held(q)
    <3>1. CASE q = p
      BY <2>3, <3>1
    <3>2. CASE q # p
      BY <2>2, <2>3, <3>2
    <3> QED  BY <3>1, <3>2
  <2>5. Stay
    BY <2>1, <2>4 DEF Stay
  <2> QED  BY <2>5, StaySafe
<1>13. ASSUME NEW f \in Flushers, Receive(f) PROVE (NoTaskLost /\ NoTaskTwice)'
  <2>1. NoTaskLost'
    BY <1>13 DEF Receive, NoTaskLost, InHands, history
  <2>2. NoTaskTwice'
    BY <1>13 DEF Receive, NoTaskTwice, history
  <2> QED  BY <2>1, <2>2
<1>14. ASSUME NEW f \in Flushers, CommandEnter(f) PROVE (NoTaskLost /\ NoTaskTwice)'
  <2>1. Stay
    BY <1>14 DEF CommandEnter, EnterExecution, Stay, history
  <2> QED  BY <2>1, StaySafe
<1>15. ASSUME NEW f \in Flushers, NEW c \in Clients, Confirm(f, c) PROVE (NoTaskLost /\ NoTaskTwice)'
  <2>1. Stay
    BY <1>15 DEF Confirm, Stay, history
  <2> QED  BY <2>1, StaySafe
<1>16. ASSUME NEW f \in Flushers, Tick(f) PROVE (NoTaskLost /\ NoTaskTwice)'
  <2>1. Stay
    BY <1>16 DEF Tick, Stay, history
  <2> QED  BY <2>1, StaySafe
<1>17. ASSUME NEW f \in Flushers, ShallQuit(f) PROVE (NoTaskLost /\ NoTaskTwice)'
  <2>1. Stay
    BY <1>17 DEF ShallQuit, Stay, history
  <2> QED  BY <2>1, StaySafe
<1>18. ASSUME NEW f \in Flushers, IntervalElapses(f) PROVE (NoTaskLost /\ NoTaskTwice)'
  <2>1. Stay
    BY <1>18 DEF IntervalElapses, Stay, history
  <2> QED  BY <2>1, StaySafe
<1>19. CASE UNCHANGED vars
  BY <1>19, StaySafe DEF vars, Stay
<1> QED
  BY <1>1, <1>2, <1>3, <1>4, <1>5, <1>6, <1>7, <1>8, <1>9, <1>10, <1>11,
     <1>12, <1>13, <1>14, <1>15, <1>16, <1>17, <1>18, <1>19
  DEF Next, Call, Loop, Flush, Procs

-----------------------------------------------------------------------------
(***************************************************************************)
(* The invariant and the theorems.                                         *)
(***************************************************************************)
LEMMA InitTasks == Init => TasksKept
<1> SUFFICES ASSUME Init PROVE TasksKept
  OBVIOUS
<1>1. guarded \in BOOLEAN
  BY Zenon DEF Init
<1>2. TypeOK
  BY <1>1, GoroutinesAssumption, IdleRoundAssumption
  DEF Init, TypeOK, PoolTypes, ThreadTypes, LoopTypes, HistoryTypes, ClientPC, FlusherPC, Procs
<1>3. Control
  BY GoroutinesAssumption DEF Init, Control, Procs
<1>4. NoTaskLost /\ NoTaskTwice
  BY GoroutinesAssumption DEF Init, NoTaskLost, NoTaskTwice, InHands, Held, Queued, Procs
<1> QED  BY <1>2, <1>3, <1>4 DEF TasksKept

\* Whatever Add, Flush, Wait and the flushers do, every added task is in one
\* place: the container, the channel, a goroutine's hands, or executed once.
THEOREM TasksAlwaysKept == Spec => []TasksKept
<1>1. TasksKept /\ [Next]_vars => TasksKept'
  BY StepLocals, StepThreads, StepControl, StepPlaces DEF TasksKept, TypeOK
<1> QED  BY <1>1, InitTasks, PTL DEF Spec

\* Every variable of the executor keeps its type, and the buffer of commander
\* never holds more than one batch.
THEOREM TypeCorrect == Spec => []TypeOK
<1>1. TasksKept => TypeOK
  BY DEF TasksKept
<1> QED  BY <1>1, TasksAlwaysKept, PTL

\* No interleaving of Add, Flush, Wait and the background flushers loses a task.
THEOREM Conservation == Spec => []NoTaskLost
<1>1. TasksKept => NoTaskLost
  BY DEF TasksKept
<1> QED  BY <1>1, TasksAlwaysKept, PTL

\* No interleaving of Add, Flush, Wait and the flushers duplicates a task.
THEOREM AtMostOnce == Spec => []NoTaskTwice
<1>1. TasksKept => NoTaskTwice
  BY DEF TasksKept
<1> QED  BY <1>1, TasksAlwaysKept, PTL

\* Each step of the executor is a step of the abstract delivery or changes
\* neither added nor executed.
LEMMA StepDelivers == TasksKept /\ [Next]_vars => [Delivery!Next]_(Delivery!vars)
<1> SUFFICES ASSUME TasksKept, [Next]_vars PROVE [Delivery!Next]_(Delivery!vars)
  OBVIOUS
<1>1. ASSUME NEW c \in Clients, NEW t \in Tasks, AddAndCheck(c, t) PROVE [Delivery!Next]_(Delivery!vars)
  BY <1>1 DEF AddAndCheck, Delivery!Next, Delivery!Add
<1>2. ASSUME NEW c \in Clients, NEW f \in Flushers, BackgroundFlush(c, f) PROVE [Delivery!Next]_(Delivery!vars)
  BY <1>2 DEF BackgroundFlush, history, Delivery!vars
<1>3. ASSUME NEW c \in Clients, AddReturn(c) PROVE [Delivery!Next]_(Delivery!vars)
  BY <1>3 DEF AddReturn, history, Delivery!vars
<1>4. ASSUME NEW c \in Clients, Send(c) PROVE [Delivery!Next]_(Delivery!vars)
  BY <1>4 DEF Send, history, Delivery!vars
<1>5. ASSUME NEW c \in Clients, CallFlush(c) PROVE [Delivery!Next]_(Delivery!vars)
  BY <1>5 DEF CallFlush, history, Delivery!vars
<1>6. ASSUME NEW c \in Clients, CallWait(c) PROVE [Delivery!Next]_(Delivery!vars)
  BY <1>6 DEF CallWait, history, Delivery!vars
<1>7. ASSUME NEW c \in Clients, WaitGuard(c) PROVE [Delivery!Next]_(Delivery!vars)
  BY <1>7 DEF WaitGuard, history, Delivery!vars
<1>8. ASSUME NEW c \in Clients, WaitReturn(c) PROVE [Delivery!Next]_(Delivery!vars)
  BY <1>8 DEF WaitReturn, history, Delivery!vars
<1>9. ASSUME NEW p \in Procs, FlushEnter(p) PROVE [Delivery!Next]_(Delivery!vars)
  BY <1>9 DEF FlushEnter, EnterExecution, history, Delivery!vars
<1>10. ASSUME NEW p \in Procs, FlushRemove(p) PROVE [Delivery!Next]_(Delivery!vars)
  BY <1>10 DEF FlushRemove, history, Delivery!vars
<1>11. ASSUME NEW p \in Procs, Execute(p) PROVE [Delivery!Next]_(Delivery!vars)
  <2>1. CASE batch[p] = {}
    BY <1>11, <2>1 DEF Execute, TasksKept, TypeOK, HistoryTypes, Delivery!vars
  <2>2. CASE batch[p] # {}
    <3>1. batch[p] = Held(p) /\ batch[p] \subseteq Tasks
      BY <1>11 DEF Execute, Held, TasksKept, TypeOK, PoolTypes
    <3>2. batch[p] \in SUBSET (added \ executed)
      BY <3>1 DEF TasksKept, NoTaskLost, NoTaskTwice, InHands
    <3> QED  BY <1>11, <2>2, <3>2 DEF Execute, Delivery!Next, Delivery!Execute
  <2> QED  BY <2>1, <2>2
<1>12. ASSUME NEW p \in Procs, DoneExecution(p) PROVE [Delivery!Next]_(Delivery!vars)
  BY <1>12 DEF DoneExecution, history, Delivery!vars
<1>13. ASSUME NEW f \in Flushers, Receive(f) PROVE [Delivery!Next]_(Delivery!vars)
  BY <1>13 DEF Receive, history, Delivery!vars
<1>14. ASSUME NEW f \in Flushers, CommandEnter(f) PROVE [Delivery!Next]_(Delivery!vars)
  BY <1>14 DEF CommandEnter, EnterExecution, history, Delivery!vars
<1>15. ASSUME NEW f \in Flushers, NEW c \in Clients, Confirm(f, c) PROVE [Delivery!Next]_(Delivery!vars)
  BY <1>15 DEF Confirm, history, Delivery!vars
<1>16. ASSUME NEW f \in Flushers, Tick(f) PROVE [Delivery!Next]_(Delivery!vars)
  BY <1>16 DEF Tick, history, Delivery!vars
<1>17. ASSUME NEW f \in Flushers, ShallQuit(f) PROVE [Delivery!Next]_(Delivery!vars)
  BY <1>17 DEF ShallQuit, history, Delivery!vars
<1>18. ASSUME NEW f \in Flushers, IntervalElapses(f) PROVE [Delivery!Next]_(Delivery!vars)
  BY <1>18 DEF IntervalElapses, history, Delivery!vars
<1>19. CASE UNCHANGED vars
  BY <1>19 DEF vars, Delivery!vars
<1> QED
  BY <1>1, <1>2, <1>3, <1>4, <1>5, <1>6, <1>7, <1>8, <1>9, <1>10, <1>11,
     <1>12, <1>13, <1>14, <1>15, <1>16, <1>17, <1>18, <1>19
  DEF Next, Call, Loop, Flush, Procs

\* The executor implements TaskDelivery: each added task reaches Execute once.
THEOREM ImplementsDelivery == Spec => DeliverySpec
<1>1. Init => Delivery!Init
  BY DEF Init, Delivery!Init
<1> QED  BY <1>1, StepDelivers, TasksAlwaysKept, PTL DEF Spec, DeliverySpec, Delivery!Spec

-----------------------------------------------------------------------------
(***************************************************************************)
(* Who flushes, and the counters.                                          *)
(***************************************************************************)
\* guarded stays exact, and no second flusher enters the loop.
LEMMA StepOne == ThreadTypes /\ Control /\ guarded \in BOOLEAN /\ OneFlusher /\ [Next]_vars => OneFlusher'
<1> SUFFICES ASSUME ThreadTypes /\ Control /\ guarded \in BOOLEAN /\ OneFlusher, [Next]_vars PROVE OneFlusher'
  OBVIOUS
<1> USE GoroutinesAssumption
    DEF ThreadTypes, ClientPC, FlusherPC, Control, OneFlusher, Serving, Procs, Goto, pool
<1>1. ASSUME NEW c \in Clients, NEW t \in Tasks, AddAndCheck(c, t) PROVE OneFlusher'
  BY <1>1 DEF AddAndCheck
<1>2. ASSUME NEW c \in Clients, NEW f \in Flushers, BackgroundFlush(c, f) PROVE OneFlusher'
  BY <1>2 DEF BackgroundFlush
<1>3. ASSUME NEW c \in Clients, AddReturn(c) PROVE OneFlusher'
  BY <1>3 DEF AddReturn
<1>4. ASSUME NEW c \in Clients, Send(c) PROVE OneFlusher'
  BY <1>4 DEF Send
<1>5. ASSUME NEW c \in Clients, CallFlush(c) PROVE OneFlusher'
  BY <1>5 DEF CallFlush
<1>6. ASSUME NEW c \in Clients, CallWait(c) PROVE OneFlusher'
  BY <1>6 DEF CallWait
<1>7. ASSUME NEW c \in Clients, WaitGuard(c) PROVE OneFlusher'
  BY <1>7 DEF WaitGuard
<1>8. ASSUME NEW c \in Clients, WaitReturn(c) PROVE OneFlusher'
  BY <1>8 DEF WaitReturn
<1>9. ASSUME NEW p \in Procs, FlushEnter(p) PROVE OneFlusher'
  BY <1>9 DEF FlushEnter, EnterExecution
<1>10. ASSUME NEW p \in Procs, FlushRemove(p) PROVE OneFlusher'
  BY <1>10 DEF FlushRemove
<1>11. ASSUME NEW p \in Procs, Execute(p) PROVE OneFlusher'
  BY <1>11 DEF Execute
<1>12. ASSUME NEW p \in Procs, DoneExecution(p) PROVE OneFlusher'
  BY <1>12 DEF DoneExecution
<1>13. ASSUME NEW f \in Flushers, Receive(f) PROVE OneFlusher'
  BY <1>13 DEF Receive
<1>14. ASSUME NEW f \in Flushers, CommandEnter(f) PROVE OneFlusher'
  BY <1>14 DEF CommandEnter, EnterExecution
<1>15. ASSUME NEW f \in Flushers, NEW c \in Clients, Confirm(f, c) PROVE OneFlusher'
  BY <1>15 DEF Confirm
<1>16. ASSUME NEW f \in Flushers, Tick(f) PROVE OneFlusher'
  BY <1>16 DEF Tick
<1>17. ASSUME NEW f \in Flushers, ShallQuit(f) PROVE OneFlusher'
  BY <1>17 DEF ShallQuit
<1>18. ASSUME NEW f \in Flushers, IntervalElapses(f) PROVE OneFlusher'
  BY <1>18 DEF IntervalElapses
<1>19. CASE UNCHANGED vars
  BY <1>19 DEF vars
<1> QED
  BY <1>1, <1>2, <1>3, <1>4, <1>5, <1>6, <1>7, <1>8, <1>9, <1>10, <1>11,
     <1>12, <1>13, <1>14, <1>15, <1>16, <1>17, <1>18, <1>19
  DEF Next, Call, Loop, Flush, Procs

INSTANCE FiniteSetTheorems

\* A finite set that gains or loses one element.
LEMMA CountIn ==
  ASSUME NEW S, IsFiniteSet(S), NEW x, x \notin S
  PROVE  Cardinality(S \cup {x}) = Cardinality(S) + 1 /\ Cardinality(S) \in Nat
BY FS_AddElement, FS_CardinalityType

\* Taking one goroutine out of a set lowers its count by one.
LEMMA CountOut ==
  ASSUME NEW S, IsFiniteSet(S), NEW x \in S
  PROVE  Cardinality(S \ {x}) = Cardinality(S) - 1 /\ Cardinality(S) \in Nat
BY FS_RemoveElement, FS_CardinalityType

\* The sets that the counters count are finite.
LEMMA FiniteCounts ==
  /\ IsFiniteSet(Executing) /\ IsFiniteSet(Sending)
  /\ IsFiniteSet(Confirming) /\ IsFiniteSet(Replying)
<1>1. IsFiniteSet(Procs)
  BY GoroutinesAssumption, FS_Union DEF Procs
<1>2. Executing \subseteq Procs /\ Sending \subseteq Clients
  BY DEF Executing, Sending
<1>3. Confirming \subseteq Clients /\ Replying \subseteq Flushers
  BY DEF Confirming, Replying
<1> QED  BY <1>1, <1>2, <1>3, GoroutinesAssumption, FS_Subset

\* Every step moves the counters with the goroutines they count.
LEMMA StepCounters == PoolTypes /\ ThreadTypes /\ Control /\ CountersExact /\ [Next]_vars => CountersExact'
<1> SUFFICES ASSUME PoolTypes /\ ThreadTypes /\ Control /\ CountersExact, [Next]_vars PROVE CountersExact'
  OBVIOUS
<1> USE DEF ThreadTypes, ClientPC, FlusherPC, Control, Procs, Goto, pool, group
<1>1. ASSUME NEW c \in Clients, NEW t \in Tasks, AddAndCheck(c, t) PROVE CountersExact'
  <2>1. UNCHANGED <<waitGroup, commander, Executing, Confirming, Replying>>
    BY <1>1, GoroutinesAssumption DEF AddAndCheck, Executing, Sending, Confirming, Replying
  <2>2. CASE AddTask(container \cup {t})
    <3>1. Sending' = Sending \cup {c} /\ c \notin Sending /\ inflight' = inflight + 1
      BY <1>1, <2>2 DEF AddAndCheck, PoolTypes, Executing, Sending, Confirming, Replying
    <3> QED  BY <2>1, <3>1, CountIn, FiniteCounts DEF CountersExact, PoolTypes
  <2>3. CASE ~AddTask(container \cup {t})
    <3>1. Sending' = Sending /\ inflight' = inflight
      BY <1>1, <2>3 DEF AddAndCheck, PoolTypes, Executing, Sending, Confirming, Replying
    <3> QED  BY <2>1, <3>1 DEF CountersExact
  <2> QED  BY <2>2, <2>3
<1>2. ASSUME NEW c \in Clients, NEW f \in Flushers, BackgroundFlush(c, f) PROVE CountersExact'
  <2>1. UNCHANGED <<waitGroup, inflight, commander, Executing, Sending, Confirming, Replying>>
    BY <1>2, GoroutinesAssumption DEF BackgroundFlush, Executing, Sending, Confirming, Replying, PoolTypes
  <2> QED  BY <2>1 DEF CountersExact
<1>3. ASSUME NEW c \in Clients, AddReturn(c) PROVE CountersExact'
  <2>1. UNCHANGED <<waitGroup, inflight, commander, Executing, Sending, Confirming, Replying>>
    BY <1>3, GoroutinesAssumption DEF AddReturn, Executing, Sending, Confirming, Replying
  <2> QED  BY <2>1 DEF CountersExact
<1>4. ASSUME NEW c \in Clients, Send(c) PROVE CountersExact'
  <2>1. UNCHANGED <<waitGroup, inflight, Executing, Replying>>
    BY <1>4, GoroutinesAssumption DEF Send, Executing, Sending, Confirming, Replying
  <2>2. c \in Sending /\ Sending' = Sending \ {c}
    BY <1>4 DEF Send, PoolTypes, Executing, Sending, Confirming, Replying
  <2>3. c \notin Confirming /\ Confirming' = Confirming \cup {c}
    BY <1>4 DEF Send, Executing, Sending, Confirming, Replying
  <2>4. Len(commander) = 0 /\ Len(commander)' = 1
    BY <1>4 DEF Send
  <2>5. Cardinality(Sending') = Cardinality(Sending) - 1 /\ Cardinality(Sending) \in Nat
    BY <2>2, CountOut, FiniteCounts
  <2>6. Cardinality(Confirming') = Cardinality(Confirming) + 1 /\ Cardinality(Confirming) \in Nat
    BY <2>3, CountIn, FiniteCounts
  <2> QED  BY <2>1, <2>4, <2>5, <2>6, FiniteCounts, FS_CardinalityType DEF CountersExact
<1>5. ASSUME NEW c \in Clients, CallFlush(c) PROVE CountersExact'
  <2>1. UNCHANGED <<waitGroup, inflight, commander, Executing, Sending, Confirming, Replying>>
    BY <1>5, GoroutinesAssumption DEF CallFlush, Executing, Sending, Confirming, Replying
  <2> QED  BY <2>1 DEF CountersExact
<1>6. ASSUME NEW c \in Clients, CallWait(c) PROVE CountersExact'
  <2>1. UNCHANGED <<waitGroup, inflight, commander, Executing, Sending, Confirming, Replying>>
    BY <1>6, GoroutinesAssumption DEF CallWait, Executing, Sending, Confirming, Replying
  <2> QED  BY <2>1 DEF CountersExact
<1>7. ASSUME NEW c \in Clients, WaitGuard(c) PROVE CountersExact'
  <2>1. UNCHANGED <<waitGroup, inflight, commander, Executing, Sending, Confirming, Replying>>
    BY <1>7, GoroutinesAssumption DEF WaitGuard, Executing, Sending, Confirming, Replying
  <2> QED  BY <2>1 DEF CountersExact
<1>8. ASSUME NEW c \in Clients, WaitReturn(c) PROVE CountersExact'
  <2>1. UNCHANGED <<waitGroup, inflight, commander, Executing, Sending, Confirming, Replying>>
    BY <1>8, GoroutinesAssumption DEF WaitReturn, Executing, Sending, Confirming, Replying
  <2> QED  BY <2>1 DEF CountersExact
<1>9. ASSUME NEW p \in Procs, FlushEnter(p) PROVE CountersExact'
  <2>1. UNCHANGED <<inflight, commander, Sending, Confirming, Replying>> /\ waitGroup' = waitGroup + 1
    BY <1>9, GoroutinesAssumption DEF FlushEnter, EnterExecution, Executing, Sending, Confirming, Replying
  <2>2. p \notin Executing /\ Executing' = Executing \cup {p}
    BY <1>9 DEF FlushEnter, EnterExecution, Executing, Sending, Confirming, Replying
  <2>3. Cardinality(Executing') = Cardinality(Executing) + 1
    BY <2>2, CountIn, FiniteCounts
  <2> QED  BY <2>1, <2>3 DEF CountersExact
<1>10. ASSUME NEW p \in Procs, FlushRemove(p) PROVE CountersExact'
  <2>1. UNCHANGED <<waitGroup, inflight, commander, Executing, Sending, Confirming, Replying>>
    BY <1>10, GoroutinesAssumption DEF FlushRemove, Executing, Sending, Confirming, Replying
  <2> QED  BY <2>1 DEF CountersExact
<1>11. ASSUME NEW p \in Procs, Execute(p) PROVE CountersExact'
  <2>1. UNCHANGED <<waitGroup, inflight, commander, Executing, Sending, Confirming, Replying>>
    BY <1>11, GoroutinesAssumption DEF Execute, Executing, Sending, Confirming, Replying
  <2> QED  BY <2>1 DEF CountersExact
<1>12. ASSUME NEW p \in Procs, DoneExecution(p) PROVE CountersExact'
  <2>1. UNCHANGED <<inflight, commander, Sending, Confirming, Replying>> /\ waitGroup' = waitGroup - 1
    BY <1>12, GoroutinesAssumption DEF DoneExecution, PoolTypes, Executing, Sending, Confirming, Replying
  <2>2. p \in Executing /\ Executing' = Executing \ {p}
    BY <1>12, GoroutinesAssumption DEF DoneExecution, Executing, Sending, Confirming, Replying
  <2>3. Cardinality(Executing') = Cardinality(Executing) - 1
    BY <2>2, CountOut, FiniteCounts
  <2> QED  BY <2>1, <2>3 DEF CountersExact
<1>13. ASSUME NEW f \in Flushers, Receive(f) PROVE CountersExact'
  <2>1. UNCHANGED <<waitGroup, Executing, Sending, Confirming>> /\ inflight' = inflight - 1
    BY <1>13, GoroutinesAssumption DEF Receive, PoolTypes, Executing, Sending, Confirming, Replying
  <2>2. f \notin Replying /\ Replying' = Replying \cup {f}
    BY <1>13 DEF Receive, Executing, Sending, Confirming, Replying
  <2>3. Len(commander) = 1 /\ Len(commander)' = 0
    BY <1>13 DEF Receive, PoolTypes
  <2>4. Cardinality(Replying') = Cardinality(Replying) + 1 /\ Cardinality(Replying) \in Nat
    BY <2>2, CountIn, FiniteCounts
  <2> QED  BY <2>1, <2>3, <2>4, FiniteCounts, FS_CardinalityType DEF CountersExact
<1>14. ASSUME NEW f \in Flushers, CommandEnter(f) PROVE CountersExact'
  <2>1. UNCHANGED <<inflight, commander, Sending, Confirming, Replying>> /\ waitGroup' = waitGroup + 1
    BY <1>14, GoroutinesAssumption DEF CommandEnter, EnterExecution, Executing, Sending, Confirming, Replying
  <2>2. f \notin Executing /\ Executing' = Executing \cup {f}
    BY <1>14 DEF CommandEnter, EnterExecution, Executing, Sending, Confirming, Replying
  <2>3. Cardinality(Executing') = Cardinality(Executing) + 1
    BY <2>2, CountIn, FiniteCounts
  <2> QED  BY <2>1, <2>3 DEF CountersExact
<1>15. ASSUME NEW f \in Flushers, NEW c \in Clients, Confirm(f, c) PROVE CountersExact'
  <2>1. UNCHANGED <<waitGroup, inflight, commander, Executing, Sending>>
    BY <1>15, GoroutinesAssumption DEF Confirm, Executing, Sending, Confirming, Replying
  <2>2. f \in Replying /\ Replying' = Replying \ {f}
    BY <1>15, GoroutinesAssumption DEF Confirm, Executing, Sending, Confirming, Replying
  <2>3. c \in Confirming /\ Confirming' = Confirming \ {c}
    BY <1>15, GoroutinesAssumption DEF Confirm, Executing, Sending, Confirming, Replying
  <2>4. Cardinality(Replying') = Cardinality(Replying) - 1 /\ Cardinality(Replying) \in Nat
    BY <2>2, CountOut, FiniteCounts
  <2>5. Cardinality(Confirming') = Cardinality(Confirming) - 1 /\ Cardinality(Confirming) \in Nat
    BY <2>3, CountOut, FiniteCounts
  <2>6. Len(commander) \in Nat
    BY DEF PoolTypes
  <2> QED  BY <2>1, <2>4, <2>5, <2>6 DEF CountersExact
<1>16. ASSUME NEW f \in Flushers, Tick(f) PROVE CountersExact'
  <2>1. UNCHANGED <<waitGroup, inflight, commander, Executing, Sending, Confirming, Replying>>
    BY <1>16, GoroutinesAssumption DEF Tick, Executing, Sending, Confirming, Replying
  <2> QED  BY <2>1 DEF CountersExact
<1>17. ASSUME NEW f \in Flushers, ShallQuit(f) PROVE CountersExact'
  <2>1. UNCHANGED <<waitGroup, inflight, commander, Executing, Sending, Confirming, Replying>>
    BY <1>17, GoroutinesAssumption DEF ShallQuit, Executing, Sending, Confirming, Replying
  <2> QED  BY <2>1 DEF CountersExact
<1>18. ASSUME NEW f \in Flushers, IntervalElapses(f) PROVE CountersExact'
  <2>1. UNCHANGED <<waitGroup, inflight, commander, Executing, Sending, Confirming, Replying>>
    BY <1>18, GoroutinesAssumption DEF IntervalElapses, Executing, Sending, Confirming, Replying
  <2> QED  BY <2>1 DEF CountersExact
<1>19. CASE UNCHANGED vars
  BY <1>19 DEF vars, CountersExact, Executing, Sending, Confirming, Replying
<1> QED
  BY <1>1, <1>2, <1>3, <1>4, <1>5, <1>6, <1>7, <1>8, <1>9, <1>10, <1>11,
     <1>12, <1>13, <1>14, <1>15, <1>16, <1>17, <1>18, <1>19
  DEF Next, Call, Loop, Flush, Procs

-----------------------------------------------------------------------------
(***************************************************************************)
(* The invariant and the theorems.                                         *)
(***************************************************************************)
Inv == TasksKept /\ ServeInv

\* The invariant holds at the start.
LEMMA InitServeInv == Init => ServeInv
<1> SUFFICES ASSUME Init PROVE ServeInv
  OBVIOUS
<1>1. OneFlusher
  BY GoroutinesAssumption DEF Init, OneFlusher, Serving, Procs
<1>2. Executing = {} /\ Sending = {} /\ Confirming = {} /\ Replying = {}
  BY GoroutinesAssumption DEF Init, Executing, Sending, Confirming, Replying, Procs
<1>3. CountersExact
  BY <1>2, FS_EmptySet DEF Init, CountersExact
<1> QED  BY <1>1, <1>3 DEF ServeInv

\* Inv is an invariant of the executor.
THEOREM ServeInvariant == Spec => []Inv
<1>1. TasksKept /\ ServeInv /\ [Next]_vars => ServeInv'
  BY StepOne, StepCounters DEF TasksKept, TypeOK, ServeInv
<1> QED  BY <1>1, InitServeInv, TasksAlwaysKept, PTL DEF Spec, Inv

\* guarded is exact and at most one flusher receives commands.
THEOREM SingleFlusher == Spec => []OneFlusher
<1>1. Inv => OneFlusher
  BY DEF Inv, ServeInv
<1> QED  BY <1>1, ServeInvariant, PTL

\* waitGroup, inflight and the confirmations to come are exact.
THEOREM Counters == Spec => []CountersExact
<1>1. Inv => CountersExact
  BY DEF Inv, ServeInv
<1> QED  BY <1>1, ServeInvariant, PTL

\* A flusher about to quit, with inflight at zero, leaves no adder behind: it is
\* the only flusher in the loop, so nothing is to be confirmed either.
LEMMA QuitLeavesNobody ==
  ASSUME Inv, NEW f \in Flushers, pc[f] = "shallquit", inflight = 0
  PROVE  commander = <<>> /\ Sending = {} /\ Confirming = {}
<1>1. commander = <<>> \/ Len(commander) = 1
  BY DEF Inv, TasksKept, TypeOK, PoolTypes
<1>2. /\ Cardinality(Sending) \in Nat /\ Cardinality(Confirming) \in Nat
      /\ Cardinality(Replying) \in Nat
  BY FiniteCounts, FS_CardinalityType
<1>3. commander = <<>> /\ Cardinality(Sending) = 0 /\ Len(commander) = 0
  BY <1>1, <1>2 DEF Inv, ServeInv, CountersExact
<1>4. Replying = {}
  <2>1. ASSUME NEW g \in Replying PROVE FALSE
    <3>1. Serving(f) /\ Serving(g) /\ g # f
      BY <2>1 DEF Inv, TasksKept, Control, Replying, Serving
    <3> QED  BY <3>1 DEF Inv, ServeInv, OneFlusher, Replying, Procs
  <2> QED  BY <2>1
<1>5. Cardinality(Confirming) = 0
  BY <1>3, <1>4, FS_EmptySet DEF Inv, ServeInv, CountersExact
<1> QED  BY <1>3, <1>5, FiniteCounts, FS_EmptySet

\* Only shallQuit clears guarded, and it leaves nobody behind.
LEMMA StepStranded == Inv /\ NoAdderStranded /\ [Next]_vars => NoAdderStranded'
<1> SUFFICES ASSUME Inv /\ NoAdderStranded, [Next]_vars PROVE NoAdderStranded'
  OBVIOUS
<1> USE GoroutinesAssumption DEF NoAdderStranded, Procs, Goto, pool
<1>0. ThreadTypes /\ OneFlusher
  BY DEF Inv, TasksKept, ServeInv, TypeOK
<1> USE <1>0 DEF ThreadTypes
<1>1. ASSUME NEW c \in Clients, NEW t \in Tasks, AddAndCheck(c, t) PROVE NoAdderStranded'
  BY <1>1 DEF AddAndCheck
<1>2. ASSUME NEW c \in Clients, NEW f \in Flushers, BackgroundFlush(c, f) PROVE NoAdderStranded'
  BY <1>2 DEF BackgroundFlush, OneFlusher, Serving
<1>3. ASSUME NEW c \in Clients, AddReturn(c) PROVE NoAdderStranded'
  BY <1>3 DEF AddReturn
<1>4. ASSUME NEW c \in Clients, Send(c) PROVE NoAdderStranded'
  BY <1>4 DEF Send
<1>5. ASSUME NEW c \in Clients, CallFlush(c) PROVE NoAdderStranded'
  BY <1>5 DEF CallFlush
<1>6. ASSUME NEW c \in Clients, CallWait(c) PROVE NoAdderStranded'
  BY <1>6 DEF CallWait
<1>7. ASSUME NEW c \in Clients, WaitGuard(c) PROVE NoAdderStranded'
  BY <1>7 DEF WaitGuard
<1>8. ASSUME NEW c \in Clients, WaitReturn(c) PROVE NoAdderStranded'
  BY <1>8 DEF WaitReturn
<1>9. ASSUME NEW p \in Procs, FlushEnter(p) PROVE NoAdderStranded'
  BY <1>9 DEF FlushEnter, EnterExecution
<1>10. ASSUME NEW p \in Procs, FlushRemove(p) PROVE NoAdderStranded'
  BY <1>10 DEF FlushRemove
<1>11. ASSUME NEW p \in Procs, Execute(p) PROVE NoAdderStranded'
  BY <1>11 DEF Execute
<1>12. ASSUME NEW p \in Procs, DoneExecution(p) PROVE NoAdderStranded'
  BY <1>12 DEF DoneExecution
<1>13. ASSUME NEW f \in Flushers, Receive(f) PROVE NoAdderStranded'
  BY <1>13 DEF Receive
<1>14. ASSUME NEW f \in Flushers, CommandEnter(f) PROVE NoAdderStranded'
  BY <1>14 DEF CommandEnter, EnterExecution
<1>15. ASSUME NEW f \in Flushers, NEW c \in Clients, Confirm(f, c) PROVE NoAdderStranded'
  BY <1>15 DEF Confirm
<1>16. ASSUME NEW f \in Flushers, Tick(f) PROVE NoAdderStranded'
  BY <1>16 DEF Tick
<1>17. ASSUME NEW f \in Flushers, ShallQuit(f) PROVE NoAdderStranded'
  <2>1. CASE inflight = 0
    <3>1. commander = <<>> /\ Sending = {} /\ Confirming = {}
      BY <1>17, <2>1, QuitLeavesNobody DEF ShallQuit
    <3> QED  BY <1>17, <3>1 DEF ShallQuit, Sending, Confirming
  <2>2. CASE inflight # 0
    BY <1>17, <2>2 DEF ShallQuit
  <2> QED  BY <2>1, <2>2
<1>18. ASSUME NEW f \in Flushers, IntervalElapses(f) PROVE NoAdderStranded'
  BY <1>18 DEF IntervalElapses
<1>19. CASE UNCHANGED vars
  BY <1>19 DEF vars
<1> QED
  BY <1>1, <1>2, <1>3, <1>4, <1>5, <1>6, <1>7, <1>8, <1>9, <1>10, <1>11,
     <1>12, <1>13, <1>14, <1>15, <1>16, <1>17, <1>18, <1>19
  DEF Next, Call, Loop, Flush, Procs

\* No Add ever waits on commander or confirmChan without a flusher to serve it.
THEOREM NobodyStranded == Spec => []NoAdderStranded
<1>1. Init => NoAdderStranded
  BY GoroutinesAssumption DEF Init, NoAdderStranded, Procs
<1> QED  BY <1>1, StepStranded, ServeInvariant, PTL DEF Spec

\* A step of a goroutine that is not in RemoveAll leaves the watchers as they
\* are, and the flusher that quits becomes one.
LEMMA StepWatched == TasksKept /\ ContainerWatched /\ [Next]_vars => ContainerWatched'
<1> SUFFICES ASSUME TasksKept /\ ContainerWatched, [Next]_vars PROVE ContainerWatched'
  OBVIOUS
<1>0. ThreadTypes
  BY DEF TasksKept, TypeOK
<1> USE <1>0, GoroutinesAssumption DEF ThreadTypes, ContainerWatched, Procs, Goto, pool
<1>1. ASSUME NEW c \in Clients, NEW t \in Tasks, AddAndCheck(c, t) PROVE ContainerWatched'
  BY <1>1 DEF AddAndCheck
<1>2. ASSUME NEW c \in Clients, NEW f \in Flushers, BackgroundFlush(c, f) PROVE ContainerWatched'
  BY <1>2 DEF BackgroundFlush
<1>3. ASSUME NEW c \in Clients, AddReturn(c) PROVE ContainerWatched'
  BY <1>3 DEF AddReturn
<1>4. ASSUME NEW c \in Clients, Send(c) PROVE ContainerWatched'
  BY <1>4 DEF Send
<1>5. ASSUME NEW c \in Clients, CallFlush(c) PROVE ContainerWatched'
  BY <1>5 DEF CallFlush
<1>6. ASSUME NEW c \in Clients, CallWait(c) PROVE ContainerWatched'
  BY <1>6 DEF CallWait
<1>7. ASSUME NEW c \in Clients, WaitGuard(c) PROVE ContainerWatched'
  BY <1>7 DEF WaitGuard
<1>8. ASSUME NEW c \in Clients, WaitReturn(c) PROVE ContainerWatched'
  BY <1>8 DEF WaitReturn
<1>9. ASSUME NEW p \in Procs, FlushEnter(p) PROVE ContainerWatched'
  BY <1>9 DEF FlushEnter, EnterExecution
<1>10. ASSUME NEW p \in Procs, FlushRemove(p) PROVE ContainerWatched'
  BY <1>10 DEF FlushRemove
<1>11. ASSUME NEW p \in Procs, Execute(p) PROVE ContainerWatched'
  BY <1>11 DEF Execute
<1>12. ASSUME NEW p \in Procs, DoneExecution(p) PROVE ContainerWatched'
  BY <1>12 DEF DoneExecution
<1>13. ASSUME NEW f \in Flushers, Receive(f) PROVE ContainerWatched'
  BY <1>13 DEF Receive
<1>14. ASSUME NEW f \in Flushers, CommandEnter(f) PROVE ContainerWatched'
  BY <1>14 DEF CommandEnter, EnterExecution
<1>15. ASSUME NEW f \in Flushers, NEW c \in Clients, Confirm(f, c) PROVE ContainerWatched'
  BY <1>15 DEF Confirm
<1>16. ASSUME NEW f \in Flushers, Tick(f) PROVE ContainerWatched'
  BY <1>16 DEF Tick
<1>17. ASSUME NEW f \in Flushers, ShallQuit(f) PROVE ContainerWatched'
  BY <1>17 DEF ShallQuit
<1>18. ASSUME NEW f \in Flushers, IntervalElapses(f) PROVE ContainerWatched'
  BY <1>18 DEF IntervalElapses
<1>19. CASE UNCHANGED vars
  BY <1>19 DEF vars
<1> QED
  BY <1>1, <1>2, <1>3, <1>4, <1>5, <1>6, <1>7, <1>8, <1>9, <1>10, <1>11,
     <1>12, <1>13, <1>14, <1>15, <1>16, <1>17, <1>18, <1>19
  DEF Next, Call, Loop, Flush, Procs

\* A flusher serves the executor whenever one is needed: one at most, for every
\* Add that waits and for every task in the container, with exact counters.
THEOREM FlushersServed == Spec => []FlushersServe
<1>1. Init => NoAdderStranded /\ ContainerWatched
  BY GoroutinesAssumption DEF Init, NoAdderStranded, ContainerWatched, Procs
<1>2. Inv /\ NoAdderStranded /\ ContainerWatched => FlushersServe
  BY DEF Inv, ServeInv, FlushersServe
<1>3. Inv => TasksKept
  BY DEF Inv
<1> QED  BY <1>1, <1>2, <1>3, StepStranded, StepWatched, ServeInvariant, PTL DEF Spec

-----------------------------------------------------------------------------
(***************************************************************************)
(* Proof that PeriodicalExecutor.Wait keeps its promise to a goroutine     *)
(* that is the only one to add tasks.                                      *)
(***************************************************************************)

\* Only adders are inside Add, and what has returned was added.
CallsInv ==
  /\ \A c \in Clients : pc[c] \in {"go", "send", "confirm", "return"} => c \in Adders
  /\ returned \subseteq added
  /\ \A c \in Clients : adding[c] \subseteq added /\ awaited[c] \subseteq added

\* Past the RemoveAll of its Wait, a sole adder finds the container empty.
WaitInv(a) ==
  \/ pc[a] \in {"execute", "done"} /\ ret[a] = "guard"
  \/ pc[a] \in {"guard", "wait"}
  => container = {}

\* Every step keeps CallsInv.
LEMMA StepCalls == ThreadTypes /\ HistoryTypes /\ Control /\ CallsInv /\ [Next]_vars => CallsInv'
<1> SUFFICES ASSUME ThreadTypes /\ HistoryTypes /\ Control /\ CallsInv, [Next]_vars PROVE CallsInv'
  OBVIOUS
<1>0. /\ pc \in [Procs -> ClientPC \cup FlusherPC] /\ \A c \in Clients : ret[c] \in {"ready", "guard"}
      /\ adding \in [Clients -> SUBSET Tasks] /\ awaited \in [Clients -> SUBSET Tasks]
  BY DEF ThreadTypes, HistoryTypes, Control
<1> USE <1>0, GoroutinesAssumption DEF CallsInv, Procs, Goto, history
<1>1. ASSUME NEW c \in Clients, NEW t \in Tasks, AddAndCheck(c, t) PROVE CallsInv'
  BY <1>1 DEF AddAndCheck
<1>2. ASSUME NEW c \in Clients, NEW f \in Flushers, BackgroundFlush(c, f) PROVE CallsInv'
  BY <1>2 DEF BackgroundFlush
<1>3. ASSUME NEW c \in Clients, AddReturn(c) PROVE CallsInv'
  BY <1>3 DEF AddReturn
<1>4. ASSUME NEW c \in Clients, Send(c) PROVE CallsInv'
  BY <1>4 DEF Send
<1>5. ASSUME NEW c \in Clients, CallFlush(c) PROVE CallsInv'
  BY <1>5 DEF CallFlush
<1>6. ASSUME NEW c \in Clients, CallWait(c) PROVE CallsInv'
  BY <1>6 DEF CallWait
<1>7. ASSUME NEW c \in Clients, WaitGuard(c) PROVE CallsInv'
  BY <1>7 DEF WaitGuard
<1>8. ASSUME NEW c \in Clients, WaitReturn(c) PROVE CallsInv'
  BY <1>8 DEF WaitReturn
<1>9. ASSUME NEW p \in Procs, FlushEnter(p) PROVE CallsInv'
  BY <1>9 DEF FlushEnter, EnterExecution
<1>10. ASSUME NEW p \in Procs, FlushRemove(p) PROVE CallsInv'
  BY <1>10 DEF FlushRemove
<1>11. ASSUME NEW p \in Procs, Execute(p) PROVE CallsInv'
  BY <1>11 DEF Execute
<1>12. ASSUME NEW p \in Procs, DoneExecution(p) PROVE CallsInv'
  BY <1>12 DEF DoneExecution
<1>13. ASSUME NEW f \in Flushers, Receive(f) PROVE CallsInv'
  BY <1>13 DEF Receive
<1>14. ASSUME NEW f \in Flushers, CommandEnter(f) PROVE CallsInv'
  BY <1>14 DEF CommandEnter, EnterExecution
<1>15. ASSUME NEW f \in Flushers, NEW c \in Clients, Confirm(f, c) PROVE CallsInv'
  BY <1>15 DEF Confirm
<1>16. ASSUME NEW f \in Flushers, Tick(f) PROVE CallsInv'
  BY <1>16 DEF Tick
<1>17. ASSUME NEW f \in Flushers, ShallQuit(f) PROVE CallsInv'
  BY <1>17 DEF ShallQuit
<1>18. ASSUME NEW f \in Flushers, IntervalElapses(f) PROVE CallsInv'
  BY <1>18 DEF IntervalElapses
<1>19. CASE UNCHANGED vars
  BY <1>19 DEF vars
<1> QED
  BY <1>1, <1>2, <1>3, <1>4, <1>5, <1>6, <1>7, <1>8, <1>9, <1>10, <1>11,
     <1>12, <1>13, <1>14, <1>15, <1>16, <1>17, <1>18, <1>19
  DEF Next, Call, Loop, Flush, Procs

\* No step puts a task back into the container behind a sole adder's Wait.
LEMMA StepWait ==
  ASSUME NEW a \in Clients, Adders = {a}, ThreadTypes, Control, WaitInv(a), [Next]_vars
  PROVE  WaitInv(a)'
<1>0. /\ pc \in [Procs -> ClientPC \cup FlusherPC]
      /\ ret \in [Procs -> {"ready", "guard", "select", "tick", "off"}]
      /\ \A c \in Clients : ret[c] \in {"ready", "guard"}
  BY DEF ThreadTypes, Control
<1> USE <1>0, GoroutinesAssumption DEF WaitInv, Procs, Goto, pool
<1>1. ASSUME NEW c \in Clients, NEW t \in Tasks, AddAndCheck(c, t) PROVE WaitInv(a)'
  BY <1>1 DEF AddAndCheck
<1>2. ASSUME NEW c \in Clients, NEW f \in Flushers, BackgroundFlush(c, f) PROVE WaitInv(a)'
  BY <1>2 DEF BackgroundFlush
<1>3. ASSUME NEW c \in Clients, AddReturn(c) PROVE WaitInv(a)'
  BY <1>3 DEF AddReturn
<1>4. ASSUME NEW c \in Clients, Send(c) PROVE WaitInv(a)'
  BY <1>4 DEF Send
<1>5. ASSUME NEW c \in Clients, CallFlush(c) PROVE WaitInv(a)'
  BY <1>5 DEF CallFlush
<1>6. ASSUME NEW c \in Clients, CallWait(c) PROVE WaitInv(a)'
  BY <1>6 DEF CallWait
<1>7. ASSUME NEW c \in Clients, WaitGuard(c) PROVE WaitInv(a)'
  BY <1>7 DEF WaitGuard
<1>8. ASSUME NEW c \in Clients, WaitReturn(c) PROVE WaitInv(a)'
  BY <1>8 DEF WaitReturn
<1>9. ASSUME NEW p \in Procs, FlushEnter(p) PROVE WaitInv(a)'
  BY <1>9 DEF FlushEnter, EnterExecution
<1>10. ASSUME NEW p \in Procs, FlushRemove(p) PROVE WaitInv(a)'
  BY <1>10 DEF FlushRemove
<1>11. ASSUME NEW p \in Procs, Execute(p) PROVE WaitInv(a)'
  BY <1>11 DEF Execute
<1>12. ASSUME NEW p \in Procs, DoneExecution(p) PROVE WaitInv(a)'
  BY <1>12 DEF DoneExecution
<1>13. ASSUME NEW f \in Flushers, Receive(f) PROVE WaitInv(a)'
  BY <1>13 DEF Receive
<1>14. ASSUME NEW f \in Flushers, CommandEnter(f) PROVE WaitInv(a)'
  BY <1>14 DEF CommandEnter, EnterExecution
<1>15. ASSUME NEW f \in Flushers, NEW c \in Clients, Confirm(f, c) PROVE WaitInv(a)'
  BY <1>15 DEF Confirm
<1>16. ASSUME NEW f \in Flushers, Tick(f) PROVE WaitInv(a)'
  BY <1>16 DEF Tick
<1>17. ASSUME NEW f \in Flushers, ShallQuit(f) PROVE WaitInv(a)'
  BY <1>17 DEF ShallQuit
<1>18. ASSUME NEW f \in Flushers, IntervalElapses(f) PROVE WaitInv(a)'
  BY <1>18 DEF IntervalElapses
<1>19. CASE UNCHANGED vars
  BY <1>19 DEF vars
<1> QED
  BY <1>1, <1>2, <1>3, <1>4, <1>5, <1>6, <1>7, <1>8, <1>9, <1>10, <1>11,
     <1>12, <1>13, <1>14, <1>15, <1>16, <1>17, <1>18, <1>19
  DEF Next, Call, Loop, Flush, Procs

\* When the counter of the waitGroup is zero, a sole adder in Wait sees every
\* task that had returned executed: none is in the container, none in the
\* channel and none in any goroutine's hands.
LEMMA WaitEnds ==
  ASSUME NEW a \in Clients, Adders = {a}, Inv, CallsInv, WaitInv(a),
         pc[a] = "wait", waitGroup = 0
  PROVE  awaited[a] \subseteq executed
<1>1. Executing = {}
  BY FiniteCounts, FS_EmptySet DEF Inv, ServeInv, CountersExact
<1>2. Sending = {} /\ Confirming = {}
  BY DEF CallsInv, Sending, Confirming
<1>3. /\ Cardinality(Replying) \in Nat /\ Len(commander) \in Nat
      /\ commander # <<>> => Len(commander) = 1
  BY FiniteCounts, FS_CardinalityType DEF Inv, TasksKept, TypeOK, PoolTypes
<1>4. Cardinality(Replying) = 0 /\ commander = <<>>
  BY <1>2, <1>3, FS_EmptySet DEF Inv, ServeInv, CountersExact
<1>5. Replying = {}
  BY <1>4, FiniteCounts, FS_EmptySet
<1>6. \A p \in Procs : Held(p) = {}
  <2> SUFFICES ASSUME NEW p \in Procs, pc[p] # "done", batch[p] # {} PROVE FALSE
    BY DEF Held
  <2>1. pc[p] \in {"go", "send", "enter", "reply", "execute"}
    BY DEF Inv, TasksKept, Control
  <2>2. CASE p \in Clients
    BY <1>1, <1>2, <2>1, <2>2 DEF Executing, Sending, Inv, TasksKept, TypeOK, ThreadTypes, ClientPC
  <2>3. CASE p \in Flushers
    BY <1>1, <1>5, <2>1, <2>3 DEF Executing, Replying, Inv, TasksKept, TypeOK, ThreadTypes, FlusherPC
  <2> QED  BY <2>2, <2>3 DEF Procs
<1>7. container = {} /\ Queued = {} /\ InHands = {}
  BY <1>4, <1>6 DEF WaitInv, Queued, InHands
<1> QED  BY <1>7 DEF CallsInv, Inv, TasksKept, NoTaskLost

\* Only a waitGroup at zero lets a client leave Wait.
LEMMA LeavesWait ==
  ASSUME NEW a \in Clients, ThreadTypes, [Next]_vars, pc[a] = "wait", pc'[a] # "wait"
  PROVE  waitGroup = 0
<1> USE GoroutinesAssumption DEF ThreadTypes, Procs, Goto
<1>1. ASSUME NEW c \in Clients, NEW t \in Tasks, AddAndCheck(c, t) PROVE waitGroup = 0
  BY <1>1 DEF AddAndCheck
<1>2. ASSUME NEW c \in Clients, NEW f \in Flushers, BackgroundFlush(c, f) PROVE waitGroup = 0
  BY <1>2 DEF BackgroundFlush
<1>3. ASSUME NEW c \in Clients, AddReturn(c) PROVE waitGroup = 0
  BY <1>3 DEF AddReturn
<1>4. ASSUME NEW c \in Clients, Send(c) PROVE waitGroup = 0
  BY <1>4 DEF Send
<1>5. ASSUME NEW c \in Clients, CallFlush(c) PROVE waitGroup = 0
  BY <1>5 DEF CallFlush
<1>6. ASSUME NEW c \in Clients, CallWait(c) PROVE waitGroup = 0
  BY <1>6 DEF CallWait
<1>7. ASSUME NEW c \in Clients, WaitGuard(c) PROVE waitGroup = 0
  BY <1>7 DEF WaitGuard
<1>8. ASSUME NEW c \in Clients, WaitReturn(c) PROVE waitGroup = 0
  BY <1>8 DEF WaitReturn
<1>9. ASSUME NEW p \in Procs, FlushEnter(p) PROVE waitGroup = 0
  BY <1>9 DEF FlushEnter, EnterExecution
<1>10. ASSUME NEW p \in Procs, FlushRemove(p) PROVE waitGroup = 0
  BY <1>10 DEF FlushRemove
<1>11. ASSUME NEW p \in Procs, Execute(p) PROVE waitGroup = 0
  BY <1>11 DEF Execute
<1>12. ASSUME NEW p \in Procs, DoneExecution(p) PROVE waitGroup = 0
  BY <1>12 DEF DoneExecution
<1>13. ASSUME NEW f \in Flushers, Receive(f) PROVE waitGroup = 0
  BY <1>13 DEF Receive
<1>14. ASSUME NEW f \in Flushers, CommandEnter(f) PROVE waitGroup = 0
  BY <1>14 DEF CommandEnter, EnterExecution
<1>15. ASSUME NEW f \in Flushers, NEW c \in Clients, Confirm(f, c) PROVE waitGroup = 0
  BY <1>15 DEF Confirm
<1>16. ASSUME NEW f \in Flushers, Tick(f) PROVE waitGroup = 0
  BY <1>16 DEF Tick
<1>17. ASSUME NEW f \in Flushers, ShallQuit(f) PROVE waitGroup = 0
  BY <1>17 DEF ShallQuit
<1>18. ASSUME NEW f \in Flushers, IntervalElapses(f) PROVE waitGroup = 0
  BY <1>18 DEF IntervalElapses
<1>19. CASE UNCHANGED vars
  BY <1>19 DEF vars
<1> QED
  BY <1>1, <1>2, <1>3, <1>4, <1>5, <1>6, <1>7, <1>8, <1>9, <1>10, <1>11,
     <1>12, <1>13, <1>14, <1>15, <1>16, <1>17, <1>18, <1>19
  DEF Next, Call, Loop, Flush, Procs

\* Wait keeps its promise to a goroutine that is the only one to call Add: when
\* it returns, every task whose Add had returned before has been executed.
THEOREM SoleAdderWait ==
  ASSUME NEW a \in Clients, Adders = {a}
  PROVE  Spec => WaitCoversReturned
<1>1. Init => CallsInv /\ WaitInv(a)
  BY GoroutinesAssumption DEF Init, CallsInv, WaitInv, Procs
<1>2. Inv /\ CallsInv /\ WaitInv(a) /\ [Next]_vars => (CallsInv /\ WaitInv(a))'
  BY StepCalls, StepWait DEF Inv, TasksKept, TypeOK
<1>3. Inv /\ CallsInv /\ WaitInv(a) /\ [Next]_vars
      => [\A c \in Adders : pc[c] = "wait" /\ pc'[c] # "wait" => awaited[c] \subseteq executed]_vars
  <2> SUFFICES ASSUME Inv, CallsInv, WaitInv(a), Next, pc[a] = "wait", pc'[a] # "wait"
               PROVE  awaited[a] \subseteq executed
    OBVIOUS
  <2>1. waitGroup = 0
    BY LeavesWait DEF Inv, TasksKept, TypeOK
  <2> QED  BY <2>1, WaitEnds
<1> QED  BY <1>1, <1>2, <1>3, ServeInvariant, PTL DEF Spec, WaitCoversReturned
=============================================================================
