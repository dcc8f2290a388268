------------------------------- MODULE Places -------------------------------
(***************************************************************************)
(* core/syncx: the two ways to wait for one of a limited number of places. *)
(***************************************************************************)
EXTENDS Integers, Sequences, FiniteSets

(***************************************************************************)
(* core/syncx/pool.go: Pool, a stack of at most PoolLimit resources.       *)
(*                                                                         *)
(* Get runs under p.lock up to the resource it returns or to cond.Wait, so *)
(* that part is one step.  The stack is in the order of lastUsed: when the *)
(* resource on top is older than maxAge all of them are, and one Get       *)
(* destroys them all.  sync.Cond is external: Signal wakes the goroutine   *)
(* that waits longest, which then competes for the lock like any other.    *)
(***************************************************************************)
CONSTANTS PoolUsers, PoolLimit

ASSUME PoolAssumption == IsFiniteSet(PoolUsers) /\ PoolLimit \in Nat \ {0}

VARIABLES poolUser,     \* where a goroutine is: out, get, wait, use
          holding,      \* the resource it has; 0 is none
          idle,         \* the stack, top first
          created,
          lost,         \* calls of create that panicked
          poolWaiters   \* the goroutines in cond.Wait, in order

poolVars == <<poolUser, holding, idle, created, lost, poolWaiters>>

PoolInit ==
  /\ poolUser = [u \in PoolUsers |-> "out"]
  /\ holding = [u \in PoolUsers |-> 0]
  /\ idle = <<>> /\ created = 0 /\ lost = 0
  /\ poolWaiters = <<>>

PoolUserAt(u, s) == poolUser' = [poolUser EXCEPT ![u] = s]
Holds(u, r) == holding' = [holding EXCEPT ![u] = r]

InPool == {idle[i] : i \in 1..Len(idle)}

\* p.create(): a resource is named by a number that no other has.
Fresh == CHOOSE r \in 1..2*PoolLimit : r \notin InPool /\ \A u \in PoolUsers : holding[u] # r

PoolCall(u) ==
  /\ poolUser[u] = "out"
  /\ PoolUserAt(u, "get")
  /\ UNCHANGED <<holding, idle, created, lost, poolWaiters>>

\* The resource on top is not too old.
PoolTake(u) ==
  /\ poolUser[u] = "get" /\ idle # <<>>
  /\ Holds(u, Head(idle)) /\ idle' = Tail(idle)
  /\ PoolUserAt(u, "use")
  /\ UNCHANGED <<created, lost, poolWaiters>>

\* Mutant of PoolCreate: a destroyed resource is still counted.
PoolCreateCounts(u, old) ==
  /\ poolUser[u] = "get"
  /\ created < PoolLimit
  /\ created' = created + 1
  /\ idle' = <<>>
  /\ Holds(u, Fresh)
  /\ PoolUserAt(u, "use")
  /\ UNCHANGED <<lost, poolWaiters>>

\* The stack is empty, or all of its `old' resources are destroyed; there is
\* room for a new one.
PoolCreate(u, old) ==
  /\ poolUser[u] = "get"
  /\ created - old < PoolLimit
  /\ created' = created - old + 1
  /\ idle' = <<>>
  /\ Holds(u, Fresh)
  /\ PoolUserAt(u, "use")
  /\ UNCHANGED <<lost, poolWaiters>>

\* p.create panics: created has been incremented before it.
PoolCreatePanics(u, old) ==
  /\ poolUser[u] = "get"
  /\ created - old < PoolLimit
  /\ created' = created - old + 1
  /\ idle' = <<>>
  /\ lost' = lost + 1
  /\ PoolUserAt(u, "out")
  /\ UNCHANGED <<holding, poolWaiters>>

PoolWait(u) ==
  /\ poolUser[u] = "get" /\ idle = <<>> /\ created >= PoolLimit
  /\ PoolUserAt(u, "wait") /\ poolWaiters' = Append(poolWaiters, u)
  /\ UNCHANGED <<holding, idle, created, lost>>

\* Mutant of PoolPut: nobody is woken when the stack is not empty.
PoolPutQuiet(u) ==
  /\ poolUser[u] = "use"
  /\ idle' = <<holding[u]>> \o idle /\ Holds(u, 0)
  /\ IF poolWaiters = <<>> \/ idle # <<>>
     THEN PoolUserAt(u, "out") /\ UNCHANGED poolWaiters
     ELSE /\ poolUser' = [poolUser EXCEPT ![u] = "out", ![Head(poolWaiters)] = "get"]
          /\ poolWaiters' = Tail(poolWaiters)
  /\ UNCHANGED <<created, lost>>

PoolPut(u) ==
  /\ poolUser[u] = "use"
  /\ idle' = <<holding[u]>> \o idle /\ Holds(u, 0)
  /\ IF poolWaiters = <<>>
     THEN PoolUserAt(u, "out") /\ UNCHANGED poolWaiters
     ELSE /\ poolUser' = [poolUser EXCEPT ![u] = "out", ![Head(poolWaiters)] = "get"]
          /\ poolWaiters' = Tail(poolWaiters)
  /\ UNCHANGED <<created, lost>>

PoolGet(u) == PoolTake(u) \/ PoolCreate(u, Len(idle)) \/ PoolCreatePanics(u, Len(idle)) \/ PoolWait(u)

PoolNext == \E u \in PoolUsers : PoolCall(u) \/ PoolGet(u) \/ PoolPut(u)

PoolSpec == PoolInit /\ [][PoolNext]_poolVars

\* A goroutine that can run gets the lock, and puts back what it has.
PoolFairness == \A u \in PoolUsers : WF_poolVars(PoolGet(u)) /\ WF_poolVars(PoolPut(u))

-----------------------------------------------------------------------------
PoolAt(s) == {u \in PoolUsers : poolUser[u] = s}

\* p.created is what exists: the resources in the stack and those given out,
\* never one in two places, never more than the limit (with the places that a
\* panicking create has cost).
PoolAccount ==
  /\ created = Len(idle) + Cardinality(PoolAt("use")) + lost
  /\ created <= PoolLimit
  /\ Cardinality(InPool) = Len(idle)
  /\ \A u, v \in PoolAt("use") : holding[u] \notin InPool /\ (u # v => holding[u] # holding[v])

\* No wake-up is lost: while goroutines wait in Get, everything is given out,
\* or as many others as there are resources in the stack have been woken.
PoolNoLostWake ==
  poolWaiters # <<>> => Len(idle) + PoolLimit - created <= Cardinality(PoolAt("get"))

\* A goroutine that waits in Get is woken again, unless create has panicked so
\* often that no resource is left.
PoolWoken ==
  \A u \in PoolUsers : poolUser[u] = "wait" ~> (poolUser[u] # "wait" \/ lost = PoolLimit)

(***************************************************************************)
(* core/syncx/timeoutlimit.go over limit.go and cond.go: borrow one of     *)
(* PlaceCount places, and wait for one up to a timeout.                    *)
(*                                                                         *)
(* The channel of Cond has no buffer, and Signal does nothing when nobody  *)
(* is in its select: between a failed TryBorrow and the select of          *)
(* WaitWithTimeout ("gap") a borrower does not hear of a Return.           *)
(***************************************************************************)
CONSTANTS Borrowers, PlaceCount,
          MaxLeft  \* bound: the longest timeout, in steps of the clock

ASSUME PlacesAssumption == IsFiniteSet(Borrowers) /\ PlaceCount \in Nat /\ MaxLeft \in Nat

VARIABLES borrower,  \* out, try, gap, wait, retry, hold, signal
          left,      \* what is left of the timeout
          taken,     \* the elements of limit.pool
          deaf       \* history: a Signal found this borrower in the gap

limitVars == <<borrower, left, taken, deaf>>

LimitInit ==
  /\ borrower = [b \in Borrowers |-> "out"]
  /\ left = [b \in Borrowers |-> 0]
  /\ taken = 0
  /\ deaf = [b \in Borrowers |-> FALSE]

BorrowerAt(b, s) == borrower' = [borrower EXCEPT ![b] = s]

\* Borrow(timeout); a timeout of zero is allowed.
LimitBorrow(b) ==
  /\ borrower[b] = "out"
  /\ \E t \in 0..MaxLeft : left' = [left EXCEPT ![b] = t]
  /\ BorrowerAt(b, "try") /\ deaf' = [deaf EXCEPT ![b] = FALSE]
  /\ UNCHANGED taken

\* limit.TryBorrow.
TryBorrow(b, otherwise) ==
  /\ taken' = IF taken < PlaceCount THEN taken + 1 ELSE taken
  /\ BorrowerAt(b, IF taken < PlaceCount THEN "hold" ELSE otherwise)

FirstTry(b) ==
  /\ borrower[b] = "try"
  /\ TryBorrow(b, "gap")
  /\ UNCHANGED <<left, deaf>>

\* The select of WaitWithTimeout begins.
Park(b) ==
  /\ borrower[b] = "gap"
  /\ BorrowerAt(b, "wait")
  /\ UNCHANGED <<left, taken, deaf>>

\* timer.C: WaitWithTimeout returns 0 and false, Borrow ErrTimeout.
BorrowTimesOut(b) ==
  /\ borrower[b] = "wait"
  /\ BorrowerAt(b, "out")
  /\ UNCHANGED <<left, taken, deaf>>

\* A signal came: try again, and wait on with the time that is left.
Retry(b) ==
  /\ borrower[b] = "retry"
  /\ TryBorrow(b, IF left[b] = 0 THEN "out" ELSE "gap")
  /\ deaf' = [deaf EXCEPT ![b] = FALSE]
  /\ UNCHANGED left

\* Return: limit.Return takes the element out, then cond.Signal.
LimitReturn(b) ==
  /\ borrower[b] = "hold"
  /\ taken' = taken - 1
  /\ BorrowerAt(b, "signal")
  /\ UNCHANGED <<left, deaf>>

LimitParked == {b \in Borrowers : borrower[b] = "wait"}

\* Mutant of LimitSignal: nobody is woken.
LimitSignalNobody(b) ==
  /\ borrower[b] = "signal"
  /\ BorrowerAt(b, "out")
  /\ UNCHANGED <<left, taken, deaf>>

LimitSignal(b) ==
  /\ borrower[b] = "signal"
  /\ IF LimitParked = {}
     THEN /\ BorrowerAt(b, "out")
          /\ deaf' = [w \in Borrowers |-> deaf[w] \/ borrower[w] = "gap"]
          /\ UNCHANGED left
     ELSE \E w \in LimitParked, t \in 0..MaxLeft :
            /\ t < left[w] \/ t = 0
            /\ borrower' = [borrower EXCEPT ![b] = "out", ![w] = "retry"]
            /\ left' = [left EXCEPT ![w] = t]
            /\ UNCHANGED deaf
  /\ UNCHANGED taken

Borrowing(b) == FirstTry(b) \/ Park(b) \/ BorrowTimesOut(b) \/ Retry(b) \/ LimitSignal(b)

LimitNext == \E b \in Borrowers : LimitBorrow(b) \/ Borrowing(b) \/ LimitReturn(b)

LimitSpec == LimitInit /\ [][LimitNext]_limitVars

\* Timers fire and goroutines run; nobody has to return what it holds.
LimitFairness == \A b \in Borrowers : WF_limitVars(Borrowing(b))

-----------------------------------------------------------------------------
LimitAt(s) == {b \in Borrowers : borrower[b] = s}

\* The channel holds one element for each borrow that is not returned, and never
\* more than its capacity.
PlacesCounted == taken = Cardinality(LimitAt("hold")) /\ taken <= PlaceCount

\* A borrower waits (and so may time out) beside a free place only when that
\* place is on its way to another goroutine, or its Signal found the borrower
\* between TryBorrow and the select: no other wake-up is lost.
WaitExplained ==
  \A b \in LimitAt("wait") :
    taken < PlaceCount => deaf[b] \/ LimitAt("signal") \cup LimitAt("retry") # {}

\* Borrow comes back, however often it is woken for a place that others take.
BorrowReturns ==
  \A b \in Borrowers : borrower[b] = "try" ~> borrower[b] \in {"hold", "out"}
=============================================================================
