--------------------------- MODULE RunnersProofs ----------------------------
(***************************************************************************)
(* Proofs about TaskRunner, LockedCalls, StableRunner and Publisher for    *)
(* every set of goroutines, every limit, every size of the buffer and every *)
(* set of leases.                                                          *)
(*                                                                         *)
(* RunnerInv, LockedInv, StableInv and KeysInv are inductive; each has a   *)
(* lemma for the initial states and one for the steps.                     *)
(***************************************************************************)
EXTENDS Runners, Publisher, FiniteSetTheorems, TLAPS

\* The provers of a leaf, in turn, and their time.
USE ZenonT(5), SMTT(30)

-----------------------------------------------------------------------------
(***************************************************************************)
(* Finite sets and sequences.                                              *)
(***************************************************************************)
LEMMA TaskMore ==
  ASSUME NEW S, NEW x, IsFiniteSet(S), x \notin S
  PROVE  Cardinality(S \cup {x}) = Cardinality(S) + 1 /\ Cardinality(S) \in Nat
BY FS_AddElement, FS_CardinalityType

\* A finite set that loses an element has one less.
LEMMA TaskLess ==
  ASSUME NEW S, NEW x, IsFiniteSet(S), x \in S
  PROVE  Cardinality(S \ {x}) = Cardinality(S) - 1 /\ Cardinality(S) \in Nat
BY FS_RemoveElement, FS_CardinalityType

\* A part of a finite set is finite and has no more elements.
LEMMA TasksBelow ==
  ASSUME NEW S, NEW T, IsFiniteSet(S), T \subseteq S
  PROVE  IsFiniteSet(T) /\ Cardinality(T) \in Nat /\ Cardinality(T) <= Cardinality(S)
         /\ Cardinality(S) \in Nat /\ (Cardinality(T) = 0 <=> T = {})
BY FS_Subset, FS_CardinalityType, FS_EmptySet

\* A sequence with one more at its end, place by place.
LEMMA ResultsAppend ==
  ASSUME NEW S, NEW s \in Seq(S), NEW x \in S
  PROVE  /\ Append(s, x) \in Seq(S) /\ Append(s, x) # <<>>
         /\ Len(Append(s, x)) = Len(s) + 1
         /\ \A i \in 1..Len(s) : Append(s, x)[i] = s[i]
         /\ Append(s, x)[Len(s) + 1] = x
OBVIOUS


-----------------------------------------------------------------------------
(***************************************************************************)
(* core/threading/taskrunner.go and core/syncx/lockedcalls.go.             *)
(***************************************************************************)
RunnerTypes ==
  /\ runnerCall \in [RunnerCalls -> {"idle", "block", "try", "task", "done", "over", "refused"}]
  /\ runnerWaiter \in [RunnerWaiters -> {"idle", "waiting", "woken", "returned", "panicked"}]
  /\ covers \in [RunnerWaiters -> SUBSET RunnerCalls]

InTask == {c \in RunnerCalls : runnerCall[c] = "task"}

\* A call that a Wait covers has begun.
CoversBegun == \A w \in RunnerWaiters : \A c \in covers[w] : runnerCall[c] # "idle"

RunnerInv == RunnerTypes /\ RunnerCounted /\ CoversBegun /\ WaitCovers

\* The calls that the runner counts are finitely many.
LEMMA RunnerFinite ==
  /\ IsFiniteSet(InTask) /\ Cardinality(InTask) \in Nat
  /\ IsFiniteSet(Begun) /\ Cardinality(Begun) \in Nat
BY TasksBelow, RunnerAssumption DEF InTask, Begun

\* The new task runner satisfies its invariant.
LEMMA RunnerStart == RunnerInit => RunnerInv
<1> SUFFICES ASSUME RunnerInit PROVE RunnerInv
  OBVIOUS
<1>1. InTask = {} /\ Begun = {}
  BY DEF RunnerInit, InTask, Begun
<1> QED  BY <1>1, FS_EmptySet, RunnerAssumption
         DEF RunnerInit, RunnerInv, RunnerTypes, RunnerCounted, CoversBegun, WaitCovers, InTask

\* Schedule counts its task in.
LEMMA RunnerAdds ==
  ASSUME RunnerInv, NEW c \in RunnerCalls, NEW to \in {"block", "try"}, AddFirst(c, to) PROVE RunnerInv'
<1>1. InTask' = InTask /\ Begun' = Begun \cup {c} /\ c \notin Begun
  BY DEF AddFirst, CallStep, RunnerInv, RunnerTypes, InTask, Begun
<1>2. Cardinality(Begun') = Cardinality(Begun) + 1
  BY <1>1, RunnerFinite, TaskMore
<1>3. RunnerTypes' /\ CoversBegun'
  BY DEF AddFirst, CallStep, RunnerInv, RunnerTypes, CoversBegun
<1>4. WaitCovers'
  BY <1>1 DEF AddFirst, CallStep, RunnerInv, CoversBegun, WaitCovers
<1>5. RunnerCounted'
  BY <1>1, <1>2, RunnerFinite DEF AddFirst, RunnerInv, RunnerCounted, InTask
<1> QED  BY <1>3, <1>4, <1>5 DEF RunnerInv

\* A task gets its place.
LEMMA RunnerTakes ==
  ASSUME RunnerInv, NEW c \in RunnerCalls, NEW from \in {"block", "try"}, TakePlace(c, from) PROVE RunnerInv'
<1>1. InTask' = InTask \cup {c} /\ Begun' = Begun /\ c \notin InTask
  BY DEF TakePlace, CallStep, RunnerInv, RunnerTypes, InTask, Begun
<1>2. Cardinality(InTask') = Cardinality(InTask) + 1
  BY <1>1, RunnerFinite, TaskMore
<1>3. RunnerTypes' /\ CoversBegun'
  BY DEF TakePlace, CallStep, RunnerInv, RunnerTypes, CoversBegun
<1>4. WaitCovers'
  BY <1>1 DEF TakePlace, CallStep, RunnerInv, WaitCovers
<1>5. RunnerCounted'
  BY <1>1, <1>2, RunnerFinite, RunnerAssumption DEF TakePlace, RunnerInv, RunnerCounted, InTask
<1> QED  BY <1>3, <1>4, <1>5 DEF RunnerInv

\* A task ends, also with a panic: it is counted out and its place is free.
LEMMA RunnerEnds ==
  ASSUME RunnerInv, NEW c \in RunnerCalls, TaskEnds(c) PROVE RunnerInv'
<1>1. InTask' = InTask \ {c} /\ Begun' = Begun /\ c \in InTask
  BY DEF TaskEnds, CallStep, RunnerInv, RunnerTypes, InTask, Begun
<1>2. Cardinality(InTask') = Cardinality(InTask) - 1
  BY <1>1, RunnerFinite, TaskLess
<1>3. RunnerTypes' /\ CoversBegun'
  BY DEF TaskEnds, CallStep, RunnerInv, RunnerTypes, CoversBegun
<1>4. WaitCovers'
  BY <1>1 DEF TaskEnds, CallStep, RunnerInv, WaitCovers
<1>5. RunnerCounted'
  BY <1>1, <1>2, RunnerFinite, RunnerAssumption DEF TaskEnds, RunnerInv, RunnerCounted, InTask
<1> QED  BY <1>3, <1>4, <1>5 DEF RunnerInv

\* The Done of a call that is over, or refused: it wakes the waiters when it was
\* the last one that had begun.
LEMMA RunnerDone ==
  ASSUME RunnerInv, NEW c \in RunnerCalls, RunnerRefuse(c) \/ TaskDone(c) PROVE RunnerInv'
<1>1. InTask' = InTask /\ Begun' = Begun \ {c} /\ c \in Begun
  BY DEF RunnerRefuse, TaskDone, CallStep, RunnerInv, RunnerTypes, InTask, Begun
<1>2. Cardinality(Begun') = Cardinality(Begun) - 1
  BY <1>1, RunnerFinite, TaskLess
<1>3. RunnerTypes' /\ CoversBegun'
  BY DEF RunnerRefuse, TaskDone, Woken, CallStep, RunnerInv, RunnerTypes, CoversBegun
<1>4. RunnerCounted'
  BY <1>1, <1>2, RunnerFinite DEF RunnerRefuse, TaskDone, RunnerInv, RunnerCounted, InTask
<1>5. WaitCovers'
  <2>1. waitGroup - 1 = 0 => Begun' = {}
    BY <1>1, <1>2, RunnerFinite, TasksBelow, RunnerAssumption DEF RunnerInv, RunnerCounted
  <2>2. covers' = covers /\ runnerWaiter' = Woken(waitGroup - 1)
    BY DEF RunnerRefuse, TaskDone
  <2> QED  BY <1>1, <2>1, <2>2 DEF Woken, RunnerInv, WaitCovers
<1> QED  BY <1>3, <1>4, <1>5 DEF RunnerInv

\* Wait begins and returns.
LEMMA RunnerWaits ==
  ASSUME RunnerInv, NEW w \in RunnerWaiters, RunnerWait(w) \/ RunnerWaitReturns(w) PROVE RunnerInv'
<1>1. InTask' = InTask /\ Begun' = Begun
  BY DEF RunnerWait, RunnerWaitReturns, InTask, Begun
<1>2. RunnerCounted'
  BY <1>1 DEF RunnerWait, RunnerWaitReturns, RunnerInv, RunnerCounted, InTask
<1>3. RunnerTypes'
  BY DEF RunnerWait, RunnerWaitReturns, RunnerInv, RunnerTypes, Begun
<1>4. CoversBegun'
  BY DEF RunnerWait, RunnerWaitReturns, RunnerInv, RunnerTypes, CoversBegun, Begun
<1>5. WaitCovers'
  <2>1. waitGroup = 0 => Begun = {}
    BY ZenonT(30), RunnerFinite, TasksBelow, RunnerAssumption DEF RunnerInv, RunnerCounted
  <2>2. CASE RunnerWait(w)
    BY <1>1, <2>1, <2>2 DEF RunnerWait, RunnerInv, RunnerTypes, WaitCovers
  <2>3. CASE RunnerWaitReturns(w)
    BY <1>1, <2>3 DEF RunnerWaitReturns, RunnerInv, RunnerTypes, WaitCovers
  <2> QED  BY <2>2, <2>3
<1> QED  BY <1>2, <1>3, <1>4, <1>5 DEF RunnerInv

\* Every step of the task runner keeps its invariant.
LEMMA RunnerStep == RunnerInv /\ [RunnerNext]_runnerVars => RunnerInv'
<1> SUFFICES ASSUME RunnerInv, [RunnerNext]_runnerVars PROVE RunnerInv'
  OBVIOUS
<1>1. CASE UNCHANGED runnerVars
  BY <1>1 DEF runnerVars, RunnerInv, RunnerTypes, RunnerCounted, CoversBegun, WaitCovers, Begun
<1> QED  BY <1>1, RunnerAdds, RunnerTakes, RunnerEnds, RunnerDone, RunnerWaits
         DEF RunnerNext, CallRuns, Schedule, ScheduleImmediately

\* The call in the map is the one whose fn runs.
LockedInv ==
  /\ lockedCaller \in [LockedCallers -> {"out", "begin", "wait", "fn", "done"}]
  /\ waitsFor \in [LockedCallers -> LockedCallers \cup {Nobody}]
  /\ inMap \in LockedCallers \cup {Nobody}
  /\ \A c \in LockedCallers : lockedCaller[c] = "fn" <=> inMap = c
  /\ \A c \in LockedCallers : lockedCaller[c] = "wait" =>
        waitsFor[c] \in LockedCallers /\ lockedCaller[waitsFor[c]] \in {"fn", "done"}

\* No locked call runs at first.
LEMMA LockedStart == LockedInit => LockedInv
BY LockedAssumption DEF LockedInit, LockedInv

\* Every step of LockedCalls keeps its invariant.
LEMMA LockedStep == LockedInv /\ [LockedNext]_lockedVars => LockedInv'
<1> SUFFICES ASSUME LockedInv, [LockedNext]_lockedVars PROVE LockedInv'
  OBVIOUS
<1>1. CASE UNCHANGED lockedVars
  BY <1>1 DEF lockedVars, LockedInv
<1>2. ASSUME NEW c \in LockedCallers, LockedDo(c) PROVE LockedInv'
  BY <1>2 DEF LockedDo, LockedCallerAt, LockedInv
<1>3. ASSUME NEW c \in LockedCallers, FoundCall(c) PROVE LockedInv'
  BY <1>3 DEF FoundCall, LockedCallerAt, LockedInv
<1>4. ASSUME NEW c \in LockedCallers, MakeLockedCall(c) PROVE LockedInv'
  BY <1>4, LockedAssumption DEF MakeLockedCall, LockedCallerAt, LockedInv
<1>5. ASSUME NEW c \in LockedCallers, LockedFnEnds(c) PROVE LockedInv'
  BY <1>5, LockedAssumption DEF LockedFnEnds, LockedCallerAt, LockedInv
<1>6. ASSUME NEW c \in LockedCallers, LockedDone(c) PROVE LockedInv'
  BY <1>6, LockedAssumption DEF LockedDone, LockedInv
<1> QED  BY <1>1, <1>2, <1>3, <1>4, <1>5, <1>6 DEF LockedNext

\* A key has one locked call at a time, and who waits waits for one that runs.
LEMMA LockedAlone == LockedInv => CallsAlone /\ LockedNoneStuck
<1> SUFFICES ASSUME LockedInv PROVE CallsAlone /\ LockedNoneStuck
  OBVIOUS
<1> DEFINE running == {c \in LockedCallers : lockedCaller[c] = "fn"}
<1>1. running \subseteq {inMap}
  BY DEF LockedInv
<1>2. IsFiniteSet({inMap}) /\ Cardinality({inMap}) = 1
  BY ZenonT(30), FS_Singleton
<1>3. Cardinality(running) <= 1
  BY <1>1, <1>2, TasksBelow
<1>4. LockedNoneStuck
  BY LockedAssumption DEF LockedInv, LockedNoneStuck
<1> QED  BY <1>3, <1>4 DEF CallsAlone

-----------------------------------------------------------------------------
(***************************************************************************)
(* core/threading/stablerunner.go: StableRunner.                           *)
(***************************************************************************)
Indexing == {p \in Pushers : pusher[p][1] = "index"}
HasIndex(p) == pusher[p][1] \in {"lock", "schedule"}

StableTypes ==
  /\ pusher \in [Pushers -> {"out", "index", "lock", "schedule"} \X (0..MaxMessages)]
  /\ written \in 0..MaxMessages /\ consumed \in Nat
  /\ value \in [0..(BufSize - 1) -> 0..MaxMessages]
  /\ lockedBy \in [0..(BufSize - 1) -> 0..MaxMessages]
  /\ task \in [Messages -> {"none", "handle", "send", "sent", "panicked"}]
  /\ getter \in {"get", "last", "over"} /\ gotten \in Seq(Messages)
  /\ waitStep \in {"none", "runner", "loop", "returned"}
  /\ written + Cardinality(Indexing) <= MaxMessages

\* A message is with its pusher until its task starts, and has the lock of its
\* slot from the end of "lock" until its result is sent.
MessagePlaces ==
  /\ \A p \in Pushers : HasIndex(p) => pusher[p][2] \in 1..written /\ task[pusher[p][2]] = "none"
  /\ \A p, q \in Pushers : HasIndex(p) /\ HasIndex(q) /\ pusher[p][2] = pusher[q][2] => p = q
  /\ \A m \in 1..written : task[m] = "none" => \E p \in Pushers : HasIndex(p) /\ pusher[p][2] = m
  /\ \A m \in Messages : task[m] # "none" => m <= written
  /\ \A p \in Pushers : pusher[p][1] = "schedule" => lockedBy[Slot(pusher[p][2])] = pusher[p][2]
  /\ \A m \in Messages : task[m] \in {"handle", "send"} => lockedBy[Slot(m)] = m

\* Before a message has the lock of its slot, all earlier ones of the slot are
\* sent; what is sent is taken or in its slot, and what was taken came in order.
MessageOrder ==
  ~overtaken /\ ~handlerPanicked =>
    /\ \A p \in Pushers, k \in Messages :
         pusher[p][1] = "schedule" /\ k < pusher[p][2] /\ Slot(k) = Slot(pusher[p][2]) => task[k] = "sent"
    /\ \A m, k \in Messages : task[m] # "none" /\ k < m /\ Slot(k) = Slot(m) => task[k] = "sent"
    /\ \A m \in Messages : task[m] # "panicked"
    /\ \A m \in Messages : task[m] = "sent" => m <= Len(gotten) \/ value[Slot(m)] = m
    /\ \A s \in 0..(BufSize - 1) : value[s] # 0 =>
         Slot(value[s]) = s /\ task[value[s]] = "sent" /\ value[s] > Len(gotten)
    /\ \A i \in 1..Len(gotten) : gotten[i] = i /\ i \in Messages /\ task[i] = "sent"

\* Get counts what it took, until it finds the runner closed and nothing to come.
GetCounts ==
  /\ getter # "over" => consumed = Len(gotten)
  /\ \A m \in accepted : m \in 1..written
  /\ getter = "over" => \A m \in accepted : m <= Len(gotten)
  /\ getter = "over" => waitStep # "none"
  /\ waitStep = "returned" => \A m \in accepted : m <= Len(gotten)

StableInv == StableTypes /\ MessagePlaces /\ MessageOrder /\ GetCounts

\* Every message has a slot of the buffer.
LEMMA SlotType == \A m \in Messages : Slot(m) \in 0..(BufSize - 1)
<1> SUFFICES ASSUME NEW m \in Messages PROVE (m - 1) % BufSize \in 0..(BufSize - 1)
  BY DEF Slot
<1>1. m - 1 \in Int /\ BufSize \in Nat \ {0}
  BY StableAssumption DEF Messages
<1>2. \A a \in Int, b \in Nat \ {0} : a % b \in 0..(b - 1)
  OBVIOUS
<1> QED  BY ZenonT(30), <1>1, <1>2

\* The pushes that have no index yet are finitely many.
LEMMA IndexingFinite == IsFiniteSet(Indexing) /\ Cardinality(Indexing) \in Nat
BY TasksBelow, StableAssumption DEF Indexing

\* The new stable runner satisfies its invariant.
LEMMA StableStart == StableInit => StableInv
<1> SUFFICES ASSUME StableInit PROVE StableInv
  OBVIOUS
<1>1. Indexing = {} /\ Cardinality(Indexing) = 0
  BY ZenonT(30), FS_EmptySet DEF StableInit, Indexing
<1>2. gotten = <<>> /\ Len(gotten) = 0 /\ gotten \in Seq(Messages)
  BY DEF StableInit
<1>3. StableTypes
  BY <1>1, <1>2, StableAssumption DEF StableInit, StableTypes
<1>4. MessagePlaces
  BY StableAssumption DEF StableInit, MessagePlaces, HasIndex
<1>5. MessageOrder /\ GetCounts
  BY <1>2, StableAssumption DEF StableInit, MessageOrder, GetCounts
<1> QED  BY <1>3, <1>4, <1>5 DEF StableInv

\* Push finds the runner open.
LEMMA StablePushed ==
  ASSUME StableInv, NEW p \in Pushers, Push(p)
  PROVE  StableInv'
<1>0. UNCHANGED <<written, consumed, value, lockedBy, task, getter, gotten, waitStep, overtaken, handlerPanicked, accepted>>
  BY DEF Push
<1>1. pusher' = [pusher EXCEPT ![p] = <<"index", 0>>] /\ pusher[p][1] = "out"
  BY DEF Push, PusherAt
<1>2. Indexing' = Indexing \cup {p} /\ p \notin Indexing
  BY <1>1 DEF Indexing, StableInv, StableTypes
<1>3. Cardinality(Indexing') = Cardinality(Indexing) + 1
  BY <1>2, IndexingFinite, TaskMore
<1>4. written + Cardinality(Indexing) < MaxMessages
  BY DEF Push, Indexing
<1>5. StableTypes'
  <2>1. pusher' \in [Pushers -> {"out", "index", "lock", "schedule"} \X (0..MaxMessages)]
    BY <1>1, StableAssumption DEF StableInv, StableTypes
  <2>2. written + Cardinality(Indexing') <= MaxMessages
    BY <1>3, <1>4, IndexingFinite, StableAssumption DEF StableInv, StableTypes
  <2> QED  BY <1>0, <2>1, <2>2 DEF StableInv, StableTypes
<1>6. \A q \in Pushers : HasIndex(q)' <=> HasIndex(q)
  BY <1>1 DEF HasIndex, StableInv, StableTypes
<1>7. \A q \in Pushers : HasIndex(q) => pusher'[q] = pusher[q]
  BY <1>1 DEF HasIndex, StableInv, StableTypes
<1>8. \A q \in Pushers : pusher'[q][1] = "schedule" => pusher'[q] = pusher[q]
  BY <1>1 DEF StableInv, StableTypes
<1>9. MessagePlaces'
  BY <1>0, <1>6, <1>7, <1>8 DEF StableInv, MessagePlaces
<1>10. MessageOrder'
  BY <1>0, <1>8 DEF StableInv, MessageOrder
<1>11. GetCounts'
  BY <1>0 DEF StableInv, GetCounts
<1> QED  BY <1>5, <1>9, <1>10, <1>11 DEF StableInv

\* Push takes the next index.
LEMMA StableIndexed ==
  ASSUME StableInv, NEW p \in Pushers, PushIndex(p)
  PROVE  StableInv'
<1> DEFINE n == written + 1
<1>0. UNCHANGED <<consumed, value, lockedBy, task, getter, gotten, waitStep, overtaken, handlerPanicked, accepted>>
  BY DEF PushIndex
<1>1. pusher' = [pusher EXCEPT ![p] = <<"lock", n>>] /\ pusher[p][1] = "index" /\ written' = n
  BY DEF PushIndex, PusherAt
<1>2. Indexing' = Indexing \ {p} /\ p \in Indexing
  BY <1>1 DEF Indexing, StableInv, StableTypes
<1>3. Cardinality(Indexing') = Cardinality(Indexing) - 1 /\ Cardinality(Indexing) # 0
  BY <1>2, IndexingFinite, TaskLess, TasksBelow
<1>4. n \in Messages /\ written \in Nat
  BY <1>3, IndexingFinite, StableAssumption DEF StableInv, StableTypes, Messages
<1>5. StableTypes'
  <2>1. pusher' \in [Pushers -> {"out", "index", "lock", "schedule"} \X (0..MaxMessages)]
    BY <1>1, <1>4, StableAssumption DEF StableInv, StableTypes, Messages
  <2>2. written' + Cardinality(Indexing') <= MaxMessages /\ written' \in 0..MaxMessages
    BY <1>1, <1>3, <1>4, IndexingFinite, StableAssumption DEF StableInv, StableTypes, Messages
  <2> QED  BY <1>0, <2>1, <2>2 DEF StableInv, StableTypes
<1>6. pusher'[p] = <<"lock", n>> /\ HasIndex(p)' /\ ~HasIndex(p)
  BY <1>1 DEF HasIndex, StableInv, StableTypes
<1>7. \A q \in Pushers : q # p => pusher'[q] = pusher[q] /\ (HasIndex(q)' <=> HasIndex(q))
  BY <1>1 DEF HasIndex, StableInv, StableTypes
<1>8. task[n] = "none"
  BY <1>4 DEF StableInv, StableTypes, MessagePlaces, Messages
<1>9. MessagePlaces'
  <2>1. \A q \in Pushers : HasIndex(q)' => pusher'[q][2] \in 1..n /\ task[pusher'[q][2]] = "none"
    BY <1>4, <1>6, <1>7, <1>8 DEF StableInv, MessagePlaces
  <2>2. \A q \in Pushers : q # p /\ HasIndex(q)' => pusher'[q][2] # n
    BY <1>4, <1>7 DEF StableInv, MessagePlaces
  <2>3. \A q, r \in Pushers : HasIndex(q)' /\ HasIndex(r)' /\ pusher'[q][2] = pusher'[r][2] => q = r
    BY <1>6, <1>7, <2>2 DEF StableInv, MessagePlaces
  <2>4. \A m \in 1..n : task[m] = "none" => \E q \in Pushers : HasIndex(q)' /\ pusher'[q][2] = m
    <3> SUFFICES ASSUME NEW m \in 1..n, task[m] = "none", m # n
                 PROVE  \E q \in Pushers : HasIndex(q)' /\ pusher'[q][2] = m
      BY <1>6
    <3>1. m \in 1..written
      BY <1>4
    <3>2. PICK q \in Pushers : HasIndex(q) /\ pusher[q][2] = m
      BY <3>1 DEF StableInv, MessagePlaces
    <3> QED  BY <1>6, <1>7, <3>2
  <2>5. \A m \in Messages : task[m] # "none" => m <= n
    BY <1>4 DEF StableInv, MessagePlaces, Messages
  <2>6. \A q \in Pushers : pusher'[q][1] = "schedule" => lockedBy[Slot(pusher'[q][2])] = pusher'[q][2]
    BY <1>6, <1>7 DEF StableInv, MessagePlaces
  <2> QED  BY <1>0, <1>1, <2>1, <2>3, <2>4, <2>5, <2>6 DEF StableInv, MessagePlaces
<1>10. MessageOrder'
  BY <1>0, <1>6, <1>7 DEF StableInv, MessageOrder
<1>11. GetCounts'
  BY <1>0, <1>1, <1>4 DEF StableInv, GetCounts
<1> QED  BY <1>5, <1>9, <1>10, <1>11 DEF StableInv

\* Push gets the lock of its slot, before or after an earlier Push.
LEMMA StableLocked ==
  ASSUME StableInv, NEW p \in Pushers, PushLock(p)
  PROVE  StableInv'
<1> DEFINE m == pusher[p][2]
<1>0. UNCHANGED <<written, consumed, value, task, getter, gotten, waitStep, handlerPanicked, accepted>>
  BY DEF PushLock
<1>1. /\ pusher' = [pusher EXCEPT ![p] = <<"schedule", m>>] /\ pusher[p][1] = "lock"
      /\ lockedBy[Slot(m)] = 0 /\ lockedBy' = [lockedBy EXCEPT ![Slot(m)] = m]
  BY DEF PushLock, PusherAt
<1>2. m \in 1..written /\ m \in Messages /\ task[m] = "none" /\ Slot(m) \in 0..(BufSize - 1)
  <2>1. m \in 1..written /\ task[m] = "none"
    BY <1>1 DEF StableInv, MessagePlaces, HasIndex
  <2>2. m \in Messages
    BY <2>1 DEF StableInv, StableTypes, Messages
  <2> QED  BY <2>1, <2>2, SlotType
<1>3. pusher'[p] = <<"schedule", m>> /\ HasIndex(p)' /\ HasIndex(p)
  BY <1>1 DEF HasIndex, StableInv, StableTypes
<1>4. \A q \in Pushers : q # p => pusher'[q] = pusher[q] /\ (HasIndex(q)' <=> HasIndex(q))
  BY <1>1 DEF HasIndex, StableInv, StableTypes
<1>5. \A q \in Pushers : pusher'[q][2] = pusher[q][2] /\ (HasIndex(q)' <=> HasIndex(q))
  BY <1>3, <1>4
<1>6. StableTypes'
  <2>1. pusher' \in [Pushers -> {"out", "index", "lock", "schedule"} \X (0..MaxMessages)]
    BY <1>1 DEF StableInv, StableTypes
  <2>2. lockedBy' \in [0..(BufSize - 1) -> 0..MaxMessages]
    BY ZenonT(30), <1>1 DEF StableInv, StableTypes
  <2>3. Indexing' = Indexing
    BY <1>1, <1>3, <1>4 DEF Indexing
  <2> QED  BY <1>0, <2>1, <2>2, <2>3 DEF StableInv, StableTypes
<1>7. \A s \in 0..(BufSize - 1) : s # Slot(m) => lockedBy'[s] = lockedBy[s]
  BY <1>1 DEF StableInv, StableTypes
<1>8. lockedBy'[Slot(m)] = m
  BY <1>1, <1>2 DEF StableInv, StableTypes
<1>9. \A k \in Messages : task[k] \in {"handle", "send"} => Slot(k) # Slot(m) /\ lockedBy'[Slot(k)] = k
  <2> SUFFICES ASSUME NEW k \in Messages, task[k] \in {"handle", "send"}
               PROVE  Slot(k) # Slot(m) /\ lockedBy'[Slot(k)] = k
    OBVIOUS
  <2>1. lockedBy[Slot(k)] = k /\ k # 0 /\ Slot(k) \in 0..(BufSize - 1)
    BY SlotType DEF StableInv, MessagePlaces, Messages
  <2> QED  BY <1>1, <1>7, <2>1
<1>10. \A q \in Pushers : q # p /\ pusher[q][1] = "schedule" =>
         Slot(pusher[q][2]) # Slot(m) /\ lockedBy'[Slot(pusher[q][2])] = pusher[q][2]
  <2> SUFFICES ASSUME NEW q \in Pushers, q # p, pusher[q][1] = "schedule"
               PROVE  Slot(pusher[q][2]) # Slot(m) /\ lockedBy'[Slot(pusher[q][2])] = pusher[q][2]
    OBVIOUS
  <2>1. pusher[q][2] \in 1..written /\ lockedBy[Slot(pusher[q][2])] = pusher[q][2]
    BY DEF StableInv, MessagePlaces, HasIndex
  <2>2. pusher[q][2] \in Messages /\ pusher[q][2] # 0
    BY <2>1 DEF StableInv, StableTypes, Messages
  <2> QED  BY <1>1, <1>7, <2>1, <2>2, SlotType
<1>11. MessagePlaces'
  <2>1. \A q \in Pushers : HasIndex(q)' => pusher'[q][2] \in 1..written /\ task[pusher'[q][2]] = "none"
    BY <1>5 DEF StableInv, MessagePlaces
  <2>2. \A q, r \in Pushers : HasIndex(q)' /\ HasIndex(r)' /\ pusher'[q][2] = pusher'[r][2] => q = r
    BY <1>5 DEF StableInv, MessagePlaces
  <2>3. \A k \in 1..written : task[k] = "none" => \E q \in Pushers : HasIndex(q)' /\ pusher'[q][2] = k
    BY <1>5 DEF StableInv, MessagePlaces
  <2>4. \A q \in Pushers : pusher'[q][1] = "schedule" => lockedBy'[Slot(pusher'[q][2])] = pusher'[q][2]
    BY <1>3, <1>4, <1>8, <1>10
  <2> QED  BY <1>0, <1>9, <2>1, <2>2, <2>3, <2>4 DEF StableInv, MessagePlaces
<1>12. MessageOrder'
  <2> SUFFICES ASSUME ~overtaken', ~handlerPanicked PROVE MessageOrder'
    BY <1>0 DEF MessageOrder
  <2>1. ~overtaken /\ \A q \in Pushers : ~(pusher[q][1] = "lock" /\ pusher[q][2] < m /\ Slot(pusher[q][2]) = Slot(m))
    BY ZenonT(30) DEF PushLock
  <2>2. \A k \in Messages : k < m /\ Slot(k) = Slot(m) => task[k] = "sent"
    <3> SUFFICES ASSUME NEW k \in Messages, k < m, Slot(k) = Slot(m) PROVE task[k] = "sent"
      OBVIOUS
    <3>1. k \in 1..written
      BY <1>2 DEF StableInv, StableTypes, Messages
    <3>2. task[k] # "none"
      <4> SUFFICES ASSUME task[k] = "none" PROVE FALSE
        OBVIOUS
      <4>1. PICK q \in Pushers : HasIndex(q) /\ pusher[q][2] = k
        BY <3>1 DEF StableInv, MessagePlaces
      <4>2. q # p
        BY <4>1 DEF Messages
      <4>3. pusher[q][1] # "schedule"
        BY <1>10, <4>1, <4>2
      <4> QED  BY <2>1, <4>1, <4>3 DEF HasIndex
    <3>3. task[k] \notin {"handle", "send"}
      BY <1>9
    <3>4. task[k] # "panicked"
      BY <2>1 DEF StableInv, MessageOrder
    <3> QED  BY <3>2, <3>3, <3>4 DEF StableInv, StableTypes
  <2>3. \A q \in Pushers, k \in Messages :
          pusher'[q][1] = "schedule" /\ k < pusher'[q][2] /\ Slot(k) = Slot(pusher'[q][2]) => task[k] = "sent"
    BY <1>3, <1>4, <2>1, <2>2 DEF StableInv, MessageOrder
  <2> QED  BY <1>0, <2>1, <2>3 DEF StableInv, MessageOrder
<1>13. GetCounts'
  BY <1>0 DEF StableInv, GetCounts
<1> QED  BY <1>6, <1>11, <1>12, <1>13 DEF StableInv

\* An index that was handed out is a message.
LEMMA WrittenMessages ==
  ASSUME StableTypes
  PROVE  \A k \in 1..written : k \in Messages
<1>1. written \in 0..MaxMessages /\ MaxMessages \in Nat
  BY StableAssumption DEF StableTypes
<1>2. \A k \in 1..written : k \in 1..MaxMessages
  BY <1>1
<1> QED  BY <1>2 DEF Messages

\* Push hands its message to a task and returns.
LEMMA StableScheduled ==
  ASSUME StableInv, NEW p \in Pushers, PushSchedule(p)
  PROVE  StableInv'
<1> DEFINE m == pusher[p][2]
<1>0. UNCHANGED <<written, consumed, value, lockedBy, getter, gotten, waitStep, overtaken, handlerPanicked, accepted>>
  BY DEF PushSchedule
<1>1. /\ pusher' = [pusher EXCEPT ![p] = <<"out", 0>>] /\ pusher[p][1] = "schedule"
      /\ task' = [task EXCEPT ![m] = "handle"]
  BY DEF PushSchedule, PusherAt
<1>2. m \in 1..written /\ m \in Messages /\ task[m] = "none" /\ lockedBy[Slot(m)] = m
  <2>1. m \in 1..written /\ task[m] = "none" /\ lockedBy[Slot(m)] = m
    BY <1>1 DEF StableInv, MessagePlaces, HasIndex
  <2> QED  BY <2>1 DEF StableInv, StableTypes, Messages
<1>3. ~HasIndex(p)' /\ HasIndex(p)
  BY <1>1 DEF HasIndex, StableInv, StableTypes
<1>4. \A q \in Pushers : q # p => pusher'[q] = pusher[q] /\ (HasIndex(q)' <=> HasIndex(q))
  BY <1>1 DEF HasIndex, StableInv, StableTypes
<1>5. \A k \in Messages : task'[k] = IF k = m THEN "handle" ELSE task[k]
  BY <1>1, <1>2 DEF StableInv, StableTypes
<1>6. StableTypes'
  <2>1. pusher' \in [Pushers -> {"out", "index", "lock", "schedule"} \X (0..MaxMessages)]
    BY <1>1, StableAssumption DEF StableInv, StableTypes
  <2>2. task' \in [Messages -> {"none", "handle", "send", "sent", "panicked"}]
    BY ZenonT(30), <1>1 DEF StableInv, StableTypes
  <2>3. Indexing' = Indexing
    BY <1>1, <1>4 DEF Indexing, StableInv, StableTypes
  <2> QED  BY <1>0, <2>1, <2>2, <2>3 DEF StableInv, StableTypes
<1>7. \A q \in Pushers : HasIndex(q)' => q # p /\ HasIndex(q) /\ pusher'[q] = pusher[q] /\ pusher[q][2] # m
  BY <1>3, <1>4 DEF StableInv, MessagePlaces
<1>8. MessagePlaces'
  <2>1. \A q \in Pushers : HasIndex(q)' => pusher'[q][2] \in 1..written /\ task'[pusher'[q][2]] = "none"
    <3> SUFFICES ASSUME NEW q \in Pushers, HasIndex(q)'
                 PROVE  pusher'[q][2] \in 1..written /\ task'[pusher'[q][2]] = "none"
      OBVIOUS
    <3>1. pusher[q][2] \in 1..written /\ task[pusher[q][2]] = "none"
      BY <1>7 DEF StableInv, MessagePlaces
    <3>2. pusher[q][2] \in Messages
      BY <3>1 DEF StableInv, StableTypes, Messages
    <3> QED  BY <1>5, <1>7, <3>1, <3>2
  <2>2. \A q, r \in Pushers : HasIndex(q)' /\ HasIndex(r)' /\ pusher'[q][2] = pusher'[r][2] => q = r
    BY <1>7 DEF StableInv, MessagePlaces
  <2>3. \A k \in 1..written : task'[k] = "none" => \E q \in Pushers : HasIndex(q)' /\ pusher'[q][2] = k
    <3> SUFFICES ASSUME NEW k \in 1..written, task'[k] = "none"
                 PROVE  \E q \in Pushers : HasIndex(q)' /\ pusher'[q][2] = k
      OBVIOUS
    <3>1. k \in Messages
      BY WrittenMessages DEF StableInv
    <3>2. k # m /\ task[k] = "none"
      BY <1>5, <3>1
    <3>3. PICK q \in Pushers : HasIndex(q) /\ pusher[q][2] = k
      BY <3>2 DEF StableInv, MessagePlaces
    <3> QED  BY <1>4, <3>2, <3>3
  <2>4. \A k \in Messages : task'[k] # "none" => k <= written
    BY <1>2, <1>5 DEF StableInv, StableTypes, MessagePlaces
  <2>5. \A q \in Pushers : pusher'[q][1] = "schedule" => lockedBy[Slot(pusher'[q][2])] = pusher'[q][2]
    BY <1>7 DEF StableInv, MessagePlaces, HasIndex
  <2>6. \A k \in Messages : task'[k] \in {"handle", "send"} => lockedBy[Slot(k)] = k
    BY <1>2, <1>5 DEF StableInv, MessagePlaces
  <2> QED  BY <1>0, <2>1, <2>2, <2>3, <2>4, <2>5, <2>6 DEF MessagePlaces
<1>9. MessageOrder'
  <2> SUFFICES ASSUME ~overtaken, ~handlerPanicked PROVE MessageOrder'
    BY ZenonT(30), <1>0 DEF MessageOrder
  <2>1. \A k \in Messages : task[k] = "sent" <=> task'[k] = "sent"
    BY <1>2, <1>5
  <2>2. \A q \in Pushers, k \in Messages :
          pusher'[q][1] = "schedule" /\ k < pusher'[q][2] /\ Slot(k) = Slot(pusher'[q][2]) => task'[k] = "sent"
    <3>1. \A q \in Pushers, k \in Messages :
            pusher[q][1] = "schedule" /\ k < pusher[q][2] /\ Slot(k) = Slot(pusher[q][2]) => task[k] = "sent"
      BY DEF StableInv, MessageOrder
    <3> QED  BY <1>7, <2>1, <3>1 DEF HasIndex
  <2>3. \A k \in Messages : k < m /\ Slot(k) = Slot(m) => task'[k] = "sent"
    BY <1>1, <2>1 DEF StableInv, MessageOrder
  <2>4. \A j, k \in Messages : task'[j] # "none" /\ k < j /\ Slot(k) = Slot(j) => task'[k] = "sent"
    BY <1>5, <2>1, <2>3 DEF StableInv, MessageOrder
  <2>5. \A k \in Messages : task'[k] # "panicked"
    BY <1>5 DEF StableInv, MessageOrder
  <2>6. \A s \in 0..(BufSize - 1) : value[s] # 0 => value[s] \in Messages
    BY DEF StableInv, StableTypes, Messages
  <2> QED  BY <1>0, <2>1, <2>2, <2>4, <2>5, <2>6 DEF StableInv, MessageOrder
<1>10. GetCounts'
  BY <1>0 DEF StableInv, GetCounts
<1> QED  BY <1>6, <1>8, <1>9, <1>10 DEF StableInv

\* The handler of a message returns.
LEMMA StableHandled ==
  ASSUME StableInv, NEW m \in Messages, Handled(m)
  PROVE  StableInv'
<1>0. UNCHANGED <<pusher, written, consumed, value, lockedBy, getter, gotten, waitStep, overtaken, handlerPanicked, accepted>>
  BY DEF Handled
<1>1. task[m] = "handle" /\ task' = [task EXCEPT ![m] = "send"]
  BY DEF Handled
<1>2. /\ \A k \in Messages : (task'[k] = "none" <=> task[k] = "none") /\ (task'[k] = "sent" <=> task[k] = "sent")
      /\ \A k \in Messages : (task'[k] \in {"handle", "send"} <=> task[k] \in {"handle", "send"})
                             /\ (task'[k] = "panicked" <=> task[k] = "panicked")
  BY <1>1 DEF StableInv, StableTypes
<1>3. Indexing' = Indexing /\ \A q \in Pushers : HasIndex(q)' <=> HasIndex(q)
  BY <1>0 DEF Indexing, HasIndex
<1>4. task' \in [Messages -> {"none", "handle", "send", "sent", "panicked"}]
  BY <1>1 DEF StableInv, StableTypes
<1>5. StableTypes'
  BY ZenonT(30), <1>0, <1>3, <1>4 DEF StableInv, StableTypes
<1>6. \A k \in 1..written : k \in Messages
  BY WrittenMessages DEF StableInv
<1>7. \A s \in 0..(BufSize - 1) : value[s] # 0 => value[s] \in Messages
  BY DEF StableInv, StableTypes, Messages
<1>8. MessagePlaces'
  <2>1. \A q \in Pushers : HasIndex(q) => pusher[q][2] \in 1..written /\ task'[pusher[q][2]] = "none"
    BY <1>2, <1>6 DEF StableInv, MessagePlaces
  <2>2. \A k \in 1..written : task'[k] = "none" => \E q \in Pushers : HasIndex(q) /\ pusher[q][2] = k
    BY <1>2, <1>6 DEF StableInv, MessagePlaces
  <2>3. \A k \in Messages : task'[k] # "none" => k <= written
    BY <1>2 DEF StableInv, MessagePlaces
  <2>4. \A k \in Messages : task'[k] \in {"handle", "send"} => lockedBy[Slot(k)] = k
    BY <1>2 DEF StableInv, MessagePlaces
  <2>5. /\ \A q, r \in Pushers : HasIndex(q) /\ HasIndex(r) /\ pusher[q][2] = pusher[r][2] => q = r
        /\ \A q \in Pushers : pusher[q][1] = "schedule" => lockedBy[Slot(pusher[q][2])] = pusher[q][2]
    BY DEF StableInv, MessagePlaces
  <2> QED  BY ZenonT(30), <1>0, <1>3, <2>1, <2>2, <2>3, <2>4, <2>5 DEF MessagePlaces
<1>9. MessageOrder'
  BY <1>0, <1>2, <1>7 DEF StableInv, MessageOrder
<1>10. GetCounts'
  BY <1>0 DEF StableInv, GetCounts
<1> QED  BY <1>5, <1>8, <1>9, <1>10 DEF StableInv

\* Whoever has the lock of a slot, no other message of it is with a pusher at
\* "schedule" or in its task.
LEMMA LockAlone ==
  ASSUME StableInv, NEW m \in Messages, task[m] \in {"handle", "send"}
  PROVE  /\ lockedBy[Slot(m)] = m /\ Slot(m) \in 0..(BufSize - 1)
         /\ \A k \in Messages : k # m /\ task[k] \in {"handle", "send"} => Slot(k) # Slot(m)
         /\ \A q \in Pushers : pusher[q][1] = "schedule" => pusher[q][2] # m /\ Slot(pusher[q][2]) # Slot(m)
<1>1. lockedBy[Slot(m)] = m /\ Slot(m) \in 0..(BufSize - 1)
  BY SlotType DEF StableInv, MessagePlaces
<1>2. \A k \in Messages : k # m /\ task[k] \in {"handle", "send"} => Slot(k) # Slot(m)
  BY <1>1 DEF StableInv, MessagePlaces
<1>3. \A q \in Pushers : pusher[q][1] = "schedule" => pusher[q][2] # m /\ Slot(pusher[q][2]) # Slot(m)
  BY <1>1 DEF StableInv, MessagePlaces, HasIndex
<1> QED  BY <1>1, <1>2, <1>3

\* The lock of a slot is given back by the task that has it.
LEMMA UnlockPlaces ==
  ASSUME StableInv, NEW m \in Messages, task[m] \in {"handle", "send"}, NEW s \in {"sent", "panicked"},
         UNCHANGED <<pusher, written>>, task' = [task EXCEPT ![m] = s],
         lockedBy' = [lockedBy EXCEPT ![Slot(m)] = 0]
  PROVE  /\ MessagePlaces' /\ Indexing' = Indexing
         /\ task' \in [Messages -> {"none", "handle", "send", "sent", "panicked"}]
         /\ lockedBy' \in [0..(BufSize - 1) -> 0..MaxMessages]
         /\ \A k \in Messages : task'[k] = IF k = m THEN s ELSE task[k]
<1>1. /\ lockedBy[Slot(m)] = m /\ Slot(m) \in 0..(BufSize - 1)
      /\ \A k \in Messages : k # m /\ task[k] \in {"handle", "send"} => Slot(k) # Slot(m)
      /\ \A q \in Pushers : pusher[q][1] = "schedule" => pusher[q][2] # m /\ Slot(pusher[q][2]) # Slot(m)
  BY LockAlone
<1>2. \A k \in Messages : task'[k] = IF k = m THEN s ELSE task[k]
  BY DEF StableInv, StableTypes
<1>3. /\ task' \in [Messages -> {"none", "handle", "send", "sent", "panicked"}]
      /\ lockedBy' \in [0..(BufSize - 1) -> 0..MaxMessages]
  <2>1. 0 \in 0..MaxMessages
    BY StableAssumption
  <2> QED  BY ZenonT(30), <2>1 DEF StableInv, StableTypes
<1>4. \A t \in 0..(BufSize - 1) : t # Slot(m) => lockedBy'[t] = lockedBy[t]
  BY DEF StableInv, StableTypes
<1>5. Indexing' = Indexing /\ \A q \in Pushers : HasIndex(q)' <=> HasIndex(q)
  BY DEF Indexing, HasIndex
<1>6. \A k \in 1..written : k \in Messages
  BY WrittenMessages DEF StableInv
<1>7. \A q \in Pushers : HasIndex(q) => pusher[q][2] \in Messages
  BY <1>6 DEF StableInv, MessagePlaces
<1>8. \A q \in Pushers : pusher[q][1] = "schedule" => lockedBy'[Slot(pusher[q][2])] = pusher[q][2]
  BY <1>1, <1>4, <1>7, SlotType DEF StableInv, MessagePlaces, HasIndex
<1>9. \A k \in Messages : task'[k] \in {"handle", "send"} => lockedBy'[Slot(k)] = k
  BY <1>1, <1>2, <1>4, SlotType DEF StableInv, MessagePlaces
<1>10. \A q \in Pushers : HasIndex(q) => pusher[q][2] \in 1..written /\ task'[pusher[q][2]] = "none"
  BY <1>2, <1>7 DEF StableInv, MessagePlaces
<1>11. \A k \in 1..written : task'[k] = "none" => task[k] = "none"
  BY <1>2, <1>6
<1>12. \A k \in Messages : task'[k] # "none" => k <= written
  BY <1>2 DEF StableInv, MessagePlaces
<1>13. MessagePlaces'
  BY <1>5, <1>8, <1>9, <1>10, <1>11, <1>12 DEF StableInv, MessagePlaces
<1> QED  BY <1>2, <1>3, <1>5, <1>13

\* The handler of a message panics: the lock of its slot is free, and nothing is sent.
LEMMA StablePanicked ==
  ASSUME StableInv, NEW m \in Messages, HandlePanics(m)
  PROVE  StableInv'
<1>0. UNCHANGED <<pusher, written, consumed, value, getter, gotten, waitStep, overtaken, accepted>>
  BY DEF HandlePanics
<1>1. /\ task[m] = "handle" /\ task' = [task EXCEPT ![m] = "panicked"] /\ handlerPanicked'
      /\ lockedBy' = [lockedBy EXCEPT ![Slot(m)] = 0]
  BY DEF HandlePanics
<1>2. /\ MessagePlaces' /\ Indexing' = Indexing
      /\ task' \in [Messages -> {"none", "handle", "send", "sent", "panicked"}]
      /\ lockedBy' \in [0..(BufSize - 1) -> 0..MaxMessages]
  BY ZenonT(30), <1>0, <1>1, UnlockPlaces
<1>3. StableTypes'
  BY <1>0, <1>2 DEF StableInv, StableTypes
<1>4. MessageOrder'
  BY <1>1 DEF MessageOrder
<1>5. GetCounts'
  BY <1>0 DEF StableInv, GetCounts
<1> QED  BY <1>2, <1>3, <1>4, <1>5 DEF StableInv

\* A task sends its result into its slot and gives the lock back.
LEMMA StableSent ==
  ASSUME StableInv, NEW m \in Messages, StableSend(m)
  PROVE  StableInv'
<1>0. UNCHANGED <<pusher, written, consumed, getter, gotten, waitStep, overtaken, handlerPanicked, accepted>>
  BY DEF StableSend
<1>1. /\ task[m] = "send" /\ task' = [task EXCEPT ![m] = "sent"]
      /\ lockedBy' = [lockedBy EXCEPT ![Slot(m)] = 0]
      /\ value[Slot(m)] = 0 /\ value' = [value EXCEPT ![Slot(m)] = m]
  BY DEF StableSend
<1>2. /\ MessagePlaces' /\ Indexing' = Indexing
      /\ task' \in [Messages -> {"none", "handle", "send", "sent", "panicked"}]
      /\ lockedBy' \in [0..(BufSize - 1) -> 0..MaxMessages]
      /\ \A k \in Messages : task'[k] = IF k = m THEN "sent" ELSE task[k]
  BY ZenonT(30), <1>0, <1>1, UnlockPlaces
<1>3. StableTypes'
  <2>1. value' \in [0..(BufSize - 1) -> 0..MaxMessages]
    <3>1. m \in 0..MaxMessages
      BY StableAssumption DEF Messages
    <3> QED  BY ZenonT(30), <1>1, <3>1 DEF StableInv, StableTypes
  <2> QED  BY <1>0, <1>2, <2>1 DEF StableInv, StableTypes
<1>4. MessageOrder'
  <2> SUFFICES ASSUME ~overtaken, ~handlerPanicked PROVE MessageOrder'
    BY <1>0 DEF MessageOrder
  <2>1. \A s \in 0..(BufSize - 1) : value'[s] = IF s = Slot(m) THEN m ELSE value[s]
    BY <1>1 DEF StableInv, StableTypes
  <2>2. Len(gotten) \in Nat /\ m > Len(gotten) /\ m # 0
    <3>1. Len(gotten) \in Nat
      BY DEF StableInv, StableTypes
    <3>2. m \notin 1..Len(gotten)
      BY <1>1 DEF StableInv, MessageOrder
    <3> QED  BY <3>1, <3>2 DEF Messages
  <2>3. \A q \in Pushers, k \in Messages :
          pusher[q][1] = "schedule" /\ k < pusher[q][2] /\ Slot(k) = Slot(pusher[q][2]) => task'[k] = "sent"
    BY ZenonT(30), <1>2 DEF StableInv, MessageOrder
  <2>4. \A j, k \in Messages : task'[j] # "none" /\ k < j /\ Slot(k) = Slot(j) => task'[k] = "sent"
    BY <1>1, <1>2 DEF StableInv, MessageOrder
  <2>5. \A k \in Messages : task'[k] # "panicked"
    BY <1>2 DEF StableInv, MessageOrder
  <2>6. \A k \in Messages : task'[k] = "sent" => k <= Len(gotten) \/ value'[Slot(k)] = k
    <3> SUFFICES ASSUME NEW k \in Messages, task[k] = "sent", k # m PROVE k <= Len(gotten) \/ value'[Slot(k)] = k
      BY <1>2, <2>1, SlotType
    <3>1. k <= Len(gotten) \/ value[Slot(k)] = k
      BY DEF StableInv, MessageOrder
    <3>2. k # 0
      BY DEF Messages
    <3> QED  BY <1>1, <2>1, <3>1, <3>2, SlotType
  <2>7. \A s \in 0..(BufSize - 1) : value[s] # 0 => value[s] \in Messages
    BY DEF StableInv, StableTypes, Messages
  <2>8. \A s \in 0..(BufSize - 1) : value'[s] # 0 =>
          Slot(value'[s]) = s /\ task'[value'[s]] = "sent" /\ value'[s] > Len(gotten)
    BY <1>2, <2>1, <2>2, <2>7 DEF StableInv, MessageOrder
  <2>9. \A i \in 1..Len(gotten) : gotten[i] = i /\ i \in Messages /\ task'[i] = "sent"
    BY <1>2 DEF StableInv, MessageOrder
  <2> QED  BY <1>0, <2>3, <2>4, <2>5, <2>6, <2>8, <2>9 DEF MessageOrder
<1>5. GetCounts'
  BY <1>0 DEF StableInv, GetCounts
<1> QED  BY <1>2, <1>3, <1>4, <1>5 DEF StableInv

\* Get takes the value of the next slot: it is the next message.
LEMMA StableGot ==
  ASSUME StableInv, GetValue
  PROVE  StableInv'
<1> DEFINE n == Len(gotten)
           s == consumed % BufSize
           m == value[s]
<1>0. UNCHANGED <<pusher, written, lockedBy, task, waitStep, overtaken, handlerPanicked, accepted>>
  BY DEF GetValue
<1>1. /\ getter \in {"get", "last"} /\ m # 0
      /\ gotten' = Append(gotten, m) /\ value' = [value EXCEPT ![s] = 0]
      /\ consumed' = consumed + 1 /\ getter' = "get"
  BY DEF GetValue
<1>2. n \in Nat /\ consumed = n /\ gotten \in Seq(Messages)
  BY <1>1 DEF StableInv, StableTypes, GetCounts
<1>3. s \in 0..(BufSize - 1)
  <2>1. \A a \in Int, b \in Nat \ {0} : a % b \in 0..(b - 1)
    OBVIOUS
  <2> QED  BY <1>2, <2>1, StableAssumption
<1>4. m \in Messages
  <2>1. m \in 0..MaxMessages
    BY <1>3 DEF StableInv, StableTypes
  <2> QED  BY <1>1, <2>1 DEF Messages
<1> HIDE DEF n, s, m
<1>5. /\ gotten' \in Seq(Messages) /\ Len(gotten') = n + 1
      /\ \A i \in 1..(n + 1) : gotten'[i] = IF i = n + 1 THEN m ELSE gotten[i]
  <2>1. Len(gotten) = n
    BY DEF n
  <2>2. \A i \in 1..(Len(gotten) + 1) : Append(gotten, m)[i] = IF i = Len(gotten) + 1 THEN m ELSE gotten[i]
    BY <1>2, <1>4, ResultsAppend
  <2> QED  BY <1>1, <1>2, <1>4, <2>1, <2>2, ResultsAppend
<1>6. StableTypes'
  <2>1. value' \in [0..(BufSize - 1) -> 0..MaxMessages]
    <3>1. 0 \in 0..MaxMessages
      BY StableAssumption
    <3> QED  BY ZenonT(30), <1>1, <3>1 DEF StableInv, StableTypes
  <2>2. consumed' \in Nat
    BY <1>1, <1>2
  <2>3. Indexing' = Indexing
    BY <1>0 DEF Indexing
  <2> QED  BY <1>0, <1>1, <1>5, <2>1, <2>2, <2>3 DEF StableInv, StableTypes
<1>7. MessagePlaces'
  BY <1>0 DEF StableInv, MessagePlaces, HasIndex
<1>8. MessageOrder'
  <2> SUFFICES ASSUME ~overtaken, ~handlerPanicked PROVE MessageOrder'
    BY <1>0 DEF MessageOrder
  <2>1. Slot(m) = s /\ task[m] = "sent" /\ m > n /\ value[s] = m
    BY <1>1, <1>3 DEF StableInv, MessageOrder, m, n
  <2>2. Slot(n + 1) = s
    <3>1. n + 1 - 1 = n
      BY <1>2
    <3> QED  BY <1>2, <3>1 DEF Slot, s
  <2>3. m = n + 1
    <3> SUFFICES ASSUME m # n + 1 PROVE FALSE
      OBVIOUS
    <3>1. m \in 1..MaxMessages
      BY <1>4 DEF Messages
    <3>2. n + 1 \in 1..MaxMessages /\ n + 1 < m
      BY <1>2, <2>1, <3>1, StableAssumption
    <3>3. n + 1 \in Messages
      BY <3>2 DEF Messages
    <3>4. task[n + 1] = "sent"
      BY <1>4, <2>1, <2>2, <3>2, <3>3 DEF StableInv, MessageOrder
    <3>5. n + 1 <= n \/ value[Slot(n + 1)] = n + 1
      BY <3>3, <3>4 DEF StableInv, MessageOrder, n
    <3> QED  BY <1>2, <2>1, <2>2, <3>5
  <2>4. \A t \in 0..(BufSize - 1) : value'[t] = IF t = s THEN 0 ELSE value[t]
    BY <1>1 DEF StableInv, StableTypes
  <2>5. \A k \in Messages : task[k] = "sent" => k <= n + 1 \/ value'[Slot(k)] = k
    <3> SUFFICES ASSUME NEW k \in Messages, task[k] = "sent" PROVE k <= n + 1 \/ value'[Slot(k)] = k
      OBVIOUS
    <3>1. k <= n \/ value[Slot(k)] = k
      BY DEF StableInv, MessageOrder, n
    <3>2. CASE k <= n
      BY <1>2, <3>2 DEF Messages
    <3>3. CASE value[Slot(k)] = k /\ Slot(k) # s
      BY <2>4, <3>3, SlotType
    <3>4. CASE value[Slot(k)] = k /\ Slot(k) = s
      BY <1>2, <2>1, <2>3, <3>4
    <3> QED  BY <3>1, <3>2, <3>3, <3>4
  <2>6. \A t \in 0..(BufSize - 1) : value'[t] # 0 =>
          Slot(value'[t]) = t /\ task[value'[t]] = "sent" /\ value'[t] > n + 1
    <3> SUFFICES ASSUME NEW t \in 0..(BufSize - 1), value'[t] # 0
                 PROVE  Slot(value'[t]) = t /\ task[value'[t]] = "sent" /\ value'[t] > n + 1
      OBVIOUS
    <3>1. t # s /\ value'[t] = value[t]
      BY <2>4
    <3>2. Slot(value[t]) = t /\ task[value[t]] = "sent" /\ value[t] > n
      BY <3>1 DEF StableInv, MessageOrder, n
    <3>3. value[t] # n + 1 /\ value[t] \in Int
      BY <2>2, <3>1, <3>2 DEF StableInv, StableTypes
    <3> QED  BY <1>2, <3>1, <3>2, <3>3
  <2>7. \A i \in 1..(n + 1) : gotten'[i] = i /\ i \in Messages /\ task[i] = "sent"
    <3>1. \A i \in 1..n : gotten[i] = i /\ i \in Messages /\ task[i] = "sent"
      BY DEF StableInv, MessageOrder, n
    <3>2. \A i \in 1..(n + 1) : i = n + 1 \/ i \in 1..n
      BY <1>2
    <3> QED  BY <1>4, <1>5, <2>1, <2>3, <3>1, <3>2
  <2>8. /\ \A q \in Pushers, k \in Messages :
             pusher[q][1] = "schedule" /\ k < pusher[q][2] /\ Slot(k) = Slot(pusher[q][2]) => task[k] = "sent"
        /\ \A j, k \in Messages : task[j] # "none" /\ k < j /\ Slot(k) = Slot(j) => task[k] = "sent"
        /\ \A k \in Messages : task[k] # "panicked"
    BY DEF StableInv, MessageOrder
  <2> QED  BY <1>0, <1>5, <2>5, <2>6, <2>7, <2>8 DEF MessageOrder
<1>9. GetCounts'
  <2>1. \A k \in accepted : k \in 1..written /\ k \in Nat
    BY DEF StableInv, GetCounts, StableTypes
  <2>2. waitStep = "returned" => \A k \in accepted : k <= n
    BY DEF StableInv, GetCounts, n
  <2>3. waitStep = "returned" => \A k \in accepted : k <= n + 1
    BY <1>2, <2>1, <2>2
  <2> QED  BY <1>0, <1>1, <1>2, <1>5, <2>1, <2>3 DEF GetCounts
<1> QED  BY <1>6, <1>7, <1>8, <1>9 DEF StableInv

\* What changes only what Get and Wait count.
LEMMA StableRests ==
  ASSUME StableInv, UNCHANGED <<pusher, written, value, lockedBy, task, gotten, overtaken, handlerPanicked>>,
         consumed' \in Nat, getter' \in {"get", "last", "over"},
         waitStep' \in {"none", "runner", "loop", "returned"}, GetCounts'
  PROVE  StableInv'
<1>1. StableTypes'
  BY DEF StableInv, StableTypes, Indexing
<1>2. MessagePlaces'
  BY DEF StableInv, MessagePlaces, HasIndex
<1>3. MessageOrder'
  BY DEF StableInv, MessageOrder
<1> QED  BY <1>1, <1>2, <1>3 DEF StableInv

\* Get finds the runner closed, with or without a message to come.
LEMMA StableDone ==
  ASSUME StableInv, GetDone
  PROVE  StableInv'
<1>0. UNCHANGED <<pusher, written, value, lockedBy, task, gotten, waitStep, overtaken, handlerPanicked, accepted>>
  BY DEF GetDone
<1>1. getter = "get" /\ waitStep # "none" /\ Len(gotten) \in Nat /\ consumed = Len(gotten)
  BY DEF GetDone, closed, StableInv, StableTypes, GetCounts
<1>2. /\ consumed' \in Nat /\ getter' \in {"last", "over"}
      /\ getter' = "last" => consumed' = consumed
      /\ getter' = "over" => ~(consumed < written)
  BY <1>1 DEF GetDone
<1>3. \A k \in accepted : k \in 1..written
  BY DEF StableInv, GetCounts
<1>4. written \in Nat
  BY DEF StableInv, StableTypes
<1>5. getter' = "over" => \A k \in accepted : k <= Len(gotten)
  BY <1>1, <1>2, <1>3, <1>4
<1>6. GetCounts'
  BY <1>0, <1>1, <1>2, <1>3, <1>5 DEF StableInv, GetCounts
<1>7. waitStep' \in {"none", "runner", "loop", "returned"}
  BY <1>0 DEF StableInv, StableTypes
<1> QED  BY <1>0, <1>2, <1>6, <1>7, StableRests

\* The steps of Wait.
LEMMA StableWaited ==
  ASSUME StableInv, StableWait \/ StableWaits
  PROVE  StableInv'
<1>0. UNCHANGED <<pusher, written, consumed, value, lockedBy, task, getter, gotten, overtaken, handlerPanicked>>
  BY ZenonT(30) DEF StableWait, StableWaits, WaitRunner, WaitLoop
<1>1. consumed' \in Nat /\ getter' \in {"get", "last", "over"} /\ Len(gotten) \in Nat /\ written \in Nat
  BY <1>0 DEF StableInv, StableTypes
<1>2. CASE StableWait
  <2>1. waitStep = "none" /\ waitStep' = "runner" /\ accepted' \subseteq 1..written
    BY <1>2 DEF StableWait
  <2>2. GetCounts'
    BY <1>0, <2>1 DEF StableInv, GetCounts
  <2> QED  BY <1>0, <1>1, <2>1, <2>2, StableRests
<1>3. CASE WaitRunner
  <2>1. waitStep = "runner" /\ waitStep' = "loop" /\ accepted' = accepted
    BY <1>3 DEF WaitRunner
  <2>2. GetCounts'
    BY <1>0, <2>1 DEF StableInv, GetCounts
  <2> QED  BY <1>0, <1>1, <2>1, <2>2, StableRests
<1>4. CASE WaitLoop
  <2>1. waitStep = "loop" /\ waitStep' = "returned" /\ accepted' = accepted /\ consumed >= written
    BY <1>4 DEF WaitLoop
  <2>2. \A k \in accepted : k \in 1..written
    BY DEF StableInv, GetCounts
  <2>3. getter # "over" => \A k \in accepted : k <= Len(gotten)
    <3> SUFFICES ASSUME getter # "over" PROVE \A k \in accepted : k <= Len(gotten)
      OBVIOUS
    <3>1. consumed = Len(gotten)
      BY DEF StableInv, GetCounts
    <3> QED  BY <1>1, <2>1, <2>2, <3>1
  <2>4. \A k \in accepted : k <= Len(gotten)
    BY <2>3 DEF StableInv, GetCounts
  <2>5. GetCounts'
    BY <1>0, <2>1, <2>4 DEF StableInv, GetCounts
  <2> QED  BY <1>0, <1>1, <2>1, <2>5, StableRests
<1> QED  BY <1>2, <1>3, <1>4 DEF StableWaits

\* Every step of the stable runner keeps its invariant.
LEMMA StableStep ==
  ASSUME StableInv, [StableNext]_stableVars
  PROVE  StableInv'
<1>1. CASE UNCHANGED stableVars
  <2>1. /\ consumed' \in Nat /\ getter' \in {"get", "last", "over"}
        /\ waitStep' \in {"none", "runner", "loop", "returned"}
    BY <1>1 DEF stableVars, StableInv, StableTypes
  <2>2. GetCounts'
    BY <1>1 DEF stableVars, StableInv, GetCounts
  <2> QED  BY <1>1, <2>1, <2>2, StableRests DEF stableVars
<1>2. ASSUME NEW p \in Pushers, Push(p) \/ StablePush(p) PROVE StableInv'
  BY <1>2, StablePushed, StableIndexed, StableLocked, StableScheduled DEF StablePush
<1>3. ASSUME NEW m \in Messages, Handled(m) \/ HandlePanics(m) \/ StableSend(m) PROVE StableInv'
  BY <1>3, StableHandled, StablePanicked, StableSent
<1>4. CASE StableGet
  BY <1>4, StableGot, StableDone DEF StableGet
<1>5. CASE StableWait \/ StableWaits
  BY <1>5, StableWaited
<1> QED  BY <1>1, <1>2, <1>3, <1>4, <1>5 DEF StableNext

\* The invariant gives the order of Get and what Wait waits for.
LEMMA StableEnd ==
  ASSUME StableInv
  PROVE  TakenInOrder /\ WaitTakesAll
<1>1. TakenInOrder
  BY DEF StableInv, MessageOrder, TakenInOrder
<1>2. ASSUME waitStep = "returned", ~overtaken, ~handlerPanicked, NEW m \in accepted
      PROVE  \E i \in 1..Len(gotten) : gotten[i] = m
  <2>1. m \in 1..written /\ m <= Len(gotten) /\ Len(gotten) \in Nat /\ written \in Nat
    BY <1>2 DEF StableInv, GetCounts, StableTypes
  <2>2. m \in 1..Len(gotten)
    BY <2>1
  <2>3. gotten[m] = m
    BY <1>1, <1>2, <2>2 DEF TakenInOrder
  <2> QED  BY <2>2, <2>3
<1> QED  BY <1>1, <1>2 DEF WaitTakesAll

-----------------------------------------------------------------------------
(***************************************************************************)
(* core/discov/publisher.go.                                               *)
(***************************************************************************)
\* Besides the key of the registration at hand, each key has a call that failed.
KeysInv ==
  /\ pub \in {"grant", "put", "keepalive", "renew", "revoke", "tick", "paused", "end", "error"}
  /\ afterRevoke \in {"tick", "paused", "end"}
  /\ failed \in Nat /\ IsFiniteSet(published)
  /\ Cardinality(IF Registered THEN published \ {lease} ELSE published) <= failed

\* A finite set stays finite with one more.
LEMMA KeysFinite ==
  ASSUME NEW S, IsFiniteSet(S), NEW x
  PROVE  IsFiniteSet(S \cup {x}) /\ IsFiniteSet({x})
BY ZenonT(30), FS_AddElement, FS_Singleton

\* What the invariant says about the number of keys.
LEMMA KeysEnd ==
  ASSUME KeysInv
  PROVE  /\ KeysExplained
         /\ Cardinality(published \ {lease}) \in Nat /\ Cardinality(published) \in Nat
         /\ Cardinality(published \ {lease}) <= failed
         /\ Cardinality(published \cup {lease}) <= failed + 1
         /\ Cardinality(published) <= failed + (IF Registered THEN 1 ELSE 0)
         /\ Cardinality({lease}) <= failed + 1
<1>1. IsFiniteSet(published) /\ failed \in Nat
  BY DEF KeysInv
<1>2. /\ IsFiniteSet(published \ {lease}) /\ Cardinality(published \ {lease}) \in Nat
      /\ Cardinality(published \ {lease}) <= Cardinality(published) /\ Cardinality(published) \in Nat
  BY <1>1, TasksBelow
<1>3. Cardinality((published \ {lease}) \cup {lease}) = Cardinality(published \ {lease}) + 1
  BY <1>2, TaskMore
<1>4. (published \ {lease}) \cup {lease} = published \cup {lease}
  OBVIOUS
<1>5. IsFiniteSet(published \cup {lease})
  BY <1>1, FS_AddElement
<1>6. Cardinality(published) <= Cardinality(published \cup {lease}) /\ Cardinality(published \cup {lease}) \in Nat
  BY <1>5, TasksBelow
<1>7. IF Registered THEN Cardinality(published \ {lease}) <= failed ELSE Cardinality(published) <= failed
  BY DEF KeysInv
<1>8. Cardinality({lease}) = 1
  BY ZenonT(30), FS_Singleton
<1>9. /\ Cardinality(published \ {lease}) <= failed
      /\ Cardinality(published \cup {lease}) <= failed + 1
      /\ Cardinality({lease}) <= failed + 1
  BY <1>1, <1>2, <1>3, <1>4, <1>7, <1>8
<1>10. Cardinality(published) <= failed + (IF Registered THEN 1 ELSE 0)
  BY <1>1, <1>2, <1>6, <1>7, <1>9
<1>11. failed + (IF Registered THEN 1 ELSE 0) = (IF Registered THEN 1 ELSE 0) + failed
  BY <1>1
<1> QED  BY <1>2, <1>9, <1>10, <1>11 DEF KeysExplained

\* etcd has no key at first.
LEMMA KeysStart == PubInit => KeysInv
<1> SUFFICES ASSUME PubInit PROVE KeysInv
  OBVIOUS
<1>1. published = {} /\ ~Registered
  BY DEF PubInit, Registered
<1> QED  BY <1>1, FS_EmptySet DEF PubInit, KeysInv

\* The key of the registration may be anything; the others do not grow.
LEMMA KeysKeep ==
  ASSUME KeysInv, failed' = failed, Registered', afterRevoke' \in {"tick", "paused", "end"},
         NEW X, X \in {published, {}}, IsFiniteSet(published'), published' \ {lease'} \subseteq X,
         X = published => ~Registered \/ lease' = lease
  PROVE  KeysInv'
<1>1. /\ Cardinality(published \ {lease}) <= failed /\ Cardinality(published \ {lease}) \in Nat
      /\ Cardinality(published) <= failed + (IF Registered THEN 1 ELSE 0) /\ failed \in Nat
      /\ IsFiniteSet(published)
  BY KeysEnd DEF KeysInv
<1>2. Cardinality(published' \ {lease'}) <= failed
  <2>1. CASE X = {}
    BY <1>1, <2>1, FS_EmptySet
  <2>2. CASE X = published /\ ~Registered
    BY <1>1, <2>2, TasksBelow
  <2>3. CASE X = published /\ lease' = lease
    <3>1. published' \ {lease'} \subseteq published \ {lease} /\ IsFiniteSet(published \ {lease})
      BY <1>1, <2>3, FS_Subset
    <3>2. Cardinality(published' \ {lease'}) <= Cardinality(published \ {lease}) /\ Cardinality(published' \ {lease'}) \in Nat
      BY <3>1, TasksBelow
    <3> QED  BY <1>1, <3>2
  <2> QED  BY <2>1, <2>2, <2>3
<1>3. pub' \in {"put", "keepalive", "renew", "revoke"}
  BY DEF Registered
<1> QED  BY <1>1, <1>2, <1>3 DEF KeysInv

\* A call that fails may leave the key of its registration.
LEMMA KeysFail ==
  ASSUME KeysInv, failed' = failed + 1, pub' \in {"tick", "error", "paused", "end"},
         afterRevoke' = afterRevoke, published' \in {published, published \cup {lease}, {lease}}
  PROVE  KeysInv'
<1>1. /\ Cardinality(published \cup {lease}) <= failed + 1 /\ failed \in Nat
      /\ Cardinality(published) <= failed + (IF Registered THEN 1 ELSE 0) /\ Cardinality(published) \in Nat
      /\ Cardinality({lease}) <= failed + 1
  BY KeysEnd DEF KeysInv
<1>2. Cardinality(published') <= failed'
  BY <1>1
<1>3. IsFiniteSet(published')
  BY ZenonT(30), KeysFinite DEF KeysInv
<1>4. ~Registered'
  BY DEF Registered
<1> QED  BY <1>1, <1>2, <1>3, <1>4 DEF KeysInv

\* A step that ends a registration takes its key, or there was none.
LEMMA KeysDrop ==
  ASSUME KeysInv, failed' = failed, pub' \in {"grant", "tick", "error", "paused", "end"},
         afterRevoke' = afterRevoke, published' \subseteq published, Registered => lease \notin published'
  PROVE  KeysInv'
<1>1. /\ failed \in Nat /\ IsFiniteSet(published)
      /\ Cardinality(IF Registered THEN published \ {lease} ELSE published) <= failed
  BY DEF KeysInv
<1> DEFINE X == IF Registered THEN published \ {lease} ELSE published
<1>2. published' \subseteq X /\ IsFiniteSet(X)
  BY <1>1, FS_Subset
<1>3. Cardinality(published') <= Cardinality(X) /\ IsFiniteSet(published') /\ Cardinality(published') \in Nat
      /\ Cardinality(X) \in Nat
  BY <1>2, TasksBelow
<1>4. Cardinality(published') <= failed'
  BY <1>1, <1>3
<1>5. ~Registered'
  BY DEF Registered
<1> QED  BY <1>1, <1>3, <1>4, <1>5 DEF KeysInv

\* Every step of the publisher, of etcd and of the client keeps the keys explained.
LEMMA KeysStep ==
  ASSUME KeysInv, [PubNext]_pubVars
  PROVE  KeysInv'
<1>0. IsFiniteSet(published) /\ afterRevoke \in {"tick", "paused", "end"}
  BY DEF KeysInv
<1>1. CASE UNCHANGED pubVars
  BY <1>1 DEF pubVars, KeysInv, Registered
<1>2. CASE PubGrant \/ PubPut \/ PubKeepAlive \/ ChannelClosed \/ PubPause \/ PubQuits
  <2>1. failed' = failed /\ afterRevoke' \in {"tick", "paused", "end"}
    BY <1>0, <1>2 DEF PubGrant, PubPut, PubKeepAlive, ChannelClosed, PubPause, PubQuits, Leaves
  <2>2. Registered'
    BY <1>2 DEF PubGrant, PubPut, PubKeepAlive, ChannelClosed, PubPause, PubQuits, Leaves, Registered
  <2>3. ~Registered \/ lease' = lease
    BY <1>2 DEF PubGrant, PubPut, PubKeepAlive, ChannelClosed, PubPause, PubQuits, Leaves, Registered
  <2>4. published' \in {published, published \cup {lease}, {lease}} /\ (published' # published => lease' = lease)
    BY <1>2 DEF PubGrant, PubPut, PubKeepAlive, ChannelClosed, PubPause, PubQuits, Leaves, Etcd, Keyed
  <2>5. IsFiniteSet(published') /\ published' \ {lease'} \subseteq published
    BY ZenonT(30), <1>0, <2>4, KeysFinite
  <2> QED  BY <2>1, <2>2, <2>3, <2>5, KeysKeep
<1>3. CASE GrantFails \/ PutFails \/ KeepAliveFails \/ RevokeFails
  <2>1. failed' = failed + 1 /\ afterRevoke' = afterRevoke
    BY <1>3 DEF GrantFails, PutFails, KeepAliveFails, RevokeFails, Fails
  <2>2. pub' \in {"tick", "error", "paused", "end"}
    BY <1>0, <1>3 DEF GrantFails, PutFails, KeepAliveFails, RevokeFails, AfterError
  <2>3. published' \in {published, published \cup {lease}, {lease}}
    BY <1>3 DEF GrantFails, PutFails, KeepAliveFails, RevokeFails, Etcd, Keyed
  <2> QED  BY <2>1, <2>2, <2>3, KeysFail
<1>4. CASE PubRevoke \/ PubTick \/ QuitPaused \/ PubResume
  <2>1. failed' = failed /\ afterRevoke' = afterRevoke /\ published' \subseteq published
    BY <1>4 DEF PubRevoke, PubTick, QuitPaused, PubResume, Etcd
  <2>2. pub' \in {"grant", "tick", "error", "paused", "end"}
    BY <1>0, <1>4 DEF PubRevoke, PubTick, QuitPaused, PubResume
  <2>3. Registered => lease \notin published'
    BY <1>4 DEF PubRevoke, PubTick, QuitPaused, PubResume, Registered
  <2> QED  BY <2>1, <2>2, <2>3, KeysDrop
<1>5. CASE PubStop \/ RenewalEnds \/ \E l \in LeaseIds : LeaseExpires(l)
  <2>1. failed' = failed /\ afterRevoke' = afterRevoke /\ published' \subseteq published /\ pub' = pub /\ lease' = lease
    BY <1>5 DEF PubStop, RenewalEnds, LeaseExpires, Etcd
  <2>2. IsFiniteSet(published') /\ (Registered <=> Registered')
    BY <1>0, <2>1, FS_Subset DEF Registered
  <2>3. CASE Registered
    BY <2>1, <2>2, <2>3, <1>0, KeysKeep
  <2>4. CASE ~Registered
    BY <2>1, <2>2, <2>4, KeysDrop DEF KeysInv, Registered
  <2> QED  BY <2>3, <2>4
<1> QED  BY <1>1, <1>2, <1>3, <1>4, <1>5 DEF PubNext, PubSteps
=============================================================================
