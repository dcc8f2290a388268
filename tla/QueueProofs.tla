---------------------------- MODULE QueueProofs -----------------------------
(***************************************************************************)
(* Proofs about the shutdown listeners, ServiceGroup, Queue and            *)
(* RotateLogger, for every set of listeners, services, producers, consumers *)
(* and entries.                                                            *)
(*                                                                         *)
(* ProcInv, GroupInv, ClosedInv, EventInv, ToldInv and LogInv are          *)
(* inductive; each has a lemma for the initial states and one for the steps. *)
(***************************************************************************)
EXTENDS Shutdown, Queue, RotateLogger, FiniteSetTheorems, TLAPS

\* The provers of a leaf, in turn, and their time.
USE ZenonT(5), SMTT(30)

-----------------------------------------------------------------------------
(***************************************************************************)
(* Finite sets and sequences.                                              *)
(***************************************************************************)
LEMMA OneMore ==
  ASSUME NEW S, NEW x, IsFiniteSet(S), x \notin S
  PROVE  Cardinality(S \cup {x}) = Cardinality(S) + 1 /\ Cardinality(S) \in Nat
BY FS_AddElement, FS_CardinalityType

\* A finite set that loses an element has one less.
LEMMA OneLess ==
  ASSUME NEW S, NEW x, IsFiniteSet(S), x \in S
  PROVE  Cardinality(S \ {x}) = Cardinality(S) - 1 /\ Cardinality(S) \in Nat
BY FS_RemoveElement, FS_CardinalityType

\* A part of a finite set is finite and has no more elements.
LEMMA NotMore ==
  ASSUME NEW S, NEW T, IsFiniteSet(S), T \subseteq S
  PROVE  IsFiniteSet(T) /\ Cardinality(T) \in Nat /\ Cardinality(T) <= Cardinality(S)
         /\ Cardinality(S) \in Nat /\ (Cardinality(T) = 0 <=> T = {})
BY FS_Subset, FS_CardinalityType, FS_EmptySet

\* The rest of a sequence, place by place.
LEMMA ChannelTail ==
  ASSUME NEW S, NEW s \in Seq(S), s # <<>>
  PROVE  /\ Len(s) \in Nat /\ Len(s) > 0
         /\ Head(s) = s[1] /\ Head(s) \in S
         /\ Tail(s) \in Seq(S) /\ Len(Tail(s)) = Len(s) - 1
         /\ \A i \in 1..Len(s)-1 : Tail(s)[i] = s[i+1]
         /\ \A i \in 1..Len(s) : s[i] \in S
<1>1. Len(s) \in Nat /\ Len(s) > 0 /\ Head(s) = s[1] /\ \A i \in 1..Len(s) : s[i] \in S
  OBVIOUS
<1>2. Tail(s) \in Seq(S) /\ Len(Tail(s)) = Len(s) - 1
  BY <1>1
<1>3. \A i \in 1..Len(s)-1 : Tail(s)[i] = s[i+1]
  BY <1>1
<1> QED  BY <1>1, <1>2, <1>3

\* A sequence with one more at its end, place by place.
LEMMA ChannelAppend ==
  ASSUME NEW S, NEW s \in Seq(S), NEW x \in S
  PROVE  /\ Append(s, x) \in Seq(S) /\ Append(s, x) # <<>>
         /\ Len(Append(s, x)) = Len(s) + 1
         /\ \A i \in 1..Len(s) : Append(s, x)[i] = s[i]
         /\ Append(s, x)[Len(s) + 1] = x
OBVIOUS


-----------------------------------------------------------------------------
(***************************************************************************)
(* core/proc/shutdown.go and core/service/servicegroup.go.                 *)
(***************************************************************************)
\* The listeners that were counted in and have not run.
Counted == {l \in Listeners : listener[l] # "out"} \ ran

ProcInv ==
  /\ listener \in [Listeners -> {"out", "add", "added", "wait", "returned"}]
  /\ notifier \in {"out", "notify", "over"}
  /\ groupCount = Cardinality(Counted)
  /\ runningOnes \subseteq Counted
  /\ listed \subseteq {l \in Listeners : listener[l] # "out"}
  /\ ran \subseteq {l \in Listeners : listener[l] # "out"}
  /\ notifier = "out" => ran = {}
  /\ notifier # "notify" => runningOnes = {}
  /\ WaitMeansCalled

\* The listeners that the wait group counts are finitely many.
LEMMA CountedFinite == IsFiniteSet(Counted) /\ Cardinality(Counted) \in Nat
BY ListenersAssumption, NotMore DEF Counted

\* No listener is called at first.
LEMMA ProcStart == ProcInit => ProcInv
<1> SUFFICES ASSUME ProcInit PROVE ProcInv
  OBVIOUS
<1>1. Counted = {}
  BY DEF ProcInit, Counted
<1> QED  BY <1>1, FS_EmptySet DEF ProcInit, ProcInv, WaitMeansCalled

\* Every step of the shutdown listeners keeps their invariant.
LEMMA ProcStep == ProcInv /\ [ProcNext]_procVars => ProcInv'
<1> SUFFICES ASSUME ProcInv, [ProcNext]_procVars PROVE ProcInv'
  OBVIOUS
<1>1. CASE UNCHANGED procVars
  BY <1>1 DEF procVars, ProcInv, Counted, WaitMeansCalled
<1>2. ASSUME NEW l \in Listeners, CountListener(l) PROVE ProcInv'
  <2>1. Counted' = Counted \cup {l} /\ l \notin Counted
    BY <1>2 DEF CountListener, ListenerAt, ProcInv, Counted
  <2>2. Cardinality(Counted') = Cardinality(Counted) + 1
    BY <2>1, CountedFinite, OneMore
  <2> QED  BY <1>2, <2>1, <2>2 DEF CountListener, ListenerAt, ProcInv, WaitMeansCalled
<1>3. ASSUME NEW l \in Listeners, AddListener(l) \/ WaitForCalled(l) PROVE ProcInv'
  <2>1. Counted' = Counted
    BY <1>3 DEF AddListener, WaitForCalled, ListenerAt, ProcInv, Counted
  <2> QED  BY <1>3, <2>1 DEF AddListener, WaitForCalled, ListenerAt, ListenerLocked, ProcInv, WaitMeansCalled, Counted
<1>4. ASSUME NEW l \in Listeners, WaitOver(l) PROVE ProcInv'
  <2>1. Counted' = Counted
    BY <1>4 DEF WaitOver, ListenerAt, ProcInv, Counted
  <2>2. Counted = {}
    BY ZenonT(30), <1>4, CountedFinite, NotMore DEF WaitOver, ProcInv
  <2> QED  BY ZenonT(30), <1>4, <2>1, <2>2 DEF WaitOver, ListenerAt, ProcInv, WaitMeansCalled, Counted
<1>5. ASSUME NEW l \in Listeners, ListenerEnds(l) PROVE ProcInv'
  <2>1. Counted' = Counted \ {l} /\ l \in Counted
    BY <1>5 DEF ListenerEnds, ProcInv, Counted
  <2>2. Cardinality(Counted') = Cardinality(Counted) - 1
    BY <2>1, CountedFinite, OneLess
  <2> QED  BY <1>5, <2>1, <2>2 DEF ListenerEnds, ProcInv, WaitMeansCalled, Counted
<1>6. CASE Notify \/ NotifyEnds
  BY <1>6 DEF Notify, NotifyEnds, ProcInv, WaitMeansCalled, Counted
<1> QED  BY <1>1, <1>2, <1>3, <1>4, <1>5, <1>6 DEF ProcNext

Order == AddedFront

\* What is stopped and what is left of it are the services, last to first.
GroupInv ==
  /\ stopper \in [Stoppers -> {"out", "stop", "wait", "returned", "panicked"}]
  /\ stops \in Seq(Range(Services)) /\ toStop \in Seq(Range(Services))
  /\ once \in {"no", "running", "over"} /\ stopPanicked \in BOOLEAN
  /\ once = "no" => stops = <<>>
  /\ once = "running" => /\ Len(stops) + Len(toStop) = Len(Services)
                         /\ \A i \in 1..Len(toStop) : toStop[i] = Order[Len(stops) + i]
  /\ once = "over" => stopPanicked \/ Len(stops) = Len(Services)
  /\ Len(stops) <= Len(Services) /\ \A i \in 1..Len(stops) : stops[i] = Order[i]
  /\ \A p \in Stoppers : stopper[p] = "stop" => once = "running"
  /\ \A p \in Stoppers : stopper[p] = "returned" => once = "over"
  /\ \A p, q \in Stoppers : stopper[p] = "stop" /\ stopper[q] = "stop" => p = q

\* The order in which the services are stopped has every service once.
LEMMA OrderFacts == Order \in Seq(Range(Services)) /\ Len(Order) = Len(Services) /\ Len(Services) \in Nat
<1> DEFINE S == Range(Services)
<1> HIDE DEF S
<1>1. Services \in Seq(S)
  BY ServicesAssumption DEF S
<1>2. Len(Services) \in Nat /\ \A i \in 1..Len(Services) : Services[i] \in S
  BY <1>1
<1>3. \A i \in 1..Len(Services) : (Len(Services) - i) + 1 \in 1..Len(Services)
  BY <1>2
<1>4. Order \in [1..Len(Services) -> S]
  BY <1>2, <1>3 DEF Order, AddedFront
<1> QED  BY <1>2, <1>4 DEF S

\* No service is stopped at first.
LEMMA GroupStart == GroupInit => GroupInv
<1>1. <<>> \in Seq(Range(Services)) /\ Len(<<>>) = 0
  OBVIOUS
<1> SUFFICES ASSUME GroupInit PROVE GroupInv
  OBVIOUS
<1>2. stops = <<>> /\ toStop = <<>> /\ once = "no" /\ stopPanicked = FALSE
  BY DEF GroupInit
<1>3. Len(stops) <= Len(Services) /\ \A i \in 1..Len(stops) : stops[i] = Order[i]
  BY <1>1, <1>2, OrderFacts
<1>4. /\ stopper \in [Stoppers -> {"out", "stop", "wait", "returned", "panicked"}]
      /\ \A p \in Stoppers : stopper[p] = "out"
  BY DEF GroupInit
<1> QED  BY ZenonT(30), <1>1, <1>2, <1>3, <1>4 DEF GroupInv

\* A step that stops no service.
LEMMA GroupOther ==
  ASSUME GroupInv,
         \/ UNCHANGED groupVars \/ doStart \/ GroupStartReturns
         \/ \E s \in Range(Services) : ServiceStarts(s) \/ ServiceEnds(s)
  PROVE  GroupInv'
<1>1. UNCHANGED <<stopper, toStop, stops, once, stopPanicked>>
  BY DEF groupVars, doStart, GroupStartReturns, ServiceStarts, ServiceEnds
<1> QED  BY <1>1 DEF GroupInv

\* The first Stop of the group begins.
LEMMA GroupOnce ==
  ASSUME GroupInv, NEW p \in Stoppers, StopOnce(p)
  PROVE  GroupInv'
<1>1. CASE once = "no"
  <2>1. once' = "running" /\ toStop' = Order /\ UNCHANGED <<stops, stopPanicked>> /\ stops = <<>> /\ Len(stops) = 0
    BY <1>1 DEF StopOnce, Order, GroupInv
  <2>2. stopper' = [stopper EXCEPT ![p] = "stop"]
    BY <1>1 DEF StopOnce, StopperAt
  <2>3. Len(Order) \in Nat /\ \A i \in 1..Len(Order) : 0 + i = i
    BY OrderFacts
  <2> QED  BY <1>1, <2>1, <2>2, <2>3, OrderFacts DEF GroupInv
<1>2. CASE once # "no"
  <2>1. UNCHANGED <<once, toStop, stops, stopPanicked>> /\ stopper' = [stopper EXCEPT ![p] = "wait"]
    BY <1>2 DEF StopOnce, StopperAt
  <2> QED  BY <2>1 DEF GroupInv
<1> QED  BY <1>1, <1>2

\* The next service is stopped.
LEMMA GroupStops ==
  ASSUME GroupInv, NEW p \in Stoppers, StopNext(p) \/ StopPanics(p)
  PROVE  GroupInv'
<1> DEFINE S == Range(Services)
           n == Len(stops)
<1>1. toStop \in Seq(S) /\ toStop # <<>> /\ stops \in Seq(S) /\ once = "running"
  BY DEF StopNext, StopPanics, GroupInv
<1>2. /\ Len(toStop) \in Nat /\ Len(toStop) > 0 /\ n \in Nat
      /\ Head(toStop) = toStop[1] /\ Head(toStop) \in S
      /\ Tail(toStop) \in Seq(S) /\ Len(Tail(toStop)) = Len(toStop) - 1
      /\ \A i \in 1..Len(toStop)-1 : Tail(toStop)[i] = toStop[i+1]
  BY <1>1, ChannelTail
<1>3. /\ stops' \in Seq(S) /\ Len(stops') = n + 1 /\ stops'[n + 1] = Head(toStop)
      /\ \A i \in 1..n : stops'[i] = stops[i]
  <2>1. stops' = Append(stops, Head(toStop))
    BY DEF StopNext, StopPanics
  <2> QED  BY <1>1, <1>2, <2>1, ChannelAppend
<1>4. toStop[1] = Order[n + 1]
  BY <1>1, <1>2 DEF GroupInv
<1>5. Len(stops') <= Len(Services) /\ \A i \in 1..Len(stops') : stops'[i] = Order[i]
  BY <1>1, <1>2, <1>3, <1>4, OrderFacts DEF GroupInv
<1>6. CASE StopNext(p)
  <2>1. toStop' = Tail(toStop) /\ UNCHANGED <<stopper, once, stopPanicked>>
    BY <1>6 DEF StopNext
  <2>2. \A i \in 1..Len(toStop)-1 : toStop[i+1] = Order[n + (i+1)]
    BY <1>1, <1>2 DEF GroupInv
  <2>3. \A i \in 1..Len(toStop)-1 : n + (i+1) = (n+1) + i
    BY <1>2
  <2>4. \A i \in 1..Len(toStop') : toStop'[i] = Order[Len(stops') + i]
    BY <1>2, <1>3, <2>1, <2>2, <2>3
  <2>5. Len(stops') + Len(toStop') = Len(Services)
    BY <1>1, <1>2, <1>3, <2>1, OrderFacts DEF GroupInv
  <2> QED  BY <1>1, <1>2, <1>3, <1>5, <2>1, <2>4, <2>5 DEF GroupInv
<1>7. CASE StopPanics(p)
  <2>1. toStop' = <<>> /\ stopPanicked' = TRUE /\ once' = "over" /\ stopper' = [stopper EXCEPT ![p] = "panicked"]
    BY <1>7 DEF StopPanics, StopperAt
  <2>2. toStop' \in Seq(S)
    BY <2>1
  <2>3. stopper[p] = "stop"
    BY <1>7 DEF StopPanics
  <2> QED  BY <1>3, <1>5, <2>1, <2>2, <2>3 DEF GroupInv
<1> QED  BY <1>6, <1>7

\* A Stop of the group returns.
LEMMA GroupOver ==
  ASSUME GroupInv, NEW p \in Stoppers, StopOver(p)
  PROVE  GroupInv'
<1>1. UNCHANGED <<toStop, stops, stopPanicked>> /\ stopper' = [stopper EXCEPT ![p] = "returned"]
  BY DEF StopOver, StopperAt
<1>2. CASE stopper[p] = "stop" /\ toStop = <<>> /\ once' = "over"
  <2>1. Len(toStop) = 0 /\ Len(stops) \in Nat
    BY <1>2 DEF GroupInv
  <2>2. Len(stops) = Len(Services)
    BY <1>2, <2>1, OrderFacts DEF GroupInv
  <2> QED  BY <1>1, <1>2, <2>2 DEF GroupInv
<1>3. CASE stopper[p] = "wait" /\ once = "over" /\ UNCHANGED once
  BY <1>1, <1>3 DEF GroupInv
<1> QED  BY <1>2, <1>3 DEF StopOver

\* Every step of the service group keeps its invariant.
LEMMA GroupStep == GroupInv /\ [GroupNext]_groupVars => GroupInv'
BY GroupOther, GroupOnce, GroupStops, GroupOver DEF GroupNext, Stopping

\* The invariant gives the order of the stops and what Stop has done when it returns.
LEMMA GroupEnd == GroupInv => StopsInReverse /\ StopMeansStopped
<1> SUFFICES ASSUME GroupInv PROVE StopsInReverse /\ StopMeansStopped
  OBVIOUS
<1>1. \A i \in 1..Len(stops) : i \in 1..Len(Services)
  <2>1. Len(stops) <= Len(Services) /\ Len(stops) \in Nat
    BY DEF GroupInv
  <2> QED  BY <2>1, OrderFacts
<1>2. StopsInReverse
  BY ZenonT(30), <1>1 DEF StopsInReverse, GroupInv, Order, AddedFront
<1>3. StopMeansStopped
  BY DEF GroupInv, StopMeansStopped
<1> QED  BY <1>2, <1>3

-----------------------------------------------------------------------------
(***************************************************************************)
(* core/queue/queue.go.                                                    *)
(***************************************************************************)
\* The channel is closed when all producers are over.
ClosedInv ==
  /\ producer \in [Producers -> {"new", "loop", "send", "over"}]
  /\ closedQ => \A p \in Producers : producer[p] = "over"

\* The channel of the queue is open at first.
LEMMA ClosedStart == QueueInit => ClosedInv
BY DEF QueueInit, ClosedInv

\* Every step of the queue keeps its channel open for the producers that run.
LEMMA ClosedStep == ClosedInv /\ [QueueNext]_queueVars => ClosedInv'
<1> SUFFICES ASSUME ClosedInv, [QueueNext]_queueVars PROVE ClosedInv'
  OBVIOUS
<1> USE DEF ClosedInv, ProducerAt, producing, listening, consuming, stopping
<1>1. CASE UNCHANGED queueVars
  BY <1>1 DEF queueVars
<1>2. ASSUME NEW p \in Producers, NewProducer(p) \/ Produce(p) \/ Deliver(p) PROVE ClosedInv'
  BY <1>2 DEF NewProducer, Produce, Deliver
<1>3. ASSUME NEW p \in Producers, TellListeners(p) \/ OnProducerPause(p) \/ OnProducerResume(p) PROVE ClosedInv'
  BY <1>3 DEF TellListeners, OnProducerPause, OnProducerResume
<1>4. ASSUME NEW c \in Consumers, ConsumerStep(c) PROVE ClosedInv'
  BY <1>4 DEF ConsumerStep, NewConsumer, ConsumerEnds
<1>5. ASSUME NEW e \in Events, BroadcastLock(e) \/ SendEvent(e) PROVE ClosedInv'
  BY <1>5 DEF BroadcastLock, SendEvent
<1>6. CASE Stop \/ Starting
  BY <1>6 DEF Stop, Starting, CloseChannel, StartReturns
<1> QED  BY <1>1, <1>2, <1>3, <1>4, <1>5, <1>6 DEF QueueNext, ProducerStep

\* No producer that could still send finds the channel closed.
LEMMA ClosedEnd == ClosedInv => NoSendOnClosed
BY DEF ClosedInv, NoSendOnClosed

\* eventLock is held by one broadcast, which has reached the consumers before the
\* one it is at: these have seen its event, and else all have seen the same.
EventInv ==
  /\ broadcast \in [Events -> 0..ConsumerCount+1]
  /\ seenEvents \in [Consumers -> Seq(Events)]
  /\ \A e, f \in Events : broadcast[e] \in Consumers /\ broadcast[f] \in Consumers => e = f
  /\ \A e \in Events : broadcast[e] \in Consumers =>
       \A c \in Consumers : seenEvents[c] = IF c < broadcast[e] THEN Append(seenEvents[broadcast[e]], e)
                                            ELSE seenEvents[broadcast[e]]
  /\ (\A e \in Events : broadcast[e] \notin Consumers) =>
       \A c, d \in Consumers : seenEvents[c] = seenEvents[d]

\* No event was broadcast at first.
LEMMA EventStart == QueueInit => EventInv
BY QueueAssumption DEF QueueInit, EventInv, Consumers

\* An event is sent to the next consumer.
LEMMA EventSent ==
  ASSUME EventInv, NEW e \in Events, SendEvent(e)
  PROVE  EventInv'
<1> DEFINE k == broadcast[e]
           x == seenEvents[k]
<1>1. k \in Consumers /\ k \in Nat /\ x \in Seq(Events) /\ Append(x, e) \in Seq(Events)
  BY QueueAssumption DEF SendEvent, EventInv, Consumers
<1>2. broadcast' = [broadcast EXCEPT ![e] = k + 1] /\ seenEvents' = [seenEvents EXCEPT ![k] = Append(x, e)]
  BY DEF SendEvent
<1>3. broadcast' \in [Events -> 0..ConsumerCount+1] /\ seenEvents' \in [Consumers -> Seq(Events)]
  BY <1>1, <1>2, QueueAssumption DEF EventInv, Consumers
<1>4. \A f \in Events : f # e => broadcast'[f] \notin Consumers
  BY <1>1, <1>2 DEF EventInv
<1>5. broadcast'[e] = k + 1
  BY <1>2 DEF EventInv
<1>6. \A c \in Consumers : seenEvents'[c] = IF c < k + 1 THEN Append(x, e) ELSE x
  <2>1. \A c \in Consumers : seenEvents[c] = IF c < k THEN Append(x, e) ELSE x
    BY <1>1 DEF EventInv
  <2>2. \A c \in Consumers : c < k + 1 <=> c < k \/ c = k
    BY <1>1, QueueAssumption DEF Consumers
  <2>3. \A c \in Consumers : seenEvents'[c] = IF c = k THEN Append(x, e) ELSE seenEvents[c]
    BY <1>1, <1>2 DEF EventInv
  <2> QED  BY <2>1, <2>2, <2>3
<1>7. CASE k + 1 \in Consumers
  <2>1. seenEvents'[k + 1] = x
    BY <1>1, <1>6, <1>7
  <2>2. \A f \in Events : broadcast'[f] \in Consumers => f = e
    BY <1>4
  <2>3. \A c \in Consumers : seenEvents'[c] = IF c < broadcast'[e] THEN Append(seenEvents'[broadcast'[e]], e)
                                               ELSE seenEvents'[broadcast'[e]]
    BY <1>5, <1>6, <2>1
  <2> QED  BY ZenonT(30), <1>3, <1>5, <1>7, <2>2, <2>3 DEF EventInv
<1>8. CASE k + 1 \notin Consumers
  <2>1. \A c \in Consumers : c < k + 1
    BY <1>1, <1>8, QueueAssumption DEF Consumers
  <2>2. \A c, d \in Consumers : seenEvents'[c] = seenEvents'[d]
    BY <1>6, <2>1
  <2> QED  BY <1>3, <1>4, <1>5, <1>8, <2>2 DEF EventInv
<1> QED  BY <1>7, <1>8

\* Every step of the queue keeps the order of the events.
LEMMA EventStep == EventInv /\ [QueueNext]_queueVars => EventInv'
<1> SUFFICES ASSUME EventInv, [QueueNext]_queueVars PROVE EventInv'
  OBVIOUS
<1>1. ASSUME UNCHANGED <<broadcast, seenEvents>> PROVE EventInv'
  BY <1>1 DEF EventInv
<1>2. ASSUME NEW e \in Events, BroadcastLock(e) PROVE EventInv'
  <2>1. seenEvents' = seenEvents /\ broadcast' = [broadcast EXCEPT ![e] = 1]
    BY <1>2 DEF BroadcastLock, consuming
  <2>2. \A f \in Events : broadcast[f] \notin Consumers
    BY <1>2 DEF BroadcastLock
  <2>3. broadcast' \in [Events -> 0..ConsumerCount+1] /\ broadcast'[e] = 1
    BY <2>1, QueueAssumption DEF EventInv
  <2>4. \A f \in Events : f # e => broadcast'[f] \notin Consumers
    BY <2>1, <2>2 DEF EventInv
  <2>5. \A c \in Consumers : ~(c < 1)
    BY QueueAssumption DEF Consumers
  <2> QED  BY <2>1, <2>2, <2>3, <2>4, <2>5 DEF EventInv
<1>3. ASSUME ~(\E e \in Events : BroadcastLock(e) \/ SendEvent(e)), QueueNext PROVE UNCHANGED <<broadcast, seenEvents>>
  <2> USE DEF consuming
  <2>1. ASSUME NEW p \in Producers, ProducerStep(p) \/ Deliver(p) PROVE UNCHANGED <<broadcast, seenEvents>>
    BY <2>1 DEF ProducerStep, NewProducer, Produce, TellListeners, Deliver
  <2>2. ASSUME NEW p \in Producers, OnProducerPause(p) \/ OnProducerResume(p) PROVE UNCHANGED <<broadcast, seenEvents>>
    BY <2>2 DEF OnProducerPause, OnProducerResume
  <2>3. ASSUME NEW c \in Consumers, ConsumerStep(c) PROVE UNCHANGED <<broadcast, seenEvents>>
    BY <2>3 DEF ConsumerStep, NewConsumer, ConsumerEnds
  <2>4. CASE Stop \/ Starting
    BY <2>4 DEF Stop, Starting, CloseChannel, StartReturns
  <2> QED  BY <1>3, <2>1, <2>2, <2>3, <2>4 DEF QueueNext
<1>4. CASE UNCHANGED queueVars
  BY <1>1, <1>4 DEF queueVars
<1> QED  BY <1>1, <1>2, <1>3, <1>4, EventSent

\* The invariant gives the one order of events.
LEMMA EventEnd == EventInv => SameEventOrder
<1> SUFFICES ASSUME EventInv, NEW c \in Consumers, NEW d \in Consumers, NEW i \in 1..Len(seenEvents[c]),
                    i <= Len(seenEvents[d])
             PROVE  seenEvents[c][i] = seenEvents[d][i]
  BY DEF SameEventOrder
<1>1. CASE \A e \in Events : broadcast[e] \notin Consumers
  BY <1>1 DEF EventInv
<1>2. ASSUME NEW e \in Events, broadcast[e] \in Consumers PROVE seenEvents[c][i] = seenEvents[d][i]
  <2> DEFINE x == seenEvents[broadcast[e]]
  <2>1. x \in Seq(Events)
    BY <1>2 DEF EventInv
  <2>2. seenEvents[c] \in {x, Append(x, e)} /\ seenEvents[d] \in {x, Append(x, e)}
    BY ZenonT(30), <1>2 DEF EventInv
  <2> HIDE DEF x
  <2>3. Len(x) \in Nat /\ \A k \in 1..Len(x) : Append(x, e)[k] = x[k]
    BY <1>2, <2>1, ChannelAppend
  <2>4. CASE seenEvents[c] = seenEvents[d]
    BY <2>4
  <2>5. CASE seenEvents[c] # seenEvents[d]
    <3>1. i \in 1..Len(x)
      BY <2>2, <2>3, <2>5
    <3> QED  BY <2>2, <2>3, <3>1
  <2> QED  BY <2>4, <2>5
<1> QED  BY <1>1, <1>2

NotNew == {p \in Producers : producer[p] # "new"}
NonePausing == \A p \in Producers : pausing[p] = "none"

\* active counts the producers that run and are not paused.  As long as no calls
\* have crossed and no producer came late, what the listeners were told last (or,
\* when one call of them is under way, are about to be told) is what active says.
ToldInv ==
  /\ producer \in [Producers -> {"new", "loop", "send", "over"}]
  /\ pausing \in [Producers -> {"none", "pause", "resume"}]
  /\ paused \subseteq NotNew
  /\ active = Cardinality(NotNew \ paused)
  /\ \A p \in Producers : pausing[p] # "none" => p \in NotNew
  /\ ~crossed /\ ~lateProducer =>
       /\ \A p \in Producers : (pausing[p] # "none" /\ \A q \in Producers \ {p} : pausing[q] = "none") =>
            (pausing[p] = "pause" <=> active = 0)
       /\ NonePausing => (told = "pause" <=> active = 0 /\ NotNew # {})

\* The producers that are counted active are finitely many.
LEMMA ActiveFinite == IsFiniteSet(NotNew \ paused) /\ Cardinality(NotNew \ paused) \in Nat
BY NotMore, QueueAssumption DEF NotNew

\* The listeners are told nothing at first.
LEMMA ToldStart == QueueInit => ToldInv
<1> SUFFICES ASSUME QueueInit PROVE ToldInv
  OBVIOUS
<1>1. NotNew = {} /\ NotNew \ paused = {}
  BY DEF QueueInit, NotNew
<1> QED  BY <1>1, FS_EmptySet DEF QueueInit, ToldInv

\* A producer starts.
LEMMA ToldNewProducer ==
  ASSUME ToldInv, NEW p \in Producers, NewProducer(p)
  PROVE  ToldInv'
<1>1. NotNew' = NotNew \cup {p} /\ p \notin NotNew /\ p \notin paused /\ paused' = paused
  BY DEF NewProducer, ProducerAt, ToldInv, NotNew
<1>2. (NotNew \ paused)' = (NotNew \ paused) \cup {p} /\ p \notin NotNew \ paused
  BY <1>1
<1>3. Cardinality((NotNew \ paused)') = Cardinality(NotNew \ paused) + 1
  BY <1>2, ActiveFinite, OneMore
<1>4. active' = active + 1 /\ active \in Nat /\ active' # 0
  BY ActiveFinite DEF NewProducer, ToldInv
<1>5. UNCHANGED <<pausing, told, crossed>> /\ producer' = [producer EXCEPT ![p] = "loop"]
  BY DEF NewProducer, ProducerAt
<1>6. ~lateProducer' => NonePausing /\ told = "none"
  BY ZenonT(30) DEF NewProducer, NonePausing
<1>7. active' = Cardinality((NotNew \ paused)')
  BY <1>3, <1>4 DEF ToldInv
<1> QED  BY <1>1, <1>4, <1>5, <1>6, <1>7 DEF ToldInv, NonePausing

\* A producer pauses.
LEMMA ToldPause ==
  ASSUME ToldInv, NEW p \in Producers, OnProducerPause(p)
  PROVE  ToldInv'
<1>1. NotNew' = NotNew /\ p \in NotNew /\ p \notin paused /\ paused' = paused \cup {p}
  BY DEF OnProducerPause, ToldInv, NotNew
<1>2. (NotNew \ paused)' = (NotNew \ paused) \ {p} /\ p \in NotNew \ paused
  BY <1>1
<1>3. Cardinality((NotNew \ paused)') = Cardinality(NotNew \ paused) - 1
  BY <1>2, ActiveFinite, OneLess
<1>4. Cardinality(NotNew \ paused) # 0
  BY <1>2, ActiveFinite, NotMore
<1>5. active' = active - 1 /\ active \in Nat /\ active # 0
  BY <1>4, ActiveFinite DEF OnProducerPause, ToldInv
<1>6. UNCHANGED <<producer, told, crossed, lateProducer>> /\ pausing[p] = "none"
  BY DEF OnProducerPause
<1>7. pausing' = [pausing EXCEPT ![p] = IF active - 1 <= 0 THEN "pause" ELSE "none"]
  BY DEF OnProducerPause
<1>8. active' = Cardinality((NotNew \ paused)')
  BY <1>3, <1>5 DEF ToldInv
<1>9. CASE active - 1 <= 0
  <2>1. active' = 0 /\ pausing' = [pausing EXCEPT ![p] = "pause"]
    BY <1>5, <1>7, <1>9
  <2> QED  BY <1>1, <1>6, <1>8, <2>1 DEF ToldInv, NonePausing
<1>10. CASE ~(active - 1 <= 0)
  <2>1. active' # 0 /\ pausing' = [pausing EXCEPT ![p] = "none"]
    BY <1>5, <1>7, <1>10
  <2>2. pausing' = pausing
    BY <1>6, <2>1 DEF ToldInv
  <2> QED  BY ZenonT(30), <1>1, <1>5, <1>6, <1>8, <2>1, <2>2 DEF ToldInv, NonePausing
<1> QED  BY <1>9, <1>10

\* A producer resumes.
LEMMA ToldResume ==
  ASSUME ToldInv, NEW p \in Producers, OnProducerResume(p)
  PROVE  ToldInv'
<1>1. NotNew' = NotNew /\ p \in NotNew /\ p \in paused /\ paused' = paused \ {p}
  BY DEF OnProducerResume, ToldInv, NotNew
<1>2. (NotNew \ paused)' = (NotNew \ paused) \cup {p} /\ p \notin NotNew \ paused
  BY <1>1
<1>3. Cardinality((NotNew \ paused)') = Cardinality(NotNew \ paused) + 1
  BY <1>2, ActiveFinite, OneMore
<1>5. active' = active + 1 /\ active \in Nat
  BY ActiveFinite DEF OnProducerResume, ToldInv
<1>6. UNCHANGED <<producer, told, crossed, lateProducer>> /\ pausing[p] = "none"
  BY DEF OnProducerResume
<1>7. pausing' = [pausing EXCEPT ![p] = IF active + 1 = 1 THEN "resume" ELSE "none"]
  BY DEF OnProducerResume
<1>8. active' = Cardinality((NotNew \ paused)') /\ active' # 0
  BY <1>3, <1>5 DEF ToldInv
<1>9. CASE active = 0
  <2>1. pausing' = [pausing EXCEPT ![p] = "resume"]
    BY <1>7, <1>9
  <2> QED  BY <1>1, <1>6, <1>8, <2>1 DEF ToldInv, NonePausing
<1>10. CASE active # 0
  <2>0. active + 1 # 1
    BY <1>5, <1>10
  <2>1. pausing' = [pausing EXCEPT ![p] = "none"]
    BY <1>7, <2>0
  <2>2. pausing' = pausing
    BY <1>6, <2>1 DEF ToldInv
  <2> QED  BY <1>1, <1>6, <1>8, <1>10, <2>2 DEF ToldInv, NonePausing
<1> QED  BY <1>9, <1>10

\* The listeners are told.
LEMMA ToldTell ==
  ASSUME ToldInv, NEW p \in Producers, TellListeners(p)
  PROVE  ToldInv'
<1>1. UNCHANGED <<producer, active, paused, lateProducer>> /\ NotNew' = NotNew /\ (NotNew \ paused)' = NotNew \ paused
  BY ZenonT(30) DEF TellListeners, producing, NotNew
<1>2. told' = pausing[p] /\ pausing' = [pausing EXCEPT ![p] = "none"] /\ pausing[p] # "none" /\ p \in NotNew
  BY DEF TellListeners, ToldInv
<1>3. ~crossed' => ~crossed /\ \A q \in Producers \ {p} : pausing[q] = "none"
  BY ZenonT(30) DEF TellListeners
<1>4. ~crossed' /\ ~lateProducer' => (told' = "pause" <=> active = 0)
  BY <1>1, <1>2, <1>3 DEF ToldInv
<1>5. ~crossed' => \A q \in Producers : pausing'[q] = "none"
  BY <1>2, <1>3 DEF ToldInv
<1> QED  BY <1>1, <1>2, <1>4, <1>5 DEF ToldInv, NonePausing

\* Every step of the queue keeps what the listeners were told in step with the producers.
LEMMA ToldStep == ToldInv /\ [QueueNext]_queueVars => ToldInv'
<1> SUFFICES ASSUME ToldInv, [QueueNext]_queueVars PROVE ToldInv'
  OBVIOUS
<1>1. ASSUME UNCHANGED listening, NotNew' = NotNew, producer' \in [Producers -> {"new", "loop", "send", "over"}]
      PROVE  ToldInv'
  BY <1>1 DEF listening, ToldInv, NonePausing
<1>2. ASSUME NEW p \in Producers, Produce(p) \/ Deliver(p) PROVE ToldInv'
  BY <1>1, <1>2 DEF Produce, Deliver, ProducerAt, ToldInv, NotNew
<1>3. ASSUME UNCHANGED <<producing, listening>> PROVE ToldInv'
  BY <1>1, <1>3 DEF producing, ToldInv, NotNew
<1>4. ASSUME NEW c \in Consumers, ConsumerStep(c) PROVE ToldInv'
  BY <1>3, <1>4 DEF ConsumerStep, NewConsumer, ConsumerEnds
<1>5. ASSUME NEW e \in Events, BroadcastLock(e) \/ SendEvent(e) PROVE ToldInv'
  BY <1>3, <1>5 DEF BroadcastLock, SendEvent
<1>6. CASE Stop \/ Starting
  BY <1>3, <1>6 DEF Stop, Starting, CloseChannel, StartReturns
<1>7. CASE UNCHANGED queueVars
  BY <1>3, <1>7 DEF queueVars, producing, listening
<1> QED  BY <1>2, <1>4, <1>5, <1>6, <1>7, ToldNewProducer, ToldPause, ToldResume, ToldTell DEF QueueNext, ProducerStep

\* The invariant says what the listeners were told last.
LEMMA ToldEnd == ToldInv => ToldWhatIsTrue
<1> SUFFICES ASSUME ToldInv, NonePausing, \A p \in Producers : producer[p] # "new", ~crossed, ~lateProducer
             PROVE  told = "pause" <=> Producers # {} /\ paused = Producers
  BY DEF ToldWhatIsTrue, NonePausing
<1>1. NotNew = Producers
  BY DEF NotNew
<1>2. active = 0 <=> NotNew \ paused = {}
  BY ActiveFinite, NotMore DEF ToldInv
<1> QED  BY <1>1, <1>2 DEF ToldInv

-----------------------------------------------------------------------------
(***************************************************************************)
(* core/logx/rotatelogger.go.                                              *)
(***************************************************************************)
LEMMA ChannelFacts ==
  ASSUME NEW S, NEW s \in Seq(S)
  PROVE  /\ \A e \in S : Range(Append(s, e)) = Range(s) \cup {e}
         /\ s # <<>> => Range(s) = Range(Tail(s)) \cup {Head(s)}
         /\ Range(<<>>) = {} /\ Range(s) \subseteq S
<1>1. \A e \in S : Range(Append(s, e)) = Range(s) \cup {e}
  <2> SUFFICES ASSUME NEW e \in S PROVE Range(Append(s, e)) = Range(s) \cup {e}
    OBVIOUS
  <2>1. /\ Append(s, e) \in Seq(S) /\ Len(Append(s, e)) = Len(s) + 1 /\ Len(s) \in Nat
        /\ \A i \in 1..Len(s) + 1 : Append(s, e)[i] = IF i = Len(s) + 1 THEN e ELSE s[i]
    BY ChannelAppend
  <2>2. DOMAIN Append(s, e) = 1..Len(s) + 1 /\ DOMAIN s = 1..Len(s)
    BY <2>1
  <2>3. 1..Len(s) + 1 = 1..Len(s) \cup {Len(s) + 1} /\ Len(s) + 1 \notin 1..Len(s)
    BY <2>1
  <2> QED  BY <2>1, <2>2, <2>3 DEF Range
<1>2. ASSUME s # <<>> PROVE Range(s) = Range(Tail(s)) \cup {Head(s)}
  <2>1. /\ Len(s) \in Nat /\ Len(s) > 0 /\ Head(s) = s[1]
        /\ Tail(s) \in Seq(S) /\ Len(Tail(s)) = Len(s) - 1
        /\ \A i \in 1..Len(s)-1 : Tail(s)[i] = s[i+1]
    BY <1>2, ChannelTail
  <2>2. DOMAIN s = 1..Len(s) /\ DOMAIN Tail(s) = 1..Len(s)-1
    BY <2>1
  <2>3. \A i \in 1..Len(s) : i = 1 \/ (i - 1 \in 1..Len(s)-1 /\ s[i] = Tail(s)[i-1])
    <3>1. \A i \in 1..Len(s) : i = 1 \/ (i - 1 \in 1..Len(s)-1 /\ (i - 1) + 1 = i)
      BY <2>1
    <3> QED  BY <2>1, <3>1
  <2>4. \A i \in 1..Len(s)-1 : i + 1 \in 1..Len(s) /\ Tail(s)[i] = s[i+1]
    <3>1. \A i \in 1..Len(s)-1 : i + 1 \in 1..Len(s)
      BY <2>1
    <3> QED  BY <2>1, <3>1
  <2>5. 1 \in 1..Len(s)
    BY <2>1
  <2>6. \A x \in Range(s) : x \in Range(Tail(s)) \cup {Head(s)}
    <3> SUFFICES ASSUME NEW x \in Range(s), x # Head(s) PROVE x \in Range(Tail(s))
      OBVIOUS
    <3>1. PICK i \in 1..Len(s) : x = s[i]
      BY <2>2 DEF Range
    <3>2. i - 1 \in 1..Len(s)-1 /\ s[i] = Tail(s)[i-1]
      BY <2>1, <2>3, <3>1
    <3> QED  BY ZenonT(30), <2>2, <3>1, <3>2 DEF Range
  <2>7. \A x \in Range(Tail(s)) \cup {Head(s)} : x \in Range(s)
    BY <2>1, <2>2, <2>4, <2>5 DEF Range
  <2> QED  BY <2>6, <2>7
<1>3. Range(<<>>) = {}
  BY DEF Range
<1>4. Range(s) \subseteq S
  BY DEF Range
<1> QED  BY <1>1, <1>2, <1>3, <1>4

LogTypes ==
  /\ entry \in [Entries -> {"out", "write", "accepted", "refused"}]
  /\ logChannel \in Seq(Entries) /\ logDone \in BOOLEAN /\ hasty \in BOOLEAN
  /\ worker \in {"run", "drain", "over"}
  /\ logFile \in [exists : BOOLEAN, has : SUBSET Entries]
  /\ clock \in 1..RotateTime /\ backup \in 1..clock
  /\ backups \in [1..RotateTime -> SUBSET Entries]
  /\ outdated \in SUBSET Entries /\ unwritten \in SUBSET Entries

\* The name of the next backup is free, unless a file was filled within the
\* second in which it began; a file that is not there has nothing.
NamesFree ==
  /\ ~hasty => \A s \in backup..RotateTime : backups[s] = {}
  /\ ~logFile.exists => logFile.has = {}

LogInv ==
  /\ LogTypes /\ NamesFree
  /\ worker # "run" => logDone
  /\ LogComplete

\* The new log satisfies its invariant.
LEMMA LogStart == LogInit => LogInv
<1> SUFFICES ASSUME LogInit PROVE LogInv
  OBVIOUS
<1>1. 1 \in 1..RotateTime /\ 1 \in 1..1 /\ RotateTime \in Nat
  BY LogAssumption
<1>2. LogTypes
  <2>1. \A S : <<>> \in Seq(S)
    OBVIOUS
  <2> QED  BY ZenonT(30), <1>1, <2>1 DEF LogInit, LogTypes, ClockInit
<1>3. NamesFree
  BY <1>1 DEF LogInit, NamesFree
<1>4. EntriesKept
  BY DEF LogInit, EntriesKept, Accepted
<1>5. DrainedAtClose
  BY DEF LogInit, DrainedAtClose
<1> QED  BY <1>2, <1>3, <1>4, <1>5 DEF LogInit, LogInv, LogComplete

\* Write and Close, the worker seeing l.done, and time.
LEMMA LogWritten ==
  ASSUME LogInv, NEW e \in Entries, WriteBegins(e) \/ WriteSends(e) \/ WriteRefused(e)
  PROVE  LogInv'
<1>0. UNCHANGED <<logDone, worker, closer, logFile, fp, currentSize, backup, backups, outdated, unwritten, hasty, clock>>
  BY DEF WriteBegins, WriteSends, WriteRefused, logFiles
<1>1. PICK s \in {"write", "accepted", "refused"} :
        /\ entry' = [entry EXCEPT ![e] = s]
        /\ s = "accepted" => logChannel' = Append(logChannel, e) /\ late' = IF logDone THEN late \cup {e} ELSE late
        /\ s # "accepted" => UNCHANGED <<logChannel, late>>
  BY DEF WriteBegins, WriteSends, WriteRefused, EntryAt
<1>2. logChannel \in Seq(Entries)
  BY DEF LogInv, LogTypes
<1>3. /\ logChannel' \in Seq(Entries)
      /\ Range(logChannel') = IF s = "accepted" THEN Range(logChannel) \cup {e} ELSE Range(logChannel)
  <2>1. CASE s = "accepted"
    <3>1. logChannel' = Append(logChannel, e)
      BY <1>1, <2>1
    <3> QED  BY <1>2, <2>1, <3>1, ChannelFacts, ChannelAppend
  <2>2. CASE s # "accepted"
    BY <1>1, <1>2, <2>2
  <2> QED  BY <2>1, <2>2
<1>4. LogTypes'
  BY <1>0, <1>1, <1>3 DEF LogInv, LogTypes
<1>5. NamesFree' /\ (worker' # "run" => logDone')
  BY ZenonT(30), <1>0 DEF LogInv, NamesFree
<1>6. Accepted' \ Range(logChannel') \subseteq Accepted \ Range(logChannel)
  BY <1>1, <1>3 DEF Accepted, LogInv, LogTypes
<1>7. EntriesKept'
  BY ZenonT(30), <1>0, <1>6 DEF LogInv, LogComplete, EntriesKept, Kept, InBackups
<1>8. DrainedAtClose'
  BY <1>0, <1>1, <1>3 DEF LogInv, LogComplete, DrainedAtClose
<1> QED  BY <1>4, <1>5, <1>7, <1>8 DEF LogInv, LogComplete

\* Close, the worker that sees it, and time.
LEMMA LogGoesOn ==
  ASSUME LogInv, SeesDone \/ WorkerReturns \/ LogClose \/ CloseReturns \/ (Tick(RotateTime) /\ UNCHANGED logState)
                 \/ UNCHANGED logVars
  PROVE  LogInv'
<1>0. UNCHANGED <<entry, logChannel, late, logFile, fp, currentSize, backup, backups, outdated, unwritten, hasty>>
  BY ZenonT(30) DEF SeesDone, WorkerReturns, LogClose, CloseReturns, logFiles, logState, logVars
<1>1. clock' \in 1..RotateTime /\ backup' \in 1..clock'
  <2>1. clock \in 1..RotateTime /\ backup \in 1..clock /\ RotateTime \in Nat
    BY LogAssumption DEF LogInv, LogTypes
  <2>2. clock' = clock \/ (clock < RotateTime /\ clock' = clock + 1)
    BY DEF SeesDone, WorkerReturns, LogClose, CloseReturns, Tick, logVars
  <2> QED  BY <1>0, <2>1, <2>2
<1>2. /\ worker' \in {"run", "drain", "over"} /\ logDone' \in BOOLEAN /\ (worker' # "run" => logDone')
      /\ worker' = "over" => worker = "over" \/ logChannel = <<>>
  BY ZenonT(30) DEF SeesDone, WorkerReturns, LogClose, CloseReturns, logState, logVars, LogInv, LogTypes
<1>3. LogTypes'
  BY <1>0, <1>1, <1>2 DEF LogInv, LogTypes
<1>4. NamesFree'
  BY ZenonT(30), <1>0 DEF LogInv, NamesFree
<1>5. EntriesKept'
  <2>1. Accepted' = Accepted /\ InBackups' = InBackups
    BY <1>0 DEF Accepted, InBackups
  <2>2. Kept' = Kept
    BY <1>0, <2>1 DEF Kept
  <2> QED  BY <1>0, <2>1, <2>2 DEF LogInv, LogComplete, EntriesKept
<1>6. DrainedAtClose'
  <2>1. Range(<<>>) = {}
    BY DEF Range
  <2> QED  BY <1>0, <1>2, <2>1 DEF LogInv, LogComplete, DrainedAtClose
<1> QED  BY <1>2, <1>3, <1>4, <1>5, <1>6 DEF LogInv, LogComplete

\* The worker takes an entry: it is kept, and nothing kept is lost.
LEMMA LogTaken ==
  ASSUME LogInv, TakesEntry, LogTypes', NamesFree',
         ~hasty' => ~hasty /\ Kept \cup {Head(logChannel)} \subseteq Kept'
  PROVE  LogInv'
<1>0. UNCHANGED <<entry, logDone, worker, late>>
  BY DEF TakesEntry
<1>1. logChannel' = Tail(logChannel) /\ logChannel # <<>> /\ worker # "over" /\ logChannel \in Seq(Entries)
  BY DEF TakesEntry, LogInv, LogTypes
<1>2. Range(logChannel) = Range(logChannel') \cup {Head(logChannel)}
  BY <1>1, ChannelFacts
<1>3. Accepted' = Accepted
  BY <1>0 DEF Accepted
<1>4. EntriesKept'
  <2> SUFFICES ASSUME ~hasty' PROVE Accepted' \ Range(logChannel') \subseteq Kept'
    BY DEF EntriesKept
  <2>1. Accepted \ Range(logChannel) \subseteq Kept
    BY DEF LogInv, LogComplete, EntriesKept
  <2> QED  BY <1>2, <1>3, <2>1
<1>5. DrainedAtClose'
  BY <1>0, <1>1 DEF DrainedAtClose
<1> QED  BY <1>0, <1>4, <1>5 DEF LogInv, LogComplete

\* The worker writes an entry into the file at hand.
LEMMA LogAppended ==
  ASSUME LogInv, WriteOnly
  PROVE  LogInv'
<1>0. UNCHANGED <<entry, logDone, worker, late, clock, fp, backup, backups, outdated, unwritten, hasty>>
  BY DEF WriteOnly, TakesEntry
<1>1. /\ TakesEntry /\ logChannel' = Tail(logChannel)
      /\ logFile' = [exists |-> TRUE, has |-> logFile.has \cup {Head(logChannel)}]
  BY DEF WriteOnly, WriteEntry, TakesEntry
<1>2. logChannel' \in Seq(Entries) /\ Head(logChannel) \in Entries
  BY ChannelTail DEF LogInv, LogTypes, TakesEntry, WriteOnly
<1>3. logFile.has \subseteq Entries /\ logFile'.has = logFile.has \cup {Head(logChannel)} /\ logFile'.exists
  BY <1>1 DEF LogInv, LogTypes
<1>4. LogTypes'
  BY <1>0, <1>1, <1>2, <1>3 DEF LogInv, LogTypes
<1>5. NamesFree'
  BY ZenonT(30), <1>0, <1>3 DEF LogInv, NamesFree
<1>6. Kept \cup {Head(logChannel)} \subseteq Kept'
  <2>1. InBackups' = InBackups
    BY <1>0 DEF InBackups
  <2> QED  BY <1>0, <1>3, <2>1 DEF Kept
<1> QED  BY <1>0, <1>1, <1>4, <1>5, <1>6, LogTaken

\* A rotation: what was in the file is in the backup, whose name was free.
LEMMA LogRotated ==
  ASSUME LogInv, TakesEntry, RenamesIfThere, backup' = clock, UNCHANGED outdated,
         NEW W \in SUBSET Entries, NEW x \in BOOLEAN, logFile' = [exists |-> x, has |-> W], ~x => W = {},
         unwritten \subseteq unwritten', unwritten' \in SUBSET Entries, Head(logChannel) \in W \cup unwritten'
  PROVE  LogInv'
<1>0. UNCHANGED <<entry, logDone, worker, late, clock>>
  BY DEF TakesEntry
<1>1. logChannel' = Tail(logChannel) /\ logChannel' \in Seq(Entries) /\ Head(logChannel) \in Entries
  BY ChannelTail DEF LogInv, LogTypes, TakesEntry
<1>2. /\ clock \in 1..RotateTime /\ backup \in 1..clock /\ RotateTime \in Nat
      /\ backups \in [1..RotateTime -> SUBSET Entries] /\ hasty \in BOOLEAN
      /\ logFile \in [exists : BOOLEAN, has : SUBSET Entries]
  BY LogAssumption DEF LogInv, LogTypes
<1>3. clock \in 1..clock /\ backup \in 1..RotateTime
  BY <1>2
<1>4. logFile'.has = W /\ logFile'.exists = x /\ logFile' \in [exists : BOOLEAN, has : SUBSET Entries]
  OBVIOUS
<1>5. /\ backups' \in [1..RotateTime -> SUBSET Entries] /\ hasty' \in BOOLEAN /\ (~hasty' => ~hasty)
      /\ \A s \in 1..RotateTime : backups'[s] = IF s = backup /\ logFile.exists THEN logFile.has ELSE backups[s]
      /\ ~hasty' => ~logFile.exists \/ backup # clock
  <2>1. CASE logFile.exists
    <3>1. backups' = [backups EXCEPT ![backup] = logFile.has] /\ hasty' = (hasty \/ backup = clock)
      BY <2>1 DEF RenamesIfThere, Renames
    <3> QED  BY <1>2, <1>3, <2>1, <3>1
  <2>2. CASE ~logFile.exists
    BY <1>2, <2>2 DEF RenamesIfThere
  <2> QED  BY ZenonT(30), <2>1, <2>2
<1>6. LogTypes'
  BY ZenonT(30), <1>0, <1>1, <1>2, <1>3, <1>4, <1>5 DEF LogInv, LogTypes
<1>7. ~hasty' => \A s \in backup..RotateTime : backups[s] = {}
  BY ZenonT(30), <1>5 DEF LogInv, NamesFree
<1>8. NamesFree'
  <2>1. \A s \in clock..RotateTime : s \in backup..RotateTime /\ s \in 1..RotateTime /\ (s = backup => backup = clock)
    BY <1>2
  <2>2. ~hasty' => \A s \in clock..RotateTime : backups'[s] = {}
    BY ZenonT(30), <1>5, <1>7, <2>1
  <2> QED  BY ZenonT(30), <1>4, <2>2 DEF NamesFree
<1>9. ASSUME ~hasty' PROVE Kept \cup {Head(logChannel)} \subseteq Kept'
  <2>1. DOMAIN backups = 1..RotateTime /\ DOMAIN backups' = 1..RotateTime
    BY <1>2, <1>5
  <2>2. backup \in backup..RotateTime
    BY <1>2
  <2>3. \A s \in 1..RotateTime : backups[s] \subseteq backups'[s]
    BY <1>5, <1>7, <1>9, <2>2
  <2>4. logFile.has \subseteq UNION {backups'[s] : s \in 1..RotateTime}
    <3>1. CASE logFile.exists
      <4>1. backups'[backup] = logFile.has
        BY <1>3, <1>5, <3>1
      <4> QED  BY ZenonT(30), <1>3, <4>1
    <3>2. CASE ~logFile.exists
      BY ZenonT(30), <3>2 DEF LogInv, NamesFree
    <3> QED  BY ZenonT(30), <3>1, <3>2
  <2>5. UNION {backups[s] : s \in 1..RotateTime} \subseteq UNION {backups'[s] : s \in 1..RotateTime}
    BY <2>3
  <2>6. logFile.has \subseteq InBackups' /\ InBackups \subseteq InBackups'
    BY ZenonT(30), <2>1, <2>4, <2>5 DEF InBackups
  <2> QED  BY ZenonT(30), <1>4, <2>6 DEF Kept
<1> QED  BY ZenonT(30), <1>5, <1>6, <1>8, <1>9, LogTaken

\* A rotation, with every call of os that can fail.
LEMMA LogRotates ==
  ASSUME LogInv, RotateAndWrite \/ CreateFileFails \/ RotateFails
  PROVE  LogInv'
<1>0. Head(logChannel) \in Entries /\ logChannel' = Tail(logChannel) /\ logChannel' \in Seq(Entries) /\ TakesEntry
  <2>1. TakesEntry
    BY DEF RotateAndWrite, CreateFileFails, RotateFails
  <2> QED  BY <2>1, ChannelTail DEF LogInv, LogTypes, TakesEntry
<1>1. unwritten \subseteq Entries
  BY DEF LogInv, LogTypes
<1>2. CASE RotateAndWrite
  <2>1. /\ RenamesIfThere /\ backup' = clock /\ UNCHANGED <<outdated, unwritten>>
        /\ logFile' = [exists |-> TRUE, has |-> {} \cup {Head(logChannel)}]
    BY ZenonT(30), <1>2 DEF RotateAndWrite, WriteEntry
  <2>2. {} \cup {Head(logChannel)} \in SUBSET Entries /\ Head(logChannel) \in {} \cup {Head(logChannel)}
    BY <1>0
  <2> QED  BY ZenonT(30), <1>0, <1>1, <2>1, <2>2, LogRotated
<1>3. CASE CreateFileFails
  <2>1. /\ RenamesIfThere /\ backup' = clock /\ UNCHANGED outdated
        /\ logFile' = [exists |-> FALSE, has |-> {}] /\ unwritten' = unwritten \cup {Head(logChannel)}
    BY ZenonT(30), <1>3 DEF CreateFileFails
  <2> QED  BY ZenonT(30), <1>0, <1>1, <2>1, LogRotated
<1>4. CASE RotateFails
  <2>1. UNCHANGED <<entry, logDone, worker, late, clock, logFile, currentSize, backup, backups, outdated, hasty>>
    BY <1>4 DEF RotateFails, TakesEntry
  <2>2. unwritten' = unwritten \cup {Head(logChannel)}
    BY <1>4 DEF RotateFails
  <2>3. LogTypes'
    BY <1>0, <1>1, <2>1, <2>2 DEF LogInv, LogTypes
  <2>4. NamesFree'
    BY <2>1 DEF LogInv, NamesFree
  <2>5. Kept \cup {Head(logChannel)} \subseteq Kept'
    <3>1. InBackups' = InBackups
      BY <2>1 DEF InBackups
    <3> QED  BY <2>1, <2>2, <3>1 DEF Kept
  <2> QED  BY <1>0, <2>1, <2>3, <2>4, <2>5, LogTaken
<1> QED  BY <1>2, <1>3, <1>4

\* Old backups are deleted.
LEMMA LogCleaned ==
  ASSUME LogInv, MaybeDeleteOutdatedFiles
  PROVE  LogInv'
<1>0. UNCHANGED <<entry, logChannel, logDone, worker, late, logFile, backup, unwritten, hasty, clock>>
  BY DEF MaybeDeleteOutdatedFiles
<1>1. /\ outdated' = outdated \cup UNION {backups[s] : s \in Outdated}
      /\ backups' = [s \in DOMAIN backups |-> IF s \in Outdated THEN {} ELSE backups[s]]
  BY ZenonT(30) DEF MaybeDeleteOutdatedFiles
<1>2. backups \in [1..RotateTime -> SUBSET Entries] /\ outdated \subseteq Entries
  BY DEF LogInv, LogTypes
<1>3. Outdated \subseteq 1..RotateTime /\ DOMAIN backups = 1..RotateTime
  BY <1>2 DEF Outdated
<1>4. /\ backups' \in [1..RotateTime -> SUBSET Entries] /\ outdated' \subseteq Entries
      /\ \A s \in 1..RotateTime : backups'[s] = IF s \in Outdated THEN {} ELSE backups[s]
  BY <1>1, <1>2, <1>3
<1> HIDE DEF Outdated
<1>5. LogTypes'
  BY <1>0, <1>4 DEF LogInv, LogTypes
<1>6. NamesFree'
  <2>1. clock \in 1..RotateTime /\ backup \in 1..clock /\ RotateTime \in Nat
    BY LogAssumption DEF LogInv, LogTypes
  <2>2. \A s \in backup..RotateTime : s \in 1..RotateTime
    BY <2>1
  <2> QED  BY ZenonT(30), <1>0, <1>4, <2>2 DEF LogInv, NamesFree
<1>7. Kept \subseteq Kept'
  <2>1. DOMAIN backups' = 1..RotateTime
    BY <1>4
  <2>2. \A s \in 1..RotateTime : \A e \in backups[s] : e \in InBackups' \/ e \in outdated'
    <3> SUFFICES ASSUME NEW s \in 1..RotateTime, NEW e \in backups[s], e \notin outdated' PROVE e \in InBackups'
      OBVIOUS
    <3>1. s \notin Outdated
      BY <1>1
    <3>2. backups'[s] = backups[s]
      BY <1>4, <3>1
    <3> QED  BY <2>1, <3>2 DEF InBackups
  <2>3. \A e \in InBackups : \E s \in 1..RotateTime : e \in backups[s]
    BY <1>3 DEF InBackups
  <2>4. outdated \subseteq outdated' /\ InBackups \subseteq InBackups' \cup outdated'
    BY <1>1, <2>2, <2>3
  <2> QED  BY <1>0, <2>4 DEF Kept
<1>8. EntriesKept'
  BY <1>0, <1>7 DEF LogInv, LogComplete, EntriesKept, Accepted
<1>9. DrainedAtClose'
  BY <1>0 DEF LogInv, LogComplete, DrainedAtClose
<1> QED  BY <1>0, <1>5, <1>6, <1>8, <1>9 DEF LogInv, LogComplete

\* Every step of the rotate logger keeps its invariant.
LEMMA LogStep ==
  ASSUME LogInv, [LogNext]_logVars
  PROVE  LogInv'
<1>1. ASSUME NEW e \in Entries, WriteBegins(e) \/ WriteSends(e) \/ WriteRefused(e) PROVE LogInv'
  BY <1>1, LogWritten
<1>2. CASE WorkerSteps
  BY <1>2, LogAppended, LogRotates, LogGoesOn DEF WorkerSteps
<1>3. CASE MaybeDeleteOutdatedFiles
  BY <1>3, LogCleaned
<1>4. CASE LogClose \/ CloseReturns \/ (Tick(RotateTime) /\ UNCHANGED logState) \/ UNCHANGED logVars
  BY <1>4, LogGoesOn
<1> QED  BY <1>1, <1>2, <1>3, <1>4 DEF LogNext
=============================================================================
