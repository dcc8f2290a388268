------------------------------ MODULE Shutdown ------------------------------
(***************************************************************************)
(* The end of a process: its listeners, and a group of services.           *)
(***************************************************************************)
EXTENDS Integers, FiniteSets, Sequences, Functions

(***************************************************************************)
(* core/proc/shutdown.go: listenerManager, the functions to call when the  *)
(* process stops, and gracefulStop for one of its two lists.               *)
(*                                                                         *)
(* addListener counts in the wait group before it asks for the lock, and   *)
(* notifyListeners holds the lock until the last listener has returned.    *)
(* sync.WaitGroup is external: Wait returns when the count is zero.        *)
(***************************************************************************)
CONSTANT Listeners

ASSUME ListenersAssumption == IsFiniteSet(Listeners)

VARIABLES listener,     \* where the goroutine that adds a listener is
          listed,       \* lm.listeners
          ran,       \* the listeners that have returned, or panicked
          groupCount,   \* lm.waitGroup
          notifier,     \* out, notify, over
          runningOnes   \* the listeners that run

procVars == <<listener, listed, ran, groupCount, notifier, runningOnes>>

ProcInit ==
  /\ listener = [l \in Listeners |-> "out"]
  /\ listed = {} /\ ran = {} /\ groupCount = 0
  /\ notifier = "out" /\ runningOnes = {}

ListenerAt(l, s) == listener' = [listener EXCEPT ![l] = s]

\* Mutant of CountListener: the wait group is left to a later step.
CountNothing(l) ==
  /\ listener[l] = "out" /\ ListenerAt(l, "add")
  /\ UNCHANGED <<listed, ran, groupCount, notifier, runningOnes>>

CountListener(l) ==
  /\ listener[l] = "out" /\ ListenerAt(l, "add")
  /\ groupCount' = groupCount + 1
  /\ UNCHANGED <<listed, ran, notifier, runningOnes>>

ListenerLocked == notifier = "notify"

AddListener(l) ==
  /\ listener[l] = "add" /\ ~ListenerLocked
  /\ ListenerAt(l, "added")
  /\ listed' = listed \cup {l}
  /\ UNCHANGED <<ran, groupCount, notifier, runningOnes>>

\* waitForCalled; not every caller of addListener uses it.
WaitForCalled(l) ==
  /\ listener[l] = "added" /\ ListenerAt(l, "wait")
  /\ UNCHANGED <<listed, ran, groupCount, notifier, runningOnes>>

WaitOver(l) ==
  /\ listener[l] = "wait" /\ groupCount = 0
  /\ ListenerAt(l, "returned")
  /\ UNCHANGED <<listed, ran, groupCount, notifier, runningOnes>>

Notify ==
  /\ notifier = "out" /\ notifier' = "notify"
  /\ runningOnes' = listed
  /\ UNCHANGED <<listener, listed, ran, groupCount>>

\* Mutant of ListenerEnds: a listener that panics is not counted out.
ListenerEndsQuiet(l) ==
  /\ l \in runningOnes /\ runningOnes' = runningOnes \ {l}
  /\ ran' = ran \cup {l}
  /\ groupCount' \in {groupCount, groupCount - 1}
  /\ UNCHANGED <<listener, listed, notifier>>

\* A listener returns, or panics and is recovered: the count goes down in both.
ListenerEnds(l) ==
  /\ l \in runningOnes /\ runningOnes' = runningOnes \ {l}
  /\ ran' = ran \cup {l}
  /\ groupCount' = groupCount - 1
  /\ UNCHANGED <<listener, listed, notifier>>

NotifyEnds ==
  /\ notifier = "notify" /\ runningOnes = {}
  /\ listed' = {} /\ notifier' = "over"
  /\ UNCHANGED <<listener, ran, groupCount, runningOnes>>

ProcNext ==
  \/ \E l \in Listeners :
       \/ CountListener(l) \/ AddListener(l) \/ WaitForCalled(l) \/ WaitOver(l) \/ ListenerEnds(l)
  \/ Notify \/ NotifyEnds

ProcSpec == ProcInit /\ [][ProcNext]_procVars

\* Listeners return, and goroutines are scheduled.
ProcGoes == NotifyEnds \/ \E l \in Listeners : ListenerEnds(l) \/ WaitOver(l)

\* waitForCalled returns only when the listener it was given for has run.
WaitMeansCalled == \A l \in Listeners : listener[l] = "returned" => l \in ran

\* Once the listeners are notified, waitForCalled returns (when nothing can happen
\* by itself, nobody waits in it), unless a listener was added too late
\* to be notified: all share one wait group, and the late one is never counted out.
TooLate == \E m \in Listeners : listener[m] # "out" /\ m \notin ran /\ m \notin runningOnes
WaitForCalledEnds ==
  ~ENABLED ProcGoes /\ notifier # "out" => TooLate \/ \A l \in Listeners : listener[l] # "wait"

-----------------------------------------------------------------------------
(***************************************************************************)
(* core/service/servicegroup.go: ServiceGroup.  Start runs each service in *)
(* a goroutine and waits for all of them; Stop, which any goroutine and    *)
(* the shutdown listener may call, stops them one by one in a sync.Once    *)
(* (external: whoever comes second waits for the first).  Start of a       *)
(* service returns by itself, or after its Stop if that comes while it     *)
(* runs.                                                                   *)
(***************************************************************************)
CONSTANTS Services,    \* as they were added, a sequence
          Stoppers     \* goroutines that call Stop, and the listener

ASSUME ServicesAssumption == Services \in Seq(Range(Services))

VARIABLES starter,     \* Start of the group: out, wait, returned
          service,     \* none, go, run, asked, end
          stopper,     \* out, stop, wait, returned
          toStop,      \* what doStop has before it
          stops,       \* history: the services stopped, in order
          once,        \* no, running, over
          stopPanicked \* a Stop has panicked

groupVars == <<starter, service, stopper, toStop, stops, once, stopPanicked>>

GroupInit ==
  /\ starter = "out" /\ service = [s \in Range(Services) |-> "none"]
  /\ stopper = [p \in Stoppers |-> "out"]
  /\ toStop = <<>> /\ stops = <<>> /\ once = "no" /\ stopPanicked = FALSE

ServiceAt(s, to) == service' = [service EXCEPT ![s] = to]
StopperAt(p, to) == stopper' = [stopper EXCEPT ![p] = to]

doStart ==
  /\ starter = "out" /\ starter' = "wait"
  /\ service' = [s \in Range(Services) |-> "go"]
  /\ UNCHANGED <<stopper, toStop, stops, once, stopPanicked>>

ServiceStarts(s) ==
  /\ service[s] = "go" /\ ServiceAt(s, "run")
  /\ UNCHANGED <<starter, stopper, toStop, stops, once, stopPanicked>>

ServiceEnds(s) ==
  /\ service[s] \in {"run", "asked"} /\ ServiceAt(s, "end")
  /\ UNCHANGED <<starter, stopper, toStop, stops, once, stopPanicked>>

\* routineGroup.Wait.
GroupStartReturns ==
  /\ starter = "wait" /\ \A s \in Range(Services) : service[s] = "end"
  /\ starter' = "returned"
  /\ UNCHANGED <<service, stopper, toStop, stops, once, stopPanicked>>

\* Mutant of AddedFront: append at the end.
AddedBack == Services

\* Add puts each service in front of the earlier ones.
AddedFront == [i \in 1..Len(Services) |-> Services[Len(Services) - i + 1]]

\* Mutant of StopOnce: a flag instead of sync.Once, nobody waits.
StopFlagged(p) ==
  /\ stopper[p] = "out"
  /\ IF once = "no" THEN StopperAt(p, "stop") /\ once' = "running" /\ toStop' = AddedFront
     ELSE StopperAt(p, "returned") /\ UNCHANGED <<once, toStop>>
  /\ UNCHANGED <<starter, service, stops, stopPanicked>>

StopOnce(p) ==
  /\ stopper[p] = "out"
  /\ IF once = "no" THEN StopperAt(p, "stop") /\ once' = "running" /\ toStop' = AddedFront
     ELSE StopperAt(p, "wait") /\ UNCHANGED <<once, toStop>>
  /\ UNCHANGED <<starter, service, stops, stopPanicked>>

\* service.Stop of the next one.  A service that has not begun does not notice.
StopNext(p) ==
  /\ stopper[p] = "stop" /\ toStop # <<>>
  /\ toStop' = Tail(toStop) /\ stops' = Append(stops, Head(toStop))
  /\ IF service[Head(toStop)] = "run" THEN ServiceAt(Head(toStop), "asked") ELSE UNCHANGED service
  /\ UNCHANGED <<starter, stopper, once, stopPanicked>>

\* A Stop that panics ends doStop, and the once is over.
StopPanics(p) ==
  /\ stopper[p] = "stop" /\ toStop # <<>>
  /\ toStop' = <<>> /\ stops' = Append(stops, Head(toStop))
  /\ stopPanicked' = TRUE /\ once' = "over" /\ StopperAt(p, "panicked")
  /\ UNCHANGED <<starter, service>>

StopOver(p) ==
  /\ \/ stopper[p] = "stop" /\ toStop = <<>> /\ once' = "over"
     \/ stopper[p] = "wait" /\ once = "over" /\ UNCHANGED once
  /\ StopperAt(p, "returned")
  /\ UNCHANGED <<starter, service, toStop, stops, stopPanicked>>

Stopping(p) == StopNext(p) \/ StopPanics(p) \/ StopOver(p)

GroupNext ==
  \/ doStart \/ GroupStartReturns
  \/ \E s \in Range(Services) : ServiceStarts(s) \/ ServiceEnds(s)
  \/ \E p \in Stoppers : StopOnce(p) \/ Stopping(p)

GroupSpec == GroupInit /\ [][GroupNext]_groupVars

\* "push front, stop with reverse order": each service is stopped once, in the
\* reverse order of adding, by however many calls of Stop.
StopsInReverse ==
  Len(stops) <= Len(Services) /\ \A i \in 1..Len(stops) : stops[i] = Services[Len(Services) - i + 1]

\* When a Stop returns the services are stopped: the Stop of main does not return,
\* and the process end, while the listener is still stopping them.  A Stop that
\* panics leaves the services after it as they are.
StopMeansStopped ==
  (\E p \in Stoppers : stopper[p] = "returned") => stopPanicked \/ Len(stops) = Len(Services)

\* Start returns after Stop, but for a service whose goroutine had not begun when
\* it was stopped: it starts later, and nobody will stop it.
Stopped(s) == s \in Range(stops)
ServiceGoes == \E s \in Range(Services) : ServiceStarts(s) \/ (service[s] = "asked" /\ ServiceEnds(s))
GroupEnds ==
  ~ENABLED (ServiceGoes \/ GroupStartReturns) /\ once = "over" /\ ~stopPanicked =>
    starter # "wait" \/ \E s \in Range(Services) : service[s] = "run" /\ Stopped(s)
=============================================================================
