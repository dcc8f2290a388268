-------------------------------- MODULE Queue --------------------------------
(***************************************************************************)
(* core/queue/queue.go: producers and consumers over a channel without a   *)
(* buffer, events broadcast to the consumers, and listeners told when all  *)
(* producers have paused.                                                  *)
(*                                                                         *)
(* A send on q.channel and its receive are one step.  A producer calls     *)
(* OnProducerPause and OnProducerResume in turn, from its own goroutine.   *)
(***************************************************************************)
EXTENDS Integers, Sequences, FiniteSets

CONSTANTS Producers,
          ConsumerCount,
          Events,      \* messages of Broadcast
          MaxTurns     \* bound: values, pauses and resumes of a producer

ASSUME QueueAssumption == IsFiniteSet(Producers) /\ ConsumerCount \in Nat

VARIABLES producer,    \* new, loop, send, over
          turns,
          active,
          pausing,     \* the listener calls of a producer: none, pause, resume
          paused,      \* the producers that are paused
          told,        \* what q.listeners were told last
          consumer,    \* new, loop, over
          quit, closedQ, started,  \* q.quit, q.channel closed, Start returned
          broadcast,   \* the consumer that the event goes to next; 0 before, more after
          seenEvents,
          crossed, lateProducer    \* history

queueVars == <<producer, turns, active, pausing, paused, told, consumer, quit, closedQ, started,
               broadcast, seenEvents, crossed, lateProducer>>
producing == <<producer, turns>>
listening == <<active, pausing, paused, told, crossed, lateProducer>>
consuming == <<consumer, seenEvents>>
stopping == <<quit, closedQ, started>>

Consumers == 1..ConsumerCount

QueueInit ==
  /\ producer = [p \in Producers |-> "new"] /\ turns = [p \in Producers |-> 0]
  /\ active = 0 /\ paused = {} /\ told = "none"
  /\ pausing = [p \in Producers |-> "none"]
  /\ consumer = [c \in Consumers |-> "new"]
  /\ quit = FALSE /\ closedQ = FALSE /\ started = FALSE
  /\ broadcast = [e \in Events |-> 0]
  /\ seenEvents = [c \in Consumers |-> <<>>]
  /\ crossed = FALSE /\ lateProducer = FALSE

ProducerAt(p, s) == producer' = [producer EXCEPT ![p] = s]
ConsumerAt(c, s) == consumer' = [consumer EXCEPT ![c] = s]

-----------------------------------------------------------------------------
\* produce: the factory succeeds (after retries), then active is incremented.
NewProducer(p) ==
  /\ producer[p] = "new"
  /\ ProducerAt(p, "loop")
  /\ active' = active + 1
  /\ lateProducer' = (lateProducer \/ told # "none" \/ \E q \in Producers : pausing[q] # "none")
  /\ UNCHANGED <<turns, pausing, paused, told, crossed, consuming, stopping, broadcast>>

\* Mutant of Produce: quit is not looked at.
ProduceOn(p) ==
  /\ producer[p] = "loop" /\ pausing[p] = "none"
  /\ turns[p] < MaxTurns /\ ProducerAt(p, "send") /\ turns' = [turns EXCEPT ![p] = @ + 1]
  /\ UNCHANGED <<listening, consuming, stopping, broadcast>>

\* One turn of the loop: the producer quits, or has a value (a turn without one
\* changes nothing).
Produce(p) ==
  /\ producer[p] = "loop" /\ pausing[p] = "none"
  /\ IF quit THEN ProducerAt(p, "over") /\ UNCHANGED turns
     ELSE turns[p] < MaxTurns /\ ProducerAt(p, "send") /\ turns' = [turns EXCEPT ![p] = @ + 1]
  /\ UNCHANGED <<listening, consuming, stopping, broadcast>>

\* q.channel <- v, received by any consumer in its select.
Deliver(p) ==
  /\ producer[p] = "send" /\ ~closedQ
  /\ \E c \in Consumers : consumer[c] = "loop"
  /\ ProducerAt(p, "loop")
  /\ UNCHANGED <<turns, listening, consuming, stopping, broadcast>>

\* OnProducerPause and OnProducerResume: the counter, then the listeners.
OnProducerPause(p) ==
  /\ producer[p] = "loop" /\ pausing[p] = "none" /\ p \notin paused /\ turns[p] < MaxTurns
  /\ turns' = [turns EXCEPT ![p] = @ + 1]
  /\ active' = active - 1 /\ paused' = paused \cup {p}
  /\ pausing' = [pausing EXCEPT ![p] = IF active - 1 <= 0 THEN "pause" ELSE "none"]
  /\ UNCHANGED <<producer, told, crossed, lateProducer, consuming, stopping, broadcast>>

\* Mutant of OnProducerResume: the listeners are told by the last producer only.
OnProducerResumeLast(p) ==
  /\ producer[p] = "loop" /\ pausing[p] = "none" /\ p \in paused /\ turns[p] < MaxTurns
  /\ turns' = [turns EXCEPT ![p] = @ + 1]
  /\ active' = active + 1 /\ paused' = paused \ {p}
  /\ pausing' = [pausing EXCEPT ![p] = IF active + 1 = Cardinality(Producers) THEN "resume" ELSE "none"]
  /\ UNCHANGED <<producer, told, crossed, lateProducer, consuming, stopping, broadcast>>

OnProducerResume(p) ==
  /\ producer[p] = "loop" /\ pausing[p] = "none" /\ p \in paused /\ turns[p] < MaxTurns
  /\ turns' = [turns EXCEPT ![p] = @ + 1]
  /\ active' = active + 1 /\ paused' = paused \ {p}
  /\ pausing' = [pausing EXCEPT ![p] = IF active + 1 = 1 THEN "resume" ELSE "none"]
  /\ UNCHANGED <<producer, told, crossed, lateProducer, consuming, stopping, broadcast>>

TellListeners(p) ==
  /\ pausing[p] # "none"
  /\ told' = pausing[p]
  /\ pausing' = [pausing EXCEPT ![p] = "none"]
  /\ crossed' = (crossed \/ \E q \in Producers \ {p} : pausing[q] # "none")
  /\ UNCHANGED <<producing, active, paused, lateProducer, consuming, stopping, broadcast>>

-----------------------------------------------------------------------------
NewConsumer(c) ==
  /\ consumer[c] = "new"
  /\ ConsumerAt(c, "loop")
  /\ UNCHANGED <<producing, listening, seenEvents, stopping, broadcast>>

ConsumerEnds(c) ==
  /\ consumer[c] = "loop" /\ closedQ
  /\ ConsumerAt(c, "over")
  /\ UNCHANGED <<producing, listening, seenEvents, stopping, broadcast>>

\* Mutant of BroadcastLock: two broadcasts run side by side.
BroadcastFree(e) ==
  /\ broadcast[e] = 0
  /\ broadcast' = [broadcast EXCEPT ![e] = 1]
  /\ UNCHANGED <<producing, listening, consuming, stopping>>

\* Broadcast: a goroutine that takes eventLock and sends to one consumer after the
\* other.  It waits for ever on a consumer that is over, and keeps the lock.
BroadcastLock(e) ==
  /\ broadcast[e] = 0
  /\ \A f \in Events : broadcast[f] \notin Consumers
  /\ broadcast' = [broadcast EXCEPT ![e] = 1]
  /\ UNCHANGED <<producing, listening, consuming, stopping>>

SendEvent(e) ==
  /\ broadcast[e] \in Consumers /\ consumer[broadcast[e]] = "loop"
  /\ seenEvents' = [seenEvents EXCEPT ![broadcast[e]] = Append(@, e)]
  /\ broadcast' = [broadcast EXCEPT ![e] = @ + 1]
  /\ UNCHANGED <<producing, listening, consumer, stopping>>

-----------------------------------------------------------------------------
Stop ==
  /\ ~quit /\ quit' = TRUE
  /\ UNCHANGED <<producing, listening, consuming, closedQ, started, broadcast>>

\* Mutant of CloseChannel: Start does not wait for the producers.
CloseEarly ==
  /\ quit /\ ~closedQ /\ closedQ' = TRUE
  /\ UNCHANGED <<producing, listening, consuming, quit, started, broadcast>>

\* Start: after the producers the channel is closed, after the consumers it returns.
CloseChannel ==
  /\ ~closedQ /\ \A p \in Producers : producer[p] = "over"
  /\ closedQ' = TRUE
  /\ UNCHANGED <<producing, listening, consuming, quit, started, broadcast>>

StartReturns ==
  /\ closedQ /\ ~started /\ \A c \in Consumers : consumer[c] = "over"
  /\ started' = TRUE
  /\ UNCHANGED <<producing, listening, consuming, quit, closedQ, broadcast>>

ProducerStep(p) == NewProducer(p) \/ Produce(p) \/ TellListeners(p)
ConsumerStep(c) == NewConsumer(c) \/ ConsumerEnds(c)
Starting == CloseChannel \/ StartReturns

QueueNext ==
  \/ \E p \in Producers : \/ ProducerStep(p) \/ Deliver(p)
                          \/ OnProducerPause(p) \/ OnProducerResume(p)
  \/ \E c \in Consumers : ConsumerStep(c)
  \/ \E e \in Events : BroadcastLock(e) \/ SendEvent(e)
  \/ Stop \/ Starting

QueueSpec == QueueInit /\ [][QueueNext]_queueVars

\* Factories succeed in the end, Produce and Consume return, goroutines run.
QueueFairness ==
  /\ \A p \in Producers : WF_queueVars(ProducerStep(p)) /\ WF_queueVars(Deliver(p))
  /\ \A c \in Consumers : WF_queueVars(ConsumerStep(c))
  /\ \A e \in Events : WF_queueVars(SendEvent(e))
  /\ WF_queueVars(Starting)

-----------------------------------------------------------------------------
\* The channel is closed after the last send: a producer never sends on a closed
\* channel, which would panic outside of its recover.
NoSendOnClosed == closedQ => \A p \in Producers : producer[p] # "send"

\* The listeners were told last what is true: paused when there are producers and
\* none is active, resumed otherwise.  Two cases are left out, and the code misses them: calls of
\* two producers that cross (the counter and the listeners are not one step), and
\* a producer that starts after the first pause (it is counted and nobody is told).
ToldWhatIsTrue ==
  (\A p \in Producers : pausing[p] = "none" /\ producer[p] # "new") /\ ~crossed /\ ~lateProducer =>
    (told = "pause" <=> Producers # {} /\ paused = Producers)

\* All consumers see the broadcast events in one order: what two of them have seen
\* as their i-th event is the same.
SameEventOrder ==
  \A c, d \in Consumers : \A i \in 1..Len(seenEvents[c]) :
    i <= Len(seenEvents[d]) => seenEvents[c][i] = seenEvents[d][i]

\* After Stop, Start returns: nobody is left waiting on the channel.
StopEnds == quit ~> started
=============================================================================
