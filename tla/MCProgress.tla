----------------------------- MODULE MCProgress -----------------------------
(***************************************************************************)
(* What must happen in the end in the components whose steps can go round  *)
(* in circles, one component at a time as in MCWorkers.                    *)
(***************************************************************************)
EXTENDS Places, Queue, TokenLimiter, Publisher, CachedConn

VARIABLE subject

vars == <<subject, clock, poolVars, limitVars, queueVars, tokenState, pubVars, connVars>>

\* <<rate, burst>>: the bucket fills in a second, and less than half the rate.
RateAndBurst == {<<1, 1>>, <<3, 1>>}

Init ==
  /\ subject \in {"pool", "limit", "queue", "token", "publisher", "conn"}
  /\ PoolInit /\ LimitInit /\ QueueInit
  /\ TokenInit /\ (subject # "token" => rate = 1)
  /\ PubInit /\ (subject # "publisher" => withId)
  /\ ConnInit /\ (subject # "conn" => ~db.present /\ cache = Nothing)

OthersRest ==
  /\ UNCHANGED subject
  /\ subject # "pool" => UNCHANGED poolVars
  /\ subject # "limit" => UNCHANGED limitVars
  /\ subject # "queue" => UNCHANGED queueVars
  /\ subject # "token" => UNCHANGED <<clock, tokenState>>
  /\ subject # "publisher" => UNCHANGED pubVars
  /\ subject # "conn" => UNCHANGED connVars

Next ==
  /\ \/ subject = "pool" /\ PoolNext
     \/ subject = "limit" /\ LimitNext
     \/ subject = "queue" /\ QueueNext
     \/ subject = "token" /\ TokenNext
     \/ subject = "publisher" /\ PubNext
     \/ subject = "conn" /\ ConnNext
  /\ OthersRest

\* The fairness of each component, of which only the subject's asks for steps.
Fairness ==
  /\ \A u \in PoolUsers : WF_poolVars(subject = "pool" /\ (PoolGet(u) \/ PoolPut(u)))
  /\ \A b \in Borrowers : WF_limitVars(subject = "limit" /\ Borrowing(b))
  /\ \A p \in Producers : WF_queueVars(subject = "queue" /\ (ProducerStep(p) \/ Deliver(p)))
  /\ \A c \in Consumers : WF_queueVars(subject = "queue" /\ ConsumerStep(c))
  /\ \A e \in Events : WF_queueVars(subject = "queue" /\ SendEvent(e))
  /\ WF_queueVars(subject = "queue" /\ Starting)
  /\ \A c \in Callers : WF_tokenVars(subject = "token" /\ Calling(c))
  /\ WF_tokenVars(subject = "token" /\ (Ping \/ MonitorEnds))
  /\ WF_pubVars(subject = "publisher" /\ PubSteps)
  /\ \A l \in LeaseIds : WF_pubVars(subject = "publisher" /\ LeaseExpires(l))
  /\ \A p \in Readers : WF_connVars(subject = "conn" /\ Reading(p))
  /\ \A v \in Versions : WF_connVars(subject = "conn" /\ (CleanDeletes(v) \/ CleanFails(v)))

Spec == Init /\ [][Next]_vars /\ Fairness

\* Who waits for a place gets it, or is told that there is none: Get of the pool
\* and Borrow, however often they are woken for a place that others take.
Served == PoolWoken /\ BorrowReturns

\* What is stopped ends: Start of a queue returns after Stop, and a publisher
\* that is stopped takes its key out of etcd.
StoppedEnds == StopEnds /\ StopWithdraws

\* What was lost comes back: the limiter returns to Redis, and a publisher puts
\* its key into etcd again.
ComesBack == Recovers /\ Republished
=============================================================================
