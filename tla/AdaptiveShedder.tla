--------------------------- MODULE AdaptiveShedder ---------------------------
(***************************************************************************)
(* core/load/adaptiveshedder.go: which requests are dropped when the CPU   *)
(* is overloaded, and for how long after.                                  *)
(*                                                                         *)
(* Callers of Allow run without a common lock.  The averages and the       *)
(* limits computed from the two rolling windows are data: highThru() may   *)
(* hold whenever both the requests in flight and their average are not     *)
(* zero (the limit is never zero), and never otherwise.                    *)
(***************************************************************************)
EXTENDS Clock, FiniteSets

CONSTANTS Clients,
          CoolOff,        \* coolOffDuration
          ShedTime        \* bound on the clock

VARIABLES overloaded,     \* the CPU is over the threshold
          overloadTime, droppedRecently,
          flying,
          avgPositive,    \* avgFlying > 0
          client,         \* stage of a caller
          judged,         \* the time it has read
          overloads       \* history: when Allow has seen the CPU overloaded

shedState == <<overloaded, overloadTime, droppedRecently, flying, avgPositive, client, judged, overloads>>
shedVars == <<shedState, clock>>

ShedInit ==
  /\ ClockInit
  /\ overloaded = FALSE /\ overloadTime = 0 /\ droppedRecently = FALSE
  /\ flying = 0 /\ avgPositive = FALSE
  /\ client = [c \in Clients |-> "out"] /\ judged = [c \in Clients |-> 0]
  /\ overloads = {}

At(c, s) == client' = [client EXCEPT ![c] = s]
JudgedNow(c) == judged' = [judged EXCEPT ![c] = clock]

CpuChanges ==
  /\ overloaded' = ~overloaded
  /\ UNCHANGED <<overloadTime, droppedRecently, flying, avgPositive, client, judged, overloads, clock>>

\* Allow: systemOverloaded, whose time is stored in the next step.
SystemOverloaded(c) ==
  /\ client[c] = "out"
  /\ At(c, IF overloaded THEN "stamp" ELSE "hot")
  /\ JudgedNow(c)
  /\ overloads' = IF overloaded THEN overloads \cup {clock} ELSE overloads
  /\ UNCHANGED <<overloaded, overloadTime, droppedRecently, flying, avgPositive, clock>>

Stamp(c) ==
  /\ client[c] = "stamp" /\ At(c, "thru")
  /\ overloadTime' = judged[c]
  /\ UNCHANGED <<overloaded, droppedRecently, flying, avgPositive, judged, overloads, clock>>

\* stillHot loads droppedRecently.
StillHot(c) ==
  /\ client[c] = "hot"
  /\ At(c, IF droppedRecently THEN "since" ELSE "accept")
  /\ UNCHANGED <<overloaded, overloadTime, droppedRecently, flying, avgPositive, judged, overloads, clock>>

\* Mutant of Since: whoever dropped stays hot.
SinceAlways(c) ==
  /\ client[c] = "since"
  /\ At(c, IF overloadTime = 0 THEN "accept" ELSE "thru")
  /\ JudgedNow(c)
  /\ UNCHANGED <<overloaded, overloadTime, droppedRecently, flying, avgPositive, overloads, clock>>

Since(c) ==
  /\ client[c] = "since"
  /\ At(c, CASE overloadTime = 0 -> "accept"
             [] overloadTime # 0 /\ clock - overloadTime < CoolOff -> "thru"
             [] OTHER -> "cool")
  /\ JudgedNow(c)
  /\ UNCHANGED <<overloaded, overloadTime, droppedRecently, flying, avgPositive, overloads, clock>>

Cool(c) ==
  /\ client[c] = "cool" /\ At(c, "accept")
  /\ droppedRecently' = FALSE
  /\ UNCHANGED <<overloaded, overloadTime, flying, avgPositive, judged, overloads, clock>>

HighThru(c) ==
  /\ client[c] = "thru"
  /\ \/ flying > 0 /\ avgPositive /\ At(c, "drop")
     \/ At(c, "accept")
  /\ UNCHANGED <<overloaded, overloadTime, droppedRecently, flying, avgPositive, judged, overloads, clock>>

\* What is logged of a dropped request calls stillHot again, for its answer only.
LogHot(c) ==
  /\ client[c] = "drop" /\ At(c, "refuse")
  /\ droppedRecently' = (droppedRecently /\ ~(overloadTime # 0 /\ clock - overloadTime >= CoolOff))
  /\ UNCHANGED <<overloaded, overloadTime, flying, avgPositive, judged, overloads, clock>>

Drop(c) ==
  /\ client[c] = "refuse" /\ At(c, "out")
  /\ droppedRecently' = TRUE
  /\ UNCHANGED <<overloaded, overloadTime, flying, avgPositive, judged, overloads, clock>>

ShedAccept(c) ==
  /\ client[c] = "accept" /\ At(c, "flying")
  /\ flying' = flying + 1
  /\ UNCHANGED <<overloaded, overloadTime, droppedRecently, avgPositive, judged, overloads, clock>>

\* Pass or Fail of the promise: the average is moved when a request ends.
Finish(c) ==
  /\ client[c] = "flying" /\ At(c, "out")
  /\ flying' = flying - 1
  /\ avgPositive' = (avgPositive \/ flying > 1)
  /\ UNCHANGED <<overloaded, overloadTime, droppedRecently, judged, overloads, clock>>

ShedNext ==
  \/ CpuChanges
  \/ \E c \in Clients : \/ SystemOverloaded(c) \/ Stamp(c) \/ StillHot(c) \/ Since(c) \/ Cool(c)
                        \/ HighThru(c) \/ LogHot(c) \/ Drop(c) \/ ShedAccept(c) \/ Finish(c)
  \/ Tick(ShedTime) /\ UNCHANGED shedState

ShedSpec == ShedInit /\ [][ShedNext]_shedVars

-----------------------------------------------------------------------------
\* flying counts the requests under way, whatever way they end.
FlyingCounted == flying = Cardinality({c \in Clients : client[c] = "flying"})

\* A request is dropped only if it, or a request less than the cool-off time
\* before it, saw the CPU overloaded.
DropsExplained ==
  \A c \in Clients : client[c] = "drop" => \E t \in overloads : t <= judged[c] /\ judged[c] - t < CoolOff
=============================================================================
