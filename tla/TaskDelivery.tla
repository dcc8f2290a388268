---------------------------- MODULE TaskDelivery ----------------------------
(***************************************************************************)
(* What an executor of core/executors promises its callers: an added task  *)
(* is handed to Execute once, in some batch, and is so in the end.        *)
(***************************************************************************)
EXTENDS Integers

CONSTANT Tasks

VARIABLES added,      \* tasks accepted by Add
          executed,   \* tasks handled by Execute
          runs        \* how often Execute has been handed a task

vars == <<added, executed, runs>>

Init == added = {} /\ executed = {} /\ runs = [t \in Tasks |-> 0]

Add ==
  \E t \in Tasks \ added : added' = added \cup {t} /\ UNCHANGED <<executed, runs>>

Execute ==
  \E batch \in SUBSET (added \ executed) :
    /\ batch # {}
    /\ executed' = executed \cup batch
    /\ runs' = [t \in Tasks |-> IF t \in batch THEN runs[t] + 1 ELSE runs[t]]
    /\ UNCHANGED added

Next == Add \/ Execute

Spec == Init /\ [][Next]_vars

\* Every accepted task is executed in the end.
Delivered == \A t \in Tasks : t \in added ~> t \in executed
=============================================================================
