---------------------------- MODULE SingleFlight ----------------------------
(***************************************************************************)
(* core/syncx/singleflight.go: concurrent calls of Do with one key share   *)
(* one execution of fn.                                                    *)
(*                                                                         *)
(* A call object is named by the goroutine that created it.  Its result    *)
(* does not change after wg.Done, so Done hands it to the waiting          *)
(* goroutines at once, whenever they are scheduled.  The module is used by *)
(* the caches, which say what fn does.                                     *)
(***************************************************************************)
EXTENDS Integers, FiniteSets, Functions, TLC

CONSTANTS Procs,    \* goroutines
          Keys,
          Results,  \* what fn may return (a value or an error)
          Panicked  \* the zero result a call keeps when fn panics

ASSUME PanickedAssumption == Panicked \notin Results

VARIABLES calls,    \* g.calls: key to the goroutine that leads the call
          phase,    \* where a goroutine is in Do
          leader,   \* whose call a goroutine is in
          result    \* c.val and c.err, as each goroutine sees them

flight == <<calls, phase, leader, result>>

FlightInit ==
  /\ calls = [k \in {} |-> k]
  /\ phase = [p \in Procs |-> "out"]
  /\ leader = [p \in Procs |-> p]
  /\ result = [p \in Procs |-> Panicked]

\* g.calls[key] = c
WithCall(k, p) == [x \in DOMAIN calls \cup {k} |-> IF x = k THEN p ELSE calls[x]]

\* Mutant of CreateCall: g.calls is looked up outside the section that fills it.
CreateBlind(p, k) ==
  /\ phase[p] = "out"
  /\ calls' = WithCall(k, p)
  /\ phase' = [phase EXCEPT ![p] = "fn"]
  /\ leader' = [leader EXCEPT ![p] = p]
  /\ result' = [result EXCEPT ![p] = Panicked]

\* createCall: the locked section joins the call of the key or creates it.
CreateCall(p, k) ==
  /\ phase[p] = "out"
  /\ IF k \in DOMAIN calls
     THEN /\ leader' = [leader EXCEPT ![p] = calls[k]]
          /\ phase' = [phase EXCEPT ![p] = "wait"]
          /\ UNCHANGED calls
     ELSE /\ leader' = [leader EXCEPT ![p] = p]
          /\ phase' = [phase EXCEPT ![p] = "fn"]
          /\ calls' = WithCall(k, p)
  /\ result' = [result EXCEPT ![p] = Panicked]

\* c.val, c.err = fn(); a panic leaves the call without a result.
FnReturns(p, r) ==
  /\ phase[p] = "fn"
  /\ result' = [result EXCEPT ![p] = r]
  /\ phase' = [phase EXCEPT ![p] = "delete"]
  /\ UNCHANGED <<calls, leader>>

\* Mutant of DeleteCall: the deferred function does not delete the key.
DeleteNothing(p) ==
  /\ phase[p] = "delete"
  /\ phase' = [phase EXCEPT ![p] = "done"]
  /\ UNCHANGED <<calls, leader, result>>

DeleteCall(p) ==
  /\ phase[p] = "delete"
  /\ calls' = Restrict(calls, {k \in DOMAIN calls : calls[k] # p})
  /\ phase' = [phase EXCEPT ![p] = "done"]
  /\ UNCHANGED <<leader, result>>

Waiters(p) == {q \in Procs : phase[q] = "wait" /\ leader[q] = p}

\* c.wg.Done(): the leader and everyone who waits for it leave Do.
Done(p) ==
  /\ phase[p] = "done"
  /\ phase' = [q \in Procs |-> IF q \in Waiters(p) \cup {p} THEN "return" ELSE phase[q]]
  /\ result' = [q \in Procs |-> IF q \in Waiters(p) THEN result[p] ELSE result[q]]
  /\ UNCHANGED <<calls, leader>>

\* Do returns c.val and c.err to its caller, and the goroutine is in no call.
DoReturns(p) ==
  /\ phase[p] = "return"
  /\ phase' = [phase EXCEPT ![p] = "out"]
  /\ leader' = [leader EXCEPT ![p] = p]
  /\ result' = [result EXCEPT ![p] = Panicked]
  /\ UNCHANGED calls

-----------------------------------------------------------------------------
Leading(p) == phase[p] \in {"fn", "delete", "done"}

\* Nobody joins a call that is over: a waiting goroutine has a leader that has
\* still to call wg.Done (the key is deleted before it).
WaitersLed == \A p \in Procs : phase[p] = "wait" => Leading(leader[p]) /\ leader[p] # p
=============================================================================
