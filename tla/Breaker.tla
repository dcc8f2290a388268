------------------------------- MODULE Breaker -------------------------------
(***************************************************************************)
(* core/breaker over core/collection/rollingwindow.go.                     *)
(***************************************************************************)
EXTENDS Clock, Sequences, FiniteSets

(***************************************************************************)
(* core/collection/rollingwindow.go: values of the last Size intervals in  *)
(* a ring of buckets.                                                      *)
(*                                                                         *)
(* A bucket is the set of the values in it; a value is a record with the   *)
(* interval of the clock at which it was added.  Add reads the clock       *)
(* twice, in span and in updateOffset, and holds rw.lock over both.        *)
(***************************************************************************)
CONSTANTS Size, Interval,
          WindowTime,  \* bound of the clock
          Free         \* rw.lock is free

VARIABLES buckets, offset, lastTime, ignoreCurrent,
          adding,      \* who is in Add, with the value and the span it has read; or Free
          slips        \* history: intervals that passed between the two reads

windowVars == <<buckets, offset, lastTime, ignoreCurrent, adding, slips>>

WindowInit ==
  /\ buckets = [b \in 0..(Size - 1) |-> {}]
  /\ offset = 0 /\ lastTime = clock
  /\ ignoreCurrent \in BOOLEAN
  /\ adding = Free /\ slips = 0

\* span(): the clock does not go back, so the offset is never negative.
Span == LET passed == (clock - lastTime) \div Interval IN IF passed < Size THEN passed ELSE Size

Cell == (clock - 1) \div Interval

\* Add takes the lock and updateOffset reads the span.
AddBegins(value) ==
  /\ adding = Free
  /\ adding' = [value |-> value, span |-> Span, cell |-> Cell]
  /\ UNCHANGED <<buckets, offset, lastTime, ignoreCurrent, slips>>

\* Mutant of Expired: one bucket too few is reset.
ExpiredShort(span) == {(offset + i + 1) % Size : i \in 0..(span - 2)}

\* The buckets that updateOffset resets.
Expired(span) == {(offset + i + 1) % Size : i \in 0..(span - 1)}

\* updateOffset resets and moves on, lastTime is aligned, the value is added.
AddEnds ==
  LET span == adding.span
      new == (offset + span) % Size
      kept == [b \in DOMAIN buckets |-> IF b \in Expired(span) THEN {} ELSE buckets[b]]
  IN /\ adding # Free
     /\ offset' = new
     /\ buckets' = [kept EXCEPT ![new] = @ \cup {[value |-> adding.value, cell |-> adding.cell]}]
     /\ lastTime' = IF span = 0 THEN lastTime ELSE clock - ((clock - lastTime) % Interval)
     /\ slips' = IF span = 0 THEN slips ELSE slips + (Cell - adding.cell)
     /\ adding' = Free
     /\ UNCHANGED ignoreCurrent

\* The buckets that Reduce hands to fn, oldest first.
Reduced ==
  LET diff == IF Span = 0 /\ ignoreCurrent THEN Size - 1 ELSE Size - Span
  IN [i \in 1..diff |-> buckets[(offset + Span + i) % Size]]

\* A user of the window that adds at any time.
WindowNext ==
  \/ AddBegins("value") /\ UNCHANGED clock
  \/ AddEnds /\ UNCHANGED clock
  \/ Tick(WindowTime) /\ UNCHANGED windowVars

WindowSpec == ClockInit /\ WindowInit /\ [][WindowNext]_<<clock, windowVars>>

-----------------------------------------------------------------------------
Entries(bs) == UNION {bs[i] : i \in DOMAIN bs}
Younger(age) == {e \in Entries(buckets) : Cell - e.cell < age}

\* Reduce sees exactly the values of the last Size intervals (without the current
\* one if that is ignored).  A value stays longer only by the intervals that began
\* between the two readings of the clock in an Add: lastTime then moves on
\* further than offset, and nothing is ever dropped early.
WindowExact ==
  adding = Free =>
    LET seen == Entries(Reduced)
        current == IF ignoreCurrent THEN Younger(1 + slips) ELSE {}
    IN /\ Younger(Size) \ current \subseteq seen
       /\ seen \subseteq Younger(Size + slips)
       /\ slips = 0 => seen \cap current = {}

(***************************************************************************)
(* core/breaker/googlebreaker.go over a RollingWindow: requests are        *)
(* dropped with a probability that grows as they fail.  The probability is *)
(* left open: a request may be dropped when it is not zero.  The weights   *)
(* are kept in tenths.  errWin is the window of the last reasons in        *)
(* breaker.go.                                                             *)
(***************************************************************************)
CONSTANTS Requests,
          Protection, ForcePass,
          ReasonCount,  \* numHistoryReasons
          MaxMarks      \* bound: values added to the window

VARIABLES request,      \* out, accept, decide, run, drop, done and failed
          lastPass,
          marks,
          reasons, reasonIndex, reasonCount,  \* errorWindow
          given,        \* history: the reasons in the order they came
          panicked,     \* history: a request has panicked
          passes        \* history: when a request was last let through, open or not

errorWindow == <<reasons, reasonIndex, reasonCount, given>>
breakerState == <<request, lastPass, marks, errorWindow, panicked, passes>>
breakerVars == <<clock, windowVars, breakerState>>

BreakerInit ==
  /\ ClockInit /\ WindowInit
  /\ ~ignoreCurrent
  /\ request = [r \in Requests |-> "out"]
  /\ lastPass = 0 /\ marks = 0 /\ panicked = FALSE /\ passes = clock
  /\ reasons = [i \in 0..(ReasonCount - 1) |-> 0]
  /\ reasonIndex = 0 /\ reasonCount = 0 /\ given = <<>>

RequestAt(r, s) == request' = [request EXCEPT ![r] = s]

\* history(): accepts, total, and the runs of buckets at the end of the window
\* that only fail or only work.
Has(b, kind) == \E e \in b : e.value.kind = kind
Count(kinds) == Cardinality({e \in Entries(Reduced) : e.value.kind \in kinds})

\* workingBuckets or failingBuckets: buckets with `kind' since the last with `other'.
RunOf(kind, other) ==
  LET stops == {i \in DOMAIN Reduced : Has(Reduced[i], other)}
  IN Cardinality({i \in DOMAIN Reduced : Has(Reduced[i], kind) /\ \A j \in stops : j < i})

\* dropRatio > 0, with w = k - (k - minK) * failing / buckets in tenths of a bucket.
DropPossible ==
  LET w == 15 * Size - 4 * RunOf("fail", "success")
      weight == IF w > 11 * Size THEN w ELSE 11 * Size
  IN 10 * Size * (Count({"success", "fail", "drop"}) - Protection) > weight * Count({"success"})

\* accept: the window is read, and a ratio of zero lets the request through.
Accept(r) ==
  /\ request[r] = "out" /\ adding = Free
  /\ marks + Cardinality({q \in Requests : request[q] # "out"}) < MaxMarks
  /\ IF DropPossible
     THEN /\ RequestAt(r, IF RunOf("success", "fail") = Size THEN "surely" ELSE "decide")
          /\ UNCHANGED passes
     ELSE RequestAt(r, "run") /\ passes' = clock
  /\ UNCHANGED <<clock, windowVars, lastPass, marks, errorWindow, panicked>>

\* Mutant of Decide: no request is forced through.
DecideBlind(r) ==
  /\ request[r] \in {"decide", "surely"}
  /\ \/ /\ RequestAt(r, "run")
        /\ lastPass' = clock /\ passes' = clock
     \/ /\ request[r] = "decide"
        /\ RequestAt(r, "drop")
        /\ UNCHANGED <<lastPass, passes>>
  /\ UNCHANGED <<clock, windowVars, marks, errorWindow, panicked>>

\* One request in forcePassDuration is let through, the others by chance.
Decide(r) ==
  /\ request[r] \in {"decide", "surely"}
  /\ \/ /\ RequestAt(r, "run")
        /\ lastPass' = clock /\ passes' = clock
     \/ /\ request[r] = "decide" /\ ~(lastPass > 0 /\ clock - lastPass > ForcePass)
        /\ RequestAt(r, "drop")
        /\ UNCHANGED <<lastPass, passes>>
  /\ UNCHANGED <<clock, windowVars, marks, errorWindow, panicked>>

\* errWin.add.
AddReason(reason) ==
  /\ reasons' = [reasons EXCEPT ![reasonIndex] = reason]
  /\ reasonIndex' = (reasonIndex + 1) % ReasonCount
  /\ reasonCount' = IF reasonCount < ReasonCount THEN reasonCount + 1 ELSE reasonCount
  /\ given' = Append(given, reason)

\* doReq: the request returns; acceptable() records the reason of a failure.
Succeeds(r) ==
  /\ request[r] = "run"
  /\ RequestAt(r, "success")
  /\ UNCHANGED <<clock, windowVars, lastPass, marks, errorWindow, panicked, passes>>

Fails(r) ==
  /\ request[r] = "run"
  /\ RequestAt(r, "fail") /\ AddReason(marks + 1)
  /\ UNCHANGED <<clock, windowVars, lastPass, marks, panicked, passes>>

\* A panic is a failure without a reason.
Panics(r) ==
  /\ request[r] = "run"
  /\ RequestAt(r, "fail") /\ panicked' = TRUE
  /\ UNCHANGED <<clock, windowVars, lastPass, marks, errorWindow, passes>>

\* markSuccess, markFailure, markDrop.
Mark(r) ==
  /\ request[r] \in {"success", "fail", "drop"}
  /\ AddBegins([kind |-> request[r], id |-> marks + 1])
  /\ RequestAt(r, "out") /\ marks' = marks + 1
  /\ UNCHANGED <<clock, lastPass, errorWindow, panicked, passes>>

Marked == AddEnds /\ UNCHANGED <<clock, request, lastPass, marks, errorWindow, panicked, passes>>

BreakerTick == Tick(WindowTime) /\ UNCHANGED <<windowVars, request, lastPass, marks, errorWindow, panicked, passes>>

BreakerNext ==
  \/ \E r \in Requests : \/ Accept(r) \/ Decide(r) \/ Mark(r)
                         \/ Succeeds(r) \/ Fails(r) \/ Panics(r)
  \/ Marked \/ BreakerTick

BreakerSpec == BreakerInit /\ [][BreakerNext]_breakerVars

-----------------------------------------------------------------------------
\* String() of errorWindow, newest first.
ReasonList == [i \in 1..reasonCount |-> reasons[(reasonIndex - i + ReasonCount) % ReasonCount]]

\* The report shows the last reasons, newest first.
LastReasons ==
  /\ reasonCount = (IF Len(given) < ReasonCount THEN Len(given) ELSE ReasonCount)
  /\ \A i \in 1..reasonCount : ReasonList[i] = given[Len(given) + 1 - i]

\* A breaker opens only on failures that are still in its window: when nothing
\* in the last Size intervals has failed or was dropped, the next request passes.
HealthyPasses ==
  adding = Free /\ (\A e \in Younger(Size + slips) : e.value.kind = "success") => ~DropPossible

\* "if circuit open, not possible to have empty error window", unless requests
\* have panicked.
OpenHasReason == (\E r \in Requests : request[r] \in {"decide", "drop"}) => reasonCount > 0 \/ panicked

\* An open breaker is never shut for long: once it has let a request through, it
\* drops another only within forcePassDuration of the last that passed.
ForcedPass ==
  [][\A r \in Requests : request'[r] = "drop" /\ request[r] = "decide" /\ lastPass > 0 =>
       clock - passes <= ForcePass]_breakerVars
=============================================================================
