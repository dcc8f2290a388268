------------------------------- MODULE Stream -------------------------------
(***************************************************************************)
(* core/fx/stream.go: a pipeline From(...).Walk(...).Head(n) that ends in  *)
(* First or in Done.                                                       *)
(*                                                                         *)
(* Every stage is a goroutine with a channel behind it: the generator, the *)
(* loop of walkLimited or walkUnlimited with its workers, the goroutine of *)
(* Head, and the caller.  A send on a channel without a buffer happens     *)
(* together with its receive.  Map, Filter and Parallel are Walk with a    *)
(* function that sends its item, may leave it out, or never sends one.     *)
(***************************************************************************)
EXTENDS Integers, Sequences, FiniteSets

CONSTANTS StreamItems, Workers,
          Heads         \* arguments of Head

\* Head panics when n < 1.
ASSUME HeadsAssumption == Heads \subseteq Nat \ {0}

VARIABLES limited,      \* walkLimited, not UnlimitedWorkers()
          ending,       \* "first" or "done"
          unsent,       \* items the generator has still to send
          walk,         \* the loop of Walk: <<"recv">>, <<"slot", item>>, <<"wait">>, <<"over">>
          work,         \* the worker of an item: none, fn, send, leave, over
          waiting,      \* wg: workers not counted out
          pooled,       \* places taken in pool
          pipe,         \* the channel behind Walk
          pipeClosed,
          headStage,    \* Head: recv, <<"send", item>>, drain, over
          headLeft,     \* its n
          headClosed,   \* its channel is closed
          headN,
          sink,         \* the caller: recv, drain, over
          got,          \* the items it received
          walked        \* history: how many items Walk has put in the pipe

streamVars == <<limited, ending, unsent, walk, work, waiting, pooled, pipe, pipeClosed, headStage,
                headLeft, headClosed, headN, sink, got, walked>>

StreamInit ==
  /\ limited \in BOOLEAN /\ ending \in {"first", "done"}
  /\ unsent = StreamItems
  /\ walk = <<"recv">> /\ work = [i \in StreamItems |-> "none"]
  /\ waiting = 0 /\ pooled = 0
  /\ pipe = <<>> /\ pipeClosed = FALSE /\ walked = 0
  /\ headN \in Heads /\ headLeft = headN /\ headStage = <<"recv">> /\ headClosed = FALSE
  /\ sink = "recv" /\ got = {}

AfterWalk == <<headStage, headLeft, headClosed, headN, sink, got>>
Options == <<limited, ending>>

WorkAt(i, s) == work' = [work EXCEPT ![i] = s]

\* The generator sends an item and the loop of Walk receives it.
Generate(i) ==
  /\ i \in unsent /\ walk = <<"recv">>
  /\ unsent' = unsent \ {i}
  /\ walk' = <<"slot", i>>
  /\ UNCHANGED <<Options, work, waiting, pooled, pipe, pipeClosed, walked, AfterWalk>>

\* Mutant of StartWorker: the wait group is not counted up.
StartUncounted ==
  /\ walk[1] = "slot"
  /\ limited => pooled < Workers
  /\ pooled' = IF limited THEN pooled + 1 ELSE pooled
  /\ WorkAt(walk[2], "fn")
  /\ walk' = <<"recv">>
  /\ UNCHANGED <<Options, unsent, waiting, pipe, pipeClosed, walked, AfterWalk>>

StartWorker ==
  /\ walk[1] = "slot"
  /\ limited => pooled < Workers
  /\ pooled' = IF limited THEN pooled + 1 ELSE pooled
  /\ waiting' = waiting + 1
  /\ WorkAt(walk[2], "fn")
  /\ walk' = <<"recv">>
  /\ UNCHANGED <<Options, unsent, pipe, pipeClosed, walked, AfterWalk>>

\* The function wants to send its item, or returns or panics without that.
WalkFn(i) ==
  /\ work[i] = "fn"
  /\ WorkAt(i, "send") \/ WorkAt(i, "leave")
  /\ UNCHANGED <<Options, unsent, walk, waiting, pooled, pipe, pipeClosed, walked, AfterWalk>>

WorkerSends(i) ==
  /\ work[i] = "send" /\ Len(pipe) < Workers
  /\ pipe' = Append(pipe, i) /\ walked' = walked + 1
  /\ WorkAt(i, "leave")
  /\ UNCHANGED <<Options, unsent, walk, waiting, pooled, pipeClosed, AfterWalk>>

\* The deferred function: wg.Done, then the place in the pool.
WorkerDone(i) ==
  /\ work[i] = "leave"
  /\ WorkAt(i, IF limited THEN "place" ELSE "over")
  /\ waiting' = waiting - 1
  /\ UNCHANGED <<Options, unsent, walk, pooled, pipe, pipeClosed, walked, AfterWalk>>

WorkerLeaves(i) ==
  /\ work[i] = "place" /\ WorkAt(i, "over")
  /\ pooled' = pooled - 1
  /\ UNCHANGED <<Options, unsent, walk, waiting, pipe, pipeClosed, walked, AfterWalk>>

\* The source is closed: wg.Wait.
WalkEnds ==
  /\ walk = <<"recv">> /\ unsent = {}
  /\ walk' = <<"wait">>
  /\ UNCHANGED <<Options, unsent, work, waiting, pooled, pipe, pipeClosed, walked, AfterWalk>>

ClosePipe ==
  /\ walk = <<"wait">> /\ waiting = 0
  /\ walk' = <<"over">> /\ pipeClosed' = TRUE
  /\ UNCHANGED <<Options, unsent, work, waiting, pooled, pipe, walked, AfterWalk>>

Upstream == <<Options, unsent, walk, work, waiting, pooled, pipeClosed, walked, headN>>

\* Head receives an item: it passes the first n on and drains the rest.
HeadReceives ==
  /\ headStage \in {<<"recv">>, <<"drain">>} /\ pipe # <<>>
  /\ pipe' = Tail(pipe)
  /\ headStage' = IF headStage = <<"recv">> THEN <<"send", Head(pipe)>> ELSE headStage
  /\ UNCHANGED <<Upstream, headLeft, headClosed, sink, got>>

\* Mutant of HeadSends: after the last item the goroutine just returns.
HeadSendsAndEnds ==
  /\ headStage[1] = "send" /\ sink \in {"recv", "drain"}
  /\ headLeft' = headLeft - 1
  /\ headClosed' = (headLeft = 1)
  /\ headStage' = IF headLeft = 1 THEN <<"over">> ELSE <<"recv">>
  /\ got' = IF sink = "recv" THEN got \cup {headStage[2]} ELSE got
  /\ sink' = IF ending = "first" THEN "drain" ELSE sink
  /\ UNCHANGED <<Upstream, pipe>>

\* source <- item, which the caller receives; First goes on draining in a
\* goroutine of its own.
HeadSends ==
  /\ headStage[1] = "send" /\ sink \in {"recv", "drain"}
  /\ headLeft' = headLeft - 1
  /\ headClosed' = (headLeft = 1)
  /\ headStage' = IF headLeft = 1 THEN <<"drain">> ELSE <<"recv">>
  /\ got' = IF sink = "recv" THEN got \cup {headStage[2]} ELSE got
  /\ sink' = IF ending = "first" THEN "drain" ELSE sink
  /\ UNCHANGED <<Upstream, pipe>>

HeadEnds ==
  /\ headStage \in {<<"recv">>, <<"drain">>} /\ pipe = <<>> /\ pipeClosed
  /\ headStage' = <<"over">> /\ headClosed' = TRUE
  /\ UNCHANGED <<Upstream, pipe, headLeft, sink, got>>

SinkEnds ==
  /\ sink # "over" /\ headClosed /\ headStage[1] # "send"
  /\ sink' = "over"
  /\ UNCHANGED <<Upstream, pipe, headStage, headLeft, headClosed, got>>

WorkerGoes(i) == WalkFn(i) \/ WorkerSends(i) \/ WorkerDone(i) \/ WorkerLeaves(i)
Stages ==
  \/ StartWorker \/ WalkEnds \/ ClosePipe \/ HeadReceives \/ HeadSends \/ HeadEnds \/ SinkEnds
  \/ \E i \in StreamItems : Generate(i)

StreamNext == Stages \/ \E i \in StreamItems : WorkerGoes(i)

StreamSpec == StreamInit /\ [][StreamNext]_streamVars

-----------------------------------------------------------------------------
\* The pipe is closed only when no worker can still send on it.
PipeOpenForWorkers == pipeClosed => \A i \in StreamItems : work[i] \notin {"fn", "send"}

\* When the stream has ended, Done has seen the first n of the items Walk put in
\* the pipe, or all of them when there were fewer; First has seen one of them.
HeadExact ==
  sink = "over" /\ headStage = <<"over">> =>
    LET passed == IF walked < headN THEN walked ELSE headN
    IN Cardinality(got) = IF ending = "first" /\ passed > 0 THEN 1 ELSE passed

\* No goroutine of the pipeline is left behind: when no stage can go on, all have
\* ended, also when the caller wanted one item and the rest was drained.
StreamEnds ==
  ~ENABLED StreamNext =>
    /\ unsent = {} /\ walk = <<"over">> /\ headStage = <<"over">> /\ sink = "over"
    /\ \A i \in StreamItems : work[i] = "over"

-----------------------------------------------------------------------------
(***************************************************************************)
(* core/fx/timeout.go DoWithTimeout, core/fx/retry.go retry, and           *)
(* UnaryTimeoutInterceptor of zrpc: a function runs in a goroutine while   *)
(* its caller waits for the result or for the end of a context.            *)
(*                                                                         *)
(* The three differ in `form' only: retry starts up to RetryTimes          *)
(* goroutines one after the other on one channel, the other two start one  *)
(* and have a channel for its panic.  The channels hold one element.  (A   *)
(* panic of the function under retry ends the process.)  The interceptor   *)
(* closes a channel instead of sending the result on it.                   *)
(***************************************************************************)

CONSTANT RetryTimes

VARIABLES form,         \* "once" or "retry"
          fn,           \* the goroutines, by number: none, run, send, panic, over
          attempt,      \* the number of the last one started
          done,         \* errChan or done
          panicChan,
          ctxDone,
          timed,        \* the caller: start, wait, pause, returned
          outcome       \* the attempt whose result it returns, or one of these

timedVars == <<form, fn, attempt, done, panicChan, ctxDone, timed, outcome>>

NoOutcome == 0
ByPanic == -1
ByContext == -2
ByErrors == -3      \* retry: every attempt has failed

TimedInit ==
  /\ form \in {"once", "retry"}
  /\ fn = [i \in 1..RetryTimes |-> "none"]
  /\ attempt = 0 /\ done = <<>> /\ panicChan = <<>> /\ ctxDone = FALSE
  /\ timed = "start" /\ outcome = NoOutcome

FnAt(i, s) == fn' = [fn EXCEPT ![i] = s]

Attempts == IF form = "once" THEN 1 ELSE RetryTimes

StartFn ==
  /\ timed = "start" /\ attempt < Attempts
  /\ attempt' = attempt + 1 /\ FnAt(attempt + 1, "run")
  /\ timed' = "wait"
  /\ UNCHANGED <<form, done, panicChan, ctxDone, outcome>>

FnDone(i) ==
  /\ fn[i] = "run"
  /\ \/ FnAt(i, "ok") \/ FnAt(i, "fail")
     \/ form = "once" /\ FnAt(i, "panic")
  /\ UNCHANGED <<form, attempt, done, panicChan, ctxDone, timed, outcome>>

\* Mutant of FnSends: the channel has no buffer.
FnSendsDirect(i) ==
  /\ fn[i] \in {"ok", "fail"} /\ done = <<>> /\ timed = "wait"
  /\ done' = <<<<i, fn[i]>>>>
  /\ FnAt(i, "over")
  /\ UNCHANGED <<form, attempt, panicChan, ctxDone, timed, outcome>>

FnSends(i) ==
  /\ fn[i] \in {"ok", "fail"} /\ done = <<>>
  /\ done' = <<<<i, fn[i]>>>>
  /\ FnAt(i, "over")
  /\ UNCHANGED <<form, attempt, panicChan, ctxDone, timed, outcome>>

FnPanics(i) ==
  /\ fn[i] = "panic" /\ panicChan = <<>>
  /\ panicChan' = <<i>>
  /\ FnAt(i, "over")
  /\ UNCHANGED <<form, attempt, done, ctxDone, timed, outcome>>

CallReturns(result) == timed' = "returned" /\ outcome' = result

\* The caller's select.  Under retry an error leads to the next attempt, after
\* the interval if there is one.  (An ignored error counts as success.)
Receive ==
  /\ timed = "wait" /\ done # <<>>
  /\ done' = <<>>
  /\ IF done[1][2] = "ok" \/ form = "once" THEN CallReturns(done[1][1])
     ELSE timed' \in {"start", "pause"} /\ UNCHANGED outcome
  /\ UNCHANGED <<form, fn, attempt, panicChan, ctxDone>>

ReceivePanic ==
  /\ timed = "wait" /\ panicChan # <<>>
  /\ CallReturns(ByPanic) /\ panicChan' = <<>>
  /\ UNCHANGED <<form, fn, attempt, done, ctxDone>>

ContextEnds ==
  /\ ~ctxDone /\ ctxDone' = TRUE
  /\ UNCHANGED <<form, fn, attempt, done, panicChan, timed, outcome>>

CallTimesOut ==
  /\ timed \in {"wait", "pause"} /\ ctxDone
  /\ CallReturns(ByContext)
  /\ UNCHANGED <<form, fn, attempt, done, panicChan, ctxDone>>

IntervalOver ==
  /\ timed = "pause" /\ timed' = "start"
  /\ UNCHANGED <<form, fn, attempt, done, panicChan, ctxDone, outcome>>

RetryGivesUp ==
  /\ timed = "start" /\ attempt = Attempts
  /\ CallReturns(ByErrors)
  /\ UNCHANGED <<form, fn, attempt, done, panicChan, ctxDone>>

CallerSteps ==
  StartFn \/ Receive \/ ReceivePanic \/ CallTimesOut \/ IntervalOver \/ RetryGivesUp
FnSteps(i) == FnSends(i) \/ FnPanics(i)

TimedNext == CallerSteps \/ ContextEnds \/ \E i \in 1..RetryTimes : FnDone(i) \/ FnSteps(i)

TimedSpec == TimedInit /\ [][TimedNext]_timedVars

\* What happens by itself: the context has a deadline and goroutines are
\* scheduled; the function need not return.
TimedGoes == CallerSteps \/ ContextEnds \/ \E i \in 1..RetryTimes : FnSteps(i)

\* "create channel with buffer size 1 to avoid goroutine leak": a goroutine whose
\* function has returned ends, also when its caller has given up on it.
NoLeak == ~ENABLED TimedGoes => \A i \in 1..RetryTimes : fn[i] \notin {"ok", "fail", "panic"}

\* The caller comes back even when the function never does (under retry, when it
\* was given a timeout or a context that ends).
TimedReturns == ~ENABLED TimedGoes => timed = "returned"
=============================================================================
