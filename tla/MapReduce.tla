----------------------------- MODULE MapReduce -----------------------------
(***************************************************************************)
(* core/mr/mapreduce.go: MapReduce with its goroutines (the generator,     *)
(* Executing, one mapper for each item, the reducer) and the caller;  *)
(* Finish is one whose reducer returns at once.  ForEach has no reducer,   *)
(* and its mappers neither write nor cancel.                               *)
(*                                                                         *)
(* source, output and panicChan have no buffer: a send and its receive are *)
(* one step.  The user's functions do what their types allow: a mapper     *)
(* writes at most once and may cancel or panic, a reducer reads, writes,   *)
(* cancels, panics or returns when it likes, the generator may panic.      *)
(***************************************************************************)
EXTENDS Integers, FiniteSets

CONSTANTS Items,
          Workers,   \* bound of WithWorkers
          MaxWrites  \* bound of the writes of a reducer

ASSUME MapReduceAssumption ==
  /\ IsFiniteSet(Items) /\ {"none", "over", "reducer", "main"} \cap Items = {}
  /\ Workers \in Nat \ {0} /\ MaxWrites \in Nat

VARIABLES each,                \* ForEach was called, not MapReduce
          workers,             \* WithWorkers
          gen, unsent,         \* the generator, and what it has still to send
          disp,                \* Executing
          mapper, mapFailed,      \* the goroutine of each item; one has panicked
          collector, closedC,  \* the items in collector, and whether it is closed
          reducer, reduced,    \* the reducer, and the items it has read
          readAll, writes,     \* it has read to the end; its writes to output
          early,               \* it has written before it had read to the end
          main, result,        \* the caller, and what it returns
          done,                \* done and output are closed
          ctxDone, wrote,      \* ctx has ended; panicChan.wrote
          retErr, canceller    \* cancel, and who runs its once ("over" after it)

source == <<gen, unsent, workers, each>>
mappers == <<mapper, mapFailed>>
collecting == <<collector, closedC>>
reducing == <<reducer, reduced, readAll, writes, early>>
mainVars == <<main, result>>
cancelling == <<done, retErr, canceller>>
mapReduceVars == <<source, disp, mappers, collecting, reducing, mainVars, cancelling, ctxDone, wrote>>

MapReduceInit ==
  /\ each \in BOOLEAN
  /\ workers \in 1..Workers  \* buildOptions and WithWorkers: at least minWorkers
  /\ gen = "send" /\ unsent = Items
  /\ disp = "loop" /\ mapper = [i \in Items |-> "none"] /\ mapFailed = FALSE
  /\ collector = {} /\ closedC = FALSE
  /\ reducer = (IF each THEN "end" ELSE "run") /\ reduced = {} /\ readAll = FALSE /\ writes = 0 /\ early = FALSE
  /\ main = "select" /\ result = "none"
  /\ done = FALSE /\ ctxDone = FALSE /\ wrote = FALSE
  /\ retErr = "none" /\ canceller = "none"

Running == {i \in Items : mapper[i] \in {"map", "write", "cancel", "panic"}}
MapperAt(i, s) == mapper' = [mapper EXCEPT ![i] = s]
Dropped == ctxDone \/ done  \* what guardedWriter.Write tests

-----------------------------------------------------------------------------
\* buildSource: generate returns, or panics; panicChan.write sends only the first
\* panic of all goroutines.
Generated ==
  /\ gen = "send" /\ unsent = {}
  /\ gen' = "end"
  /\ UNCHANGED <<unsent, workers, each, disp, mappers, collecting, reducing, mainVars, cancelling, ctxDone, wrote>>

GeneratePanics ==
  /\ gen = "send"
  /\ gen' = IF wrote THEN "end" ELSE "panic"
  /\ wrote' = TRUE
  /\ UNCHANGED <<unsent, workers, each, disp, mappers, collecting, reducing, mainVars, cancelling, ctxDone>>

\* Mutant of Discard: cancel does not drain source.
DiscardLate ==
  /\ gen = "send" /\ disp = "drain"
  /\ \E i \in unsent : unsent' = unsent \ {i}
  /\ UNCHANGED <<gen, workers, each, disp, mappers, collecting, reducing, mainVars, cancelling, ctxDone, wrote>>

\* drain(source), at the end of Executing and in cancel.
Discard ==
  /\ gen = "send" /\ (disp = "drain" \/ canceller \notin {"none", "over"})
  /\ \E i \in unsent : unsent' = unsent \ {i}
  /\ UNCHANGED <<gen, workers, each, disp, mappers, collecting, reducing, mainVars, cancelling, ctxDone, wrote>>

-----------------------------------------------------------------------------
\* Executing: a place in the pool, then an item for a new goroutine.
Place ==
  /\ disp = "loop" /\ ~mapFailed /\ Cardinality(Running) < workers
  /\ disp' = "receive"
  /\ UNCHANGED <<source, mappers, collecting, reducing, mainVars, cancelling, ctxDone, wrote>>

Item ==
  /\ disp = "receive" /\ gen = "send"
  /\ \E i \in unsent : unsent' = unsent \ {i} /\ MapperAt(i, "map")
  /\ disp' = "loop"
  /\ UNCHANGED <<gen, workers, each, mapFailed, collecting, reducing, mainVars, cancelling, ctxDone, wrote>>

\* The loop ends; the deferred function waits for the mappers.
StopMapping ==
  /\ \/ disp = "loop" /\ (ctxDone \/ done \/ mapFailed)
     \/ disp = "receive" /\ gen = "end"
  /\ disp' = "wait"
  /\ UNCHANGED <<source, mappers, collecting, reducing, mainVars, cancelling, ctxDone, wrote>>

\* Mutant of MappersDone: collector is closed while mappers still run.
MappersLeft ==
  /\ disp = "wait"
  /\ closedC' = TRUE
  /\ disp' = "drain"
  /\ UNCHANGED <<source, mappers, collector, reducing, mainVars, cancelling, ctxDone, wrote>>

MappersDone ==
  /\ disp = "wait" /\ Running = {}
  /\ closedC' = TRUE
  /\ disp' = "drain"
  /\ UNCHANGED <<source, mappers, collector, reducing, mainVars, cancelling, ctxDone, wrote>>

SourceDrained ==
  /\ disp = "drain" /\ gen = "end"
  /\ disp' = "end"
  /\ UNCHANGED <<source, mappers, collecting, reducing, mainVars, cancelling, ctxDone, wrote>>

-----------------------------------------------------------------------------
\* A mapper: it writes (dropped after done or ctx, else it waits for room), or
\* returns without a write, or panics, or cancels.
MapWrites(i) ==
  /\ ~each /\ mapper[i] = "map"
  /\ MapperAt(i, IF Dropped THEN "end" ELSE "write")
  /\ UNCHANGED <<source, disp, mapFailed, collecting, reducing, mainVars, cancelling, ctxDone, wrote>>

Collect(i) ==
  /\ mapper[i] = "write" /\ Cardinality(collector) < workers
  /\ collector' = collector \cup {i}
  /\ MapperAt(i, "end")
  /\ UNCHANGED <<source, disp, mapFailed, closedC, reducing, mainVars, cancelling, ctxDone, wrote>>

MapReturns(i) ==
  /\ mapper[i] = "map"
  /\ MapperAt(i, "silent")
  /\ UNCHANGED <<source, disp, mapFailed, collecting, reducing, mainVars, cancelling, ctxDone, wrote>>

MapPanics(i) ==
  /\ mapper[i] = "map"
  /\ mapFailed' = TRUE /\ wrote' = TRUE
  /\ MapperAt(i, IF wrote THEN "end" ELSE "panic")
  /\ UNCHANGED <<source, disp, collecting, reducing, mainVars, cancelling, ctxDone>>

\* cancel: the first caller sets retErr, drains source and closes done and
\* output; the others wait for it.
Cancel(c, e) ==
  IF canceller = "none" THEN canceller' = c /\ retErr' = e ELSE UNCHANGED <<canceller, retErr>>

Cancelled(c) ==
  \/ canceller = c /\ gen = "end" /\ canceller' = "over" /\ done' = TRUE
  \/ canceller = "over" /\ UNCHANGED <<canceller, done>>

MapCancels(i) ==
  /\ ~each /\ mapper[i] = "map"
  /\ MapperAt(i, "cancel") /\ Cancel(i, "error")
  /\ UNCHANGED <<source, disp, mapFailed, collecting, reducing, mainVars, done, ctxDone, wrote>>

MapCancelled(i) ==
  /\ mapper[i] = "cancel"
  /\ MapperAt(i, "end") /\ Cancelled(i)
  /\ UNCHANGED <<source, disp, mapFailed, collecting, reducing, mainVars, retErr, ctxDone, wrote>>

-----------------------------------------------------------------------------
\* The reducer reads collector, and learns that it is closed.
Reduce ==
  /\ reducer = "run"
  /\ \/ \E i \in collector : /\ collector' = collector \ {i}
                             /\ reduced' = reduced \cup {i}
                             /\ UNCHANGED readAll
     \/ closedC /\ collector = {} /\ ~readAll /\ readAll' = TRUE /\ UNCHANGED <<collector, reduced>>
  /\ UNCHANGED <<source, disp, mappers, closedC, reducer, writes, early, mainVars, cancelling, ctxDone, wrote>>

\* Mutant of ReduceWrites: the writer of output is not guarded.
ReduceWritesAlways ==
  /\ reducer = "run" /\ writes < MaxWrites
  /\ writes' = writes + 1 /\ early' = (early \/ ~readAll)
  /\ reducer' = "write"
  /\ UNCHANGED <<source, disp, mappers, collecting, reduced, readAll, mainVars, cancelling, ctxDone, wrote>>

ReduceWrites ==
  /\ reducer = "run" /\ writes < MaxWrites
  /\ writes' = writes + 1 /\ early' = (early \/ ~readAll)
  /\ reducer' = IF Dropped THEN "run" ELSE "write"
  /\ UNCHANGED <<source, disp, mappers, collecting, reduced, readAll, mainVars, cancelling, ctxDone, wrote>>

ReduceCancels ==
  /\ reducer = "run"
  /\ reducer' = "cancel" /\ Cancel("reducer", "error")
  /\ UNCHANGED <<source, disp, mappers, collecting, reduced, readAll, writes, early, mainVars, done, ctxDone, wrote>>

ReduceCancelled ==
  /\ reducer = "cancel"
  /\ reducer' = "drain" /\ Cancelled("reducer")
  /\ UNCHANGED <<source, disp, mappers, collecting, reduced, readAll, writes, early, mainVars, retErr, ctxDone, wrote>>

\* It returns or panics; a send on the closed output panics too.
ReduceReturns ==
  /\ reducer = "run" /\ reducer' \in {"drain", "drainPanic"}
  /\ UNCHANGED <<source, disp, mappers, collecting, reduced, readAll, writes, early, mainVars, cancelling, ctxDone, wrote>>

SendPanics ==
  /\ reducer = "write" /\ done /\ reducer' = "drainPanic"
  /\ UNCHANGED <<source, disp, mappers, collecting, reduced, readAll, writes, early, mainVars, cancelling, ctxDone, wrote>>

\* Its deferred function: drain(collector), the panic, then finish.
DrainCollector ==
  /\ reducer \in {"drain", "drainPanic"}
  /\ \E i \in collector : collector' = collector \ {i}
  /\ UNCHANGED <<source, disp, mappers, closedC, reducing, mainVars, cancelling, ctxDone, wrote>>

CollectorDrained ==
  /\ reducer \in {"drain", "drainPanic"} /\ closedC /\ collector = {}
  /\ reducer' = IF reducer = "drainPanic" /\ ~wrote THEN "panic" ELSE "finish"
  /\ wrote' = (wrote \/ reducer = "drainPanic")
  /\ UNCHANGED <<source, disp, mappers, collecting, reduced, readAll, writes, early, mainVars, cancelling, ctxDone>>

Finish ==
  /\ reducer = "finish"
  /\ reducer' = "end"
  /\ done' = TRUE
  /\ UNCHANGED <<source, disp, mappers, collecting, reduced, readAll, writes, early, mainVars, retErr, canceller, ctxDone, wrote>>

-----------------------------------------------------------------------------
\* The select of mapReduceWithPanicChan, and the deferred loop over output.
Expire ==
  /\ ~ctxDone
  /\ ctxDone' = TRUE
  /\ UNCHANGED <<source, disp, mappers, collecting, reducing, mainVars, cancelling, wrote>>

MainCancels ==
  /\ ~each /\ main = "select" /\ ctxDone
  /\ main' = "cancel" /\ result' = "deadline" /\ Cancel("main", "deadline")
  /\ UNCHANGED <<source, disp, mappers, collecting, reducing, done, ctxDone, wrote>>

MainCancelled ==
  /\ main = "cancel"
  /\ main' = "range" /\ Cancelled("main")
  /\ UNCHANGED <<source, disp, mappers, collecting, reducing, result, retErr, ctxDone, wrote>>

MainPanics ==
  /\ main = "select"
  /\ main' = IF each THEN "panicked" ELSE "drain"
  /\ \/ gen = "panic" /\ gen' = "end" /\ UNCHANGED <<mapper, reducer>>
     \/ \E i \in Items : mapper[i] = "panic" /\ MapperAt(i, "end") /\ UNCHANGED <<gen, reducer>>
     \/ reducer = "panic" /\ reducer' = "finish" /\ UNCHANGED <<gen, mapper>>
  /\ UNCHANGED <<unsent, workers, each, disp, mapFailed, collecting, reduced, readAll, writes, early, result, cancelling, ctxDone, wrote>>

Output ==
  /\ ~each /\ main = "select"
  /\ main' = "range"
  /\ \/ /\ done /\ UNCHANGED reducer
        /\ result' = IF retErr # "none" THEN retErr ELSE "noOutput"
     \/ /\ reducer = "write" /\ ~done /\ reducer' = "run"
        /\ result' = IF retErr # "none" THEN retErr ELSE "value"
  /\ UNCHANGED <<source, disp, mappers, collecting, reduced, readAll, writes, early, cancelling, ctxDone, wrote>>

\* One more element panics, unless a panic is under way already.
MoreOutput ==
  /\ main \in {"range", "drain"} /\ reducer = "write" /\ ~done
  /\ reducer' = "run"
  /\ main' = IF main = "range" THEN "panicked" ELSE main
  /\ UNCHANGED <<source, disp, mappers, collecting, reduced, readAll, writes, early, result, cancelling, ctxDone, wrote>>

Return ==
  /\ main \in {"range", "drain"} /\ done
  /\ main' = IF main = "range" THEN "returned" ELSE "panicked"
  /\ UNCHANGED <<source, disp, mappers, collecting, reducing, result, cancelling, ctxDone, wrote>>

\* Mutant of EachReturns: it does not wait for the mappers.
EachReturnsSoon ==
  /\ each /\ main = "select" /\ gen = "end"
  /\ main' = "returned"
  /\ UNCHANGED <<source, disp, mappers, collecting, reducing, result, cancelling, ctxDone, wrote>>

\* The loop of ForEach finds collector closed.
EachReturns ==
  /\ each /\ main = "select" /\ closedC
  /\ main' = "returned"
  /\ UNCHANGED <<source, disp, mappers, collecting, reducing, result, cancelling, ctxDone, wrote>>

-----------------------------------------------------------------------------
Generating == Generated \/ Discard
Executing == Place \/ Item \/ StopMapping \/ MappersDone \/ SourceDrained
Mapping(i) == \/ MapWrites(i) \/ Collect(i) \/ MapReturns(i)
              \/ MapPanics(i) \/ MapCancels(i) \/ MapCancelled(i)
Reducing == \/ Reduce \/ ReduceCancelled \/ SendPanics
            \/ DrainCollector \/ CollectorDrained \/ Finish
MainSteps == MainCancels \/ MainCancelled \/ MainPanics \/ Output \/ MoreOutput \/ Return
           \/ EachReturns

MapReduceNext == \/ GeneratePanics \/ Generating \/ Executing \/ Expire \/ MainSteps
        \/ Reducing \/ ReduceWrites \/ ReduceCancels \/ ReduceReturns
        \/ \E i \in Items : Mapping(i)

MapReduceSpec == MapReduceInit /\ [][MapReduceNext]_mapReduceVars

\* Every goroutine runs, generate and the mappers return, and so does a reducer
\* that has read to the end: before that it may wait for collector for ever.
MapReduceFairSpec ==
  /\ MapReduceSpec
  /\ WF_mapReduceVars(Generating) /\ WF_mapReduceVars(Executing) /\ WF_mapReduceVars(MainSteps)
  /\ WF_mapReduceVars(Reducing) /\ WF_mapReduceVars(readAll /\ ReduceReturns)
  /\ \A i \in Items : WF_mapReduceVars(Mapping(i))

-----------------------------------------------------------------------------
WorkersBounded ==
  /\ gen \in {"send", "panic", "end"} /\ unsent \subseteq Items
  /\ disp \in {"loop", "receive", "wait", "drain", "end"}
  /\ mapper \in [Items -> {"none", "map", "write", "cancel", "panic", "end", "silent"}]
  /\ Cardinality(Running) + (IF disp = "receive" THEN 1 ELSE 0) <= workers
  /\ Cardinality(collector) <= workers
  /\ main \in {"select", "cancel", "range", "drain", "returned", "panicked"}
  /\ retErr \in {"none", "error", "deadline"}

\* Nobody writes to collector once Executing has closed it: Go would panic.
NoLateWrite == closedC => Running = {}

\* A value that a reducer has written after it had read to the end is returned
\* without an error only when the output of every item has reached it: no cancel, panic or end of
\* the context makes a short result look complete.  (The panic of a generator is
\* left out: a mapper that panics after it ends Executing, and the caller
\* then may take the value before the panic.)  In the same way a ForEach that
\* returns has mapped every item, unless its context has ended.
Complete ==
  /\ result = "value" /\ ~early /\ gen # "panic" =>
       \A i \in Items : i \in reduced \/ mapper[i] = "silent"
  /\ each /\ main = "returned" /\ ~ctxDone /\ gen # "panic" =>
       \A i \in Items : mapper[i] = "silent"

\* The panic of a goroutine that nobody will take: the caller has left its select.
LatePanic ==
  /\ main # "select"
  /\ gen = "panic" \/ reducer = "panic" \/ \E i \in Items : mapper[i] = "panic"

\* The caller gets an answer, unless a goroutine panics when the caller has left
\* its select: it then waits for the end of output, and the goroutine for it.
Returns == <>(main \in {"returned", "panicked"} \/ LatePanic)

\* No goroutine of a MapReduce or a ForEach is left behind, with the same exception.
NoneLeft ==
  <>(\/ LatePanic
     \/ /\ gen = "end" /\ disp = "end" /\ Running = {}
        /\ reducer = "end" /\ main \in {"returned", "panicked"})

\* Goroutines stay within the workers, and collector is closed after the last
\* write to it.
CollectorSound == WorkersBounded /\ NoLateWrite

\* A MapReduce and a ForEach end, the caller and all its goroutines, but for a late
\* panic.
MapReduceEnds == Returns /\ NoneLeft
=============================================================================
