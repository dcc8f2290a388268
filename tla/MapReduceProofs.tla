-------------------------- MODULE MapReduceProofs ---------------------------
(***************************************************************************)
(* MapReduce and ForEach for any items and any number of workers.          *)
(*                                                                         *)
(* Complete is about results that look like a success.  MapClean says why  *)
(* nothing is missing from them: as long as nobody has cancelled, panicked *)
(* or run out of time, each item is still to be sent, with a mapper, in    *)
(* collector, or reduced; MapValues carries that over to the result that   *)
(* is written and returned after something did go wrong.  The counts of    *)
(* pool and collector (MapCounts) need that every send to collector comes  *)
(* from a mapper that holds a place.                                       *)
(***************************************************************************)
EXTENDS MapReduce, FiniteSetTheorems, TLAPS

\* The provers of a leaf, in turn, and their time.
USE ZenonT(5), SMTT(30)

MapStates == {"none", "map", "write", "cancel", "panic", "end", "silent"}

\* Types; what is not sent has no mapper.
MapTypes ==
  /\ workers \in 1..Workers
  /\ gen \in {"send", "panic", "end"} /\ unsent \subseteq Items
  /\ disp \in {"loop", "receive", "wait", "drain", "end"}
  /\ mapper \in [Items -> MapStates] /\ collector \subseteq Items
  /\ main \in {"select", "cancel", "range", "drain", "returned", "panicked"}
  /\ retErr \in {"none", "error", "deadline"}
  /\ \A i \in unsent : mapper[i] = "none"

\* Mappers and the place that is taken for the next; what collector buffers.
MapCounts ==
  /\ Cardinality(Running) + (IF disp = "receive" THEN 1 ELSE 0) <= workers
  /\ Cardinality(collector) <= workers

\* collector is closed when no mapper runs any more.
MapClosing ==
  /\ closedC <=> disp \in {"drain", "end"}
  /\ closedC => \A i \in Items : mapper[i] \in {"none", "end", "silent"}
  /\ readAll => closedC /\ collector = {}

\* Who is in cancel has set retErr.
MapCancelling ==
  /\ canceller # "none" <=> retErr # "none"
  /\ \A i \in Items : mapper[i] = "cancel" => retErr # "none"

\* The first panic is in panicChan until the caller takes it.
MapPanicking ==
  /\ mapFailed => wrote
  /\ wrote => \/ gen = "panic" \/ reducer = "panic" \/ main # "select"
              \/ \E i \in Items : mapper[i] = "panic"

\* ForEach has no reducer.
MapEach ==
  each => /\ reducer = "end" /\ retErr = "none" /\ ~done /\ result = "none"
          /\ collector = {} /\ reduced = {} /\ main \in {"select", "returned", "panicked"}
          /\ \A i \in Items : mapper[i] \notin {"write", "cancel"}

\* Nothing has gone wrong so far: nothing that was sent or collected is lost.
MapClean ==
  main = "select" /\ retErr = "none" /\ ~ctxDone /\ ~done /\ ~wrote /\ (each \/ reducer = "run") =>
    /\ \A i \in Items : mapper[i] = "end" => i \in collector \cup reduced
    /\ \A i \in Items : mapper[i] = "none" => i \in unsent
    /\ disp \in {"wait", "drain", "end"} => gen = "end"
    /\ gen = "end" => unsent = {}

\* No item is lost: reduced, or its mapper chose to write nothing.
AllReduced == \A i \in Items : i \in reduced \/ mapper[i] = "silent"

\* What a value that is written, or a return of ForEach, stands for.
MapValues ==
  /\ reducer = "write" => early \/ readAll
  /\ result = "value" => main # "select" /\ (early \/ readAll)
  /\ reducer = "write" /\ ~early /\ main = "select" /\ retErr = "none" /\ gen # "panic" => AllReduced
  /\ result = "value" /\ ~early /\ gen # "panic" => AllReduced
  /\ each /\ main = "returned" => closedC
  /\ each /\ main = "returned" /\ ~ctxDone /\ gen # "panic" => \A i \in Items : mapper[i] = "silent"

MapInv ==
  /\ MapTypes /\ MapCounts /\ MapClosing /\ MapCancelling
  /\ MapPanicking /\ MapEach /\ MapClean /\ MapValues

\* Every step keeps the types; what is not sent has no mapper.
LEMMA MapTypesStep ==
  ASSUME MapTypes, MapReduceNext
  PROVE  MapTypes'
<1>1. CASE Generated \/ GeneratePanics \/ Discard
  BY <1>1 DEF Generated, GeneratePanics, Discard, source, mappers, collecting, reducing, mainVars, cancelling,
         MapTypes, MapStates
<1>2. CASE Executing
  BY <1>2 DEF Executing, Place, Item, StopMapping, MappersDone, SourceDrained, MapperAt,
         source, mappers, collecting, reducing, mainVars, cancelling, MapTypes, MapStates
<1>3. CASE Reduce \/ ReduceReturns \/ SendPanics
  BY <1>3 DEF Reduce, ReduceReturns, SendPanics, source, mappers, collecting, reducing, mainVars, cancelling,
         MapTypes, MapStates
<1>4. CASE ReduceWrites
  BY <1>4 DEF ReduceWrites, Dropped, source, mappers, collecting, reducing, mainVars, cancelling, MapTypes,
         MapStates
<1>5. CASE ReduceCancels \/ ReduceCancelled
  BY <1>5 DEF ReduceCancels, ReduceCancelled, Cancel, Cancelled,
         source, mappers, collecting, reducing, mainVars, cancelling, MapTypes, MapStates
<1>6. CASE DrainCollector \/ CollectorDrained \/ Finish
  BY <1>6 DEF DrainCollector, CollectorDrained, Finish,
         source, mappers, collecting, reducing, mainVars, cancelling, MapTypes, MapStates
<1>7. CASE MainPanics
  BY <1>7 DEF MainPanics, MapperAt, source, mappers, collecting, reducing, mainVars, cancelling, MapTypes,
         MapStates
<1>8. CASE Expire \/ MainCancels \/ MainCancelled
  BY <1>8 DEF Expire, MainCancels, MainCancelled, Cancel, Cancelled,
         source, mappers, collecting, reducing, mainVars, cancelling, MapTypes, MapStates
<1>9. CASE Output \/ MoreOutput \/ Return \/ EachReturns
  BY <1>9 DEF Output, MoreOutput, Return, EachReturns,
         source, mappers, collecting, reducing, mainVars, cancelling, MapTypes, MapStates
<1>10. ASSUME NEW i \in Items, Mapping(i) PROVE MapTypes'
  <2>1. CASE MapWrites(i) \/ Collect(i) \/ MapReturns(i)
    BY <2>1 DEF MapWrites, Collect, MapReturns, MapperAt, Dropped,
           source, mappers, collecting, reducing, mainVars, cancelling, MapTypes, MapStates
  <2>2. CASE MapPanics(i) \/ MapCancels(i) \/ MapCancelled(i)
    BY <2>2 DEF MapPanics, MapCancels, MapCancelled, MapperAt, Cancel, Cancelled,
           source, mappers, collecting, reducing, mainVars, cancelling, MapTypes, MapStates
  <2> QED  BY <1>10, <2>1, <2>2 DEF Mapping
<1> QED  BY <1>1, <1>2, <1>3, <1>4, <1>5, <1>6, <1>7, <1>8, <1>9, <1>10 DEF MapReduceNext, Generating, Reducing, MainSteps

\* collector is closed after the last mapper, and read to its end after that.
LEMMA MapClosingStep ==
  ASSUME MapTypes, MapClosing, MapReduceNext
  PROVE  MapClosing'
<1>1. CASE Generated \/ GeneratePanics \/ Discard
  BY <1>1 DEF Generated, GeneratePanics, Discard, source, mappers, collecting, reducing, mainVars, cancelling,
         MapTypes, MapStates, MapClosing
<1>2. CASE Executing
  BY <1>2 DEF Executing, Place, Item, StopMapping, MappersDone, SourceDrained, MapperAt, Running,
         source, mappers, collecting, reducing, mainVars, cancelling, MapTypes, MapStates, MapClosing
<1>3. CASE Reduce \/ ReduceReturns \/ SendPanics
  BY <1>3 DEF Reduce, ReduceReturns, SendPanics, source, mappers, collecting, reducing, mainVars, cancelling,
         MapTypes, MapStates, MapClosing
<1>4. CASE ReduceWrites
  BY <1>4 DEF ReduceWrites, Dropped, source, mappers, collecting, reducing, mainVars, cancelling, MapTypes,
         MapStates, MapClosing
<1>5. CASE ReduceCancels \/ ReduceCancelled
  BY <1>5 DEF ReduceCancels, ReduceCancelled, Cancel, Cancelled,
         source, mappers, collecting, reducing, mainVars, cancelling, MapTypes, MapStates, MapClosing
<1>6. CASE DrainCollector \/ CollectorDrained \/ Finish
  BY <1>6 DEF DrainCollector, CollectorDrained, Finish,
         source, mappers, collecting, reducing, mainVars, cancelling, MapTypes, MapStates, MapClosing
<1>7. CASE MainPanics
  BY <1>7 DEF MainPanics, MapperAt, source, mappers, collecting, reducing, mainVars, cancelling, MapTypes,
         MapStates, MapClosing
<1>8. CASE Expire \/ MainCancels \/ MainCancelled
  BY <1>8 DEF Expire, MainCancels, MainCancelled, Cancel, Cancelled,
         source, mappers, collecting, reducing, mainVars, cancelling, MapTypes, MapStates, MapClosing
<1>9. CASE Output \/ MoreOutput \/ Return \/ EachReturns
  BY <1>9 DEF Output, MoreOutput, Return, EachReturns,
         source, mappers, collecting, reducing, mainVars, cancelling, MapTypes, MapStates, MapClosing
<1>10. ASSUME NEW i \in Items, Mapping(i) PROVE MapClosing'
  <2>1. CASE MapWrites(i) \/ Collect(i) \/ MapReturns(i)
    BY <2>1 DEF MapWrites, Collect, MapReturns, MapperAt, Dropped,
           source, mappers, collecting, reducing, mainVars, cancelling, MapTypes, MapStates, MapClosing
  <2>2. CASE MapPanics(i) \/ MapCancels(i) \/ MapCancelled(i)
    BY <2>2 DEF MapPanics, MapCancels, MapCancelled, MapperAt, Cancel, Cancelled,
           source, mappers, collecting, reducing, mainVars, cancelling, MapTypes, MapStates, MapClosing
  <2> QED  BY <1>10, <2>1, <2>2 DEF Mapping
<1> QED  BY <1>1, <1>2, <1>3, <1>4, <1>5, <1>6, <1>7, <1>8, <1>9, <1>10 DEF MapReduceNext, Generating, Reducing, MainSteps

\* retErr is set by the once of cancel, and never reset.
LEMMA MapCancellingStep ==
  ASSUME MapTypes, MapCancelling, MapReduceNext
  PROVE  MapCancelling'
<1>1. CASE Generated \/ GeneratePanics \/ Discard
  BY <1>1 DEF Generated, GeneratePanics, Discard, source, mappers, collecting, reducing, mainVars, cancelling,
         MapTypes, MapStates, MapCancelling
<1>2. CASE Executing
  BY <1>2 DEF Executing, Place, Item, StopMapping, MappersDone, SourceDrained, MapperAt,
         source, mappers, collecting, reducing, mainVars, cancelling, MapTypes, MapStates, MapCancelling
<1>3. CASE Reduce \/ ReduceReturns \/ SendPanics
  BY <1>3 DEF Reduce, ReduceReturns, SendPanics, source, mappers, collecting, reducing, mainVars, cancelling,
         MapTypes, MapStates, MapCancelling
<1>4. CASE ReduceWrites
  BY <1>4 DEF ReduceWrites, Dropped, source, mappers, collecting, reducing, mainVars, cancelling, MapTypes,
         MapStates, MapCancelling
<1>5. CASE ReduceCancels \/ ReduceCancelled
  BY <1>5 DEF ReduceCancels, ReduceCancelled, Cancel, Cancelled,
         source, mappers, collecting, reducing, mainVars, cancelling, MapTypes, MapStates, MapCancelling
<1>6. CASE DrainCollector \/ CollectorDrained \/ Finish
  BY <1>6 DEF DrainCollector, CollectorDrained, Finish,
         source, mappers, collecting, reducing, mainVars, cancelling, MapTypes, MapStates, MapCancelling
<1>7. CASE MainPanics
  BY <1>7 DEF MainPanics, MapperAt, source, mappers, collecting, reducing, mainVars, cancelling, MapTypes,
         MapStates, MapCancelling
<1>8. CASE Expire \/ MainCancels \/ MainCancelled
  BY <1>8 DEF Expire, MainCancels, MainCancelled, Cancel, Cancelled,
         source, mappers, collecting, reducing, mainVars, cancelling, MapTypes, MapStates, MapCancelling
<1>9. CASE Output \/ MoreOutput \/ Return \/ EachReturns
  BY <1>9 DEF Output, MoreOutput, Return, EachReturns,
         source, mappers, collecting, reducing, mainVars, cancelling, MapTypes, MapStates, MapCancelling
<1>10. ASSUME NEW i \in Items, Mapping(i) PROVE MapCancelling'
  <2>1. CASE MapWrites(i) \/ Collect(i) \/ MapReturns(i)
    BY <2>1 DEF MapWrites, Collect, MapReturns, MapperAt, Dropped,
           source, mappers, collecting, reducing, mainVars, cancelling, MapTypes, MapStates, MapCancelling
  <2>2. CASE MapPanics(i) \/ MapCancels(i) \/ MapCancelled(i)
    BY MapReduceAssumption, <2>2 DEF MapPanics, MapCancels, MapCancelled, MapperAt, Cancel, Cancelled,
           source, mappers, collecting, reducing, mainVars, cancelling, MapTypes, MapStates, MapCancelling
  <2> QED  BY <1>10, <2>1, <2>2 DEF Mapping
<1> QED  BY <1>1, <1>2, <1>3, <1>4, <1>5, <1>6, <1>7, <1>8, <1>9, <1>10 DEF MapReduceNext, Generating, Reducing, MainSteps

\* A panic waits for the caller until the caller leaves its select.
LEMMA MapPanickingStep ==
  ASSUME MapTypes, MapPanicking, MapReduceNext
  PROVE  MapPanicking'
<1>1. CASE Generated \/ GeneratePanics \/ Discard
  BY <1>1 DEF Generated, GeneratePanics, Discard, source, mappers, collecting, reducing, mainVars, cancelling,
         MapTypes, MapStates, MapPanicking
<1>2. CASE Executing
  BY <1>2 DEF Executing, Place, Item, StopMapping, MappersDone, SourceDrained, MapperAt,
         source, mappers, collecting, reducing, mainVars, cancelling, MapTypes, MapStates, MapPanicking
<1>3. CASE Reduce \/ ReduceReturns \/ SendPanics
  BY <1>3 DEF Reduce, ReduceReturns, SendPanics, source, mappers, collecting, reducing, mainVars, cancelling,
         MapTypes, MapStates, MapPanicking
<1>4. CASE ReduceWrites
  BY <1>4 DEF ReduceWrites, Dropped, source, mappers, collecting, reducing, mainVars, cancelling, MapTypes,
         MapStates, MapPanicking
<1>5. CASE ReduceCancels \/ ReduceCancelled
  BY <1>5 DEF ReduceCancels, ReduceCancelled, Cancel, Cancelled,
         source, mappers, collecting, reducing, mainVars, cancelling, MapTypes, MapStates, MapPanicking
<1>6. CASE DrainCollector \/ CollectorDrained \/ Finish
  <2>1. CASE DrainCollector \/ Finish
    BY <2>1 DEF DrainCollector, Finish, source, mappers, collecting, reducing, mainVars, cancelling, MapPanicking
  <2>2. CASE CollectorDrained
    <3>1. UNCHANGED <<gen, mapper, mapFailed, main>> /\ reducer # "panic"
      BY <2>2 DEF CollectorDrained, source, mappers, mainVars
    <3>2. CASE reducer = "drainPanic" /\ ~wrote
      <4>1. reducer' = "panic" /\ wrote' = TRUE
        BY <2>2, <3>2 DEF CollectorDrained
      <4> QED  BY <3>1, <4>1 DEF MapPanicking
    <3>3. CASE ~(reducer = "drainPanic" /\ ~wrote)
      <4>1. (wrote' => wrote) /\ (wrote => wrote')
        BY <2>2, <3>3 DEF CollectorDrained
      <4> QED  BY <3>1, <4>1 DEF MapPanicking
    <3> QED  BY <3>2, <3>3
  <2> QED  BY <1>6, <2>1, <2>2
<1>7. CASE MainPanics
  BY <1>7 DEF MainPanics, MapperAt, source, mappers, collecting, reducing, mainVars, cancelling, MapTypes,
         MapStates, MapPanicking
<1>8. CASE Expire \/ MainCancels \/ MainCancelled
  BY <1>8 DEF Expire, MainCancels, MainCancelled, Cancel, Cancelled,
         source, mappers, collecting, reducing, mainVars, cancelling, MapTypes, MapStates, MapPanicking
<1>9. CASE Output \/ MoreOutput \/ Return \/ EachReturns
  BY <1>9 DEF Output, MoreOutput, Return, EachReturns,
         source, mappers, collecting, reducing, mainVars, cancelling, MapTypes, MapStates, MapPanicking
<1>10. ASSUME NEW i \in Items, Mapping(i) PROVE MapPanicking'
  <2>1. CASE MapWrites(i) \/ Collect(i) \/ MapReturns(i)
    BY <2>1 DEF MapWrites, Collect, MapReturns, MapperAt, Dropped,
           source, mappers, collecting, reducing, mainVars, cancelling, MapTypes, MapStates, MapPanicking
  <2>2. CASE MapPanics(i) \/ MapCancels(i) \/ MapCancelled(i)
    BY <2>2 DEF MapPanics, MapCancels, MapCancelled, MapperAt, Cancel, Cancelled,
           source, mappers, collecting, reducing, mainVars, cancelling, MapTypes, MapStates, MapPanicking
  <2> QED  BY <1>10, <2>1, <2>2 DEF Mapping
<1> QED  BY <1>1, <1>2, <1>3, <1>4, <1>5, <1>6, <1>7, <1>8, <1>9, <1>10 DEF MapReduceNext, Generating, Reducing, MainSteps

\* ForEach has no reducer and its mappers write nothing.
LEMMA MapEachStep ==
  ASSUME MapTypes, MapEach, MapReduceNext
  PROVE  MapEach'
<1>1. CASE Generated \/ GeneratePanics \/ Discard
  BY ZenonT(30), <1>1 DEF Generated, GeneratePanics, Discard,
         source, mappers, collecting, reducing, mainVars, cancelling, MapTypes, MapStates, MapEach
<1>2. CASE Executing
  BY ZenonT(30), <1>2 DEF Executing, Place, Item, StopMapping, MappersDone, SourceDrained, MapperAt,
         source, mappers, collecting, reducing, mainVars, cancelling, MapTypes, MapStates, MapEach
<1>3. CASE Reduce \/ ReduceReturns \/ SendPanics
  BY ZenonT(30), <1>3 DEF Reduce, ReduceReturns, SendPanics,
         source, mappers, collecting, reducing, mainVars, cancelling, MapTypes, MapStates, MapEach
<1>4. CASE ReduceWrites
  BY ZenonT(30), <1>4 DEF ReduceWrites, Dropped, source, mappers, collecting, reducing, mainVars, cancelling,
         MapTypes, MapStates, MapEach
<1>5. CASE ReduceCancels \/ ReduceCancelled
  BY ZenonT(30), <1>5 DEF ReduceCancels, ReduceCancelled, Cancel, Cancelled,
         source, mappers, collecting, reducing, mainVars, cancelling, MapTypes, MapStates, MapEach
<1>6. CASE DrainCollector \/ CollectorDrained \/ Finish
  BY ZenonT(30), <1>6 DEF DrainCollector, CollectorDrained, Finish,
         source, mappers, collecting, reducing, mainVars, cancelling, MapTypes, MapStates, MapEach
<1>7. CASE MainPanics
  BY ZenonT(30), <1>7 DEF MainPanics, MapperAt, source, mappers, collecting, reducing, mainVars, cancelling,
         MapTypes, MapStates, MapEach
<1>8. CASE Expire \/ MainCancels \/ MainCancelled
  BY ZenonT(30), <1>8 DEF Expire, MainCancels, MainCancelled, Cancel, Cancelled,
         source, mappers, collecting, reducing, mainVars, cancelling, MapTypes, MapStates, MapEach
<1>9. CASE Output \/ MoreOutput \/ Return \/ EachReturns
  BY ZenonT(30), <1>9 DEF Output, MoreOutput, Return, EachReturns,
         source, mappers, collecting, reducing, mainVars, cancelling, MapTypes, MapStates, MapEach
<1>10. ASSUME NEW i \in Items, Mapping(i) PROVE MapEach'
  <2>1. CASE MapWrites(i) \/ Collect(i) \/ MapReturns(i)
    BY ZenonT(30), <2>1 DEF MapWrites, Collect, MapReturns, MapperAt, Dropped,
           source, mappers, collecting, reducing, mainVars, cancelling, MapTypes, MapStates, MapEach
  <2>2. CASE MapPanics(i) \/ MapCancels(i) \/ MapCancelled(i)
    BY ZenonT(30), <2>2 DEF MapPanics, MapCancels, MapCancelled, MapperAt, Cancel, Cancelled,
           source, mappers, collecting, reducing, mainVars, cancelling, MapTypes, MapStates, MapEach
  <2> QED  BY <1>10, <2>1, <2>2 DEF Mapping
<1> QED  BY <1>1, <1>2, <1>3, <1>4, <1>5, <1>6, <1>7, <1>8, <1>9, <1>10 DEF MapReduceNext, Generating, Reducing, MainSteps

\* As long as nothing goes wrong every step keeps what was sent.
LEMMA MapCleanStep ==
  ASSUME MapTypes, MapClosing, MapCancelling, MapPanicking, MapEach, MapClean, MapReduceNext
  PROVE  MapClean'
<1>1. CASE Generated \/ GeneratePanics \/ Discard
  BY <1>1 DEF Generated, GeneratePanics, Discard, source, mappers, collecting, reducing, mainVars, cancelling,
         MapTypes, MapStates, MapClosing, MapCancelling, MapPanicking, MapEach, MapClean
<1>2. CASE Executing
  BY <1>2 DEF Executing, Place, Item, StopMapping, MappersDone, SourceDrained, MapperAt,
         source, mappers, collecting, reducing, mainVars, cancelling, MapTypes, MapStates, MapClosing,
         MapCancelling, MapPanicking, MapEach, MapClean
<1>3. CASE Reduce \/ ReduceReturns \/ SendPanics
  BY <1>3 DEF Reduce, ReduceReturns, SendPanics, source, mappers, collecting, reducing, mainVars, cancelling,
         MapTypes, MapStates, MapClosing, MapCancelling, MapPanicking, MapEach, MapClean
<1>4. CASE ReduceWrites
  BY <1>4 DEF ReduceWrites, Dropped, source, mappers, collecting, reducing, mainVars, cancelling, MapTypes,
         MapStates, MapClosing, MapCancelling, MapPanicking, MapEach, MapClean
<1>5. CASE ReduceCancels \/ ReduceCancelled
  BY <1>5 DEF ReduceCancels, ReduceCancelled, Cancel, Cancelled,
         source, mappers, collecting, reducing, mainVars, cancelling, MapTypes, MapStates, MapClosing,
         MapCancelling, MapPanicking, MapEach, MapClean
<1>6. CASE DrainCollector \/ CollectorDrained \/ Finish
  BY <1>6 DEF DrainCollector, CollectorDrained, Finish,
         source, mappers, collecting, reducing, mainVars, cancelling, MapTypes, MapStates, MapClosing,
         MapCancelling, MapPanicking, MapEach, MapClean
<1>7. CASE MainPanics
  BY <1>7 DEF MainPanics, MapperAt, source, mappers, collecting, reducing, mainVars, cancelling, MapTypes,
         MapStates, MapClosing, MapCancelling, MapPanicking, MapEach, MapClean
<1>8. CASE Expire \/ MainCancels \/ MainCancelled
  BY <1>8 DEF Expire, MainCancels, MainCancelled, Cancel, Cancelled,
         source, mappers, collecting, reducing, mainVars, cancelling, MapTypes, MapStates, MapClosing,
         MapCancelling, MapPanicking, MapEach, MapClean
<1>9. CASE Output \/ MoreOutput \/ Return \/ EachReturns
  BY <1>9 DEF Output, MoreOutput, Return, EachReturns,
         source, mappers, collecting, reducing, mainVars, cancelling, MapTypes, MapStates, MapClosing,
         MapCancelling, MapPanicking, MapEach, MapClean
<1>10. ASSUME NEW i \in Items, Mapping(i) PROVE MapClean'
  <2>1. CASE MapWrites(i) \/ Collect(i) \/ MapReturns(i)
    BY <2>1 DEF MapWrites, Collect, MapReturns, MapperAt, Dropped,
           source, mappers, collecting, reducing, mainVars, cancelling, MapTypes, MapStates, MapClosing,
           MapCancelling, MapPanicking, MapEach, MapClean
  <2>2. CASE MapPanics(i) \/ MapCancels(i) \/ MapCancelled(i)
    BY <2>2 DEF MapPanics, MapCancels, MapCancelled, MapperAt, Cancel, Cancelled,
           source, mappers, collecting, reducing, mainVars, cancelling, MapTypes, MapStates, MapClosing,
           MapCancelling, MapPanicking, MapEach, MapClean
  <2> QED  BY <1>10, <2>1, <2>2 DEF Mapping
<1> QED  BY <1>1, <1>2, <1>3, <1>4, <1>5, <1>6, <1>7, <1>8, <1>9, <1>10 DEF MapReduceNext, Generating, Reducing, MainSteps

\* Every step keeps what a result stands for.
LEMMA MapValuesStep ==
  ASSUME MapTypes, MapClosing, MapCancelling, MapPanicking, MapEach, MapClean, MapValues, MapReduceNext
  PROVE  MapValues'
<1>1. CASE Generated \/ GeneratePanics \/ Discard
  BY <1>1 DEF Generated, GeneratePanics, Discard, source, mappers, collecting, reducing, mainVars, cancelling,
         MapTypes, MapStates, MapClosing, MapCancelling, MapPanicking, MapEach, MapClean, MapValues,
         AllReduced
<1>2. CASE Executing
  BY <1>2 DEF Executing, Place, Item, StopMapping, MappersDone, SourceDrained, MapperAt,
         source, mappers, collecting, reducing, mainVars, cancelling, MapTypes, MapStates, MapClosing,
         MapCancelling, MapPanicking, MapEach, MapClean, MapValues, AllReduced
<1>3. CASE Reduce \/ ReduceReturns \/ SendPanics
  BY <1>3 DEF Reduce, ReduceReturns, SendPanics, source, mappers, collecting, reducing, mainVars, cancelling,
         MapTypes, MapStates, MapClosing, MapCancelling, MapPanicking, MapEach, MapClean, MapValues,
         AllReduced
<1>4. CASE ReduceWrites
  BY ZenonT(30), <1>4 DEF ReduceWrites, Dropped, source, mappers, collecting, reducing, mainVars, cancelling, MapTypes,
         MapStates, MapClosing, MapCancelling, MapPanicking, MapEach, MapClean, MapValues, AllReduced
<1>5. CASE ReduceCancels \/ ReduceCancelled
  BY <1>5 DEF ReduceCancels, ReduceCancelled, Cancel, Cancelled,
         source, mappers, collecting, reducing, mainVars, cancelling, MapTypes, MapStates, MapClosing,
         MapCancelling, MapPanicking, MapEach, MapClean, MapValues, AllReduced
<1>6. CASE DrainCollector \/ CollectorDrained \/ Finish
  BY <1>6 DEF DrainCollector, CollectorDrained, Finish,
         source, mappers, collecting, reducing, mainVars, cancelling, MapTypes, MapStates, MapClosing,
         MapCancelling, MapPanicking, MapEach, MapClean, MapValues, AllReduced
<1>7. CASE MainPanics
  BY <1>7 DEF MainPanics, MapperAt, source, mappers, collecting, reducing, mainVars, cancelling, MapTypes,
         MapStates, MapClosing, MapCancelling, MapPanicking, MapEach, MapClean, MapValues, AllReduced
<1>8. CASE Expire \/ MainCancels \/ MainCancelled
  BY <1>8 DEF Expire, MainCancels, MainCancelled, Cancel, Cancelled,
         source, mappers, collecting, reducing, mainVars, cancelling, MapTypes, MapStates, MapClosing,
         MapCancelling, MapPanicking, MapEach, MapClean, MapValues, AllReduced
<1>9. CASE Output \/ MoreOutput \/ Return \/ EachReturns
  BY <1>9 DEF Output, MoreOutput, Return, EachReturns,
         source, mappers, collecting, reducing, mainVars, cancelling, MapTypes, MapStates, MapClosing,
         MapCancelling, MapPanicking, MapEach, MapClean, MapValues, AllReduced
<1>10. ASSUME NEW i \in Items, Mapping(i) PROVE MapValues'
  <2>1. CASE MapWrites(i) \/ Collect(i) \/ MapReturns(i)
    BY <2>1 DEF MapWrites, Collect, MapReturns, MapperAt, Dropped,
           source, mappers, collecting, reducing, mainVars, cancelling, MapTypes, MapStates, MapClosing,
           MapCancelling, MapPanicking, MapEach, MapClean, MapValues, AllReduced
  <2>2. CASE MapPanics(i) \/ MapCancels(i) \/ MapCancelled(i)
    BY <2>2 DEF MapPanics, MapCancels, MapCancelled, MapperAt, Cancel, Cancelled,
           source, mappers, collecting, reducing, mainVars, cancelling, MapTypes, MapStates, MapClosing,
           MapCancelling, MapPanicking, MapEach, MapClean, MapValues, AllReduced
  <2> QED  BY <1>10, <2>1, <2>2 DEF Mapping
<1> QED  BY <1>1, <1>2, <1>3, <1>4, <1>5, <1>6, <1>7, <1>8, <1>9, <1>10 DEF MapReduceNext, Generating, Reducing, MainSteps

\* A mapper starts in the place that the dispatcher took, and its place is given
\* back when it ends.
LEMMA MapCountsStep ==
  ASSUME MapTypes, MapCounts, MapReduceNext
  PROVE  MapCounts'
<1>1. workers \in Nat /\ workers' = workers /\ IsFiniteSet(Items) /\ mapper \in [Items -> MapStates]
  <2>1. workers \in Nat /\ IsFiniteSet(Items) /\ mapper \in [Items -> MapStates]
    BY MapReduceAssumption DEF MapTypes
  <2>2. CASE Generated \/ GeneratePanics \/ Discard \/ Executing \/ \E i \in Items : Mapping(i)
    <3>1. workers' = workers
      BY <2>2 DEF Generated, GeneratePanics, Discard, Executing, Place, Item, StopMapping, MappersDone, SourceDrained,
             Mapping, MapWrites, Collect, MapReturns, MapPanics, MapCancels, MapCancelled, source
    <3> QED  BY <2>1, <3>1
  <2>3. CASE Reducing \/ ReduceWrites \/ ReduceReturns \/ ReduceCancels \/ Expire \/ MainSteps
    <3>1. workers' = workers
      BY <2>3 DEF Reducing, Reduce, ReduceWrites, ReduceReturns, SendPanics, ReduceCancels, ReduceCancelled,
             DrainCollector, CollectorDrained, Finish, Expire, MainSteps, MainCancels, MainCancelled, MainPanics, Output,
             MoreOutput, Return, EachReturns, source
    <3> QED  BY <2>1, <3>1
  <2> QED  BY <2>2, <2>3 DEF MapReduceNext, Generating
<1>2. /\ IsFiniteSet(Running) /\ Cardinality(Running) \in Nat /\ IsFiniteSet(collector) /\ Cardinality(collector) \in Nat
  <2>1. Running \subseteq Items /\ collector \subseteq Items
    BY DEF Running, MapTypes
  <2> QED  BY <1>1, <2>1, FS_Subset, FS_CardinalityType
<1>3. \A S : S \subseteq Running => Cardinality(S) \in Nat /\ Cardinality(S) <= Cardinality(Running)
  BY <1>2, FS_Subset, FS_CardinalityType
<1>4. \A S : S \subseteq collector => Cardinality(S) \in Nat /\ Cardinality(S) <= Cardinality(collector)
  BY <1>2, FS_Subset, FS_CardinalityType
<1>5. ASSUME NEW i, NEW S, IsFiniteSet(S) PROVE Cardinality(S \cup {i}) <= Cardinality(S) + 1
  BY <1>5, FS_AddElement, FS_CardinalityType
<1>6. CASE Place
  <2>1. Running' = Running /\ collector' = collector /\ disp' = "receive" /\ Cardinality(Running) < workers
    BY <1>6 DEF Place, Running, mappers, collecting
  <2> QED  BY <1>1, <1>2, <2>1 DEF MapCounts
<1>7. CASE Item
  <2>1. PICK i \in unsent : mapper' = [mapper EXCEPT ![i] = "map"]
    BY <1>7 DEF Item, MapperAt
  <2>2. i \in Items /\ mapper[i] = "none"
    BY DEF MapTypes
  <2>3. Running' = Running \cup {i} /\ collector' = collector /\ disp = "receive" /\ disp' = "loop"
    BY <1>1, <1>7, <2>1, <2>2 DEF Item, Running, collecting
  <2>4. Cardinality(Running') <= Cardinality(Running) + 1 /\ Cardinality(Running') \in Nat
    BY <1>2, <1>5, <2>3, FS_AddElement, FS_CardinalityType
  <2> QED  BY <1>1, <1>2, <2>3, <2>4 DEF MapCounts
<1>8. ASSUME NEW i \in Items, Collect(i) PROVE MapCounts'
  <2>1. Running' \subseteq Running /\ disp' = disp
    BY <1>1, <1>8 DEF Collect, MapperAt, Running
  <2>2. collector' = collector \cup {i} /\ Cardinality(collector) < workers
    BY <1>8 DEF Collect
  <2>3. Cardinality(collector') <= Cardinality(collector) + 1 /\ Cardinality(collector') \in Nat
    BY <1>2, <1>5, <2>2, FS_AddElement, FS_CardinalityType
  <2>4. Cardinality(Running') \in Nat /\ Cardinality(Running') <= Cardinality(Running)
    BY <1>3, <2>1
  <2> QED  BY <1>1, <1>2, <2>1, <2>2, <2>3, <2>4 DEF MapCounts
<1>9. ASSUME collector' \subseteq collector, Running' \subseteq Running, disp' # "receive" \/ disp' = disp
      PROVE  MapCounts'
  <2>1. Cardinality(Running') \in Nat /\ Cardinality(Running') <= Cardinality(Running)
    BY <1>3, <1>9
  <2>2. Cardinality(collector') \in Nat /\ Cardinality(collector') <= Cardinality(collector)
    BY <1>4, <1>9
  <2> QED  BY <1>1, <1>2, <1>9, <2>1, <2>2 DEF MapCounts
<1>10. ASSUME NEW i \in Items, MapWrites(i) \/ MapReturns(i) \/ MapPanics(i) \/ MapCancels(i) \/ MapCancelled(i)
       PROVE  MapCounts'
  <2>1. collector' = collector /\ disp' = disp /\ mapper[i] \in {"map", "cancel"}
    BY <1>10 DEF MapWrites, MapReturns, MapPanics, MapCancels, MapCancelled, collecting
  <2>2. \E s \in MapStates : mapper' = [mapper EXCEPT ![i] = s]
    BY <1>10 DEF MapWrites, MapReturns, MapPanics, MapCancels, MapCancelled, MapperAt, MapStates
  <2>3. Running' \subseteq Running
    BY <1>1, <2>1, <2>2 DEF Running
  <2> QED  BY <1>9, <2>1, <2>3
<1>11. CASE MainPanics
  <2>1. collector' = collector /\ disp' = disp
    BY <1>11 DEF MainPanics, collecting
  <2>2. mapper' = mapper \/ \E i \in Items : mapper' = [mapper EXCEPT ![i] = "end"]
    BY <1>11 DEF MainPanics, MapperAt
  <2>3. Running' \subseteq Running
    BY <1>1, <2>2 DEF Running
  <2> QED  BY <1>9, <2>1, <2>3
<1>12. CASE Generated \/ GeneratePanics \/ Discard \/ StopMapping \/ MappersDone \/ SourceDrained
  <2>1. UNCHANGED <<collector, mapper>> /\ (disp' # "receive" \/ disp' = disp)
    BY <1>12 DEF Generated, GeneratePanics, Discard, StopMapping, MappersDone, SourceDrained, mappers, collecting
  <2> QED  BY <1>9, <2>1 DEF Running
<1>13. CASE \/ Reduce \/ ReduceWrites \/ ReduceReturns \/ SendPanics \/ ReduceCancels \/ ReduceCancelled
            \/ DrainCollector \/ CollectorDrained \/ Finish
  <2>1. UNCHANGED <<disp, mapper>> /\ collector' \subseteq collector
    BY <1>13 DEF Reduce, ReduceWrites, ReduceReturns, SendPanics, ReduceCancels, ReduceCancelled, DrainCollector,
           CollectorDrained, Finish, mappers, collecting
  <2> QED  BY <1>9, <2>1 DEF Running
<1>14. CASE Expire \/ MainCancels \/ MainCancelled \/ Output \/ MoreOutput \/ Return \/ EachReturns
  <2>1. UNCHANGED <<disp, mapper, collector>>
    BY <1>14 DEF Expire, MainCancels, MainCancelled, Output, MoreOutput, Return, EachReturns, mappers, collecting
  <2> QED  BY <1>9, <2>1 DEF Running
<1> QED  BY <1>6, <1>7, <1>8, <1>10, <1>11, <1>12, <1>13, <1>14
         DEF MapReduceNext, Generating, Executing, Reducing, MainSteps, Mapping

\* The invariant holds at the start.
LEMMA MapStart == MapReduceInit => MapInv
<1> SUFFICES ASSUME MapReduceInit PROVE MapInv
  OBVIOUS
<1>1. MapTypes
  BY MapReduceAssumption DEF MapReduceInit, MapTypes, MapStates
<1>2. Running = {} /\ collector = {} /\ disp = "loop"
  BY DEF MapReduceInit, Running
<1>3. MapCounts
  BY <1>1, <1>2, FS_EmptySet DEF MapCounts, MapTypes
<1>4. MapClosing /\ MapCancelling /\ MapPanicking
  BY DEF MapReduceInit, MapClosing, MapCancelling, MapPanicking
<1>5. MapEach /\ MapClean /\ MapValues
  BY DEF MapReduceInit, MapEach, MapClean, MapValues
<1> QED  BY <1>1, <1>3, <1>4, <1>5 DEF MapInv

\* Every step keeps the invariant.
LEMMA MapStep == MapInv /\ [MapReduceNext]_mapReduceVars => MapInv'
<1> SUFFICES ASSUME MapInv, [MapReduceNext]_mapReduceVars PROVE MapInv'
  OBVIOUS
<1>1. CASE MapReduceNext
  BY <1>1, MapTypesStep, MapCountsStep, MapClosingStep, MapCancellingStep, MapPanickingStep, MapEachStep, MapCleanStep,
     MapValuesStep DEF MapInv
<1>2. CASE UNCHANGED mapReduceVars
  <2>1. /\ UNCHANGED <<each, workers, gen, unsent, disp, mapper, mapFailed, collector, closedC, reducer, reduced>>
        /\ UNCHANGED <<readAll, early, main, result, done, ctxDone, wrote, retErr, canceller>>
    BY <1>2 DEF mapReduceVars, source, mappers, collecting, reducing, mainVars, cancelling
  <2>2. MapTypes' /\ MapCounts' /\ MapClosing'
    BY <2>1 DEF MapInv, MapTypes, MapCounts, MapClosing, Running
  <2>3. MapCancelling' /\ MapPanicking' /\ MapEach'
    BY <2>1 DEF MapInv, MapCancelling, MapPanicking, MapEach
  <2>4. MapClean' /\ MapValues'
    BY <2>1 DEF MapInv, MapClean, MapValues, AllReduced
  <2> QED  BY <2>2, <2>3, <2>4 DEF MapInv
<1> QED  BY <1>1, <1>2

\* Of every MapReduce and ForEach (Executing): no more mappers than workers,
\* and no send on collector once it is closed.
THEOREM CollectorAlwaysSound == MapReduceSpec => []CollectorSound
<1>1. MapInv => WorkersBounded
  BY DEF MapInv, MapTypes, MapCounts, MapStates, WorkersBounded
<1>2. MapInv => NoLateWrite
  BY DEF MapInv, MapClosing, NoLateWrite, Running
<1> QED  BY <1>1, <1>2, MapStart, MapStep, PTL DEF MapReduceSpec, CollectorSound

\* Of every MapReduce and ForEach (mapReduceWithPanicChan): a result that comes
\* without an error or a panic is a complete one.
THEOREM AlwaysComplete == MapReduceSpec => []Complete
<1>1. MapInv => Complete
  BY DEF MapInv, MapValues, AllReduced, Complete
<1> QED  BY <1>1, MapStart, MapStep, PTL DEF MapReduceSpec
=============================================================================
