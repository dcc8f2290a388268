--------------------------- MODULE RegistryProofs ---------------------------
(***************************************************************************)
(* The registry for any listeners, reloads, names and values, and any      *)
(* number of changes and failures.                                         *)
(*                                                                         *)
(* RegistryExact says what c.values is when the watches rest.  In between  *)
(* several loads and watches may write to it in any order, older values    *)
(* over newer ones too.  RegValues is what every step keeps: of each name, *)
(* c.values has the last value, or some goroutine has the last change of   *)
(* the name still ahead of it (Pending).  The other parts of RegInv are    *)
(* what this rests on: who holds c.lock, how far each watch is in the log, *)
(* and what a goroutine that loads or watches may rely on.                 *)
(***************************************************************************)
EXTENDS Registry, TLAPS

\* The provers of a leaf, in turn, and their time.
USE ZenonT(5), SMTT(30)

\* Of a watch: an answer is handled; the watch has loaded.
Handling == {"handleWatchEvents", "event", "tell"}
Loaded == {"changes", "watch"} \cup Handling
\* From the start of a load to the end of the watch after it.
Busy == {"wait", "run", "load", "handleChanges"} \cup Loaded
Labels == {"idle", "current", "getClient", "failed", "exited"} \cup Busy

RegLog ==
  /\ log \in Seq([name : Names, val : NameValues \cup {None}])
  /\ Len(log) <= MaxChanges /\ compacted \in 0..Len(log) /\ failures \in 0..MaxFailures

RegFlags == exists \in BOOLEAN /\ connected \in BOOLEAN

RegLocals ==
  /\ listeners \subseteq Listeners /\ gen \in Nat
  /\ pc \in [Procs -> Labels] /\ heard \in [Procs -> SUBSET Listeners]
  /\ rev \in [Procs -> 0..Len(log)] /\ pos \in [Procs -> 0..Len(log)] /\ upto \in [Procs -> 0..Len(log)]
  /\ group \in [Procs -> 0..gen \cup {None}]

\* The reload that waits for the watches holds c.lock, and has closed c.done.
RegLock ==
  /\ lock \in Reloads \cup {None} /\ closed = (lock # None)
  /\ \A p \in Procs : pc[p] = "wait" <=> lock = p

\* A watch that handles an answer is before its end, and never before its load.
RegPlace ==
  /\ \A p \in Procs : pc[p] \in Handling => pos[p] < upto[p]
  /\ \A p \in Procs : pc[p] \in {"watch"} \cup Handling => rev[p] <= pos[p]

\* A load or a watch has a client, has listeners to tell, and writes to a map
\* of names.
RegStage ==
  /\ \A p \in Procs : pc[p] \in Busy => connected
  /\ \A p \in Procs : pc[p] \in {"getClient"} \cup (Busy \ {"wait"}) => listeners # {}
  /\ \A p \in Procs : pc[p] \in Loaded => /\ DOMAIN values \subseteq Names
                                          /\ values = [n \in DOMAIN values |-> values[n]]

\* The changes of a name have a last one.
LogNewest ==
  \A n \in Names : Changes(n, Len(log)) # {} =>
    \E i \in Changes(n, Len(log)) : \A j \in Changes(n, Len(log)) : j <= i

\* A change of the name comes after the first k.
Ahead(n, k) == \E i \in k + 1..Len(log) : log[i].name = n

\* The goroutine has still to write the last change of the name to c.values.
Pending(p, n) ==
  \/ pc[p] \in {"wait", "run", "load", "getClient", "handleChanges"}
  \/ pc[p] = "changes" /\ Ahead(n, rev[p])
  \/ pc[p] \in {"watch", "handleWatchEvents", "event"} /\ Ahead(n, pos[p])
  \/ pc[p] = "tell" /\ Ahead(n, pos[p] + 1)

\* c.values has what the last change of the name says.
Agrees(n) ==
  /\ n \in DOMAIN values <=> n \in Live(Len(log))
  /\ n \in Live(Len(log)) => values[n] = State(Len(log))[n]

\* Nothing is lost: each name is right, or still to be written by someone.
RegValues ==
  (\E p \in Procs : pc[p] \in Busy) =>
    \A n \in Names : (\E p \in Procs : Pending(p, n)) \/ Agrees(n)

RegInv ==
  /\ RegLog /\ RegFlags /\ RegLocals /\ RegLock /\ RegPlace /\ RegStage
  /\ LogNewest /\ RegValues /\ NoOldWatch

\* An element of a log is a change.
LEMMA LogElement == ASSUME NEW S, NEW s \in Seq(S), NEW i \in 1..Len(s) PROVE s[i] \in S
  OBVIOUS

\* exists and connected stay Boolean.
LEMMA RegFlagsStep ==
  ASSUME RegFlags, Next
  PROVE  RegFlags'
<1>0. Listeners \subseteq Procs /\ Reloads \subseteq Procs
  BY DEF Procs
<1>1. CASE \/ \E n \in Names, v \in NameValues \cup {None} : Change(n, v)
          \/ Compact \/ \E r \in Reloads : reload(r)
  BY ZenonT(30), <1>0, <1>1 DEF Change, Compact, reload, etcd, shared, locking, locals, Goto, Free, RegFlags
<1>2. CASE \E l \in Listeners : MonitorNew(l) \/ getCurrent(l) \/ getClientFails(l)
  BY ZenonT(30), <1>0, <1>2 DEF MonitorNew, getCurrent, getClientFails, etcd, shared, locking, locals, Goto,
         Free, RegFlags
<1>3. ASSUME NEW p \in Procs, StreamFails(p) \/ Step(p) PROVE RegFlags'
  <2>1. CASE (p \in Listeners /\ monitor(p)) \/ StreamFails(p) \/ Get(p) \/ handleChanges(p) \/ TellAdd(p) \/ TellRemove(p) \/ Watch(p)
    BY ZenonT(30), <2>1 DEF monitor, StreamFails, Get, handleChanges, TellAdd, TellRemove, Watch, etcd, shared,
           locking, locals, Goto, Free, RegFlags
  <2>2. CASE Receive(p) \/ handleWatchEvents(p) \/ ErrCompacted(p) \/ Done(p) \/ Event(p) \/ TellEvent(p)
    BY ZenonT(30), <2>2 DEF Receive, handleWatchEvents, ErrCompacted, Done, Event, TellEvent, etcd, shared,
           locking, locals, Goto, Free, RegFlags
  <2>3. CASE (p \in Reloads /\ WatchesEnd(p)) \/ (p \in Reloads /\ Run(p))
    BY ZenonT(30), <2>3 DEF WatchesEnd, Run, etcd, shared, locking, locals, Goto, Free, RegFlags
  <2> QED  BY <1>3, <2>1, <2>2, <2>3
           DEF Step, Loading, Watching, Reloading
<1> QED  BY <1>1, <1>2, <1>3 DEF Next

\* Every step keeps the types of what the goroutines know: none is ahead of
\* the log.
LEMMA RegLocalsStep ==
  ASSUME RegLog, RegLocals, RegPlace, Next
  PROVE  RegLocals'
<1>0. Listeners \subseteq Procs /\ Reloads \subseteq Procs
  BY DEF Procs
<1>1. CASE \E n \in Names, v \in NameValues \cup {None} : Change(n, v)
  BY <1>1 DEF Change, etcd, shared, locking, locals, Goto, Free, RegLog, RegLocals, RegPlace, Handling, Loaded,
         Busy, Labels
<1>2. CASE Compact
  BY <1>2 DEF Compact, etcd, shared, locking, locals, Goto, Free, RegLog, RegLocals, RegPlace, Handling, Loaded,
         Busy, Labels
<1>3. CASE \E l \in Listeners : MonitorNew(l) \/ getCurrent(l) \/ getClientFails(l)
  <2>1. PICK l \in Listeners : MonitorNew(l) \/ getCurrent(l) \/ getClientFails(l)
    BY <1>3
  <2>2. l \in Procs /\ UNCHANGED <<log, listeners, gen, rev, pos, upto, group>>
    BY <1>0, <2>1 DEF MonitorNew, getCurrent, getClientFails, etcd, shared, locking, locals
  <2>3. pc' = [pc EXCEPT ![l] = "current"] \/ pc' = [pc EXCEPT ![l] = "failed"]
    BY <2>1 DEF MonitorNew, getCurrent, getClientFails, Goto
  <2>4. pc' \in [Procs -> Labels]
    BY <2>2, <2>3 DEF RegLocals, Labels, Busy, Loaded, Handling
  <2>5. heard' = heard \/ heard' = [heard EXCEPT ![l] = {l}]
    BY <2>1 DEF MonitorNew, getCurrent, getClientFails, locals
  <2>6. heard' \in [Procs -> SUBSET Listeners]
    <3>1. {l} \in SUBSET Listeners /\ heard \in [Procs -> SUBSET Listeners]
      BY DEF RegLocals
    <3> QED  BY <2>2, <2>5, <3>1
  <2> QED  BY <2>2, <2>4, <2>6 DEF RegLocals
<1>4. CASE \E r \in Reloads : reload(r)
  BY <1>0, <1>4 DEF reload, etcd, shared, locking, locals, Goto, Free, RegLog, RegLocals, RegPlace, Handling,
         Loaded, Busy, Labels
<1>5. ASSUME NEW p \in Procs, StreamFails(p) \/ Step(p) PROVE RegLocals'
  <2>1. CASE p \in Listeners /\ monitor(p)
    BY <2>1 DEF monitor, etcd, shared, locking, locals, Goto, Free, RegLog, RegLocals, RegPlace, Handling,
           Loaded, Busy, Labels
  <2>2. CASE StreamFails(p)
    BY <2>2 DEF StreamFails, etcd, shared, locking, locals, Goto, Free, RegLog, RegLocals, RegPlace, Handling,
           Loaded, Busy, Labels
  <2>3. CASE Get(p)
    BY <2>3 DEF Get, etcd, shared, locking, locals, Goto, Free, RegLog, RegLocals, RegPlace, Handling, Loaded,
           Busy, Labels
  <2>4. CASE handleChanges(p)
    BY <2>4 DEF handleChanges, etcd, shared, locking, locals, Goto, Free, RegLog, RegLocals, RegPlace, Handling,
           Loaded, Busy, Labels
  <2>5. CASE TellAdd(p) \/ TellRemove(p)
    BY <2>5 DEF TellAdd, TellRemove, etcd, shared, locking, locals, Goto, Free, RegLog, RegLocals, RegPlace,
           Handling, Loaded, Busy, Labels
  <2>6. CASE Watch(p)
    BY <2>6 DEF Watch, etcd, shared, locking, locals, Goto, Free, RegLog, RegLocals, RegPlace, Handling, Loaded,
           Busy, Labels
  <2>7. CASE Receive(p)
    <3>1. log' = log /\ upto' \in [Procs -> 0..Len(log)]
      BY <2>7 DEF Receive, etcd, RegLog, RegLocals
    <3>2. pc' \in [Procs -> Labels]
      BY <2>7 DEF Receive, Goto, RegLocals, Labels, Busy, Loaded, Handling
    <3>3. UNCHANGED <<listeners, gen, rev, pos, heard, group>>
      BY <2>7 DEF Receive, shared, locking
    <3> QED  BY <3>1, <3>2, <3>3 DEF RegLocals
  <2>8. CASE handleWatchEvents(p)
    BY <2>8 DEF handleWatchEvents, etcd, shared, locking, locals, Goto, Free, RegLog, RegLocals, RegPlace,
           Handling, Loaded, Busy, Labels
  <2>9. CASE ErrCompacted(p)
    BY <2>9 DEF ErrCompacted, etcd, shared, locking, locals, Goto, Free, RegLog, RegLocals, RegPlace, Handling,
           Loaded, Busy, Labels
  <2>10. CASE Done(p)
    BY <2>10 DEF Done, etcd, shared, locking, locals, Goto, Free, RegLog, RegLocals, RegPlace, Handling, Loaded,
           Busy, Labels
  <2>11. CASE Event(p)
    BY <2>11 DEF Event, etcd, shared, locking, locals, Goto, Free, RegLog, RegLocals, RegPlace, Handling,
           Loaded, Busy, Labels
  <2>12. CASE TellEvent(p)
    <3>1. pos[p] + 1 \in 0..Len(log) /\ 0 \in 0..Len(log)
      BY <2>12 DEF TellEvent, RegLog, RegLocals, RegPlace, Handling
    <3>2. pos' \in [Procs -> 0..Len(log)] /\ upto' \in [Procs -> 0..Len(log)] /\ log' = log
      BY <2>12, <3>1 DEF TellEvent, etcd, RegLocals
    <3>3. pc' \in [Procs -> Labels] /\ heard' \in [Procs -> SUBSET Listeners]
      BY <2>12 DEF TellEvent, Goto, RegLocals, Labels, Busy, Loaded, Handling
    <3>4. UNCHANGED <<listeners, gen, rev, group>>
      BY <2>12 DEF TellEvent, shared, locking
    <3> QED  BY <3>2, <3>3, <3>4 DEF RegLocals
  <2>13. CASE p \in Reloads /\ WatchesEnd(p)
    BY <2>13 DEF WatchesEnd, etcd, shared, locking, locals, Goto, Free, RegLog, RegLocals, RegPlace, Handling,
           Loaded, Busy, Labels
  <2>14. CASE p \in Reloads /\ Run(p)
    BY <2>14 DEF Run, etcd, shared, locking, locals, Goto, Free, RegLog, RegLocals, RegPlace, Handling, Loaded,
           Busy, Labels
  <2> QED  BY <1>5, <2>1, <2>2, <2>3, <2>4, <2>5, <2>6, <2>7, <2>8, <2>9, <2>10, <2>11, <2>12, <2>13, <2>14
           DEF Step, Loading, Watching, Reloading
<1> QED  BY <1>1, <1>2, <1>3, <1>4, <1>5 DEF Next

\* Every step keeps c.lock and c.done in step with the reload that waits.
LEMMA RegLockStep ==
  ASSUME RegLocals, RegLock, Next
  PROVE  RegLock'
<1>0. Listeners \subseteq Procs /\ Reloads \subseteq Procs
  BY DEF Procs
<1>1. CASE \E n \in Names, v \in NameValues \cup {None} : Change(n, v)
  BY RegistryAssumption, <1>1 DEF Change, etcd, shared, locking, locals, Goto, Free, RegLocals, RegLock, Procs,
         Handling, Loaded, Busy, Labels
<1>2. CASE Compact
  BY RegistryAssumption, <1>2 DEF Compact, etcd, shared, locking, locals, Goto, Free, RegLocals, RegLock, Procs,
         Handling, Loaded, Busy, Labels
<1>3. CASE \E l \in Listeners : MonitorNew(l) \/ getCurrent(l) \/ getClientFails(l)
  BY RegistryAssumption, <1>0, <1>3 DEF MonitorNew, getCurrent, getClientFails, etcd, shared, locking, locals,
         Goto, Free, RegLocals, RegLock, Procs, Handling, Loaded, Busy, Labels
<1>4. CASE \E r \in Reloads : reload(r)
  <2>1. PICK r \in Reloads : reload(r)
    BY <1>4
  <2>2. /\ lock = None /\ lock' = r /\ closed' = TRUE /\ pc[r] = "idle" /\ pc' = [pc EXCEPT ![r] = "wait"]
        /\ r # None /\ r \in Procs
    BY <1>0, <2>1, RegistryAssumption DEF reload, Free, Goto
  <2>3. \A p \in Procs : p # None /\ pc[p] # "wait"
    BY <2>2, RegistryAssumption DEF RegLock, Procs
  <2>4. \A p \in Procs : pc'[p] = "wait" <=> p = r
    BY <2>2, <2>3 DEF RegLocals
  <2> QED  BY <2>2, <2>4 DEF RegLock
<1>5. ASSUME NEW p \in Procs, StreamFails(p) \/ Step(p) PROVE RegLock'
  <2>1. CASE p \in Listeners /\ monitor(p)
    BY RegistryAssumption, <2>1 DEF monitor, etcd, shared, locking, locals, Goto, Free, RegLocals, RegLock,
           Procs, Handling, Loaded, Busy, Labels
  <2>2. CASE StreamFails(p)
    BY RegistryAssumption, <2>2 DEF StreamFails, etcd, shared, locking, locals, Goto, Free, RegLocals, RegLock,
           Procs, Handling, Loaded, Busy, Labels
  <2>3. CASE Get(p)
    BY RegistryAssumption, <2>3 DEF Get, etcd, shared, locking, locals, Goto, Free, RegLocals, RegLock, Procs,
           Handling, Loaded, Busy, Labels
  <2>4. CASE handleChanges(p)
    BY RegistryAssumption, <2>4 DEF handleChanges, etcd, shared, locking, locals, Goto, Free, RegLocals,
           RegLock, Procs, Handling, Loaded, Busy, Labels
  <2>5. CASE TellAdd(p) \/ TellRemove(p)
    BY RegistryAssumption, <2>5 DEF TellAdd, TellRemove, etcd, shared, locking, locals, Goto, Free, RegLocals,
           RegLock, Procs, Handling, Loaded, Busy, Labels
  <2>6. CASE Watch(p)
    BY RegistryAssumption, <2>6 DEF Watch, etcd, shared, locking, locals, Goto, Free, RegLocals, RegLock, Procs,
           Handling, Loaded, Busy, Labels
  <2>7. CASE Receive(p) \/ handleWatchEvents(p)
    BY RegistryAssumption, <2>7 DEF Receive, handleWatchEvents, etcd, shared, locking, locals, Goto, Free,
           RegLocals, RegLock, Procs, Handling, Loaded, Busy, Labels
  <2>8. CASE ErrCompacted(p)
    BY RegistryAssumption, <2>8 DEF ErrCompacted, etcd, shared, locking, locals, Goto, Free, RegLocals, RegLock,
           Procs, Handling, Loaded, Busy, Labels
  <2>9. CASE Done(p)
    BY RegistryAssumption, <2>9 DEF Done, etcd, shared, locking, locals, Goto, Free, RegLocals, RegLock, Procs,
           Handling, Loaded, Busy, Labels
  <2>10. CASE Event(p)
    BY RegistryAssumption, <2>10 DEF Event, etcd, shared, locking, locals, Goto, Free, RegLocals, RegLock,
           Procs, Handling, Loaded, Busy, Labels
  <2>11. CASE TellEvent(p)
    BY RegistryAssumption, <2>11 DEF TellEvent, etcd, shared, locking, locals, Goto, Free, RegLocals, RegLock,
           Procs, Handling, Loaded, Busy, Labels
  <2>12. CASE p \in Reloads /\ WatchesEnd(p)
    BY RegistryAssumption, <2>12 DEF WatchesEnd, etcd, shared, locking, locals, Goto, Free, RegLocals, RegLock,
           Procs, Handling, Loaded, Busy, Labels
  <2>13. CASE p \in Reloads /\ Run(p)
    BY RegistryAssumption, <2>13 DEF Run, etcd, shared, locking, locals, Goto, Free, RegLocals, RegLock, Procs,
           Handling, Loaded, Busy, Labels
  <2> QED  BY <1>5, <2>1, <2>2, <2>3, <2>4, <2>5, <2>6, <2>7, <2>8, <2>9, <2>10, <2>11, <2>12, <2>13
           DEF Step, Loading, Watching, Reloading
<1> QED  BY <1>1, <1>2, <1>3, <1>4, <1>5 DEF Next

\* Every step keeps the places of the watches in the log.
LEMMA RegPlaceStep ==
  ASSUME RegLog, RegLocals, RegPlace, Next
  PROVE  RegPlace'
<1>0. Listeners \subseteq Procs /\ Reloads \subseteq Procs
  BY DEF Procs
<1>1. CASE \E n \in Names, v \in NameValues \cup {None} : Change(n, v)
  BY <1>1 DEF Change, etcd, shared, locking, locals, Goto, Free, RegLog, RegLocals, RegPlace, Handling, Loaded,
         Busy, Labels
<1>2. CASE Compact
  BY <1>2 DEF Compact, etcd, shared, locking, locals, Goto, Free, RegLog, RegLocals, RegPlace, Handling, Loaded,
         Busy, Labels
<1>3. CASE \E l \in Listeners : MonitorNew(l) \/ getCurrent(l) \/ getClientFails(l)
  BY <1>0, <1>3 DEF MonitorNew, getCurrent, getClientFails, etcd, shared, locking, locals, Goto, Free, RegLog,
         RegLocals, RegPlace, Handling, Loaded, Busy, Labels
<1>4. CASE \E r \in Reloads : reload(r)
  BY <1>0, <1>4 DEF reload, etcd, shared, locking, locals, Goto, Free, RegLog, RegLocals, RegPlace, Handling,
         Loaded, Busy, Labels
<1>5. ASSUME NEW p \in Procs, StreamFails(p) \/ Step(p) PROVE RegPlace'
  <2>1. CASE p \in Listeners /\ monitor(p)
    BY <2>1 DEF monitor, etcd, shared, locking, locals, Goto, Free, RegLog, RegLocals, RegPlace, Handling,
           Loaded, Busy, Labels
  <2>2. CASE StreamFails(p)
    BY <2>2 DEF StreamFails, etcd, shared, locking, locals, Goto, Free, RegLog, RegLocals, RegPlace, Handling,
           Loaded, Busy, Labels
  <2>3. CASE Get(p)
    BY <2>3 DEF Get, etcd, shared, locking, locals, Goto, Free, RegLog, RegLocals, RegPlace, Handling, Loaded,
           Busy, Labels
  <2>4. CASE handleChanges(p)
    BY <2>4 DEF handleChanges, etcd, shared, locking, locals, Goto, Free, RegLog, RegLocals, RegPlace, Handling,
           Loaded, Busy, Labels
  <2>5. CASE TellAdd(p) \/ TellRemove(p)
    BY <2>5 DEF TellAdd, TellRemove, etcd, shared, locking, locals, Goto, Free, RegLog, RegLocals, RegPlace,
           Handling, Loaded, Busy, Labels
  <2>6. CASE Watch(p)
    BY <2>6 DEF Watch, etcd, shared, locking, locals, Goto, Free, RegLog, RegLocals, RegPlace, Handling, Loaded,
           Busy, Labels
  <2>7. CASE Receive(p)
    BY <2>7 DEF Receive, etcd, shared, locking, locals, Goto, Free, RegLog, RegLocals, RegPlace, Handling,
           Loaded, Busy, Labels
  <2>8. CASE handleWatchEvents(p)
    BY <2>8 DEF handleWatchEvents, etcd, shared, locking, locals, Goto, Free, RegLog, RegLocals, RegPlace,
           Handling, Loaded, Busy, Labels
  <2>9. CASE ErrCompacted(p)
    BY <2>9 DEF ErrCompacted, etcd, shared, locking, locals, Goto, Free, RegLog, RegLocals, RegPlace, Handling,
           Loaded, Busy, Labels
  <2>10. CASE Done(p)
    BY <2>10 DEF Done, etcd, shared, locking, locals, Goto, Free, RegLog, RegLocals, RegPlace, Handling, Loaded,
           Busy, Labels
  <2>11. CASE Event(p)
    BY <2>11 DEF Event, etcd, shared, locking, locals, Goto, Free, RegLog, RegLocals, RegPlace, Handling,
           Loaded, Busy, Labels
  <2>12. CASE TellEvent(p)
    BY <2>12 DEF TellEvent, etcd, shared, locking, locals, Goto, Free, RegLog, RegLocals, RegPlace, Handling,
           Loaded, Busy, Labels
  <2>13. CASE p \in Reloads /\ WatchesEnd(p)
    BY <2>13 DEF WatchesEnd, etcd, shared, locking, locals, Goto, Free, RegLog, RegLocals, RegPlace, Handling,
           Loaded, Busy, Labels
  <2>14. CASE p \in Reloads /\ Run(p)
    BY <2>14 DEF Run, etcd, shared, locking, locals, Goto, Free, RegLog, RegLocals, RegPlace, Handling, Loaded,
           Busy, Labels
  <2> QED  BY <1>5, <2>1, <2>2, <2>3, <2>4, <2>5, <2>6, <2>7, <2>8, <2>9, <2>10, <2>11, <2>12, <2>13, <2>14
           DEF Step, Loading, Watching, Reloading
<1> QED  BY <1>1, <1>2, <1>3, <1>4, <1>5 DEF Next

\* Every step keeps what is known of a goroutine that loads or watches.
LEMMA RegStageStep ==
  ASSUME RegLog, RegLocals, RegLock, RegPlace, RegStage, Next
  PROVE  RegStage'
<1>0. Listeners \subseteq Procs /\ Reloads \subseteq Procs
  BY DEF Procs
<1>1. CASE \E n \in Names, v \in NameValues \cup {None} : Change(n, v)
  BY <1>1 DEF Change, etcd, shared, locking, locals, Goto, Free, RegLocals, RegLock, RegStage, Handling, Loaded,
         Busy, Labels
<1>2. CASE Compact
  BY <1>2 DEF Compact, etcd, shared, locking, locals, Goto, Free, RegLocals, RegLock, RegStage, Handling,
         Loaded, Busy, Labels
<1>3. CASE \E l \in Listeners : MonitorNew(l) \/ getCurrent(l) \/ getClientFails(l)
  BY <1>0, <1>3 DEF MonitorNew, getCurrent, getClientFails, etcd, shared, locking, locals, Goto, Free,
         RegLocals, RegLock, RegStage, Handling, Loaded, Busy, Labels
<1>4. CASE \E r \in Reloads : reload(r)
  BY <1>0, <1>4 DEF reload, etcd, shared, locking, locals, Goto, Free, RegLocals, RegLock, RegStage, Handling,
         Loaded, Busy, Labels
<1>5. ASSUME NEW p \in Procs, StreamFails(p) \/ Step(p) PROVE RegStage'
  <2>1. CASE p \in Listeners /\ monitor(p)
    BY <2>1 DEF monitor, etcd, shared, locking, locals, Goto, Free, RegLocals, RegLock, RegStage, Handling,
           Loaded, Busy, Labels
  <2>2. CASE StreamFails(p)
    BY <2>2 DEF StreamFails, etcd, shared, locking, locals, Goto, Free, RegLocals, RegLock, RegStage, Handling,
           Loaded, Busy, Labels
  <2>3. CASE Get(p)
    BY <2>3 DEF Get, etcd, shared, locking, locals, Goto, Free, RegLocals, RegLock, RegStage, Handling, Loaded,
           Busy, Labels
  <2>4. CASE handleChanges(p)
    <3>1. DOMAIN values' \subseteq Names /\ values' = [n \in DOMAIN values' |-> values'[n]]
      BY <2>4 DEF handleChanges, State, Live
    <3>2. UNCHANGED <<connected, listeners>> /\ pc[p] = "handleChanges" /\ pc' = [pc EXCEPT ![p] = "changes"]
      BY <2>4 DEF handleChanges, Goto
    <3> QED  BY <3>1, <3>2 DEF RegLocals, RegStage, Handling, Loaded, Busy, Labels
  <2>5. CASE TellAdd(p) \/ TellRemove(p)
    BY <2>5 DEF TellAdd, TellRemove, etcd, shared, locking, locals, Goto, Free, RegLocals, RegLock, RegStage,
           Handling, Loaded, Busy, Labels
  <2>6. CASE Watch(p)
    BY <2>6 DEF Watch, etcd, shared, locking, locals, Goto, Free, RegLocals, RegLock, RegStage, Handling,
           Loaded, Busy, Labels
  <2>7. CASE Receive(p)
    BY <2>7 DEF Receive, etcd, shared, locking, locals, Goto, Free, RegLocals, RegLock, RegStage, Handling,
           Loaded, Busy, Labels
  <2>8. CASE handleWatchEvents(p)
    BY <2>8 DEF handleWatchEvents, etcd, shared, locking, locals, Goto, Free, RegLocals, RegLock, RegStage,
           Handling, Loaded, Busy, Labels
  <2>9. CASE ErrCompacted(p)
    BY <2>9 DEF ErrCompacted, etcd, shared, locking, locals, Goto, Free, RegLocals, RegLock, RegStage, Handling,
           Loaded, Busy, Labels
  <2>10. CASE Done(p)
    BY <2>10 DEF Done, etcd, shared, locking, locals, Goto, Free, RegLocals, RegLock, RegStage, Handling,
           Loaded, Busy, Labels
  <2>11. CASE Event(p)
    <3>1. log[pos[p] + 1].name \in Names
      <4>1. pos[p] + 1 \in 1..Len(log)
        BY <2>11 DEF Event, RegLog, RegLocals, RegPlace, Handling
      <4>2. log[pos[p] + 1] \in [name : Names, val : NameValues \cup {None}]
        BY <4>1, LogElement DEF RegLog
      <4> QED  BY <4>2
    <3>2. DOMAIN values \subseteq Names
      BY <2>11 DEF Event, RegStage, Handling, Loaded
    <3>3. DOMAIN values' \subseteq Names /\ values' = [n \in DOMAIN values' |-> values'[n]]
      BY <2>11, <3>1, <3>2 DEF Event, Restrict
    <3>4. UNCHANGED <<connected, listeners>> /\ pc[p] = "event" /\ pc' = [pc EXCEPT ![p] = "tell"]
      BY <2>11 DEF Event, Goto
    <3> QED  BY <3>3, <3>4 DEF RegLocals, RegStage, Handling, Loaded, Busy, Labels
  <2>12. CASE TellEvent(p)
    <3>1. UNCHANGED <<connected, listeners, values>> /\ pc[p] = "tell"
      BY <2>12 DEF TellEvent, shared
    <3>2. pc' = [pc EXCEPT ![p] = "watch"] \/ pc' = [pc EXCEPT ![p] = "event"]
      BY <2>12 DEF TellEvent, Goto
    <3> QED  BY <3>1, <3>2 DEF RegLocals, RegStage, Handling, Loaded, Busy, Labels
  <2>13. CASE p \in Reloads /\ WatchesEnd(p)
    BY <2>13 DEF WatchesEnd, etcd, shared, locking, locals, Goto, Free, RegLocals, RegLock, RegStage, Handling,
           Loaded, Busy, Labels
  <2>14. CASE p \in Reloads /\ Run(p)
    BY <2>14 DEF Run, etcd, shared, locking, locals, Goto, Free, RegLocals, RegLock, RegStage, Handling, Loaded,
           Busy, Labels
  <2> QED  BY <1>5, <2>1, <2>2, <2>3, <2>4, <2>5, <2>6, <2>7, <2>8, <2>9, <2>10, <2>11, <2>12, <2>13, <2>14
           DEF Step, Loading, Watching, Reloading
<1> QED  BY <1>1, <1>2, <1>3, <1>4, <1>5 DEF Next

\* A new watchGroup starts when no watch is left in the old one.
LEMMA NoOldWatchStep ==
  ASSUME RegLocals, NoOldWatch, Next
  PROVE  NoOldWatch'
<1>0. Listeners \subseteq Procs /\ Reloads \subseteq Procs
  BY DEF Procs
<1>1. CASE \/ \E n \in Names, v \in NameValues \cup {None} : Change(n, v)
          \/ Compact \/ \E r \in Reloads : reload(r)
  BY <1>0, <1>1 DEF Change, Compact, reload, etcd, shared, locking, locals, Goto, Free, RegLocals, NoOldWatch
<1>2. CASE \E l \in Listeners : MonitorNew(l) \/ getCurrent(l) \/ getClientFails(l)
  BY <1>0, <1>2 DEF MonitorNew, getCurrent, getClientFails, etcd, shared, locking, locals, Goto, Free,
         RegLocals, NoOldWatch
<1>3. ASSUME NEW p \in Procs, StreamFails(p) \/ Step(p) PROVE NoOldWatch'
  <2>1. CASE (p \in Listeners /\ monitor(p)) \/ StreamFails(p) \/ Get(p) \/ handleChanges(p) \/ TellAdd(p) \/ TellRemove(p)
    BY <2>1 DEF monitor, StreamFails, Get, handleChanges, TellAdd, TellRemove, etcd, shared, locking, locals,
           Goto, Free, RegLocals, NoOldWatch
  <2>2. CASE Receive(p) \/ handleWatchEvents(p) \/ ErrCompacted(p) \/ Event(p) \/ TellEvent(p)
    BY <2>2 DEF Receive, handleWatchEvents, ErrCompacted, Event, TellEvent, etcd, shared, locking, locals, Goto,
           Free, RegLocals, NoOldWatch
  <2>3. CASE Watch(p)
    BY <2>3 DEF Watch, etcd, shared, locking, locals, Goto, Free, RegLocals, NoOldWatch
  <2>4. CASE Done(p)
    BY <2>4 DEF Done, etcd, shared, locking, locals, Goto, Free, RegLocals, NoOldWatch
  <2>5. CASE p \in Reloads /\ WatchesEnd(p)
    BY <2>5 DEF WatchesEnd, etcd, shared, locking, locals, Goto, Free, RegLocals, NoOldWatch
  <2>6. CASE p \in Reloads /\ Run(p)
    BY <2>6 DEF Run, etcd, shared, locking, locals, Goto, Free, RegLocals, NoOldWatch
  <2> QED  BY <1>3, <2>1, <2>2, <2>3, <2>4, <2>5, <2>6
           DEF Step, Loading, Watching, Reloading
<1> QED  BY <1>1, <1>2, <1>3 DEF Next

\* Only Change appends to the log.
LEMMA RegLogStep ==
  ASSUME RegLog, Next
  PROVE  RegLog'
<1>1. ASSUME NEW n \in Names, NEW v \in NameValues \cup {None}, Change(n, v) PROVE RegLog'
  <2>1. /\ log' = Append(log, [name |-> n, val |-> v]) /\ Len(log) < MaxChanges
        /\ UNCHANGED <<compacted, failures>>
    BY <1>1 DEF Change
  <2>2. [name |-> n, val |-> v] \in [name : Names, val : NameValues \cup {None}]
    OBVIOUS
  <2>3. log' \in Seq([name : Names, val : NameValues \cup {None}]) /\ Len(log') = Len(log) + 1 /\ Len(log) \in Nat
    BY <2>1, <2>2 DEF RegLog
  <2> QED  BY <2>1, <2>3, RegistryAssumption DEF RegLog
<1>2. CASE Compact
  <2>1. Len(log) \in Nat
    BY DEF RegLog
  <2> QED  BY <1>2, <2>1 DEF Compact, RegLog
<1>3. ASSUME NEW p \in Procs, StreamFails(p) PROVE RegLog'
  BY <1>3, RegistryAssumption DEF StreamFails, RegLog
<1>4. CASE UNCHANGED etcd
  BY <1>4 DEF RegLog, etcd
<1>5. ASSUME NEW p \in Procs, Step(p) PROVE UNCHANGED etcd
  <2>1. monitor(p) \/ Loading(p) => UNCHANGED etcd
    BY ZenonT(30) DEF monitor, Loading, Get, handleChanges, TellAdd, TellRemove, Watch
  <2>2. Watching(p) \/ Reloading(p) => UNCHANGED etcd
    BY ZenonT(30) DEF Watching, Receive, ErrCompacted, Done, handleWatchEvents, Event, TellEvent, Reloading, WatchesEnd, Run
  <2> QED  BY <1>5, <2>1, <2>2 DEF Step
<1>6. CASE (\E l \in Listeners : MonitorNew(l) \/ getCurrent(l) \/ getClientFails(l)) \/ \E r \in Reloads : reload(r)
  BY ZenonT(30), <1>4, <1>6 DEF MonitorNew, getCurrent, getClientFails, reload
<1> QED  BY <1>1, <1>2, <1>3, <1>4, <1>5, <1>6 DEF Next

-----------------------------------------------------------------------------
\* What a change appends.
LEMMA LogGrows ==
  ASSUME RegLog, NEW m \in Names, NEW v \in NameValues \cup {None}, Change(m, v)
  PROVE  /\ Len(log) \in Nat /\ Len(log') = Len(log) + 1 /\ log'[Len(log) + 1].name = m
         /\ \A i \in 1..Len(log) : log'[i] = log[i]
<1>1. log' = Append(log, [name |-> m, val |-> v]) /\ log \in Seq([name : Names, val : NameValues \cup {None}])
  BY DEF Change, RegLog
<1> QED  BY <1>1

\* A change of one name is no change of another.
LEMMA ChangesOther ==
  ASSUME RegLog, NEW m \in Names, NEW v \in NameValues \cup {None}, Change(m, v), NEW n \in Names, n # m
  PROVE  Changes(n, Len(log))' = Changes(n, Len(log))
  BY LogGrows DEF Changes

\* The change that is appended is the newest one of its name.
LEMMA LogNewestStep ==
  ASSUME RegLog, LogNewest, NEW m \in Names, NEW v \in NameValues \cup {None}, Change(m, v)
  PROVE  LogNewest'
<1> SUFFICES ASSUME NEW n \in Names, Changes(n, Len(log))' # {}
             PROVE  \E i \in Changes(n, Len(log))' : \A j \in Changes(n, Len(log))' : j <= i
  BY DEF LogNewest
<1>1. CASE n = m
  <2>1. Len(log) + 1 \in Changes(n, Len(log))' /\ \A j \in Changes(n, Len(log))' : j <= Len(log) + 1
    BY <1>1, LogGrows DEF Changes
  <2> QED  BY <2>1
<1>2. CASE n # m
  BY <1>2, ChangesOther DEF LogNewest
<1> QED  BY <1>1, <1>2

\* The newest change of a name is one of its changes.
LEMMA NewestIn ==
  ASSUME LogNewest, NEW n \in Names, Changes(n, Len(log)) # {}
  PROVE  Newest(Changes(n, Len(log))) \in Changes(n, Len(log))
  BY DEF LogNewest, Newest

\* A change of another name does not change what c.values should have.
LEMMA AgreesOther ==
  ASSUME RegLog, LogNewest, NEW m \in Names, NEW v \in NameValues \cup {None}, Change(m, v),
         NEW n \in Names, n # m, Agrees(n)
  PROVE  Agrees(n)'
<1>1. values' = values /\ Changes(n, Len(log))' = Changes(n, Len(log))
  BY ChangesOther DEF Change, shared
<1> DEFINE S == Changes(n, Len(log))
<1>2. S # {} => Newest(S) \in 1..Len(log)
  BY NewestIn DEF Changes
<1>3. S # {} => log'[Newest(S)] = log[Newest(S)]
  BY <1>2, LogGrows
<1>4. n \in Live(Len(log)) <=> S # {} /\ log[Newest(S)].val # None
  BY DEF Live
<1>5. n \in Live(Len(log))' <=> S # {} /\ log'[Newest(S)].val # None
  BY <1>1 DEF Live
<1>6. n \in Live(Len(log)) => State(Len(log))[n] = log[Newest(S)].val
  BY DEF State
<1>7. n \in Live(Len(log))' => State(Len(log))'[n] = log'[Newest(S)].val
  BY <1>1 DEF State
<1> HIDE DEF S
<1> QED  BY <1>1, <1>3, <1>4, <1>5, <1>6, <1>7 DEF Agrees

\* A load that saw the last change of a name.
LEMMA AgreesLoad ==
  ASSUME RegLog, NEW k \in 0..Len(log), NEW n \in Names, ~Ahead(n, k)
  PROVE  /\ n \in Live(k) <=> n \in Live(Len(log))
         /\ n \in Live(k) => State(k)[n] = State(Len(log))[n]
<1>1. Changes(n, k) = Changes(n, Len(log))
  BY DEF Changes, Ahead, RegLog
<1> QED  BY <1>1 DEF Live, State

\* The event that is the last change of its name.
LEMMA NewestLast ==
  ASSUME RegLog, NEW k \in 1..Len(log), ~Ahead(log[k].name, k)
  PROVE  Changes(log[k].name, Len(log)) # {} /\ Newest(Changes(log[k].name, Len(log))) = k
<1> DEFINE S == Changes(log[k].name, Len(log))
<1>1. k \in S /\ \A j \in S : j <= k
  BY DEF Changes, Ahead, RegLog
<1>2. \A j \in S : j \in Nat
  BY DEF Changes, RegLog
<1>3. \A i \in S : (\A j \in S : j <= i) => i = k
  BY <1>1, <1>2
<1> HIDE DEF S
<1>4. Newest(S) = k
  BY <1>1, <1>3 DEF Newest
<1> QED  BY <1>1, <1>4 DEF S

-----------------------------------------------------------------------------
\* Who has everything still to write.
LEMMA PendingAll ==
  ASSUME NEW p \in Procs, pc'[p] \in {"wait", "run", "load", "getClient", "handleChanges"}
  PROVE  RegValues'
  BY DEF RegValues, Pending

\* A step that leaves the log and c.values alone and takes nothing from anyone.
LEMMA PendingKept ==
  ASSUME RegValues, UNCHANGED <<log, values>>,
         (\E q \in Procs : pc'[q] \in Busy) => \E q \in Procs : pc[q] \in Busy,
         \A q \in Procs, n \in Names : Pending(q, n) => Pending(q, n)'
  PROVE  RegValues'
<1>1. \A n \in Names : Agrees(n) <=> Agrees(n)'
  BY DEF Agrees, Live, State, Changes
<1> QED  BY <1>1 DEF RegValues

\* The steps that only move a goroutine on to what still has everything ahead
\* of it.
LEMMA PendingSame ==
  ASSUME RegValues, UNCHANGED <<log, values, rev, pos>>, RegLocals, NEW p \in Procs,
         NEW l, pc' = [pc EXCEPT ![p] = l],
         <<pc[p], l>> \in {<<"idle", "current">>, <<"current", "getClient">>, <<"watch", "handleWatchEvents">>,
                           <<"handleWatchEvents", "event">>}
  PROVE  RegValues'
<1>1. pc \in [Procs -> Labels]
  BY DEF RegLocals
<1>2. pc'[p] = l /\ \A q \in Procs : q # p => pc'[q] = pc[q]
  BY <1>1
<1>3. pc[p] \in {"idle", "current", "watch", "handleWatchEvents"}
      /\ (pc[p] = "idle" => l = "current") /\ (pc[p] = "current" => l = "getClient")
      /\ (pc[p] = "watch" => l = "handleWatchEvents") /\ (pc[p] = "handleWatchEvents" => l = "event")
  OBVIOUS
<1>4. \A q \in Procs, n \in Names : Pending(q, n) => Pending(q, n)'
  BY <1>2, <1>3 DEF Pending, Ahead
<1>5. (\E q \in Procs : pc'[q] \in Busy) => \E q \in Procs : pc[q] \in Busy
  BY <1>2, <1>3 DEF Busy, Loaded, Handling
<1> QED  BY <1>4, <1>5, PendingKept

\* A change in etcd is ahead of every goroutine that loads or watches.
LEMMA ValuesChange ==
  ASSUME RegInv, NEW m \in Names, NEW v \in NameValues \cup {None}, Change(m, v)
  PROVE  RegValues'
<1>0. RegLog /\ RegLocals /\ RegPlace /\ LogNewest /\ RegValues
  BY DEF RegInv
<1>1. UNCHANGED <<pc, rev, pos, upto, values>>
  BY DEF Change, shared, locals
<1>2. /\ Len(log) \in Nat /\ Len(log') = Len(log) + 1 /\ log'[Len(log) + 1].name = m
      /\ \A i \in 1..Len(log) : log'[i] = log[i]
  BY <1>0, LogGrows
<1>3. \A q \in Procs : pos[q] \in 0..Len(log) /\ rev[q] \in 0..Len(log) /\ upto[q] \in 0..Len(log)
  BY <1>0 DEF RegLocals
<1>4. \A k \in 0..Len(log) : \A n \in Names : Ahead(n, k) => \E i \in k + 1..Len(log') : log'[i].name = n
  BY <1>2 DEF Ahead
<1>5. \A k \in 0..Len(log) : \E i \in k + 1..Len(log') : log'[i].name = m
  <2> SUFFICES ASSUME NEW k \in 0..Len(log) PROVE \E i \in k + 1..Len(log') : log'[i].name = m
    OBVIOUS
  <2>1. Len(log) + 1 \in k + 1..Len(log')
    BY <1>2
  <2> QED  BY <1>2, <2>1
<1>6. \A q \in Procs : pc[q] = "tell" => pos[q] + 1 \in 0..Len(log)
  BY <1>0, <1>2, <1>3 DEF RegPlace, Handling
<1>7. \A q \in Procs, n \in Names : Pending(q, n) => Pending(q, n)'
  <2> SUFFICES ASSUME NEW q \in Procs, NEW n \in Names, Pending(q, n) PROVE Pending(q, n)'
    OBVIOUS
  <2>1. CASE pc[q] = "changes" /\ Ahead(n, rev[q])
    BY <1>1, <1>3, <1>4, <2>1 DEF Pending, Ahead
  <2>2. CASE pc[q] \in {"watch", "handleWatchEvents", "event"} /\ Ahead(n, pos[q])
    BY <1>1, <1>3, <1>4, <2>2 DEF Pending, Ahead
  <2>3. CASE pc[q] = "tell" /\ Ahead(n, pos[q] + 1)
    BY <1>1, <1>4, <1>6, <2>3 DEF Pending, Ahead
  <2> QED  BY <1>1, <2>1, <2>2, <2>3 DEF Pending
<1>8. ASSUME NEW q \in Procs, pc[q] \in Busy PROVE Pending(q, m)'
  <2>1. CASE pc[q] = "changes"
    BY <1>1, <1>3, <1>5, <2>1 DEF Pending, Ahead
  <2>2. CASE pc[q] \in {"watch", "handleWatchEvents", "event"}
    BY <1>1, <1>3, <1>5, <2>2 DEF Pending, Ahead
  <2>3. CASE pc[q] = "tell"
    BY <1>1, <1>5, <1>6, <2>3 DEF Pending, Ahead
  <2> QED  BY <1>1, <1>8, <2>1, <2>2, <2>3 DEF Pending, Busy, Loaded, Handling
<1> SUFFICES ASSUME NEW q \in Procs, pc[q] \in Busy, NEW n \in Names
             PROVE  (\E p \in Procs : Pending(p, n)') \/ Agrees(n)'
  BY <1>1 DEF RegValues
<1>9. CASE n = m
  BY <1>8, <1>9
<1>10. CASE n # m
  <2>1. (\E p \in Procs : Pending(p, n)) \/ Agrees(n)
    BY <1>0 DEF RegValues
  <2>2. Agrees(n) => Agrees(n)'
    BY <1>0, <1>10, AgreesOther
  <2> QED  BY <1>7, <2>1, <2>2
<1> QED  BY <1>9, <1>10

\* handleChanges writes what etcd had at the revision of the load; what came
\* later is ahead of the watch.
LEMMA ValuesLoad ==
  ASSUME RegInv, NEW p \in Procs, handleChanges(p)
  PROVE  RegValues'
<1>0. RegLog /\ RegLocals
  BY DEF RegInv
<1>1. values' = State(rev[p]) /\ log' = log /\ rev' = rev
  BY DEF handleChanges, etcd
<1>2. pc'[p] = "changes"
  BY <1>0 DEF handleChanges, Goto, RegLocals
<1>3. rev[p] \in 0..Len(log)
  BY <1>0 DEF RegLocals
<1> SUFFICES ASSUME NEW n \in Names PROVE Pending(p, n)' \/ Agrees(n)'
  BY DEF RegValues
<1>4. CASE Ahead(n, rev[p])
  BY <1>1, <1>2, <1>4 DEF Pending, Ahead
<1>5. CASE ~Ahead(n, rev[p])
  <2>1. /\ n \in Live(rev[p]) <=> n \in Live(Len(log))
        /\ n \in Live(rev[p]) => State(rev[p])[n] = State(Len(log))[n]
    BY <1>0, <1>3, <1>5, AgreesLoad
  <2>2. n \in DOMAIN values' <=> n \in Live(rev[p])
    BY <1>1 DEF State
  <2>3. Live(Len(log))' = Live(Len(log)) /\ State(Len(log))' = State(Len(log))
    BY <1>1 DEF Live, State, Changes
  <2> QED  BY <1>1, <2>1, <2>2, <2>3 DEF Agrees
<1> QED  BY <1>4, <1>5

\* An event that writes an older value than c.values has is not the last one
\* of its name.
LEMMA ValuesEvent ==
  ASSUME RegInv, NEW p \in Procs, Event(p)
  PROVE  RegValues'
<1>0. RegLog /\ RegLocals /\ RegPlace /\ RegStage /\ RegValues
  BY DEF RegInv
<1> DEFINE k  == pos[p] + 1
           ev == log[k]
<1>1. pc[p] = "event" /\ pc' = [pc EXCEPT ![p] = "tell"] /\ UNCHANGED <<log, rev, pos>>
  BY DEF Event, Goto, etcd, locals
<1>2. pc'[p] = "tell" /\ \A q \in Procs : q # p => pc'[q] = pc[q]
  BY <1>0, <1>1 DEF RegLocals
<1>3. Len(log) \in Nat /\ pos[p] \in Nat /\ k \in 1..Len(log)
  BY <1>0, <1>1 DEF RegLog, RegLocals, RegPlace, Handling
<1>4. ev \in [name : Names, val : NameValues \cup {None}]
  BY <1>0, <1>3, LogElement DEF RegLog
<1>5. values' = IF ev.val = None THEN Restrict(values, DOMAIN values \ {ev.name})
                ELSE [n \in DOMAIN values \cup {ev.name} |-> IF n = ev.name THEN ev.val ELSE values[n]]
  BY DEF Event
<1>6. Live(Len(log))' = Live(Len(log)) /\ State(Len(log))' = State(Len(log))
  BY <1>1 DEF Live, State, Changes
<1>7. \A n : n # ev.name => (n \in DOMAIN values' <=> n \in DOMAIN values) /\ (n \in DOMAIN values => values'[n] = values[n])
  BY <1>5 DEF Restrict
<1>8. (ev.name \in DOMAIN values' <=> ev.val # None) /\ (ev.val # None => values'[ev.name] = ev.val)
  BY <1>5 DEF Restrict
<1>9. pc[p] \in Busy
  BY <1>1 DEF Busy, Loaded, Handling
<1> SUFFICES ASSUME NEW n \in Names PROVE (\E q \in Procs : Pending(q, n)') \/ Agrees(n)'
  BY DEF RegValues
<1>10. CASE n = ev.name
  <2>1. CASE Ahead(n, k)
    BY <1>1, <1>2, <2>1 DEF Pending, Ahead
  <2>2. CASE ~Ahead(n, k)
    <3>1. Changes(n, Len(log)) # {} /\ Newest(Changes(n, Len(log))) = k
      BY <1>0, <1>3, <1>10, <2>2, NewestLast
    <3>2. n \in Live(Len(log)) <=> ev.val # None
      BY <3>1 DEF Live
    <3>3. n \in Live(Len(log)) => State(Len(log))[n] = ev.val
      BY <3>1 DEF State
    <3> QED  BY <1>6, <1>8, <1>10, <3>2, <3>3 DEF Agrees
  <2> QED  BY <2>1, <2>2
<1>11. CASE n # ev.name
  <2>1. (\E q \in Procs : Pending(q, n)) \/ Agrees(n)
    BY <1>0, <1>9 DEF RegValues
  <2>2. Agrees(n) => Agrees(n)'
    BY <1>6, <1>7, <1>11 DEF Agrees
  <2>3. Ahead(n, pos[p]) => Ahead(n, k)
    BY <1>3, <1>11 DEF Ahead
  <2>4. ASSUME NEW q \in Procs, Pending(q, n) PROVE Pending(q, n)'
    <3>1. CASE q = p
      BY <1>1, <1>2, <2>3, <2>4, <3>1 DEF Pending, Ahead
    <3>2. CASE q # p
      BY <1>1, <1>2, <2>4, <3>2 DEF Pending, Ahead
    <3> QED  BY <3>1, <3>2
  <2> QED  BY <2>1, <2>2, <2>4
<1> QED  BY <1>10, <1>11

\* A watch starts at the revision of its load, starts again there, and moves on
\* when an event is told.
LEMMA ValuesWatch ==
  ASSUME RegInv, NEW p \in Procs, Watch(p) \/ StreamFails(p) \/ TellEvent(p)
  PROVE  RegValues'
<1>0. RegLog /\ RegLocals /\ RegPlace /\ RegValues
  BY DEF RegInv
<1>1. UNCHANGED <<log, values, rev>>
  BY DEF Watch, StreamFails, TellEvent, etcd, shared
<1>2. pc \in [Procs -> Labels] /\ pos \in [Procs -> 0..Len(log)] /\ rev \in [Procs -> 0..Len(log)] /\ Len(log) \in Nat
  BY <1>0 DEF RegLog, RegLocals
<1>3. \A q \in Procs : q # p => pc'[q] = pc[q] /\ pos'[q] = pos[q]
  BY <1>2 DEF Watch, StreamFails, TellEvent, Goto
<1>4. \/ pc[p] = "changes" /\ pc'[p] = "watch" /\ pos'[p] = rev[p]
      \/ pc[p] = "watch" /\ pc'[p] = "watch" /\ pos'[p] = rev[p]
      \/ pc[p] = "tell" /\ pc'[p] \in {"watch", "event"} /\ pos'[p] = pos[p] + 1
  BY <1>2 DEF Watch, StreamFails, TellEvent, Goto
<1>5. pc[p] = "watch" => rev[p] <= pos[p]
  BY <1>0 DEF RegPlace
<1>6. \A n \in Names : pc[p] = "watch" /\ Ahead(n, pos[p]) => Ahead(n, rev[p])
  BY <1>2, <1>5 DEF Ahead
<1>7. \A n \in Names : Pending(p, n) => Pending(p, n)'
  <2> SUFFICES ASSUME NEW n \in Names, Pending(p, n) PROVE Pending(p, n)'
    OBVIOUS
  <2>1. CASE pc[p] = "changes"
    BY <1>1, <1>4, <2>1 DEF Pending, Ahead
  <2>2. CASE pc[p] = "watch"
    BY <1>1, <1>4, <1>6, <2>2 DEF Pending, Ahead
  <2>3. CASE pc[p] = "tell"
    BY <1>1, <1>4, <2>3 DEF Pending, Ahead
  <2> QED  BY <1>4, <2>1, <2>2, <2>3
<1>8. \A q \in Procs, n \in Names : Pending(q, n) => Pending(q, n)'
  <2>1. ASSUME NEW q \in Procs, NEW n \in Names, Pending(q, n), q # p PROVE Pending(q, n)'
    BY <1>1, <1>3, <2>1 DEF Pending, Ahead
  <2> QED  BY <1>7, <2>1
<1>9. pc[p] \in Busy
  BY <1>4 DEF Busy, Loaded, Handling
<1> QED  BY <1>0, <1>1, <1>8, <1>9, PendingKept

\* Every step keeps c.values explained.
LEMMA RegValuesStep ==
  ASSUME RegInv, Next
  PROVE  RegValues'
<1>0. RegLog /\ RegLocals /\ RegLock /\ RegStage /\ RegValues /\ Listeners \subseteq Procs /\ Reloads \subseteq Procs
  BY DEF RegInv, Procs
<1>1. pc \in [Procs -> Labels]
  BY <1>0 DEF RegLocals
<1>2. CASE UNCHANGED <<log, values, pc, rev, pos>>
  <2>1. \A q \in Procs, n \in Names : Pending(q, n) => Pending(q, n)'
    BY <1>2 DEF Pending, Ahead
  <2> QED  BY <1>0, <1>2, <2>1, PendingKept
<1>3. ASSUME NEW l \in Listeners, MonitorNew(l) \/ getCurrent(l) PROVE RegValues'
  <2>1. pc[l] = "idle" /\ pc' = [pc EXCEPT ![l] = "current"] /\ UNCHANGED <<log, values, rev, pos>>
    BY <1>3 DEF MonitorNew, getCurrent, Goto, etcd, shared, locals
  <2>2. <<pc[l], "current">> = <<"idle", "current">>
    BY <2>1
  <2> QED  BY <1>0, <2>1, <2>2, PendingSame
<1>4. ASSUME NEW l \in Listeners, getClientFails(l) PROVE RegValues'
  <2>1. ~connected /\ pc' = [pc EXCEPT ![l] = "failed"]
    BY <1>4 DEF getClientFails, Goto
  <2>2. \A q \in Procs : pc[q] \notin Busy
    BY <1>0, <2>1 DEF RegStage
  <2>3. \A q \in Procs : pc'[q] \notin Busy
    BY <1>1, <2>1, <2>2 DEF Busy, Loaded, Handling
  <2> QED  BY <2>3 DEF RegValues
<1>5. ASSUME NEW r \in Reloads, reload(r) PROVE RegValues'
  BY <1>0, <1>1, <1>5, PendingAll DEF reload, Goto
<1>6. ASSUME NEW p \in Procs, p \in Listeners, monitor(p) PROVE RegValues'
  <2>1. pc[p] = "current" /\ pc' = [pc EXCEPT ![p] = "getClient"] /\ UNCHANGED <<log, values, rev, pos>>
    BY <1>6 DEF monitor, Goto, etcd
  <2>2. <<pc[p], "getClient">> = <<"current", "getClient">>
    BY <2>1
  <2> QED  BY <1>0, <2>1, <2>2, PendingSame
<1>7. ASSUME NEW p \in Procs, Get(p) \/ ErrCompacted(p) \/ Run(p) PROVE RegValues'
  <2>1. pc'[p] \in {"load", "handleChanges"}
    BY <1>1, <1>7 DEF Get, ErrCompacted, Run, Goto
  <2> QED  BY <2>1, PendingAll
<1>8. ASSUME NEW p \in Procs, Receive(p) PROVE RegValues'
  <2>1. pc[p] = "watch" /\ pc' = [pc EXCEPT ![p] = "handleWatchEvents"] /\ UNCHANGED <<log, values, rev, pos>>
    BY <1>8 DEF Receive, Goto, etcd, shared
  <2>2. <<pc[p], "handleWatchEvents">> = <<"watch", "handleWatchEvents">>
    BY <2>1
  <2> QED  BY <1>0, <2>1, <2>2, PendingSame
<1>9. ASSUME NEW p \in Procs, handleWatchEvents(p) PROVE RegValues'
  <2>1. pc[p] = "handleWatchEvents" /\ pc' = [pc EXCEPT ![p] = "event"] /\ UNCHANGED <<log, values, rev, pos>>
    BY <1>9 DEF handleWatchEvents, Goto, etcd, shared
  <2>2. <<pc[p], "event">> = <<"handleWatchEvents", "event">>
    BY <2>1
  <2> QED  BY <1>0, <2>1, <2>2, PendingSame
<1>10. ASSUME NEW p \in Procs, Done(p) PROVE RegValues'
  <2>1. lock \in Procs /\ pc[lock] = "wait" /\ lock # p /\ pc' = [pc EXCEPT ![p] = "exited"]
    BY <1>0, <1>10 DEF Done, Goto, RegLock
  <2>2. pc'[lock] = "wait"
    BY <1>1, <2>1
  <2> QED  BY <2>1, <2>2, PendingAll
<1>11. ASSUME NEW p \in Procs, p \in Reloads, WatchesEnd(p) PROVE RegValues'
  <2>1. CASE listeners = {}
    <3>1. pc[p] = "wait" /\ pc' = [pc EXCEPT ![p] = "exited"]
      BY <1>11, <2>1 DEF WatchesEnd, Goto
    <3>2. \A q \in Procs : q # p => pc[q] \notin Busy
      BY <1>0, <2>1, <3>1 DEF RegStage, RegLock
    <3>3. \A q \in Procs : pc'[q] \notin Busy
      BY <1>1, <3>1, <3>2 DEF Busy, Loaded, Handling
    <3> QED  BY <3>3 DEF RegValues
  <2>2. CASE listeners # {}
    <3>1. pc'[p] = "run"
      BY <1>1, <1>11, <2>2 DEF WatchesEnd, Goto
    <3> QED  BY <3>1, PendingAll
  <2> QED  BY <2>1, <2>2
<1>12. ASSUME NEW p \in Procs, TellAdd(p) \/ TellRemove(p) PROVE RegValues'
  BY <1>2, <1>12 DEF TellAdd, TellRemove, etcd, shared
<1>13. CASE Compact
  BY <1>2, <1>13 DEF Compact, shared, locals
<1>14. ASSUME NEW p \in Procs, Step(p) PROVE RegValues'
  BY <1>6, <1>7, <1>8, <1>9, <1>10, <1>11, <1>12, <1>14, ValuesLoad, ValuesEvent, ValuesWatch
     DEF Step, Loading, Watching, Reloading
<1> QED  BY <1>3, <1>4, <1>5, <1>13, <1>14, ValuesChange, ValuesWatch DEF Next

\* The invariant holds at the start.
LEMMA RegStart == Init => RegInv
<1> SUFFICES ASSUME Init PROVE RegInv
  OBVIOUS
<1>1. RegLog
  BY RegistryAssumption DEF Init, RegLog
<1>2. Len(log) = 0 /\ \A n : Changes(n, Len(log)) = {}
  BY DEF Init, Changes
<1>3. RegFlags
  BY ZenonT(30) DEF Init, RegFlags
<1>4. RegLocals
  BY <1>2 DEF Init, RegLocals, Labels
<1>5. \A p \in Procs : p # None /\ pc[p] = "idle" /\ group[p] = None
  BY RegistryAssumption DEF Init, Procs
<1>6. RegLock
  BY ZenonT(30), <1>5 DEF Init, RegLock
<1>7. RegPlace /\ RegStage /\ RegValues /\ NoOldWatch
  BY <1>5 DEF RegPlace, RegStage, RegValues, NoOldWatch, Busy, Loaded, Handling
<1>8. LogNewest
  BY <1>2 DEF LogNewest
<1> QED  BY <1>1, <1>3, <1>4, <1>6, <1>7, <1>8 DEF RegInv

\* Every step keeps the invariant.
LEMMA RegStep == RegInv /\ [Next]_vars => RegInv'
<1> SUFFICES ASSUME RegInv, [Next]_vars PROVE RegInv'
  OBVIOUS
<1>1. CASE Next
  <2>1. LogNewest'
    <3>1. CASE \E n \in Names, v \in NameValues \cup {None} : Change(n, v)
      BY <3>1, LogNewestStep DEF RegInv
    <3>2. CASE log' = log
      BY <3>2 DEF RegInv, LogNewest, Changes
    <3>3. ASSUME NEW p \in Procs, StreamFails(p) \/ Step(p) PROVE log' = log
      <4>1. StreamFails(p) \/ monitor(p) \/ Loading(p) => log' = log
        BY ZenonT(30) DEF StreamFails, monitor, Loading, Get, handleChanges, TellAdd, TellRemove, Watch, etcd
      <4>2. Watching(p) \/ Reloading(p) => log' = log
        BY ZenonT(30) DEF Watching, Receive, ErrCompacted, Done, handleWatchEvents, Event, TellEvent, Reloading, WatchesEnd,
               Run, etcd
      <4> QED  BY <3>3, <4>1, <4>2 DEF Step
    <3>4. CASE \/ Compact \/ \E l \in Listeners : MonitorNew(l) \/ getCurrent(l) \/ getClientFails(l)
               \/ \E r \in Reloads : reload(r)
      BY <3>2, <3>4 DEF Compact, MonitorNew, getCurrent, getClientFails, reload, etcd
    <3> QED  BY <1>1, <3>1, <3>2, <3>3, <3>4 DEF Next
  <2>2. RegLog' /\ RegFlags' /\ RegLocals' /\ RegLock' /\ RegPlace'
    BY <1>1, RegLogStep, RegFlagsStep, RegLocalsStep, RegLockStep, RegPlaceStep DEF RegInv
  <2>3. RegStage' /\ NoOldWatch' /\ RegValues'
    BY <1>1, RegStageStep, NoOldWatchStep, RegValuesStep DEF RegInv
  <2> QED  BY <2>1, <2>2, <2>3 DEF RegInv
<1>2. CASE UNCHANGED vars
  <2>1. /\ UNCHANGED <<log, compacted, failures, exists, connected, values, listeners, lock, closed, gen>>
        /\ UNCHANGED <<pc, group, rev, pos, upto, heard>>
    BY <1>2 DEF vars, etcd, shared, locking, locals
  <2>2. RegLog' /\ RegFlags' /\ RegLocals' /\ RegLock'
    BY <2>1 DEF RegInv, RegLog, RegFlags, RegLocals, RegLock
  <2>3. RegPlace' /\ RegStage' /\ LogNewest' /\ NoOldWatch'
    BY <2>1 DEF RegInv, RegPlace, RegStage, LogNewest, Changes, NoOldWatch
  <2>4. \A q \in Procs, n \in Names : Pending(q, n) => Pending(q, n)'
    BY <2>1 DEF Pending, Ahead
  <2>5. RegValues'
    BY <2>1, <2>4, PendingKept DEF RegInv
  <2> QED  BY <2>2, <2>3, <2>5 DEF RegInv
<1> QED  BY <1>1, <1>2

\* Of any number of listeners, reloads and names: when every watch has handled
\* all that etcd has, c.values is what etcd has (cluster.load, watchStream,
\* handleWatchEvents).
THEOREM RegistryAlwaysExact == Spec => []RegistryExact
<1>1. RegInv => TypeOK
  <2> SUFFICES ASSUME RegInv PROVE TypeOK
    OBVIOUS
  <2>1. RegLog /\ RegFlags /\ RegLocals /\ RegLock
    BY DEF RegInv
  <2>2. closed \in BOOLEAN
    BY <2>1 DEF RegLock
  <2>3. {exists, connected, closed} \subseteq BOOLEAN
    BY ZenonT(30), <2>1, <2>2 DEF RegFlags
  <2>4. \A p \in Procs : /\ pos[p] \in 0..Len(log) /\ rev[p] \in 0..Len(log)
                         /\ upto[p] \in 0..Len(log)
                         /\ heard[p] \subseteq Listeners
                         /\ group[p] \in 0..gen \cup {None}
    BY <2>1 DEF RegLocals
  <2> QED  BY <2>1, <2>3, <2>4 DEF TypeOK, RegLog, RegLocals, RegLock
<1>2. RegInv => ValuesExact
  <2> SUFFICES ASSUME RegInv, Quiet PROVE values = State(Len(log))
    BY DEF ValuesExact
  <2>1. Len(log) \in Nat
    BY DEF RegInv, RegLog
  <2>2. PICK p \in Procs : pc[p] = "watch"
    BY DEF Quiet
  <2>3. \A n : ~Ahead(n, Len(log))
    BY <2>1 DEF Ahead
  <2>4. \A q \in Procs, n \in Names : ~Pending(q, n)
    BY <2>3 DEF Quiet, Pending
  <2>5. \A n \in Names : Agrees(n)
    BY <2>2, <2>4 DEF RegInv, RegValues, Busy, Loaded
  <2>6. DOMAIN values \subseteq Names /\ values = [n \in DOMAIN values |-> values[n]]
    BY <2>2 DEF RegInv, RegStage, Loaded
  <2>7. DOMAIN values = Live(Len(log)) /\ \A n \in Live(Len(log)) : values[n] = State(Len(log))[n]
    BY <2>5, <2>6 DEF Agrees, Live
  <2>8. State(Len(log)) = [n \in Live(Len(log)) |-> State(Len(log))[n]]
    BY DEF State
  <2> QED  BY <2>6, <2>7, <2>8
<1> QED  BY <1>1, <1>2, RegStart, RegStep, PTL DEF Spec, RegistryExact

\* Of any number of reloads: cluster.reload replaces the watchGroup only when no
\* watch is left in the one before.
THEOREM NeverOldWatch == Spec => []NoOldWatch
<1>1. RegInv => NoOldWatch
  BY DEF RegInv
<1> QED  BY <1>1, RegStart, RegStep, PTL DEF Spec
=============================================================================
