------------------------------ MODULE Registry ------------------------------
(***************************************************************************)
(* core/discov/internal/registry.go: one cluster of the registry and one   *)
(* key (a prefix) that several listeners monitor, each with a load and a   *)
(* watch of its own; reload replaces the watches after a reconnection.     *)
(*                                                                         *)
(* etcd is the sequence of its changes: a revision is a length of log, a   *)
(* Get reads the state after all of them, a watch reads them in order.     *)
(* c.lock is held over several steps by reload alone; every other section  *)
(* under it is one step that needs it free.                                *)
(***************************************************************************)
EXTENDS Integers, Sequences, FiniteSets, DiscovContainer

CONSTANTS Listeners,
          Reloads,      \* the reloads that may happen
          Names,        \* the names below the key
          NameValues,   \* the values a name may be given
          MaxChanges,   \* bound of the changes in etcd
          MaxFailures,  \* bound of the failures of a watch stream
          MaxProcs,     \* bound of the calls and reloads together
          None

ASSUME RegistryAssumption ==
  /\ Listeners \cap Reloads = {}
  /\ {MaxChanges, MaxFailures, MaxProcs} \subseteq Nat
  /\ None \notin Listeners \cup Reloads \cup NameValues

Procs == Listeners \cup Reloads

VARIABLES log,        \* etcd: the changes, with None for a deletion
          compacted,  \* etcd: this many of them are gone
          failures,   \* how many streams have failed
          exists,     \* the cluster is in r.clusters
          connected,  \* connManager has a client
          values,     \* c.values[key]; None before the first load
          listeners,  \* c.listeners[key]
          lock,       \* the reload that holds c.lock, or None
          closed,     \* c.done is closed
          gen,        \* which c.watchGroup
          pc,         \* of Monitor of a listener, or of a reload, and of its watch
          group,      \* the watchGroup the watch runs in
          rev,        \* the rev of watch: what load has returned
          pos, upto,  \* the changes of the stream: handled, and in the response
          heard,      \* the copy of the listeners
          add, remove,\* what has still to be told
          container,  \* of each listener
          missed      \* (history) names a listener was not told of, or told of late

etcd == <<log, compacted, failures>>
shared == <<exists, connected, values, listeners>>
locking == <<lock, closed, gen>>
locals == <<group, rev, pos, upto, heard, add, remove>>
vars == <<etcd, shared, locking, pc, locals, container, missed>>

\* The names and values in etcd after the first n changes.
Changes(name, n) == {i \in 1..n : log[i].name = name}
Newest(S) == CHOOSE i \in S : \A j \in S : j <= i
Live(n) == {name \in Names : Changes(name, n) # {} /\ log[Newest(Changes(name, n))].val # None}
State(n) == [name \in Live(n) |-> log[Newest(Changes(name, n))].val]

Pairs(f) == {[name |-> n, val |-> f[n]] : n \in DOMAIN f}

Init ==
  /\ log = <<>> /\ compacted = 0 /\ failures = 0
  /\ exists = FALSE /\ connected = FALSE /\ values = None /\ listeners = {}
  /\ lock = None /\ closed = FALSE /\ gen = 0
  /\ pc = [p \in Procs |-> "idle"]
  /\ group = [p \in Procs |-> None]
  /\ rev = [p \in Procs |-> 0] /\ pos = [p \in Procs |-> 0] /\ upto = [p \in Procs |-> 0]
  /\ heard = [p \in Procs |-> {}]
  /\ add = [p \in Procs |-> {}] /\ remove = [p \in Procs |-> {}]
  /\ container = [l \in Listeners |-> newContainer]
  /\ missed = [l \in Listeners |-> {}]

Goto(p, s) == pc' = [pc EXCEPT ![p] = s]
Free == lock = None
\* Bound: so many goroutines have begun.
Starts == Cardinality({p \in Procs : pc[p] # "idle"}) < MaxProcs

-----------------------------------------------------------------------------
\* etcd, external.  A name that is there may be put again with another value of
\* its own; a publisher's lease puts a name once and deletes it.
Change(n, v) ==
  /\ Len(log) < MaxChanges
  /\ IF v = None THEN n \in DOMAIN State(Len(log))
     ELSE [name |-> n, val |-> v] \notin Pairs(State(Len(log)))
  /\ log' = Append(log, [name |-> n, val |-> v])
  /\ UNCHANGED <<compacted, failures, shared, locking, pc, locals, container, missed>>

Compact ==
  /\ compacted < Len(log)
  /\ compacted' = Len(log)
  /\ UNCHANGED <<log, failures, shared, locking, pc, locals, container, missed>>

-----------------------------------------------------------------------------
\* OnAdd and OnDelete of the listeners in L.  Each container has its own lock
\* and none is read with another, so one key and value is told in one step.
OnAdd(L, kv) ==
  container' = [l \in Listeners |->
       IF l \in L THEN addKv(container[l], FALSE, kv.name, kv.val) ELSE container[l]]
OnDelete(L, kv) ==
  container' = [l \in Listeners |->
       IF l \in L THEN doRemoveKey(container[l], kv.name) ELSE container[l]]

\* The names are changed in c.values when only the listeners in L will be told.
Miss(L, names) ==
  missed' = [l \in Listeners |-> IF l \in L \/ pc[l] = "idle" THEN missed[l]
                                 ELSE missed[l] \cup names]

\* The listeners in L are told of val for the name without the lock: another
\* goroutine may have changed c.values again, and told them of that before.
Tell(L, name, val) ==
  IF val = (IF name \in DOMAIN values THEN values[name] ELSE None) THEN UNCHANGED missed
  ELSE missed' = [l \in Listeners |-> IF l \in L THEN missed[l] \cup {name} ELSE missed[l]]

\* Monitor: getCluster makes the cluster, or finds it (for good, so that it is
\* one step with what follows) and getCurrent reads what the listener is told.
MonitorNew(l) ==
  /\ pc[l] = "idle" /\ Starts /\ ~exists
  /\ exists' = TRUE
  /\ Goto(l, "current")
  /\ UNCHANGED <<etcd, connected, values, listeners, locking, locals, container, missed>>

getCurrent(l) ==
  /\ pc[l] = "idle" /\ Starts /\ exists /\ Free
  /\ heard' = [heard EXCEPT ![l] = {l}]
  /\ add' = [add EXCEPT ![l] = IF values = None THEN {} ELSE Pairs(values)]
  /\ Goto(l, "current")
  /\ UNCHANGED <<etcd, shared, locking, group, rev, pos, upto, remove, container, missed>>

\* monitor: registers the listener, then needs a client for the load.
monitor(l) ==
  /\ pc[l] = "current" /\ add[l] = {} /\ Free
  /\ listeners' = listeners \cup {l}
  /\ heard' = [heard EXCEPT ![l] = {}]
  /\ Goto(l, "getClient")
  /\ UNCHANGED <<etcd, exists, connected, values, locking, group, rev, pos, upto, add, remove, container, missed>>

\* A dial that fails ends monitor with the error; the listener stays registered.
getClientFails(l) ==
  /\ pc[l] = "getClient" /\ ~connected
  /\ Goto(l, "failed")
  /\ UNCHANGED <<etcd, shared, locking, locals, container, missed>>

-----------------------------------------------------------------------------
\* load: a Get with the client, tried until it succeeds, then handleChanges.
Get(p) ==
  /\ pc[p] \in {"getClient", "load"}
  /\ connected' = TRUE
  /\ rev' = [rev EXCEPT ![p] = Len(log)]
  /\ Goto(p, "handleChanges")
  /\ UNCHANGED <<etcd, exists, values, listeners, locking, group, pos, upto, heard, add, remove, container, missed>>

\* Mutant of handleChanges: what has gone while no watch looked is not removed.
handleChangesAdds(p) ==
  LET kvs == State(rev[p])
      new == Pairs(kvs) \ (IF values = None THEN {} ELSE Pairs(values))
  IN /\ pc[p] = "handleChanges" /\ Free
     /\ values' = kvs
     /\ heard' = [heard EXCEPT ![p] = listeners]
     /\ add' = [add EXCEPT ![p] = new]
     /\ Miss(listeners, {kv.name : kv \in new})
     /\ Goto(p, "changes")
     /\ UNCHANGED <<etcd, exists, connected, listeners, locking, group, rev, pos, upto, remove, container>>

\* The loaded pairs replace c.values; the differences are to be told.
handleChanges(p) ==
  LET kvs == State(rev[p])
      old == IF values = None THEN {} ELSE Pairs(values)
      new == Pairs(kvs) \ old
      gone == old \ Pairs(kvs)
  IN /\ pc[p] = "handleChanges" /\ Free
     /\ values' = kvs
     /\ heard' = [heard EXCEPT ![p] = listeners]
     /\ add' = [add EXCEPT ![p] = new]
     /\ remove' = [remove EXCEPT ![p] = gone]
     /\ Miss(listeners, {kv.name : kv \in new \cup gone})
     /\ Goto(p, "changes")
     /\ UNCHANGED <<etcd, exists, connected, listeners, locking, group, rev, pos, upto, container>>

\* All of add before any of remove.
TellAdd(p) ==
  /\ pc[p] \in {"current", "changes"}
  /\ \E kv \in add[p] :
       /\ OnAdd(heard[p], kv) /\ Tell(heard[p], kv.name, kv.val)
       /\ add' = [add EXCEPT ![p] = @ \ {kv}]
  /\ UNCHANGED <<etcd, shared, locking, pc, group, rev, pos, upto, heard, remove>>

TellRemove(p) ==
  /\ pc[p] = "changes" /\ add[p] = {}
  /\ \E kv \in remove[p] :
       /\ OnDelete(heard[p], kv) /\ Tell(heard[p], kv.name, None)
       /\ remove' = [remove EXCEPT ![p] = @ \ {kv}]
  /\ UNCHANGED <<etcd, shared, locking, pc, group, rev, pos, upto, heard, add>>

\* load returns: monitor runs the watch in the c.watchGroup it reads without the
\* lock, a watch that has loaded again goes on in its own.
Watch(p) ==
  /\ pc[p] = "changes" /\ add[p] = {} /\ remove[p] = {}
  /\ heard' = [heard EXCEPT ![p] = {}]
  /\ pos' = [pos EXCEPT ![p] = rev[p]]
  /\ group' = [group EXCEPT ![p] = IF @ = None THEN gen ELSE @]
  /\ Goto(p, "watch")
  /\ UNCHANGED <<etcd, shared, locking, rev, upto, add, remove, container, missed>>

-----------------------------------------------------------------------------
\* watchStream: the select.  A response holds any number of the next changes.
Receive(p) ==
  /\ pc[p] = "watch" /\ pos[p] >= compacted
  /\ \E n \in pos[p] + 1..Len(log) : upto' = [upto EXCEPT ![p] = n]
  /\ Goto(p, "handleWatchEvents")
  /\ UNCHANGED <<etcd, shared, locking, group, rev, pos, heard, add, remove, container, missed>>

\* Mutant of StreamFails: the next stream starts at the newest change.
StreamSkips(p) ==
  /\ pc[p] = "watch" /\ failures < MaxFailures
  /\ failures' = failures + 1
  /\ pos' = [pos EXCEPT ![p] = Len(log)]
  /\ UNCHANGED <<log, compacted, shared, locking, pc, group, rev, upto, heard, add, remove, container, missed>>

\* The stream is closed or cancelled: watch asks again, from the rev it has.
StreamFails(p) ==
  /\ pc[p] = "watch" /\ failures < MaxFailures
  /\ failures' = failures + 1
  /\ pos' = [pos EXCEPT ![p] = rev[p]]
  /\ UNCHANGED <<log, compacted, shared, locking, pc, group, rev, upto, heard, add, remove, container, missed>>

ErrCompacted(p) ==
  /\ pc[p] = "watch" /\ pos[p] < compacted
  /\ Goto(p, "load")
  /\ Miss({}, {log[i].name : i \in pos[p] + 1..compacted})
  /\ rev' = [rev EXCEPT ![p] = 0] /\ pos' = [pos EXCEPT ![p] = 0]
  /\ UNCHANGED <<etcd, shared, locking, group, upto, heard, add, remove, container>>

Done(p) ==
  /\ pc[p] = "watch" /\ closed
  /\ Goto(p, "exited")
  /\ group' = [group EXCEPT ![p] = None]
  /\ Miss({}, {log[i].name : i \in pos[p] + 1..Len(log)})
  /\ rev' = [rev EXCEPT ![p] = 0] /\ pos' = [pos EXCEPT ![p] = 0]
  /\ UNCHANGED <<etcd, shared, locking, upto, heard, add, remove, container>>

handleWatchEvents(p) ==
  /\ pc[p] = "handleWatchEvents" /\ Free
  /\ heard' = [heard EXCEPT ![p] = listeners]
  /\ Goto(p, "event")
  /\ UNCHANGED <<etcd, shared, locking, group, rev, pos, upto, add, remove, container, missed>>

Event(p) ==
  LET ev == log[pos[p] + 1]
  IN /\ pc[p] = "event" /\ Free
     /\ values' = IF ev.val = None THEN Restrict(values, DOMAIN values \ {ev.name})
                  ELSE [n \in DOMAIN values \cup {ev.name} |-> IF n = ev.name THEN ev.val ELSE values[n]]
     /\ Miss(heard[p], {ev.name})
     /\ Goto(p, "tell")
     /\ UNCHANGED <<etcd, exists, connected, listeners, locking, locals, container>>

TellEvent(p) ==
  LET ev == log[pos[p] + 1]
  IN /\ pc[p] = "tell"
     /\ IF ev.val = None THEN OnDelete(heard[p], ev) ELSE OnAdd(heard[p], ev)
     /\ Tell(heard[p], ev.name, ev.val)
     /\ pos' = [pos EXCEPT ![p] = @ + 1]
     /\ IF pos[p] + 1 = upto[p]
          THEN /\ Goto(p, "watch")
               /\ heard' = [heard EXCEPT ![p] = {}] /\ upto' = [upto EXCEPT ![p] = 0]
          ELSE Goto(p, "event") /\ UNCHANGED <<heard, upto>>
     /\ UNCHANGED <<etcd, shared, locking, group, rev, add, remove>>

-----------------------------------------------------------------------------
\* reload, started by the state watcher when the connection is ready again.
reload(r) ==
  /\ pc[r] = "idle" /\ Starts /\ connected /\ Free
  /\ lock' = r /\ closed' = TRUE
  /\ Goto(r, "wait")
  /\ UNCHANGED <<etcd, shared, gen, locals, container, missed>>

\* Mutant of WatchesEnd: c.done is not made anew.
WatchesEndClosed(r) ==
  /\ pc[r] = "wait" /\ \A p \in Procs : group[p] # gen
  /\ lock' = None /\ gen' = gen + 1
  /\ Goto(r, IF listeners = {} THEN "exited" ELSE "run")
  /\ UNCHANGED <<etcd, shared, closed, locals, container, missed>>

\* Mutant of WatchesEnd: the watches are not waited for.
WatchesEndEarly(r) ==
  /\ pc[r] = "wait"
  /\ lock' = None /\ closed' = FALSE /\ gen' = gen + 1
  /\ Goto(r, IF listeners = {} THEN "exited" ELSE "run")
  /\ UNCHANGED <<etcd, shared, locals, container, missed>>

\* watchGroup.Wait returns; a new done and a new watchGroup; the lock is freed.
WatchesEnd(r) ==
  /\ pc[r] = "wait" /\ \A p \in Procs : group[p] # gen
  /\ lock' = None /\ closed' = FALSE /\ gen' = gen + 1
  /\ Goto(r, IF listeners = {} THEN "exited" ELSE "run")
  /\ UNCHANGED <<etcd, shared, locals, container, missed>>

Run(r) ==
  /\ pc[r] = "run"
  /\ group' = [group EXCEPT ![r] = gen]
  /\ Goto(r, "load")
  /\ UNCHANGED <<etcd, shared, locking, rev, pos, upto, heard, add, remove, container, missed>>

-----------------------------------------------------------------------------
Loading(p) == Get(p) \/ handleChanges(p) \/ TellAdd(p) \/ TellRemove(p) \/ Watch(p)

Watching(p) == \/ Receive(p) \/ ErrCompacted(p) \/ Done(p)
               \/ handleWatchEvents(p) \/ Event(p) \/ TellEvent(p)

Reloading(r) == WatchesEnd(r) \/ Run(r)

Step(p) == \/ p \in Listeners /\ monitor(p)
           \/ Loading(p) \/ Watching(p)
           \/ p \in Reloads /\ Reloading(p)

Next == \/ \E n \in Names, v \in NameValues \cup {None} : Change(n, v)
        \/ Compact
        \/ \E l \in Listeners : MonitorNew(l) \/ getCurrent(l) \/ getClientFails(l)
        \/ \E r \in Reloads : reload(r)
        \/ \E p \in Procs : StreamFails(p) \/ Step(p)

Spec == Init /\ [][Next]_vars

\* Goroutines run, the lock is free in turn, etcd answers in the end; nobody has
\* to change etcd, to monitor or to reconnect.
FairSpec == Spec /\ \A p \in Procs : WF_vars(Step(p))

-----------------------------------------------------------------------------
TypeOK ==
  /\ log \in Seq([name : Names, val : NameValues \cup {None}])
  /\ Len(log) <= MaxChanges /\ compacted \in 0..Len(log) /\ failures \in 0..MaxFailures
  /\ {exists, connected, closed} \subseteq BOOLEAN
  /\ listeners \subseteq Listeners
  /\ lock \in Reloads \cup {None} /\ closed = (lock # None)
  /\ \A p \in Procs : /\ pos[p] \in 0..Len(log) /\ rev[p] \in 0..Len(log)
                      /\ upto[p] \in 0..Len(log)
                      /\ heard[p] \subseteq Listeners
                      /\ group[p] \in 0..gen \cup {None}

\* Every goroutine rests: the watches have handled every change.
Quiet ==
  /\ Free
  /\ \A p \in Procs : pc[p] \in {"idle", "failed", "exited", "watch"}
  /\ \A p \in Procs : pc[p] = "watch" => pos[p] = Len(log)
  /\ \E p \in Procs : pc[p] = "watch"

\* The reload that holds c.lock waits for a goroutine that waits for c.lock.
Jammed ==
  \E r \in Reloads, p \in Procs :
    /\ lock = r /\ pc[r] = "wait" /\ group[p] = gen
    /\ pc[p] \in {"handleChanges", "handleWatchEvents", "event"}

\* When the watches rest, c.values is what etcd has, whatever the order in which
\* the loads and the watches of several goroutines have written it.
ValuesExact == Quiet => values = State(Len(log))

\* When the watches rest, a subscriber has the values in etcd, but for the names
\* that changed between its getCurrent and its place in a copy of the listeners,
\* or that one goroutine told it of when another had changed them again.
ListenersTold ==
  Quiet => \A l \in listeners : pc[l] # "failed" =>
    LET live == State(Len(log))
    IN \A n \in Names \ missed[l] :
         /\ n \in DOMAIN live => <<live[n], n>> \in container[l].values
         /\ n \notin DOMAIN live => \A vk \in container[l].values : vk[2] # n

\* c.values is exact when the watches rest, and every variable in its range.
RegistryExact == TypeOK /\ ValuesExact

\* No watch runs on in a watchGroup that a reload has waited for and replaced.
NoOldWatch == \A p \in Procs : group[p] # None => group[p] = gen

\* Once etcd does not change any more the goroutines come to rest with at least
\* one watch left, through failed streams, compactions and reloads, except that a
\* reload can wait, with c.lock, for a goroutine that needs c.lock.
Settles == <>[](Quiet \/ Jammed \/ ~connected)

\* registry.go:48: "Monitor monitors the key on given etcd endpoints, notify
\* with the given UpdateListener": a subscriber in the end has what etcd has.
Notified ==
  \A l \in Listeners : pc[l] = "watch" ~>
    DOMAIN container[l].mapping = DOMAIN State(Len(log))
=============================================================================
