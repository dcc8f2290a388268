---------------------------- MODULE MCStructures ----------------------------
(***************************************************************************)
(* The shared data structures, resources and counters, model-checked       *)
(* together as in MCWorkers: subject names the one that is taking steps,   *)
(* the others stay as they began.                                          *)
(***************************************************************************)
EXTENDS Resources, Breaker, RedisScripts, Collections, TimedExecutors, SafeMap,
        Hashing, Trees, HttpRouter, P2cPicker, CachedRows, Discovery,
        AdaptiveShedder

VARIABLE subject

vars == <<subject, clock, immutableVars, managedVars, refVars, managerVars, breakersVars, windowVars,
          breakerState, lockState, periodState, lessState, delayVars, bulkVars, mapVars, fifoVars, ringVars,
          hashVars, bloomVars, trieVars, treeVars, routerVars, p2cState, txVars, indexVars, subVars, kubeVars,
          configVars, shedState>>

\* Six points of the circle: all hashes different, and hashes that collide
\* within a node and between two nodes.
TwoHashFunctions == {[n1 |-> <<0, 3>>, n2 |-> <<1, 4>>, n3 |-> <<2, 5>>],
                     [n1 |-> <<4, 1>>, n2 |-> <<1, 1>>, n3 |-> <<3, 5>>]}

\* Locations of two data that share one.
TwoHashes == [d1 |-> (0 :> 0 @@ 1 :> 1), d2 |-> (0 :> 1 @@ 1 :> 2)]

\* One or two words of up to three characters, and every text of five.
Words == UNION {[1..n -> {"a", "b"}] : n \in 1..3}
WordPairs == {{v, w} : v \in Words, w \in Words}
FiveCharacters == [1..5 -> {"a", "b"}]
Shorter(w) == IF Len(w) > 1 THEN SubSeq(w, 2, Len(w)) ELSE <<"b">>

SomeRoutes == {<<"">>, <<"a">>, <<":x">>, <<"a", ":x">>, <<":x", "b">>, <<":y", "b">>, <<"a", ":x", "b">>,
               <<":x", ":x">>, <<"a", "b", "">>, <<"a", "c", "", "b">>, <<":y", ":z", "a">>}
SomePaths == UNION {[1..n -> {"a", "b", ""}] : n \in 1..3} \cup {<<"a", "b", "a", "">>}

\* A component that is not the subject has one initial state.
Init ==
  /\ subject \in {"immutable", "managed", "ref", "manager", "breakers", "breaker", "lock", "period", "less",
                  "delay", "bulk", "map", "fifo", "ring", "hash", "bloom", "trie", "tree", "router", "p2c",
                  "transact", "index", "values", "kube", "config", "shedder"}
  /\ ImmutableInit /\ ManagedInit /\ RefInit /\ ManagerInit /\ BreakerInit /\ LessInit /\ MapInit
  /\ TreeInit /\ ConfigInit /\ ShedInit /\ DelayInit /\ TransactInit
  /\ BreakersInit /\ BulkInit /\ RouterInit /\ IndexInit
  /\ PeriodInit /\ (subject # "period" => ~align)
  /\ BloomInit /\ (subject # "bloom" => ~roomy)
  /\ LockInit /\ (subject # "lock" => \A l \in Lockers : seconds[l] = 1)
  /\ FifoInit /\ (subject # "fifo" => size = 1)
  /\ RingInit /\ (subject # "ring" => rlen = 1)
  /\ HashInit /\ (subject # "hash" => at["n1"][1] = 0)
  /\ TrieInit /\ (subject # "trie" => words = {<<"a">>} /\ \A i \in 1..5 : text[i] = "a")
  /\ P2cInit /\ (subject # "p2c" => ready = Conns)
  /\ SubInit /\ (subject # "values" => exclusive /\ \A k \in SubKeys : valueOf[k] = "v")
  /\ KubeInit /\ (subject # "kube" => object = Object({}, 1))

OthersRest ==
  /\ UNCHANGED subject
  /\ subject # "immutable" => UNCHANGED immutableVars
  /\ subject # "managed" => UNCHANGED managedVars
  /\ subject # "ref" => UNCHANGED refVars
  /\ subject # "manager" => UNCHANGED managerVars
  /\ subject # "breakers" => UNCHANGED breakersVars
  /\ subject # "breaker" => UNCHANGED <<windowVars, breakerState>>
  /\ subject # "lock" => UNCHANGED lockState
  /\ subject # "period" => UNCHANGED periodState
  /\ subject # "less" => UNCHANGED lessState
  /\ subject # "delay" => UNCHANGED delayVars
  /\ subject # "bulk" => UNCHANGED bulkVars
  /\ subject # "map" => UNCHANGED mapVars
  /\ subject # "fifo" => UNCHANGED fifoVars
  /\ subject # "ring" => UNCHANGED ringVars
  /\ subject # "hash" => UNCHANGED hashVars
  /\ subject # "bloom" => UNCHANGED bloomVars
  /\ subject # "trie" => UNCHANGED trieVars
  /\ subject # "tree" => UNCHANGED treeVars
  /\ subject # "router" => UNCHANGED routerVars
  /\ subject # "p2c" => UNCHANGED p2cState
  /\ subject # "transact" => UNCHANGED txVars
  /\ subject # "index" => UNCHANGED indexVars
  /\ subject # "values" => UNCHANGED subVars
  /\ subject # "kube" => UNCHANGED kubeVars
  /\ subject # "config" => UNCHANGED configVars
  /\ subject # "shedder" => UNCHANGED shedState
  /\ subject \notin {"breaker", "lock", "period", "less", "p2c", "shedder"} => UNCHANGED clock

Next ==
  /\ \/ subject = "immutable" /\ ImmutableNext
     \/ subject = "managed" /\ ManagedNext
     \/ subject = "ref" /\ RefNext
     \/ subject = "manager" /\ ManagerNext
     \/ subject = "breakers" /\ BreakersNext
     \/ subject = "breaker" /\ BreakerNext
     \/ subject = "lock" /\ LockNext
     \/ subject = "period" /\ PeriodNext
     \/ subject = "less" /\ LessNext
     \/ subject = "delay" /\ DelayNext
     \/ subject = "bulk" /\ BulkNext
     \/ subject = "map" /\ MapNext
     \/ subject = "fifo" /\ FifoNext
     \/ subject = "ring" /\ RingNext
     \/ subject = "hash" /\ HashNext
     \/ subject = "bloom" /\ BloomNext
     \/ subject = "trie" /\ TrieNext
     \/ subject = "tree" /\ TreeNext
     \/ subject = "router" /\ RouterNext
     \/ subject = "p2c" /\ P2cNext
     \/ subject = "transact" /\ TransactNext
     \/ subject = "index" /\ IndexNext
     \/ subject = "values" /\ SubNext
     \/ subject = "kube" /\ KubeNext
     \/ subject = "config" /\ ConfigNext
     \/ subject = "shedder" /\ ShedNext
  /\ OthersRest

Spec == Init /\ [][Next]_vars

-----------------------------------------------------------------------------
(***************************************************************************)
(* What the components of MCStructures must keep, by the kind of promise.  *)
(***************************************************************************)
\* A shared resource is given out while it is good, is closed or cleaned once
\* when nobody uses it, and none is dropped or forgotten: Get of an
\* ImmutableResource, Take of a ManagedResource, Use of a RefResource,
\* GetResource of a ResourceManager and GetBreaker.
ResourcesKept ==
  /\ [](/\ NilExplained /\ BrokenNotTaken /\ NoneDropped /\ CleanedUnused /\ NoneForgotten /\ ReturnsCurrent
        /\ BreakersShared)
  /\ StaysLoaded

\* Requests are refused for a reason that still holds, and not for ever: the
\* breaker sees the last intervals of its window, passes when nothing in them
\* has failed and lets one request through in forcePassDuration; the shedder
\* counts the requests under way and drops only in the cool-off time of an
\* overload; and a PeriodLimit refuses what is over its quota.
RefusalsExplained ==
  /\ [](/\ WindowExact /\ LastReasons /\ HealthyPasses /\ OpenHasReason
        /\ FlyingCounted /\ DropsExplained /\ QuotaKept)
  /\ ForcedPass

\* Look-ups agree with their definitions: the last values of a ring, the node of
\* a point of the hash ring (and only a node's own values move with it), the
\* words in a text and what they are replaced by, the route of a path in both
\* routers; and a bloom filter never denies what was added to it.
LookupsExact ==
  /\ [](/\ LastValues /\ KeysMatchRing /\ NoFalseNegative /\ ScopesExact /\ SearchExact
        /\ (subject = "router" => RouterSound))
  /\ OnlyItsValuesMove /\ ReplacesLongest

\* A cached view is as new as what its reader was told of, but for the gaps named
\* in its component: Values of a subscriber and what its resolver gives to grpc, the
\* endpoints of a kube target, the snapshot of a configuration center and its
\* listeners.
ViewsCurrent ==
  /\ FreshValues /\ ResolverTold /\ KeysOfValues
  /\ EndpointsExplained /\ ToldAll
  /\ SnapshotCurrent /\ ListenersNotice

\* Every connection is tried in time, with the requests under way counted, no task
\* runs twice in an interval, none is missed after a trigger, and a row is inserted
\* with its own statement: the p2c balancer, the LessExecutor, the DelayExecutor
\* and the BulkInserter.
InTime == PickedInTime /\ InflightCounted /\ TasksSpaced /\ NoTriggerMissed /\ RowsMatchStmt

\* What a cached row is read for is what is committed, but for the reads that a
\* write overtakes: rows within a transaction, and rows found by another column.
RowsCurrent == TransactSound /\ IndexCurrent
=============================================================================
