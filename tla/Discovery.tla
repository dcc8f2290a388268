----------------------------- MODULE Discovery ------------------------------
(***************************************************************************)
(* What the users of a registry, of Kubernetes and of a configuration      *)
(* source are told: three parts that follow something external and must    *)
(* end with its last value.                                                *)
(***************************************************************************)
EXTENDS Integers, FiniteSets, FiniteSetsExt, DiscovContainer

(***************************************************************************)
(* core/discov/subscriber.go: the container of a Subscriber, with its      *)
(* snapshot and the dirty flag that are read without the lock, and its     *)
(* listener: the update function of zrpc/resolver/internal/                *)
(* discovbuilder.go, which hands a subset of Values to grpc.               *)
(*                                                                         *)
(* Values gives every caller the same slice, and subset shuffles it in     *)
(* place: two updates that shuffle one slice at a time race, and what they *)
(* hand on may then miss values (duplicates stand in their place), until   *)
(* the slice is built anew.  Such a slice is torn.                         *)
(***************************************************************************)

CONSTANTS SubKeys, SubValues,
          Tellers,      \* goroutines that call OnAdd and OnDelete, or build the resolver
          SubsetSize,   \* subsetSize
          MaxTold       \* bound: calls of OnAdd and OnDelete

VARIABLES box,          \* the container
          exclusive,
          valueOf,      \* the value a publisher puts for its key, for good
          dirty, subSnapshot,
          resolving,    \* update is a listener
          teller,       \* out, notify, update, load, build, shuffle, state
          got,          \* the slice that Values gave
          shuffling,    \* those who shuffle the slice of the snapshot now
          grpc,         \* the state that grpc has
          subTold,      \* history: how many changes the container was told of
          begun, newest \* history: subTold when Values began; of the newest state

subHistory == <<subTold, begun, newest>>
subVars == <<box, exclusive, valueOf, dirty, subSnapshot, resolving, teller, got, shuffling, grpc, subHistory>>

Slice(vals, at) == [values |-> vals, told |-> at, torn |-> FALSE]

SubInit ==
  /\ box = newContainer /\ exclusive \in BOOLEAN
  /\ valueOf \in [SubKeys -> SubValues]
  /\ dirty = TRUE /\ subSnapshot = Slice({}, -1) /\ resolving = FALSE
  /\ teller = [r \in Tellers |-> "out"] /\ got = [r \in Tellers |-> Slice({}, -1)]
  /\ shuffling = {} /\ grpc = Slice({}, -1)
  /\ subTold = 0 /\ begun = [r \in Tellers |-> 0] /\ newest = -1

TellerAt(r, s) == teller' = [teller EXCEPT ![r] = s]

\* The sections of OnAdd and OnDelete under c.lock.  A reader that sees dirty
\* set within one waits for its end.
SubChange(r, c) ==
  /\ teller[r] = "out" /\ subTold < MaxTold /\ subTold' = subTold + 1
  /\ box' = c /\ dirty' = TRUE /\ TellerAt(r, "notify")
  /\ UNCHANGED <<exclusive, valueOf, subSnapshot, resolving, got, shuffling, grpc, begun, newest>>
SubAdd(r, k) == SubChange(r, addKv(box, exclusive, k, valueOf[k]))
SubDelete(r, k) == SubChange(r, doRemoveKey(box, k))

\* notifyChange copies the listeners.
Notify(r) ==
  /\ teller[r] = "notify" /\ TellerAt(r, IF resolving THEN "update" ELSE "out")
  /\ UNCHANGED <<box, exclusive, valueOf, dirty, subSnapshot, resolving, got, shuffling, grpc, subHistory>>

\* Mutant of BuildResolver: it relies on the listener alone.
BuildResolverQuiet(r) ==
  /\ ~resolving /\ teller[r] = "out"
  /\ resolving' = TRUE
  /\ UNCHANGED <<box, exclusive, valueOf, dirty, subSnapshot, teller, got, shuffling, grpc, subHistory>>

\* Build of the discovBuilder: AddListener, then update.
BuildResolver(r) ==
  /\ ~resolving /\ teller[r] = "out"
  /\ resolving' = TRUE /\ TellerAt(r, "update")
  /\ UNCHANGED <<box, exclusive, valueOf, dirty, subSnapshot, got, shuffling, grpc, subHistory>>

\* Mutant of SeesDirty: the flag is cleared as soon as it is seen.
SeesDirtyClears(r) ==
  /\ teller[r] = "update" /\ TellerAt(r, IF dirty THEN "build" ELSE "load")
  /\ begun' = [begun EXCEPT ![r] = subTold]
  /\ dirty' = FALSE
  /\ UNCHANGED <<box, exclusive, valueOf, subSnapshot, resolving, got, shuffling, grpc, subTold, newest>>

SeesDirty(r) ==
  /\ teller[r] = "update" /\ TellerAt(r, IF dirty THEN "build" ELSE "load")
  /\ begun' = [begun EXCEPT ![r] = subTold]
  /\ UNCHANGED <<box, exclusive, valueOf, dirty, subSnapshot, resolving, got, shuffling, grpc, subTold, newest>>

\* Values gives the slice of the snapshot.  Whoever is shuffling it races with
\* this caller, who is about to.
LoadSnapshot(r) ==
  /\ teller[r] = "load" /\ TellerAt(r, "shuffle")
  /\ LET s == [subSnapshot EXCEPT !.torn = @ \/ shuffling # {}] IN
       /\ subSnapshot' = s
       /\ got' = [o \in Tellers |-> IF o = r \/ o \in shuffling THEN s ELSE got[o]]
  /\ shuffling' = shuffling \cup {r}
  /\ UNCHANGED <<box, exclusive, valueOf, dirty, resolving, grpc, subHistory>>

BuildSnapshot(r) ==
  /\ teller[r] = "build" /\ TellerAt(r, "shuffle")
  /\ subSnapshot' = Slice(getValues(box), subTold) /\ dirty' = FALSE
  /\ got' = [got EXCEPT ![r] = Slice(getValues(box), subTold)]
  /\ shuffling' = {r}
  /\ UNCHANGED <<box, exclusive, valueOf, resolving, grpc, subHistory>>

\* subset: the slice, or its first SubsetSize values after the shuffle.
SubsetsOf(s) ==
  IF s.torn THEN {v \in SUBSET s.values : Cardinality(v) <= SubsetSize /\ v # {}}
  ELSE kSubset(Min({SubsetSize, Cardinality(s.values)}), s.values)

Subset(r) ==
  /\ teller[r] = "shuffle" /\ TellerAt(r, "state")
  /\ \E v \in SubsetsOf(got[r]) : got' = [got EXCEPT ![r].values = v]
  /\ shuffling' = shuffling \ {r}
  /\ UNCHANGED <<box, exclusive, valueOf, dirty, subSnapshot, resolving, grpc, subHistory>>

UpdateState(r) ==
  /\ teller[r] = "state" /\ TellerAt(r, "out")
  /\ grpc' = got[r] /\ newest' = Max({newest, got[r].told})
  /\ got' = [got EXCEPT ![r] = Slice({}, -1)] /\ begun' = [begun EXCEPT ![r] = 0]
  /\ UNCHANGED <<box, exclusive, valueOf, dirty, subSnapshot, resolving, shuffling, subTold>>

SubNext ==
  \E r \in Tellers :
    \/ \E k \in SubKeys : SubAdd(r, k) \/ SubDelete(r, k)
    \/ Notify(r) \/ BuildResolver(r) \/ SeesDirty(r) \/ LoadSnapshot(r) \/ BuildSnapshot(r)
    \/ Subset(r) \/ UpdateState(r)

SubSpec == SubInit /\ [][SubNext]_subVars

-----------------------------------------------------------------------------
\* Values gives nothing older than what the container had been told of when it
\* was called: a listener that calls it sees the change it is called for.
FreshValues == \A r \in Tellers : teller[r] \in {"shuffle", "state"} => begun[r] <= got[r].told

\* When all is quiet grpc has been given the values after the last change, also
\* when the change came while the resolver was built; it has them still, as many
\* as subset leaves, unless an update with older values ended after that one
\* or two updates have shuffled one slice at a time.
ResolverTold ==
  resolving /\ (\A r \in Tellers : teller[r] = "out") =>
    /\ newest = subTold
    /\ grpc.told = subTold /\ ~grpc.torn => grpc.values \in SubsetsOf(Slice(getValues(box), subTold))

\* "later added value will remove the keys associated with the same value": an
\* exclusive container has at most one key for a value, any other all of them.
\* The values are those of the keys that were added and not deleted since.
KeysOfValues ==
  /\ {vk[1] : vk \in box.values} = {box.mapping[k] : k \in DOMAIN box.mapping}
  /\ ~exclusive => box.values = {<<box.mapping[k], k>> : k \in DOMAIN box.mapping}
  /\ exclusive => \A x, y \in box.values : x[1] = y[1] => x = y

-----------------------------------------------------------------------------
(***************************************************************************)
(* zrpc/resolver/internal/kube/eventhandler.go with the builder that uses  *)
(* it, zrpc/resolver/internal/kubebuilder.go: the addresses of a service.  *)
(*                                                                         *)
(* Build gets the endpoints once, gives them to the handler and starts the *)
(* informer, which lists the object again and then tells the handler about *)
(* changes, in order, perhaps several at once.  The cluster and the        *)
(* informer are external.                                                  *)
(***************************************************************************)

CONSTANTS Addresses,
          MaxVersions     \* bound on the changes of the object

VARIABLES object,         \* in the cluster: its addresses and its version
          listed,         \* the object as the informer last told it
          building,       \* Build: get, update, start, over
          gotObject,      \* what Build got
          endpoints,      \* the handler's
          told,           \* the addresses given to update
          leftover        \* history: addresses no event has taken away

kubeVars == <<object, listed, building, gotObject, endpoints, told, leftover>>

Object(as, v) == [exists |-> TRUE, addresses |-> as, version |-> v]
Nothing(v) == [exists |-> FALSE, addresses |-> {}, version |-> v]

KubeInit ==
  /\ \E as \in SUBSET Addresses : object = Object(as, 1)
  /\ listed = Nothing(0) /\ building = "get" /\ gotObject = Nothing(0)
  /\ endpoints = {} /\ told = {} /\ leftover = {}

\* The object is changed, deleted or created again.
ObjectChanges(as) ==
  /\ object.version < MaxVersions
  /\ object' = Object(as, object.version + 1)
  /\ UNCHANGED <<listed, building, gotObject, endpoints, told, leftover>>

ObjectDeleted ==
  /\ object.exists /\ object.version < MaxVersions
  /\ object' = Nothing(object.version + 1)
  /\ UNCHANGED <<listed, building, gotObject, endpoints, told, leftover>>

Differ(old, new) == old # new

\* notify is called when the set has changed.
Stored(new) ==
  /\ endpoints' = new
  /\ told' = IF Differ(endpoints, new) THEN new ELSE told

\* Build fails when there is no such object.
BuildGets ==
  /\ object.exists /\ building = "get" /\ building' = "update"
  /\ gotObject' = object
  /\ UNCHANGED <<object, listed, endpoints, told, leftover>>

BuildUpdates ==
  /\ building = "update" /\ building' = "start"
  /\ Stored(gotObject.addresses)
  /\ UNCHANGED <<object, listed, gotObject, leftover>>

\* The informer's first list is an added object, if there is one.
BuildStarts ==
  /\ building = "start" /\ building' = "over"
  /\ Stored(endpoints \cup object.addresses)
  /\ listed' = object
  /\ leftover' = gotObject.addresses \ object.addresses
  /\ UNCHANGED <<object, gotObject>>

\* Mutant of OnAdd: the added object's addresses are taken only when there are
\* none yet.
OnAddFirst ==
  /\ building = "over" /\ ~listed.exists /\ object.exists
  /\ Stored(IF endpoints = {} THEN object.addresses ELSE endpoints)
  /\ listed' = object
  /\ leftover' = leftover \ object.addresses
  /\ UNCHANGED <<object, building, gotObject>>

OnAdd ==
  /\ building = "over" /\ ~listed.exists /\ object.exists
  /\ Stored(endpoints \cup object.addresses)
  /\ listed' = object
  /\ leftover' = leftover \ object.addresses
  /\ UNCHANGED <<object, building, gotObject>>

OnUpdate ==
  /\ building = "over" /\ listed.exists /\ object.exists
  /\ listed.version # object.version
  /\ Stored(object.addresses)
  /\ listed' = object /\ leftover' = {}
  /\ UNCHANGED <<object, building, gotObject>>

OnDelete ==
  /\ building = "over" /\ listed.exists /\ ~object.exists
  /\ Stored(endpoints \ listed.addresses)
  /\ listed' = object
  /\ UNCHANGED <<object, building, gotObject, leftover>>

\* The informer missed the deletion and passes a tombstone, which is not an
\* Endpoints object: it is ignored.
OnDeleteUnknown ==
  /\ building = "over" /\ listed.exists /\ ~object.exists
  /\ listed' = object
  /\ leftover' = leftover \cup listed.addresses
  /\ UNCHANGED <<object, building, gotObject, endpoints, told>>

KubeNext ==
  \/ \E as \in SUBSET Addresses : ObjectChanges(as)
  \/ ObjectDeleted \/ BuildGets \/ BuildUpdates \/ BuildStarts
  \/ OnAdd \/ OnUpdate \/ OnDelete \/ OnDeleteUnknown

KubeSpec == KubeInit /\ [][KubeNext]_kubeVars

-----------------------------------------------------------------------------
\* Once the informer has told the handler of the object as it is, the handler
\* has all its addresses; and an address it has beyond them is one that Build got
\* and that was gone when the informer listed the object, or one of an object
\* whose deletion came as a tombstone: only the next OnUpdate takes it away.
EndpointsExplained ==
  building = "over" /\ listed = object =>
    /\ object.addresses \subseteq endpoints
    /\ endpoints \ object.addresses \subseteq leftover

\* The connection was told the addresses the handler has, however they changed.
ToldAll == told = endpoints

-----------------------------------------------------------------------------
(***************************************************************************)
(* core/configcenter/configurator.go: configCenter, which keeps the last   *)
(* configuration it loaded and tells listeners about new ones.             *)
(*                                                                         *)
(* The subscriber (external: its Value and its AddListener) calls onChange *)
(* after each change; two calls may overlap, for the changes can come from *)
(* two goroutines of the registry.  A configuration is the number of its   *)
(* change; the ones in Unusable are empty or do not unmarshal.             *)
(***************************************************************************)

CONSTANTS ConfigListeners,
          Callbacks,      \* goroutines that call onChange
          MaxChanges, Unusable,
          MaxValueErrors  \* bound on failing reads of the subscriber

VARIABLES published,      \* the subscriber's value
          creating,       \* NewConfigCenter: load, store, listen, check, over, failed
          newRead,        \* what NewConfigCenter read
          change,         \* of a call of onChange: <<"out">>, <<"read">>, <<"store", v>>, <<"copy">>
          snapshot,
          listening,      \* listeners added, with the value published then
          toRun,          \* listeners started as goroutines
          noticed,        \* history: what a listener found when it ran
          missed,         \* history: no call of onChange has taken this change
          valueErrors

configVars == <<published, creating, newRead, change, snapshot, listening, toRun, noticed, missed,
                valueErrors>>

NotListening == 0 - 1

ConfigInit ==
  /\ published = 0 /\ creating = "load" /\ newRead = 0
  /\ change = [p \in Callbacks |-> <<"out">>]
  /\ snapshot = 0 /\ valueErrors = 0
  /\ listening = [l \in ConfigListeners |-> NotListening]
  /\ toRun = [l \in ConfigListeners |-> 0] /\ noticed = [l \in ConfigListeners |-> 0]
  /\ missed = FALSE

OfNew == <<creating, newRead>>
OfListeners == <<listening, toRun, noticed>>

\* Is onChange with the subscriber?
Subscribed == creating \in {"check", "over", "failed"}

\* The value changes; the subscriber calls onChange if it has been given it.
Publish(p) ==
  /\ published < MaxChanges
  /\ change[p] = <<"out">>
  /\ published' = published + 1
  /\ change' = IF Subscribed THEN [change EXCEPT ![p] = <<"read">>] ELSE change
  /\ missed' = (missed \/ (~Subscribed /\ creating # "load"))
  /\ UNCHANGED <<OfNew, snapshot, OfListeners, valueErrors>>

\* loadConfig of NewConfigCenter; an error of the subscriber is returned.
NewLoads ==
  /\ creating = "load"
  /\ newRead' = published /\ creating' = "store"
  /\ UNCHANGED <<published, change, snapshot, OfListeners, missed, valueErrors>>

NewStores ==
  /\ creating = "store"
  /\ snapshot' = newRead /\ creating' = "listen"
  /\ UNCHANGED <<published, newRead, change, OfListeners, missed, valueErrors>>

NewListens ==
  /\ creating = "listen" /\ creating' = "check"
  /\ UNCHANGED <<published, newRead, change, snapshot, OfListeners, missed, valueErrors>>

\* GetConfig; a center that is not returned stays with the subscriber.
NewChecks ==
  /\ creating = "check"
  /\ creating' = IF snapshot \in Unusable THEN "failed" ELSE "over"
  /\ UNCHANGED <<published, newRead, change, snapshot, OfListeners, missed, valueErrors>>

AddListener(l) ==
  /\ creating = "over" /\ listening[l] = NotListening
  /\ listening' = [listening EXCEPT ![l] = published]
  /\ UNCHANGED <<published, OfNew, change, snapshot, toRun, noticed, missed, valueErrors>>

ReadValue(p) ==
  /\ change[p] = <<"read">>
  /\ change' = [change EXCEPT ![p] = <<"store", published>>]
  /\ UNCHANGED <<published, OfNew, snapshot, OfListeners, missed, valueErrors>>

\* onChange returns at the error: nobody is told.
ReadValueFails(p) ==
  /\ change[p] = <<"read">> /\ valueErrors < MaxValueErrors
  /\ change' = [change EXCEPT ![p] = <<"out">>]
  /\ missed' = TRUE /\ valueErrors' = valueErrors + 1
  /\ UNCHANGED <<published, OfNew, snapshot, OfListeners>>

\* Mutant of StoreValue: a configuration that cannot be used is not stored.
StoreUsable(p) ==
  /\ change[p][1] = "store"
  /\ snapshot' = IF change[p][2] \in Unusable THEN snapshot ELSE change[p][2]
  /\ missed' = (change[p][2] # published /\ (missed \/ change[p][2] < snapshot))
  /\ change' = [change EXCEPT ![p] = <<"copy">>]
  /\ UNCHANGED <<published, OfNew, OfListeners, valueErrors>>

\* The read and the store are two steps: a value that was read before a newer one
\* was stored can replace it.
StoreValue(p) ==
  /\ change[p][1] = "store"
  /\ snapshot' = change[p][2]
  /\ missed' = (change[p][2] # published /\ (missed \/ change[p][2] < snapshot))
  /\ change' = [change EXCEPT ![p] = <<"copy">>]
  /\ UNCHANGED <<published, OfNew, OfListeners, valueErrors>>

TellListeners(p) ==
  /\ change[p] = <<"copy">>
  /\ toRun' = [l \in ConfigListeners |-> IF listening[l] = NotListening THEN 0 ELSE toRun[l] + 1]
  /\ change' = [change EXCEPT ![p] = <<"out">>]
  /\ UNCHANGED <<published, OfNew, snapshot, listening, noticed, missed, valueErrors>>

\* A listener runs and gets the configuration.
ListenerRuns(l) ==
  /\ toRun[l] > 0
  /\ toRun' = [toRun EXCEPT ![l] = @ - 1]
  /\ noticed' = [noticed EXCEPT ![l] = snapshot]
  /\ UNCHANGED <<published, OfNew, change, snapshot, listening, missed, valueErrors>>

ConfigNext ==
  \/ NewLoads \/ NewStores \/ NewListens \/ NewChecks
  \/ \E p \in Callbacks : \/ Publish(p) \/ ReadValue(p) \/ ReadValueFails(p) \/ StoreValue(p)
                          \/ TellListeners(p)
  \/ \E l \in ConfigListeners : AddListener(l) \/ ListenerRuns(l)

ConfigSpec == ConfigInit /\ [][ConfigNext]_configVars

-----------------------------------------------------------------------------
Settled == creating \in {"over", "failed"} /\ \A p \in Callbacks : change[p] = <<"out">>

\* When no change is being handled, the snapshot is what the subscriber has,
\* unless the last change came while NewConfigCenter had read the value and not
\* yet added onChange, its read failed, or an overlapping call stored an older
\* value last.
SnapshotCurrent == Settled /\ ~missed => snapshot = published

\* Then each listener added before the last change has run with that value,
\* when its goroutines have run.
ListenersNotice ==
  Settled /\ ~missed =>
    \A l \in ConfigListeners :
      listening[l] # NotListening /\ listening[l] < published /\ toRun[l] = 0 =>
        noticed[l] = published
=============================================================================
