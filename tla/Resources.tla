------------------------------ MODULE Resources ------------------------------
(***************************************************************************)
(* The ways to share one resource between goroutines: those of core/syncx, *)
(* and the breakers of core/breaker by their names.                        *)
(***************************************************************************)
EXTENDS Integers, FiniteSets, SingleFlight

(***************************************************************************)
(* core/syncx/immutableresource.go: a resource that Get fetches when it is *)
(* not loaded, at most once in a refreshInterval.  The n-th fetch that     *)
(* succeeds returns the resource n; 0 is nil.  Whether the interval since  *)
(* lastTime is over is left open; a lastTime of zero is always due.        *)
(***************************************************************************)
CONSTANTS Getters,
          MaxGets,    \* bound: calls of Get by a goroutine
          MaxFetches  \* bound: fetches that succeed

VARIABLES getter,    \* out, load, due, fetch, read, and then returned
          gets,
          resource, err,
          refreshed, \* lastTime is not zero
          fetched,   \* fetches that have succeeded
          answer,    \* what Get returned, <<resource, err>>
          fetchEnded,  \* history: some fetch has ended
          endedBefore  \* history: fetchEnded when this Get read lastTime

immutableVars == <<getter, gets, resource, err, refreshed, fetched, answer, fetchEnded, endedBefore>>

ImmutableInit ==
  /\ getter = [g \in Getters |-> "out"] /\ gets = [g \in Getters |-> 0]
  /\ resource = 0 /\ err = FALSE /\ refreshed = FALSE /\ fetched = 0
  /\ answer = [g \in Getters |-> <<0, TRUE>>]
  /\ fetchEnded = FALSE /\ endedBefore = [g \in Getters |-> FALSE]

GetterAt(g, s) == getter' = [getter EXCEPT ![g] = s]

\* The first read of Get: a loaded resource is returned.
ImmutableGet(g) ==
  /\ getter[g] \in {"out", "returned"} /\ gets[g] < MaxGets
  /\ gets' = [gets EXCEPT ![g] = @ + 1]
  /\ GetterAt(g, IF resource # 0 THEN "returned" ELSE "load")
  /\ answer' = [answer EXCEPT ![g] = IF resource # 0 THEN <<resource, FALSE>> ELSE @]
  /\ UNCHANGED <<resource, err, refreshed, fetched, fetchEnded, endedBefore>>

\* maybeRefresh reads lastTime, and only then sets it.
MaybeRefresh(g) ==
  /\ getter[g] = "load"
  /\ \E due \in BOOLEAN : /\ refreshed \/ due
                          /\ GetterAt(g, IF due THEN "due" ELSE "read")
  /\ endedBefore' = [endedBefore EXCEPT ![g] = fetchEnded]
  /\ UNCHANGED <<gets, resource, err, refreshed, fetched, answer, fetchEnded>>

SetLastTime(g) ==
  /\ getter[g] = "due"
  /\ refreshed' = TRUE
  /\ GetterAt(g, "fetch")
  /\ UNCHANGED <<gets, resource, err, fetched, answer, fetchEnded, endedBefore>>

\* Mutant of FetchFails: the error is not kept for the next callers.
FetchFailsQuiet(g) ==
  /\ getter[g] = "fetch"
  /\ fetchEnded' = TRUE
  /\ GetterAt(g, "read")
  /\ UNCHANGED <<gets, resource, err, refreshed, fetched, answer, endedBefore>>

FetchFails(g) ==
  /\ getter[g] = "fetch"
  /\ err' = TRUE /\ fetchEnded' = TRUE
  /\ GetterAt(g, "read")
  /\ UNCHANGED <<gets, resource, refreshed, fetched, answer, endedBefore>>

Fetched(g) ==
  /\ getter[g] = "fetch" /\ fetched < MaxFetches
  /\ fetched' = fetched + 1 /\ fetchEnded' = TRUE
  /\ resource' = fetched + 1 /\ err' = FALSE
  /\ GetterAt(g, "read")
  /\ UNCHANGED <<gets, refreshed, answer, endedBefore>>

\* The last read of Get.
ImmutableReturn(g) ==
  /\ getter[g] = "read"
  /\ answer' = [answer EXCEPT ![g] = <<resource, err>>]
  /\ GetterAt(g, "returned")
  /\ UNCHANGED <<gets, resource, err, refreshed, fetched, fetchEnded, endedBefore>>

ImmutableNext ==
  \E g \in Getters : \/ ImmutableGet(g) \/ MaybeRefresh(g) \/ SetLastTime(g)
                     \/ FetchFails(g) \/ Fetched(g) \/ ImmutableReturn(g)

ImmutableSpec == ImmutableInit /\ [][ImmutableNext]_immutableVars

-----------------------------------------------------------------------------
\* Once loaded, a resource stays loaded: a slow fetch that fails after another
\* has succeeded does not take it away.
StaysLoaded == [][resource # 0 => resource' # 0]_immutableVars

\* Get answers nil without an error only to a caller that comes while the first
\* fetch is still under way (it finds lastTime set and nothing stored yet): once
\* a fetch has ended, a Get returns a resource or an error.
NilExplained ==
  \A g \in Getters :
    getter[g] = "returned" /\ answer[g] = <<0, FALSE>> => ~endedBefore[g]

(***************************************************************************)
(* core/syncx/managedresource.go: ManagedResource, a resource that is      *)
(* generated again after a user has found it broken.                       *)
(*                                                                         *)
(* Take reads under the read lock and, when it read nil, looks again and   *)
(* generates under the write lock: two steps.  Every resource is a number; *)
(* equals compares them.                                                   *)
(***************************************************************************)
CONSTANTS Takers,
          MaxGenerated    \* bound on the resources

VARIABLES managed,        \* mr.resource; 0 is nil
          generated,      \* the number of calls of generate
          marked,         \* the resources somebody has marked broken
          taker, took,
          markedBefore    \* history: what was marked when a Take began

managedVars == <<managed, generated, marked, taker, took, markedBefore>>

ManagedInit ==
  /\ managed = 0 /\ generated = 0 /\ marked = {}
  /\ taker = [t \in Takers |-> "out"]
  /\ took = [t \in Takers |-> 0]
  /\ markedBefore = [t \in Takers |-> {}]

TakerGets(t, r) ==
  /\ taker' = [taker EXCEPT ![t] = IF r = 0 THEN "lock" ELSE "use"]
  /\ took' = [took EXCEPT ![t] = r]

TakeRead(t) ==
  /\ taker[t] = "out"
  /\ TakerGets(t, managed)
  /\ markedBefore' = [markedBefore EXCEPT ![t] = marked]
  /\ UNCHANGED <<managed, generated, marked>>

\* Mutant of TakeLocked: the resource is not looked at again.
TakeLockedBlind(t) ==
  /\ taker[t] = "lock" /\ generated < MaxGenerated
  /\ managed' = generated + 1 /\ generated' = generated + 1
  /\ TakerGets(t, generated + 1)
  /\ UNCHANGED <<marked, markedBefore>>

TakeLocked(t) ==
  /\ taker[t] = "lock"
  /\ managed = 0 => generated < MaxGenerated
  /\ IF managed = 0
     THEN managed' = generated + 1 /\ generated' = generated + 1 /\ TakerGets(t, generated + 1)
     ELSE TakerGets(t, managed) /\ UNCHANGED <<managed, generated>>
  /\ UNCHANGED <<marked, markedBefore>>

MarkBroken(t) ==
  /\ taker[t] = "use"
  /\ managed' = IF managed = took[t] THEN 0 ELSE managed
  /\ marked' = marked \cup {took[t]}
  /\ taker' = [taker EXCEPT ![t] = "out"]
  /\ UNCHANGED <<generated, took, markedBefore>>

UseEnds(t) ==
  /\ taker[t] = "use"
  /\ taker' = [taker EXCEPT ![t] = "out"]
  /\ UNCHANGED <<managed, generated, marked, took, markedBefore>>

ManagedNext == \E t \in Takers : TakeRead(t) \/ TakeLocked(t) \/ MarkBroken(t) \/ UseEnds(t)

ManagedSpec == ManagedInit /\ [][ManagedNext]_managedVars

\* A resource that somebody marked broken before Take was called is not given
\* out by it.
BrokenNotTaken == \A t \in Takers : taker[t] = "use" => took[t] \notin markedBefore[t]

\* No resource is dropped that nobody found broken: not by a second Take that
\* generates as well, and not by a late mark for the one before.
NoneDropped == \A r \in 1..generated : r = managed \/ r \in marked

(***************************************************************************)
(* core/syncx/refresource.go: RefResource, a resource with a count of its  *)
(* users that is cleaned by the last of them.  Use and Clean hold r.lock.  *)
(***************************************************************************)
CONSTANT RefUsers

VARIABLES ref, cleaned,
          cleans,       \* calls of r.clean
          refUser       \* out, use, over, or refused with ErrUseOfCleaned

refVars == <<ref, cleaned, cleans, refUser>>

RefInit ==
  /\ ref = 0 /\ cleaned = FALSE /\ cleans = 0
  /\ refUser = [u \in RefUsers |-> "out"]

RefUse(u) ==
  /\ refUser[u] = "out"
  /\ refUser' = [refUser EXCEPT ![u] = IF cleaned THEN "refused" ELSE "use"]
  /\ ref' = IF cleaned THEN ref ELSE ref + 1
  /\ UNCHANGED <<cleaned, cleans>>

\* Mutant of RefClean: the first user to leave cleans.
RefCleanFirst(u) ==
  /\ refUser[u] = "use"
  /\ refUser' = [refUser EXCEPT ![u] = "over"]
  /\ ref' = ref - 1
  /\ cleaned' = TRUE /\ cleans' = cleans + 1

RefClean(u) ==
  /\ refUser[u] = "use"
  /\ refUser' = [refUser EXCEPT ![u] = "over"]
  /\ IF cleaned THEN UNCHANGED <<ref, cleaned, cleans>>
     ELSE /\ ref' = ref - 1
          /\ cleaned' = (ref = 1)
          /\ cleans' = IF ref = 1 THEN cleans + 1 ELSE cleans

RefNext == \E u \in RefUsers : RefUse(u) \/ RefClean(u)

RefSpec == RefInit /\ [][RefNext]_refVars

\* The resource is cleaned at most once, and then nobody is using it.
CleanedUnused ==
  /\ cleans = IF cleaned THEN 1 ELSE 0
  /\ cleaned => \A u \in RefUsers : refUser[u] # "use"

(***************************************************************************)
(* core/syncx/resourcemanager.go: ResourceManager, which creates the       *)
(* resource of a key once, in a SingleFlight call, and closes them all.    *)
(*                                                                         *)
(* The function given to SingleFlight has three steps: the look-up under   *)
(* the read lock, create, and the store under the write lock.  Close sets  *)
(* the map to nil: a later look-up finds nothing, a later store panics.    *)
(* Every resource is a number.                                             *)
(***************************************************************************)
CONSTANTS CreateError,
          MaxCreated      \* bound on the resources

VARIABLES resources,      \* manager.resources; 0 where the key is missing
          mapGone,        \* manager.resources is nil
          opened,         \* the number of resources
          managerUser,    \* the step of the function, and its key
          made,           \* what create returned to it
          closedOnes,     \* the resources Close has closed
          replaced,       \* those Inject has put another in the place of
          injected,       \* those Inject was given
          orphans         \* those whose store panicked

managerVars == <<resources, mapGone, opened, managerUser, made, closedOnes, replaced, injected, orphans,
                 flight>>

ManagerInit ==
  /\ resources = [k \in Keys |-> 0] /\ mapGone = FALSE
  /\ opened = 0
  /\ managerUser = [p \in Procs |-> <<>>]
  /\ made = [p \in Procs |-> 0]
  /\ closedOnes = {} /\ replaced = {} /\ injected = {} /\ orphans = {}
  /\ FlightInit

UserAt(p, s) == managerUser' = [managerUser EXCEPT ![p] = <<s, managerUser[p][2]>>]

GetterIs(p, s) == phase[p] = "fn" /\ managerUser[p][1] = s

GetResource(p, k) ==
  /\ CreateCall(p, k)
  /\ managerUser' = [managerUser EXCEPT ![p] = <<"look", k>>]
  /\ UNCHANGED <<resources, mapGone, opened, made, closedOnes, replaced, injected, orphans>>

\* Mutant of LookUp: the map is not looked at.
LookUpNothing(p) ==
  /\ GetterIs(p, "look")
  /\ UserAt(p, "create") /\ UNCHANGED flight
  /\ UNCHANGED <<resources, mapGone, opened, made, closedOnes, replaced, injected, orphans>>

LookUp(p) ==
  /\ GetterIs(p, "look")
  /\ IF resources[managerUser[p][2]] # 0
     THEN FnReturns(p, resources[managerUser[p][2]]) /\ UNCHANGED managerUser
     ELSE UserAt(p, "create") /\ UNCHANGED flight
  /\ UNCHANGED <<resources, mapGone, opened, made, closedOnes, replaced, injected, orphans>>

Create(p) ==
  /\ GetterIs(p, "create") /\ opened < MaxCreated
  /\ opened' = opened + 1
  /\ made' = [made EXCEPT ![p] = opened + 1]
  /\ UserAt(p, "store")
  /\ UNCHANGED <<resources, mapGone, closedOnes, replaced, injected, orphans, flight>>

CreateFails(p) ==
  /\ GetterIs(p, "create")
  /\ FnReturns(p, CreateError)
  /\ UNCHANGED <<resources, mapGone, opened, managerUser, made, closedOnes, replaced, injected, orphans>>

StoreResource(p) ==
  /\ GetterIs(p, "store")
  /\ IF mapGone
     THEN /\ FnReturns(p, Panicked)
          /\ orphans' = orphans \cup {made[p]} /\ UNCHANGED resources
     ELSE /\ FnReturns(p, made[p])
          /\ resources' = [resources EXCEPT ![managerUser[p][2]] = made[p]] /\ UNCHANGED orphans
  /\ UNCHANGED <<mapGone, opened, managerUser, made, closedOnes, replaced, injected>>

GetEnds(p) ==
  /\ DeleteCall(p) \/ Done(p) \/ DoReturns(p)
  /\ UNCHANGED <<resources, mapGone, opened, managerUser, made, closedOnes, replaced, injected, orphans>>

\* The caller gives a resource of its own; the one before is not closed.
Inject(k) ==
  /\ ~mapGone /\ opened < MaxCreated
  /\ opened' = opened + 1
  /\ resources' = [resources EXCEPT ![k] = opened + 1]
  /\ replaced' = replaced \cup ({resources[k]} \ {0})
  /\ injected' = injected \cup {opened + 1}
  /\ UNCHANGED <<mapGone, managerUser, made, closedOnes, orphans, flight>>

ManagerClose ==
  /\ ~mapGone /\ mapGone' = TRUE
  /\ closedOnes' = {resources[k] : k \in Keys} \ {0}
  /\ resources' = [k \in Keys |-> 0]
  /\ UNCHANGED <<opened, managerUser, made, replaced, injected, orphans, flight>>

ManagerNext ==
  \/ \E p \in Procs :
       \/ LookUp(p) \/ Create(p) \/ CreateFails(p) \/ StoreResource(p) \/ GetEnds(p)
       \/ \E k \in Keys : GetResource(p, k)
  \/ ManagerClose
  \/ \E k \in Keys : Inject(k)

ManagerSpec == ManagerInit /\ [][ManagerNext]_managerVars

\* No resource is created beside one that is in use and then forgotten: each is
\* in the map, about to be stored, closed, or was replaced by Inject, unless the
\* manager was closed while it was being created.  A call of GetResource never
\* stores in the place of what another call stored; it may do so in the place of
\* what Inject was given while it was creating.
InHand == {made[p] : p \in {q \in Procs : GetterIs(q, "store")}}
NoneForgotten ==
  \A r \in 1..opened :
    r \in {resources[k] : k \in Keys} \cup InHand \cup closedOnes \cup replaced \cup injected
      \cup orphans

\* What GetResource returns is the resource of the key for as long as it is open,
\* also to the callers that waited for another's call.
ReturnsCurrent ==
  \A p \in Procs :
    phase[p] = "return" /\ result[p] \in 1..MaxCreated =>
      result[p] \in {resources[managerUser[p][2]]} \cup closedOnes \cup replaced \cup injected

(***************************************************************************)
(* core/breaker/breakers.go: the breaker of a name, which GetBreaker looks *)
(* up under the read lock and then, if there is none, again under the      *)
(* write lock; NoBreakerFor puts a NopBreaker in its place.  Breakers are  *)
(* numbers, in the order they are made; names do not interact.             *)
(***************************************************************************)
CONSTANTS BreakerUsers,
          MaxBreakers     \* bound on the breakers

VARIABLES breakers,       \* the breaker of the name; 0 is none
          breakersMade,
          nops,           \* those that are a NopBreaker
          breakerUser,    \* out, lock, has
          userBreaker,    \* what GetBreaker returned
          nopsBefore      \* history: nops when GetBreaker was called

breakersVars == <<breakers, breakersMade, nops, breakerUser, userBreaker, nopsBefore>>

BreakersInit ==
  /\ breakers = 0 /\ breakersMade = 0 /\ nops = {}
  /\ breakerUser = [u \in BreakerUsers |-> "out"]
  /\ userBreaker = [u \in BreakerUsers |-> 0]
  /\ nopsBefore = [u \in BreakerUsers |-> {}]

UserHas(u, b) ==
  /\ breakerUser' = [breakerUser EXCEPT ![u] = IF b = 0 THEN "lock" ELSE "has"]
  /\ userBreaker' = [userBreaker EXCEPT ![u] = b]

GetBreaker(u) ==
  /\ breakerUser[u] \in {"out", "has"}
  /\ UserHas(u, breakers)
  /\ nopsBefore' = [nopsBefore EXCEPT ![u] = nops]
  /\ UNCHANGED <<breakers, breakersMade, nops>>

\* Mutant of GetBreakerLocked: the name is not looked up again.
GetBreakerBlind(u) ==
  /\ breakerUser[u] = "lock" /\ breakersMade < MaxBreakers
  /\ breakers' = breakersMade + 1 /\ breakersMade' = breakersMade + 1
  /\ UserHas(u, breakersMade + 1)
  /\ UNCHANGED <<nops, nopsBefore>>

GetBreakerLocked(u) ==
  /\ breakerUser[u] = "lock"
  /\ \/ /\ breakers # 0
        /\ UserHas(u, breakers) /\ UNCHANGED <<breakers, breakersMade>>
     \/ /\ breakers = 0 /\ breakersMade < MaxBreakers
        /\ breakers' = breakersMade + 1 /\ breakersMade' = breakersMade + 1
        /\ UserHas(u, breakersMade + 1)
  /\ UNCHANGED <<nops, nopsBefore>>

NoBreakerFor ==
  /\ breakersMade < MaxBreakers
  /\ breakers' = breakersMade + 1 /\ breakersMade' = breakersMade + 1
  /\ nops' = nops \cup {breakersMade + 1}
  /\ UNCHANGED <<breakerUser, userBreaker, nopsBefore>>

BreakersNext == NoBreakerFor \/ \E u \in BreakerUsers : GetBreaker(u) \/ GetBreakerLocked(u)

\* All that ever counted for a name count in one breaker; and once it was disabled,
\* GetBreaker gives a breaker that lets everything pass.
BreakersShared ==
  /\ Cardinality(1..breakersMade \ nops) <= 1
  /\ \A u \in BreakerUsers : breakerUser[u] = "has" /\ nopsBefore[u] # {} => userBreaker[u] \in nops
=============================================================================
