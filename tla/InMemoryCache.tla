---------------------------- MODULE InMemoryCache ----------------------------
(***************************************************************************)
(* core/collection/cache.go: Get, SetWithExpire, Del, Take, the LRU list   *)
(* and the expiry of items by the timing wheel.                            *)
(*                                                                         *)
(* A section under c.lock is one step; the call to the timing wheel that   *)
(* follows it is another.  The wheel appears as the set of keys it has a   *)
(* timer for, and fires a timer at any time: an Expirer is the goroutine   *)
(* that runs the fired task, which is Del.  The hit and miss counters are  *)
(* left out.                                                               *)
(***************************************************************************)
EXTENDS Integers, Sequences, SequencesExt, SingleFlight

CONSTANTS Clients,   \* goroutines that call the cache
          Expirers,  \* goroutines of the wheel (bounds the tasks fired at once)
          Limit      \* WithLimit; 0 is emptyLru

ASSUME ClientsAssumption == Procs = Clients \cup Expirers /\ Clients \cap Expirers = {}
ASSUME LimitAssumption == Limit \in Nat

VARIABLES data,      \* the keys of c.data
          evicts,    \* keyLru: the keys of the list, the front first
          armed,     \* the keys the wheel has a timer for
          pc,        \* control point of every goroutine
          key,       \* the key of its call
          found,     \* SetWithExpire's ok: the key was in data
          taking,    \* the call is the Set inside Take
          raced      \* history: keys set while a Del of theirs was half done

cacheVars == <<data, evicts, armed, pc, key, found, taking, raced, flight>>

\* Only c.data, the list and the wheel.
storage == <<data, evicts, armed>>

\* What key holds for a goroutine that is in no call.
AnyKey == CHOOSE k \in Keys : TRUE

CacheInit ==
  /\ data = {} /\ evicts = <<>> /\ armed = {}
  /\ pc = [p \in Procs |-> "ready"]
  /\ key = [p \in Procs |-> AnyKey]
  /\ found = {} /\ taking = {} /\ raced = {}
  /\ FlightInit

Goto(p, l) == pc' = [pc EXCEPT ![p] = l]
\* Goto, when l may be the return of the call.
GotoOrLeave(p, l) ==
  Goto(p, l) /\ key' = IF l = "ready" THEN [key EXCEPT ![p] = AnyKey] ELSE key

(***************************************************************************)
(* keyLru.  onEvict deletes the key from data and removes its timer, all   *)
(* under c.lock.                                                           *)
(***************************************************************************)
\* add(k), when d are the keys of data.
LruAdd(k, d) ==
  LET list == <<k>> \o SelectSeq(evicts, LAMBDA x : x # k)
      old  == IF Len(list) > Limit THEN {Last(list)} ELSE {}
  IN /\ evicts' = IF Limit = 0 THEN <<>> ELSE SelectSeq(list, LAMBDA x : x \notin old)
     /\ data' = IF Limit = 0 THEN d ELSE d \ old
     /\ armed' = IF Limit = 0 THEN armed ELSE armed \ old

\* remove(k), when d are the keys of data.
LruRemove(k, d) ==
  LET here == {x \in {k} : x \in ToSet(evicts)}
  IN /\ evicts' = SelectSeq(evicts, LAMBDA x : x # k)
     /\ data' = d \ here
     /\ armed' = armed \ here

(***************************************************************************)
(* Del, by a client or by the wheel.                                       *)
(***************************************************************************)
\* Mutant of DelData: the key stays in the list.
DelKeepsElement(p) ==
  /\ pc[p] = "del"
  /\ data' = data \ {key[p]}
  /\ Goto(p, "removetimer")
  /\ raced' = raced \ {key[p]}
  /\ UNCHANGED <<evicts, armed, key, found, taking, flight>>

DelData(p) ==
  /\ pc[p] = "del"
  /\ LruRemove(key[p], data \ {key[p]})
  /\ Goto(p, "removetimer")
  /\ raced' = raced \ {key[p]}
  /\ UNCHANGED <<key, found, taking, flight>>

DelTimer(p) ==
  /\ pc[p] = "removetimer"
  /\ armed' = armed \ {key[p]}
  /\ GotoOrLeave(p, "ready")
  /\ UNCHANGED <<data, evicts, found, taking, raced, flight>>

\* The wheel runs the task of k.
Fire(e, k) ==
  /\ pc[e] = "ready" /\ e \in Expirers /\ k \in armed
  /\ armed' = armed \ {k}
  /\ key' = [key EXCEPT ![e] = k]
  /\ Goto(e, "del")
  /\ UNCHANGED <<data, evicts, found, taking, raced, flight>>

(***************************************************************************)
(* SetWithExpire.                                                          *)
(***************************************************************************)
HalfDeleted(k) == \E q \in Procs : key[q] = k /\ pc[q] = "removetimer"

SetData(p) ==
  /\ pc[p] = "set"
  /\ LruAdd(key[p], data \cup {key[p]})
  /\ found' = IF key[p] \in data THEN found \cup {p} ELSE found \ {p}
  /\ raced' = IF HalfDeleted(key[p]) THEN raced \cup {key[p]} ELSE raced
  /\ Goto(p, "settimer")
  /\ UNCHANGED <<key, taking, flight>>

\* Mutant of SetTimer: the timer of a new key is moved, not set.
SetMovesTimer(p) ==
  /\ pc[p] = "settimer"
  /\ GotoOrLeave(p, IF p \in taking THEN "stored" ELSE "ready")
  /\ found' = found \ {p}
  /\ UNCHANGED <<data, evicts, armed, taking, raced, flight>>

\* MoveTimer on a key without a timer does nothing.
SetTimer(p) ==
  /\ pc[p] = "settimer"
  /\ armed' = IF p \in found THEN armed ELSE armed \cup {key[p]}
  /\ found' = found \ {p}
  /\ GotoOrLeave(p, IF p \in taking THEN "stored" ELSE "ready")
  /\ UNCHANGED <<data, evicts, taking, raced, flight>>

(***************************************************************************)
(* doGet, and Take.                                                        *)
(***************************************************************************)
DoGet(k) ==
  IF k \in data THEN LruAdd(k, data) ELSE UNCHANGED storage

Get(p, k) ==
  /\ pc[p] = "ready" /\ p \in Clients
  /\ DoGet(k)
  /\ UNCHANGED <<pc, key, found, taking, raced, flight>>

TakeGet(p) ==
  /\ pc[p] = "take"
  /\ DoGet(key[p])
  /\ GotoOrLeave(p, IF key[p] \in data THEN "ready" ELSE "do")
  /\ UNCHANGED <<found, taking, raced, flight>>

TakeDo(p) ==
  /\ pc[p] = "do"
  /\ CreateCall(p, key[p])
  /\ Goto(p, "indo")
  /\ UNCHANGED <<storage, key, found, taking, raced>>

\* The double check in fn.
CheckAgain(p) ==
  /\ pc[p] = "indo" /\ phase[p] = "fn"
  /\ DoGet(key[p])
  /\ Goto(p, IF key[p] \in data THEN "stored" ELSE "fetch")
  /\ UNCHANGED <<key, found, taking, raced, flight>>

\* fetch returns a value, which is set; or an error or a panic, which ends fn.
FetchValue(p) ==
  /\ pc[p] = "fetch"
  /\ taking' = taking \cup {p}
  /\ Goto(p, "set")
  /\ UNCHANGED <<storage, key, found, raced, flight>>

FetchFails(p) ==
  /\ pc[p] = "fetch"
  /\ FnReturns(p, Panicked)
  /\ Goto(p, "indo")
  /\ UNCHANGED <<storage, key, found, taking, raced>>

FnStored(p) ==
  /\ pc[p] = "stored"
  /\ \E r \in Results : FnReturns(p, r)
  /\ taking' = taking \ {p}
  /\ Goto(p, "indo")
  /\ UNCHANGED <<storage, key, found, raced>>

LeaveDo(p) ==
  /\ pc[p] = "indo"
  /\ DeleteCall(p) \/ Done(p)
  /\ UNCHANGED <<storage, pc, key, found, taking, raced>>

TakeReturns(p) ==
  /\ pc[p] = "indo"
  /\ DoReturns(p)
  /\ GotoOrLeave(p, "ready")
  /\ UNCHANGED <<storage, found, taking, raced>>

\* A client calls Del, Set or Take.
Call(p, k) ==
  /\ pc[p] = "ready" /\ p \in Clients
  /\ \E l \in {"del", "set", "take"} : Goto(p, l)
  /\ key' = [key EXCEPT ![p] = k]
  /\ UNCHANGED <<storage, found, taking, raced, flight>>

CacheStep(p) ==
  \/ DelData(p) \/ DelTimer(p) \/ SetData(p) \/ SetTimer(p)
  \/ TakeGet(p) \/ TakeDo(p) \/ CheckAgain(p) \/ FetchValue(p) \/ FetchFails(p)
  \/ FnStored(p) \/ LeaveDo(p) \/ TakeReturns(p)

CacheNext ==
  \/ \E p \in Procs : CacheStep(p)
  \/ \E p \in Clients, k \in Keys : Call(p, k) \/ Get(p, k)
  \/ \E e \in Expirers, k \in Keys : Fire(e, k)

CacheSpec == CacheInit /\ [][CacheNext]_cacheVars

-----------------------------------------------------------------------------
\* The list of keyLru and c.data hold the same keys, each once, and at most
\* limit of them, whatever Set, Get, Del, Take and the expiry do.
LruExact ==
  Limit > 0 => ToSet(evicts) = data /\ Len(evicts) = Cardinality(data) /\ Len(evicts) <= Limit

\* One fetch at a time for a key, however many goroutines take it.
OneFetch ==
  \A p, q \in Procs : p # q /\ pc[p] = "fetch" /\ pc[q] = "fetch" => key[p] # key[q]

\* A goroutine that will still set the timer of k, or delete k.
Pending(k) ==
  \E p \in Procs : key[p] = k /\ (pc[p] = "del" \/ (pc[p] = "settimer" /\ p \notin found))

\* An item in the cache has a timer that will expire it, or one is about to be
\* set, unless it was set between the two halves of a Del of its key.
Timed == \A k \in data \ raced : k \in armed \/ Pending(k)

\* "SetWithExpire sets value into c with key and expire with the given value":
\* an item that is in the cache and used by nobody has a timer.
Expires ==
  \A k \in data : k \in armed \/ \E p \in Procs : key[p] = k /\ pc[p] # "ready"

\* Take fetches a key once for all that ask for it at a time, and nobody joins a
\* call that is over.
FetchShared == OneFetch /\ WaitersLed

\* The LRU list and the items are the same keys within the limit, and an item has
\* a timer to expire it.
ItemsBounded == LruExact /\ Timed

=============================================================================
