---------------------------- MODULE PlacesProofs ----------------------------
(***************************************************************************)
(* Proofs about Pool, Limit, TimeoutLimit, the clean tasks of the cache and *)
(* Stream, for every set of goroutines and items and every limit.          *)
(*                                                                         *)
(* PoolInv, LimitInv, CleanInv, WalkInv and HeadInv are inductive; each has *)
(* a lemma for the initial states and one for the steps.                   *)
(***************************************************************************)
EXTENDS Places, CacheCleaner, Stream, FiniteSetTheorems, TLAPS

\* The provers of a leaf, in turn, and their time.
USE ZenonT(5), SMTT(30)

-----------------------------------------------------------------------------
(***************************************************************************)
(* Finite sets and sequences.                                              *)
(***************************************************************************)
LEMMA CountUp ==
  ASSUME NEW S, NEW x, IsFiniteSet(S), x \notin S
  PROVE  Cardinality(S \cup {x}) = Cardinality(S) + 1 /\ Cardinality(S) \in Nat
BY FS_AddElement, FS_CardinalityType

\* A finite set that loses an element has one less.
LEMMA CountDown ==
  ASSUME NEW S, NEW x, IsFiniteSet(S), x \in S
  PROVE  Cardinality(S \ {x}) = Cardinality(S) - 1 /\ Cardinality(S) \in Nat
BY FS_RemoveElement, FS_CardinalityType

\* A part of a finite set is finite and has no more elements.
LEMMA CountBelow ==
  ASSUME NEW S, NEW T, IsFiniteSet(S), T \subseteq S
  PROVE  IsFiniteSet(T) /\ Cardinality(T) \in Nat /\ Cardinality(T) <= Cardinality(S)
         /\ Cardinality(S) \in Nat /\ (Cardinality(T) = 0 <=> T = {})
BY FS_Subset, FS_CardinalityType, FS_EmptySet

\* The rest of a sequence, place by place.
LEMMA TailFacts ==
  ASSUME NEW S, NEW s \in Seq(S), s # <<>>
  PROVE  /\ Len(s) \in Nat /\ Len(s) > 0
         /\ Head(s) = s[1] /\ Head(s) \in S
         /\ Tail(s) \in Seq(S) /\ Len(Tail(s)) = Len(s) - 1
         /\ \A i \in 1..Len(s)-1 : Tail(s)[i] = s[i+1]
         /\ \A i \in 1..Len(s) : s[i] \in S
<1>1. Len(s) \in Nat /\ Len(s) > 0 /\ Head(s) = s[1] /\ \A i \in 1..Len(s) : s[i] \in S
  OBVIOUS
<1>2. Tail(s) \in Seq(S) /\ Len(Tail(s)) = Len(s) - 1
  BY <1>1
<1>3. \A i \in 1..Len(s)-1 : Tail(s)[i] = s[i+1]
  BY <1>1
<1> QED  BY <1>1, <1>2, <1>3

\* The elements of a sequence.
LEMMA ElementsIn == ASSUME NEW S, NEW s \in Seq(S) PROVE \A i \in 1..Len(s) : s[i] \in S
OBVIOUS

\* A sequence with one more at its end, place by place.
LEMMA AppendFacts ==
  ASSUME NEW S, NEW s \in Seq(S), NEW x \in S
  PROVE  /\ Append(s, x) \in Seq(S) /\ Append(s, x) # <<>>
         /\ Len(Append(s, x)) = Len(s) + 1
         /\ \A i \in 1..Len(s) : Append(s, x)[i] = s[i]
         /\ Append(s, x)[Len(s) + 1] = x
OBVIOUS


-----------------------------------------------------------------------------
(***************************************************************************)
(* core/syncx/pool.go: Pool.                                               *)
(***************************************************************************)
\* A sequence without repetitions has as many elements as places.
Distinct(s) == \A i, j \in 1..Len(s) : i # j => s[i] # s[j]

\* A sequence without repetitions over a finite set is no longer than the set.
LEMMA CountDistinct ==
  ASSUME NEW S, NEW s \in Seq(S), Distinct(s)
  PROVE  IsFiniteSet({s[i] : i \in 1..Len(s)}) /\ Cardinality({s[i] : i \in 1..Len(s)}) = Len(s)
<1> DEFINE T == {s[i] : i \in 1..Len(s)}
           f == [i \in 1..Len(s) |-> s[i]]
<1>0. Len(s) \in Nat
  OBVIOUS
<1>1. IsFiniteSet(1..Len(s)) /\ Cardinality(1..Len(s)) = Len(s)
  BY <1>0, FS_Interval
<1>2. f \in Bijection(1..Len(s), T)
  BY DEF Bijection, Injection, Surjection, IsInjective, Distinct
<1>3. ExistsBijection(1..Len(s), T)
  BY <1>2 DEF ExistsBijection
<1> QED  BY <1>1, <1>3, FS_Bijection

PoolTypes ==
  /\ poolUser \in [PoolUsers -> {"out", "get", "wait", "use"}]
  /\ holding \in [PoolUsers -> 0..2*PoolLimit]
  /\ idle \in Seq(1..2*PoolLimit) /\ poolWaiters \in Seq(PoolUsers)
  /\ created \in Nat /\ lost \in Nat

\* Where a resource is.
OnePlace ==
  /\ Distinct(idle)
  /\ \A u \in PoolUsers : poolUser[u] = "use" <=> holding[u] # 0
  /\ \A u \in PoolUsers : holding[u] \notin InPool
  /\ \A u, v \in PoolUsers : u # v /\ holding[u] # 0 => holding[u] # holding[v]

PoolCounted == created = Len(idle) + Cardinality(PoolAt("use")) + lost /\ created <= PoolLimit

\* Those who are woken were waiting.
WaitersWait ==
  /\ Distinct(poolWaiters)
  /\ \A i \in 1..Len(poolWaiters) : poolUser[poolWaiters[i]] = "wait"

PoolInv == PoolTypes /\ OnePlace /\ PoolCounted /\ WaitersWait

\* The new pool satisfies its invariant.
LEMMA PoolStart == PoolInit => PoolInv
<1> SUFFICES ASSUME PoolInit PROVE PoolInv
  OBVIOUS
<1>1. PoolAt("use") = {}
  BY DEF PoolInit, PoolAt
<1>2. PoolTypes /\ OnePlace /\ WaitersWait
  BY PoolAssumption DEF PoolInit, PoolTypes, OnePlace, WaitersWait, Distinct, InPool
<1>3. Len(idle) = 0 /\ created = 0 /\ lost = 0
  BY DEF PoolInit
<1> QED  BY <1>1, <1>2, <1>3, PoolAssumption, FS_EmptySet DEF PoolInv, PoolCounted

\* The sets that the pool counts are finite.
LEMMA PoolFinite ==
  /\ \A s : IsFiniteSet(PoolAt(s)) /\ Cardinality(PoolAt(s)) \in Nat
BY CountBelow, PoolAssumption DEF PoolAt

\* There is a number for a new resource.
LEMMA FreshExists ==
  ASSUME PoolInv
  PROVE  Fresh \in 1..2*PoolLimit /\ Fresh \notin InPool /\ \A u \in PoolUsers : holding[u] # Fresh
<1> DEFINE given == [u \in PoolAt("use") |-> holding[u]]
           used == {given[u] : u \in PoolAt("use")}
<1>1. IsFiniteSet(InPool) /\ Cardinality(InPool) = Len(idle) /\ Len(idle) \in Nat
  <2>1. idle \in Seq(1..2*PoolLimit) /\ Distinct(idle)
    BY DEF PoolInv, PoolTypes, OnePlace
  <2>2. Len(idle) \in Nat
    BY <2>1
  <2> QED  BY ZenonT(30), <2>1, <2>2, CountDistinct DEF InPool
<1>2. IsFiniteSet(used) /\ Cardinality(used) <= Cardinality(PoolAt("use")) /\ Cardinality(used) \in Nat
  <2>1. given \in Surjection(PoolAt("use"), used)
    BY DEF Surjection
  <2> QED  BY <2>1, PoolFinite, FS_Surjection, FS_CardinalityType
<1>3. IsFiniteSet(InPool \cup used) /\ Cardinality(InPool \cup used) <= PoolLimit
  <2>1. /\ IsFiniteSet(InPool \cup used)
        /\ Cardinality(InPool \cup used) = Cardinality(InPool) + Cardinality(used) - Cardinality(InPool \cap used)
    BY <1>1, <1>2, FS_Union
  <2>2. Cardinality(InPool \cap used) \in Nat
    BY ZenonT(30), <1>1, FS_Intersection, FS_CardinalityType
  <2> QED  BY <1>1, <1>2, <2>1, <2>2, PoolFinite, PoolAssumption DEF PoolInv, PoolTypes, PoolCounted
<1>4. \E r \in 1..2*PoolLimit : r \notin InPool \cup used
  <2> SUFFICES ASSUME 1..2*PoolLimit \subseteq InPool \cup used PROVE FALSE
    OBVIOUS
  <2>1. Cardinality(1..2*PoolLimit) <= Cardinality(InPool \cup used)
    BY ZenonT(30), <1>3, FS_Subset
  <2>2. Cardinality(1..2*PoolLimit) = 2*PoolLimit
    BY FS_Interval, PoolAssumption
  <2> QED  BY <1>3, <2>1, <2>2, PoolAssumption, FS_CardinalityType
<1>5. \A u \in PoolUsers : \A r \in 1..2*PoolLimit : r \notin used => holding[u] # r
  BY DEF PoolInv, PoolTypes, OnePlace, PoolAt
<1> QED  BY <1>4, <1>5 DEF Fresh

\* A call of Get or Put begins.
LEMMA PoolCallStep ==
  ASSUME PoolInv, NEW u \in PoolUsers, PoolCall(u) PROVE PoolInv'
<1>1. PoolAt("use")' = PoolAt("use") /\ InPool' = InPool
  BY DEF PoolCall, PoolUserAt, PoolAt, PoolInv, PoolTypes, InPool
<1> QED  BY <1>1 DEF PoolCall, PoolUserAt, PoolInv, PoolTypes, OnePlace, PoolCounted, WaitersWait, Distinct

\* One more goroutine has a resource.
LEMMA PoolUseMore ==
  ASSUME PoolInv, NEW u \in PoolUsers, poolUser[u] # "use", PoolUserAt(u, "use")
  PROVE  Cardinality(PoolAt("use"))' = Cardinality(PoolAt("use")) + 1
<1>1. PoolAt("use")' = PoolAt("use") \cup {u} /\ u \notin PoolAt("use")
  BY DEF PoolUserAt, PoolAt, PoolInv, PoolTypes
<1> QED  BY <1>1, PoolFinite, CountUp

\* A step that changes no holder and no resource keeps the places.
LEMMA PoolUseSame ==
  ASSUME PoolInv, NEW u \in PoolUsers, NEW s \in {"out", "get", "wait"}, poolUser[u] # "use", PoolUserAt(u, s)
  PROVE  Cardinality(PoolAt("use"))' = Cardinality(PoolAt("use"))
<1>1. PoolAt("use")' = PoolAt("use")
  BY DEF PoolUserAt, PoolAt, PoolInv, PoolTypes
<1> QED  BY <1>1

\* Get takes a resource from the list, or drops one that is too old.
LEMMA PoolTakeStep ==
  ASSUME PoolInv, NEW u \in PoolUsers, PoolTake(u) PROVE PoolInv'
<1>1. /\ Head(idle) \in 1..2*PoolLimit /\ Tail(idle) \in Seq(1..2*PoolLimit)
      /\ Len(Tail(idle)) = Len(idle) - 1 /\ Len(idle) \in Nat /\ Len(idle) > 0
      /\ Head(idle) = idle[1]
      /\ \A i \in 1..Len(idle)-1 : Tail(idle)[i] = idle[i+1]
  <2>1. idle \in Seq(1..2*PoolLimit) /\ idle # <<>>
    BY DEF PoolTake, PoolInv, PoolTypes
  <2> QED  BY ZenonT(30), <2>1, TailFacts
<1>2. Cardinality(PoolAt("use"))' = Cardinality(PoolAt("use")) + 1
  BY PoolUseMore DEF PoolTake
<1>3. PoolTypes'
  BY <1>1 DEF PoolTake, PoolUserAt, Holds, PoolInv, PoolTypes
<1>4. PoolCounted'
  BY <1>1, <1>2, PoolFinite DEF PoolTake, PoolInv, PoolTypes, PoolCounted
<1>5. WaitersWait'
  BY DEF PoolTake, PoolUserAt, PoolInv, PoolTypes, WaitersWait, Distinct
<1>6. OnePlace'
  <2>1. Distinct(idle)'
    BY <1>1 DEF PoolTake, PoolInv, OnePlace, Distinct
  <2>2. InPool' \subseteq InPool /\ Head(idle) \in InPool /\ Head(idle) \notin InPool'
    BY <1>1 DEF PoolTake, PoolInv, OnePlace, Distinct, InPool
  <2>3. \A v \in PoolUsers : v # u => holding'[v] = holding[v] /\ poolUser'[v] = poolUser[v]
    BY DEF PoolTake, PoolUserAt, Holds, PoolInv, PoolTypes
  <2>4. holding'[u] = Head(idle) /\ poolUser'[u] = "use"
    BY DEF PoolTake, PoolUserAt, Holds, PoolInv, PoolTypes
  <2>5. \A v, w \in PoolUsers : v # w /\ holding'[v] # 0 => holding'[v] # holding'[w]
    BY <2>2, <2>3, <2>4 DEF PoolInv, OnePlace
  <2>6. \A v \in PoolUsers : holding'[v] \notin InPool'
    BY <2>2, <2>3, <2>4 DEF PoolInv, OnePlace
  <2>7. \A v \in PoolUsers : poolUser'[v] = "use" <=> holding'[v] # 0
    <3>1. Head(idle) # 0
      BY <1>1
    <3> QED  BY <3>1, <2>3, <2>4 DEF PoolInv, OnePlace
  <2> QED  BY <2>1, <2>5, <2>6, <2>7 DEF OnePlace
<1> QED  BY <1>3, <1>4, <1>5, <1>6 DEF PoolInv

\* Get creates a resource.
LEMMA PoolCreateStep ==
  ASSUME PoolInv, NEW u \in PoolUsers, PoolCreate(u, Len(idle)) PROVE PoolInv'
<1>1. Len(idle) \in Nat /\ Len(<<>>) = 0 /\ idle' = <<>>
  BY DEF PoolCreate, PoolInv, PoolTypes
<1>2. Cardinality(PoolAt("use"))' = Cardinality(PoolAt("use")) + 1
  BY PoolUseMore DEF PoolCreate
<1>3. PoolTypes'
  BY <1>1, PoolFinite, FreshExists DEF PoolCreate, PoolUserAt, Holds, PoolInv, PoolTypes, PoolCounted
<1>4. PoolCounted'
  BY <1>1, <1>2, PoolFinite, PoolAssumption DEF PoolCreate, PoolInv, PoolTypes, PoolCounted
<1>5. WaitersWait'
  BY DEF PoolCreate, PoolUserAt, PoolInv, PoolTypes, WaitersWait, Distinct
<1>6. OnePlace'
  <2>1. Distinct(idle)' /\ InPool' = {}
    BY <1>1 DEF Distinct, InPool
  <2>3. \A v \in PoolUsers : v # u => holding'[v] = holding[v] /\ poolUser'[v] = poolUser[v]
    BY DEF PoolCreate, PoolUserAt, Holds, PoolInv, PoolTypes
  <2>4. holding'[u] = Fresh /\ poolUser'[u] = "use"
    BY DEF PoolCreate, PoolUserAt, Holds, PoolInv, PoolTypes
  <2> QED  BY FreshExists, <2>1, <2>3, <2>4 DEF PoolInv, OnePlace, PoolTypes
<1> QED  BY <1>3, <1>4, <1>5, <1>6 DEF PoolInv

\* create panics: the resource was counted before.
LEMMA PoolCreatePanicsStep ==
  ASSUME PoolInv, NEW u \in PoolUsers, PoolCreatePanics(u, Len(idle)) PROVE PoolInv'
<1>1. Len(idle) \in Nat /\ Len(<<>>) = 0 /\ idle' = <<>>
  BY DEF PoolCreatePanics, PoolInv, PoolTypes
<1>2. Cardinality(PoolAt("use"))' = Cardinality(PoolAt("use"))
  BY PoolUseSame DEF PoolCreatePanics
<1>3. PoolTypes'
  BY <1>1, PoolFinite DEF PoolCreatePanics, PoolUserAt, PoolInv, PoolTypes, PoolCounted
<1>4. PoolCounted'
  BY <1>1, <1>2, PoolFinite, PoolAssumption DEF PoolCreatePanics, PoolInv, PoolTypes, PoolCounted
<1>5. WaitersWait'
  BY DEF PoolCreatePanics, PoolUserAt, PoolInv, PoolTypes, WaitersWait, Distinct
<1>6. OnePlace'
  <2>1. Distinct(idle)' /\ InPool' = {}
    BY <1>1 DEF Distinct, InPool
  <2> QED  BY <2>1 DEF PoolCreatePanics, PoolUserAt, PoolInv, OnePlace, PoolTypes
<1> QED  BY <1>3, <1>4, <1>5, <1>6 DEF PoolInv

\* Get waits.
LEMMA PoolWaitStep ==
  ASSUME PoolInv, NEW u \in PoolUsers, PoolWait(u) PROVE PoolInv'
<1>1. Cardinality(PoolAt("use"))' = Cardinality(PoolAt("use"))
  BY PoolUseSame DEF PoolWait
<1>2. InPool' = InPool
  BY DEF PoolWait, InPool
<1>3. /\ Len(poolWaiters') = Len(poolWaiters) + 1 /\ Len(poolWaiters) \in Nat
      /\ poolWaiters'[Len(poolWaiters) + 1] = u
      /\ \A i \in 1..Len(poolWaiters) : poolWaiters'[i] = poolWaiters[i] /\ poolWaiters[i] # u /\ poolWaiters[i] \in PoolUsers
  BY DEF PoolWait, PoolInv, PoolTypes, WaitersWait
<1>4. WaitersWait'
  <2>1. poolUser' = [poolUser EXCEPT ![u] = "wait"] /\ poolUser \in [PoolUsers -> {"out", "get", "wait", "use"}]
    BY DEF PoolWait, PoolUserAt, PoolInv, PoolTypes
  <2>2. \A i \in 1..Len(poolWaiters') : i \in 1..Len(poolWaiters) \/ i = Len(poolWaiters) + 1
    BY <1>3
  <2>3. \A i \in 1..Len(poolWaiters) : poolUser'[poolWaiters'[i]] = "wait"
    BY <1>3, <2>1 DEF PoolInv, WaitersWait
  <2>4. poolUser'[poolWaiters'[Len(poolWaiters) + 1]] = "wait"
    BY <1>3, <2>1
  <2>5. Distinct(poolWaiters)'
    BY <1>3, <2>2 DEF PoolInv, WaitersWait, Distinct
  <2> QED  BY <2>2, <2>3, <2>4, <2>5 DEF WaitersWait
<1> QED  BY <1>1, <1>2, <1>4 DEF PoolWait, PoolUserAt, PoolInv, PoolTypes, OnePlace, PoolCounted, Distinct

\* Put gives a resource back and wakes a waiting Get.
LEMMA PoolPutStep ==
  ASSUME PoolInv, NEW u \in PoolUsers, PoolPut(u) PROVE PoolInv'
<1>1. holding[u] \in 1..2*PoolLimit
  BY DEF PoolPut, PoolInv, PoolTypes, OnePlace
<1>2. /\ idle' \in Seq(1..2*PoolLimit) /\ Len(idle') = Len(idle) + 1 /\ Len(idle) \in Nat
      /\ idle'[1] = holding[u] /\ \A i \in 1..Len(idle) : idle'[i+1] = idle[i]
  BY <1>1 DEF PoolPut, PoolInv, PoolTypes
<1>3. PICK w : /\ poolWaiters = <<>> => w = u
               /\ poolWaiters # <<>> => w = Head(poolWaiters)
  OBVIOUS
<1>4. /\ poolUser' = [poolUser EXCEPT ![u] = "out", ![w] = IF w = u THEN "out" ELSE "get"]
      /\ w \in PoolUsers /\ (w # u => poolUser[w] = "wait")
      /\ poolWaiters' \in Seq(PoolUsers) /\ WaitersWait'
  <2>1. CASE poolWaiters = <<>>
    BY <1>3, <2>1 DEF PoolPut, PoolUserAt, PoolInv, PoolTypes, WaitersWait, Distinct
  <2>2. CASE poolWaiters # <<>>
    <3>1. /\ w = poolWaiters[1] /\ Len(poolWaiters) \in Nat /\ Len(poolWaiters) > 0
          /\ poolWaiters' = Tail(poolWaiters) /\ poolWaiters' \in Seq(PoolUsers)
          /\ Len(poolWaiters') = Len(poolWaiters) - 1
          /\ \A i \in 1..Len(poolWaiters)-1 : poolWaiters'[i] = poolWaiters[i+1]
          /\ \A i \in 1..Len(poolWaiters) : poolWaiters[i] \in PoolUsers
      <4>1. w = Head(poolWaiters) /\ poolWaiters' = Tail(poolWaiters) /\ poolWaiters \in Seq(PoolUsers)
        BY <1>3, <2>2 DEF PoolPut, PoolInv, PoolTypes
      <4> QED  BY <2>2, <4>1, TailFacts
    <3>2. w \in PoolUsers /\ poolUser[w] = "wait" /\ w # u
      BY <3>1 DEF PoolPut, PoolInv, WaitersWait
    <3>3. poolUser' = [poolUser EXCEPT ![u] = "out", ![w] = "get"]
      BY <1>3, <2>2 DEF PoolPut
    <3>4. \A i \in 1..Len(poolWaiters') : poolWaiters'[i] # w /\ poolWaiters'[i] # u
      BY <3>1, <3>2 DEF PoolPut, PoolInv, WaitersWait, Distinct
    <3>5. WaitersWait'
      <4>1. Distinct(poolWaiters)'
        BY <3>1 DEF PoolInv, WaitersWait, Distinct
      <4>2. \A i \in 1..Len(poolWaiters') : poolWaiters'[i] \in PoolUsers /\ poolUser[poolWaiters'[i]] = "wait"
        BY <3>1 DEF PoolInv, WaitersWait
      <4>3. \A v \in PoolUsers : v # u /\ v # w => poolUser'[v] = poolUser[v]
        BY <3>3 DEF PoolInv, PoolTypes
      <4> QED  BY <3>4, <4>1, <4>2, <4>3 DEF WaitersWait
    <3> QED  BY <3>1, <3>2, <3>3, <3>5
  <2> QED  BY <2>1, <2>2
<1>5. Cardinality(PoolAt("use"))' = Cardinality(PoolAt("use")) - 1
  <2>1. PoolAt("use")' = PoolAt("use") \ {u} /\ u \in PoolAt("use")
    BY <1>4 DEF PoolPut, PoolAt, PoolInv, PoolTypes
  <2> QED  BY <2>1, PoolFinite, CountDown
<1>6. PoolTypes'
  <2>1. poolUser' \in [PoolUsers -> {"out", "get", "wait", "use"}]
    BY <1>4 DEF PoolInv, PoolTypes
  <2>2. holding' \in [PoolUsers -> 0..2*PoolLimit]
    <3>1. 0 \in 0..2*PoolLimit
      BY PoolAssumption
    <3> QED  BY <3>1 DEF PoolPut, Holds, PoolInv, PoolTypes
  <2> QED  BY <1>2, <1>4, <2>1, <2>2 DEF PoolPut, PoolInv, PoolTypes
<1>7. PoolCounted'
  BY <1>2, <1>5, PoolFinite DEF PoolPut, PoolInv, PoolTypes, PoolCounted
<1>8. OnePlace'
  <2>1. Distinct(idle)'
    BY <1>1, <1>2 DEF PoolPut, PoolInv, OnePlace, Distinct, InPool
  <2>2. InPool' = InPool \cup {holding[u]}
    <3>1. \A r \in InPool' : r \in InPool \cup {holding[u]}
      <4> SUFFICES ASSUME NEW i \in 1..Len(idle'), i # 1 PROVE idle'[i] \in InPool
        BY <1>2 DEF InPool
      <4>1. i - 1 \in 1..Len(idle) /\ idle'[(i-1)+1] = idle[i-1] /\ (i-1)+1 = i
        BY <1>2
      <4> QED  BY <4>1 DEF InPool
    <3>2. InPool \subseteq InPool'
      <4> SUFFICES ASSUME NEW i \in 1..Len(idle) PROVE idle[i] \in InPool'
        BY DEF InPool
      <4>1. i + 1 \in 1..Len(idle') /\ idle'[i+1] = idle[i]
        BY <1>2
      <4> QED  BY <4>1 DEF InPool
    <3>3. holding[u] \in InPool'
      BY <1>2 DEF InPool
    <3> QED  BY <3>1, <3>2, <3>3
  <2>3. \A v \in PoolUsers : v # u => holding'[v] = holding[v] /\ (poolUser'[v] = "use" <=> poolUser[v] = "use")
    BY <1>4 DEF PoolPut, Holds, PoolInv, PoolTypes
  <2>4. holding'[u] = 0 /\ poolUser'[u] = "out"
    BY <1>4 DEF PoolPut, Holds, PoolInv, PoolTypes
  <2>5. 0 \notin InPool'
    <3>1. \A i \in 1..Len(idle') : idle'[i] \in 1..2*PoolLimit
      BY ZenonT(30), <1>2, ElementsIn
    <3> QED  BY <3>1 DEF InPool
  <2> QED  BY ZenonT(30), <1>1, <2>1, <2>2, <2>3, <2>4, <2>5 DEF PoolInv, OnePlace, PoolTypes
<1> QED  BY <1>4, <1>6, <1>7, <1>8 DEF PoolInv

\* Every step of the pool keeps its invariant.
LEMMA PoolStep == PoolInv /\ [PoolNext]_poolVars => PoolInv'
<1>1. ASSUME PoolInv, UNCHANGED poolVars PROVE PoolInv'
  <2>1. PoolAt("use")' = PoolAt("use") /\ InPool' = InPool
    BY <1>1 DEF poolVars, PoolAt, InPool
  <2> QED  BY <1>1, <2>1 DEF poolVars, PoolInv, PoolTypes, OnePlace, PoolCounted, WaitersWait, Distinct
<1> QED  BY <1>1, PoolCallStep, PoolTakeStep, PoolCreateStep, PoolCreatePanicsStep, PoolWaitStep, PoolPutStep
     DEF PoolNext, PoolGet

\* The invariant of the pool gives the account of its resources.
LEMMA PoolEnd == PoolInv => PoolAccount
<1> SUFFICES ASSUME PoolInv PROVE PoolAccount
  OBVIOUS
<1>1. Cardinality(InPool) = Len(idle)
  <2>1. idle \in Seq(1..2*PoolLimit) /\ Distinct(idle)
    BY DEF PoolInv, PoolTypes, OnePlace
  <2> QED  BY ZenonT(30), <2>1, CountDistinct DEF InPool
<1> QED  BY <1>1 DEF PoolInv, PoolCounted, OnePlace, PoolAccount, PoolAt

\* Pool.Get and Put account for every resource, for any limit and any goroutines.
THEOREM PoolAccounted == PoolSpec => []PoolAccount
BY PoolStart, PoolStep, PoolEnd, PTL DEF PoolSpec

-----------------------------------------------------------------------------
(***************************************************************************)
(* core/syncx/limit.go and timeoutlimit.go.                                *)
(***************************************************************************)
LimitInv ==
  /\ borrower \in [Borrowers -> {"out", "try", "gap", "wait", "retry", "hold", "signal"}]
  /\ PlacesCounted

\* The borrowers that hold a place are finitely many.
LEMMA HoldersFinite == IsFiniteSet(LimitAt("hold")) /\ Cardinality(LimitAt("hold")) \in Nat
BY CountBelow, PlacesAssumption DEF LimitAt

\* The new limit satisfies its invariant.
LEMMA LimitStart == LimitInit => LimitInv
<1> SUFFICES ASSUME LimitInit PROVE LimitInv
  OBVIOUS
<1>1. LimitAt("hold") = {}
  BY DEF LimitInit, LimitAt
<1> QED  BY <1>1, FS_EmptySet, PlacesAssumption DEF LimitInit, LimitInv, PlacesCounted

\* TryBorrow counts the place that it takes.
LEMMA LimitTryBorrow ==
  ASSUME LimitInv, NEW b \in Borrowers, NEW o \in {"gap", "out"}, borrower[b] # "hold", TryBorrow(b, o)
  PROVE  LimitInv'
<1>1. CASE taken < PlaceCount
  <2>1. LimitAt("hold")' = LimitAt("hold") \cup {b} /\ b \notin LimitAt("hold")
    BY <1>1 DEF TryBorrow, BorrowerAt, LimitAt, LimitInv
  <2>2. Cardinality(LimitAt("hold"))' = Cardinality(LimitAt("hold")) + 1
    BY <2>1, HoldersFinite, CountUp
  <2> QED  BY <1>1, <2>2, HoldersFinite, PlacesAssumption DEF TryBorrow, BorrowerAt, LimitInv, PlacesCounted
<1>2. CASE ~(taken < PlaceCount)
  <2>1. LimitAt("hold")' = LimitAt("hold")
    BY <1>2 DEF TryBorrow, BorrowerAt, LimitAt, LimitInv
  <2> QED  BY <1>2, <2>1 DEF TryBorrow, BorrowerAt, LimitInv, PlacesCounted
<1> QED  BY <1>1, <1>2

\* A step that gives nobody a place, and takes none back.
LEMMA LimitOther ==
  ASSUME LimitInv, NEW b \in Borrowers,
         \/ LimitBorrow(b) \/ Park(b) \/ BorrowTimesOut(b) \/ LimitSignal(b) \/ UNCHANGED limitVars
  PROVE  LimitInv'
<1>1. borrower' \in [Borrowers -> {"out", "try", "gap", "wait", "retry", "hold", "signal"}] /\ LimitAt("hold")' = LimitAt("hold")
  <2>1. CASE LimitBorrow(b) \/ Park(b) \/ BorrowTimesOut(b) \/ UNCHANGED limitVars
    BY <2>1 DEF LimitBorrow, Park, BorrowTimesOut, BorrowerAt, limitVars, LimitAt, LimitInv
  <2>2. CASE LimitSignal(b)
    <3>1. CASE LimitParked = {}
      BY <2>2, <3>1 DEF LimitSignal, BorrowerAt, LimitAt, LimitInv
    <3>2. ASSUME NEW w \in LimitParked, borrower' = [borrower EXCEPT ![b] = "out", ![w] = "retry"]
          PROVE  borrower' \in [Borrowers -> {"out", "try", "gap", "wait", "retry", "hold", "signal"}] /\ LimitAt("hold")' = LimitAt("hold")
      BY <2>2, <3>2 DEF LimitSignal, LimitParked, LimitAt, LimitInv
    <3> QED  BY <2>2, <3>1, <3>2 DEF LimitSignal
  <2> QED  BY <2>1, <2>2
<1>2. UNCHANGED taken
  BY DEF LimitBorrow, Park, BorrowTimesOut, LimitSignal, limitVars
<1> QED  BY <1>1, <1>2 DEF LimitInv, PlacesCounted

\* A place given back.
LEMMA LimitReturned ==
  ASSUME LimitInv, NEW b \in Borrowers, LimitReturn(b)
  PROVE  LimitInv'
<1>1. LimitAt("hold")' = LimitAt("hold") \ {b} /\ b \in LimitAt("hold")
  BY DEF LimitReturn, BorrowerAt, LimitAt, LimitInv
<1>2. Cardinality(LimitAt("hold"))' = Cardinality(LimitAt("hold")) - 1
  BY <1>1, HoldersFinite, CountDown
<1> QED  BY <1>2, HoldersFinite, PlacesAssumption DEF LimitReturn, BorrowerAt, LimitInv, PlacesCounted

\* Every step of the two limits keeps their invariant.
LEMMA LimitStep == LimitInv /\ [LimitNext]_limitVars => LimitInv'
<1> SUFFICES ASSUME LimitInv, [LimitNext]_limitVars PROVE LimitInv'
  OBVIOUS
<1>1. CASE UNCHANGED limitVars
  <2>1. LimitAt("hold")' = LimitAt("hold")
    BY <1>1 DEF limitVars, LimitAt
  <2> QED  BY <1>1, <2>1 DEF limitVars, LimitInv, PlacesCounted
<1>2. ASSUME NEW b \in Borrowers, FirstTry(b) PROVE LimitInv'
  BY <1>2, LimitTryBorrow DEF FirstTry
<1>3. ASSUME NEW b \in Borrowers, Retry(b) PROVE LimitInv'
  BY <1>3, LimitTryBorrow DEF Retry
<1> QED  BY <1>1, <1>2, <1>3, LimitOther, LimitReturned DEF LimitNext, Borrowing

-----------------------------------------------------------------------------
(***************************************************************************)
(* core/stores/cache/cleaner.go.                                           *)
(***************************************************************************)
\* Items are drained only while the wheel drains, when no timer fires.
CleanInv == PlacesHeld /\ (toDrain # {} => cleanWheel = "drain")

\* The clean tasks hold no place at first.
LEMMA CleanStart == CleanInit => CleanInv
BY CleanerAssumption DEF CleanInit, CleanInv, PlacesHeld

\* Every step of the cleaner keeps the places of the clean tasks.
LEMMA CleanPlaces == CleanInv /\ [CleanNext]_cleanVars => CleanInv'
<1> SUFFICES ASSUME CleanInv, [CleanNext]_cleanVars PROVE CleanInv'
  OBVIOUS
<1> USE DEF CleanInv, PlacesHeld, CleanMove, Selecting
<1>1. CASE UNCHANGED cleanVars
  BY <1>1 DEF cleanVars
<1>2. CASE Drain \/ DrainEnds
  BY <1>2 DEF Drain, DrainEnds
<1>3. ASSUME NEW t \in CleanTasks, AddCleanTask(t) \/ CleanFires(t) PROVE CleanInv'
  BY <1>3 DEF AddCleanTask, CleanFires
<1>4. ASSUME NEW t \in CleanTasks, CleanSchedules(t) PROVE CleanInv'
  BY <1>4 DEF CleanSchedules
<1>5. ASSUME NEW t \in CleanTasks, CleanSucceeds(t) \/ GiveUp(t) PROVE CleanInv'
  BY <1>5 DEF CleanSucceeds, GiveUp
<1>6. ASSUME NEW t \in CleanTasks, CleanFails(t) PROVE CleanInv'
  BY <1>6, CleanerAssumption DEF CleanFails
<1>7. ASSUME NEW t \in CleanTasks, CleanSetTimer(t) PROVE CleanInv'
  BY <1>7 DEF CleanSetTimer
<1>8. ASSUME NEW t \in CleanTasks, DrainItem(t) PROVE CleanInv'
  BY <1>8 DEF DrainItem
<1> QED  BY <1>1, <1>2, <1>3, <1>4, <1>5, <1>6, <1>7, <1>8 DEF CleanNext, CleanStep

-----------------------------------------------------------------------------
(***************************************************************************)
(* core/fx/stream.go.                                                      *)
(***************************************************************************)
Busy == {i \in StreamItems : work[i] \in {"fn", "send", "leave"}}

WalkTypes ==
  /\ limited \in BOOLEAN /\ unsent \subseteq StreamItems
  /\ walk \in {<<"recv">>, <<"wait">>, <<"over">>} \cup {<<"slot", i>> : i \in StreamItems}
  /\ work \in [StreamItems -> {"none", "fn", "send", "leave", "place", "over"}]
  /\ pipeClosed \in BOOLEAN

\* The wait group of Walk counts the workers that can still send, and an item has
\* no worker before Walk starts one.
WorkersCounted ==
  /\ IsFiniteSet(Busy) /\ waiting = Cardinality(Busy)
  /\ pipeClosed => walk = <<"over">> /\ waiting = 0
  /\ \A i \in unsent : work[i] = "none" /\ walk # <<"slot", i>>
  /\ \A i \in StreamItems : walk = <<"slot", i>> => work[i] = "none"

WalkInv == WalkTypes /\ WorkersCounted

\* No worker can send on a pipe that is closed.
LEMMA WalkOpen ==
  ASSUME WalkInv
  PROVE  PipeOpenForWorkers /\ (pipeClosed => Busy = {})
<1>1. pipeClosed => Busy = {}
  BY FS_EmptySet DEF WalkInv, WorkersCounted
<1> QED  BY <1>1 DEF Busy, PipeOpenForWorkers

\* No worker of Walk runs at first.
LEMMA WalkStart == StreamInit => WalkInv
<1> SUFFICES ASSUME StreamInit PROVE WalkInv
  OBVIOUS
<1>1. Busy = {}
  BY DEF StreamInit, Busy
<1>2. IsFiniteSet({}) /\ Cardinality({}) = 0
  BY FS_EmptySet
<1>3. WalkTypes
  BY ZenonT(30) DEF StreamInit, WalkTypes
<1>4. WorkersCounted
  BY <1>1, <1>2 DEF StreamInit, WorkersCounted
<1> QED  BY <1>3, <1>4 DEF WalkInv

\* Walk receives an item.
LEMMA WalkGenerates ==
  ASSUME WalkInv, NEW i \in StreamItems, Generate(i)
  PROVE  WalkInv'
<1>0. UNCHANGED <<limited, work, waiting, pipeClosed>>
  BY DEF Generate, Options
<1>1. i \in unsent /\ walk = <<"recv">> /\ unsent' = unsent \ {i} /\ walk' = <<"slot", i>>
  BY DEF Generate
<1>2. Busy' = Busy
  BY <1>0 DEF Busy
<1>3. ~pipeClosed
  BY <1>1 DEF WalkInv, WorkersCounted
<1>4. \A j \in StreamItems : walk' = <<"slot", j>> => j = i
  BY <1>1
<1>5. WalkTypes'
  BY <1>0, <1>1 DEF WalkInv, WalkTypes
<1>6. WorkersCounted'
  BY <1>0, <1>1, <1>2, <1>3, <1>4 DEF WalkInv, WorkersCounted, WalkTypes
<1> QED  BY <1>5, <1>6 DEF WalkInv

\* Walk starts the worker of its item and counts it in first.
LEMMA WalkStarts ==
  ASSUME WalkInv, StartWorker
  PROVE  WalkInv'
<1>0. UNCHANGED <<limited, unsent, pipeClosed>>
  BY DEF StartWorker, Options
<1>1. walk[1] = "slot" /\ waiting' = waiting + 1 /\ work' = [work EXCEPT ![walk[2]] = "fn"] /\ walk' = <<"recv">>
  BY DEF StartWorker, WorkAt
<1>2. PICK i \in StreamItems : walk = <<"slot", i>>
  BY <1>1 DEF WalkInv, WalkTypes
<1>3. work' = [work EXCEPT ![i] = "fn"] /\ work[i] = "none"
  BY <1>1, <1>2 DEF WalkInv, WorkersCounted
<1>4. Busy' = Busy \cup {i} /\ i \notin Busy
  BY <1>3 DEF Busy, WalkInv, WalkTypes
<1>5. IsFiniteSet(Busy') /\ waiting' = Cardinality(Busy')
  BY <1>1, <1>4, CountUp, FS_AddElement DEF WalkInv, WorkersCounted
<1>6. ~pipeClosed
  BY <1>2 DEF WalkInv, WorkersCounted
<1>7. WalkTypes'
  BY <1>0, <1>1, <1>3 DEF WalkInv, WalkTypes
<1>8. \A j \in unsent : j # i
  BY <1>2 DEF WalkInv, WorkersCounted
<1>9. WorkersCounted'
  BY <1>0, <1>1, <1>3, <1>5, <1>6, <1>8 DEF WalkInv, WorkersCounted, WalkTypes
<1> QED  BY <1>7, <1>9 DEF WalkInv

\* A worker goes on: the wait group counts down with its "leave".
LEMMA WalkWorks ==
  ASSUME WalkInv, NEW i \in StreamItems, WorkerGoes(i)
  PROVE  WalkInv'
<1>0. UNCHANGED <<limited, unsent, walk, pipeClosed>>
  BY DEF WorkerGoes, WalkFn, WorkerSends, WorkerDone, WorkerLeaves, Options
<1>1. work[i] # "none"
  BY DEF WorkerGoes, WalkFn, WorkerSends, WorkerDone, WorkerLeaves
<1>2. PICK s \in {"send", "leave", "place", "over"} : work' = [work EXCEPT ![i] = s]
  BY DEF WorkerGoes, WalkFn, WorkerSends, WorkerDone, WorkerLeaves, WorkAt
<1>3. WalkTypes'
  BY <1>0, <1>2 DEF WalkInv, WalkTypes
<1>4. \A j \in StreamItems : work'[j] = IF j = i THEN s ELSE work[j]
  BY <1>2 DEF WalkInv, WalkTypes
<1>5. IsFiniteSet(Busy') /\ waiting' = Cardinality(Busy') /\ (waiting = 0 => waiting' = 0)
  <2>1. CASE WalkFn(i) \/ WorkerSends(i)
    <3>1. waiting' = waiting /\ i \in Busy /\ work'[i] \in {"send", "leave"}
      BY <2>1, <1>4 DEF WalkFn, WorkerSends, WorkAt, Busy, WalkInv, WalkTypes
    <3>2. Busy' = Busy
      BY <1>4, <3>1 DEF Busy
    <3> QED  BY <3>1, <3>2 DEF WalkInv, WorkersCounted
  <2>2. CASE WorkerDone(i)
    <3>1. waiting' = waiting - 1 /\ i \in Busy /\ work'[i] \in {"place", "over"}
      BY <2>2, <1>4 DEF WorkerDone, WorkAt, Busy, WalkInv, WalkTypes
    <3>2. Busy' = Busy \ {i}
      BY <1>4, <3>1 DEF Busy
    <3>3. IsFiniteSet(Busy) /\ waiting = Cardinality(Busy)
      BY DEF WalkInv, WorkersCounted
    <3>4. IsFiniteSet(Busy \ {i}) /\ Cardinality(Busy \ {i}) = Cardinality(Busy) - 1 /\ Cardinality(Busy) # 0
      BY <3>1, <3>3, CountDown, FS_RemoveElement, FS_EmptySet
    <3> QED  BY <3>1, <3>2, <3>3, <3>4
  <2>3. CASE WorkerLeaves(i)
    <3>1. waiting' = waiting /\ i \notin Busy /\ work'[i] = "over"
      BY <2>3, <1>4 DEF WorkerLeaves, WorkAt, Busy, WalkInv, WalkTypes
    <3>2. Busy' = Busy
      BY <1>4, <3>1 DEF Busy
    <3> QED  BY <3>1, <3>2 DEF WalkInv, WorkersCounted
  <2> QED  BY <2>1, <2>2, <2>3 DEF WorkerGoes
<1>6. \A j \in StreamItems : work[j] = "none" => work'[j] = "none"
  BY <1>1, <1>4
<1>7. WorkersCounted'
  BY <1>0, <1>5, <1>6 DEF WalkInv, WorkersCounted, WalkTypes
<1> QED  BY <1>3, <1>7 DEF WalkInv

\* Walk waits for its workers and closes the pipe.
LEMMA WalkOver ==
  ASSUME WalkInv, WalkEnds \/ ClosePipe
  PROVE  WalkInv'
<1>0. UNCHANGED <<limited, unsent, work, waiting>>
  BY DEF WalkEnds, ClosePipe, Options
<1>1. \/ walk = <<"recv">> /\ walk' = <<"wait">> /\ pipeClosed' = pipeClosed
      \/ walk' = <<"over">> /\ pipeClosed' = TRUE /\ waiting = 0
  BY DEF WalkEnds, ClosePipe
<1>2. Busy' = Busy
  BY <1>0 DEF Busy
<1>3. WalkTypes'
  BY ZenonT(30), <1>0, <1>1 DEF WalkInv, WalkTypes
<1>4. pipeClosed' => walk' = <<"over">> /\ waiting' = 0
  <2>1. walk = <<"recv">> => ~pipeClosed
    BY DEF WalkInv, WorkersCounted
  <2> QED  BY ZenonT(30), <1>0, <1>1, <2>1
<1>5. \A i \in StreamItems : walk' # <<"slot", i>>
  BY <1>1
<1>6. WorkersCounted'
  BY <1>0, <1>2, <1>4, <1>5 DEF WalkInv, WorkersCounted, WalkTypes
<1> QED  BY <1>3, <1>6 DEF WalkInv

\* Steps behind the pipe change nothing of Walk.
LEMMA WalkSame ==
  ASSUME WalkInv, UNCHANGED <<limited, unsent, walk, work, waiting, pipeClosed>>
  PROVE  WalkInv'
BY DEF WalkInv, WalkTypes, WorkersCounted, Busy

\* Every step of the stream keeps the invariant of Walk.
LEMMA WalkStep ==
  ASSUME WalkInv, [StreamNext]_streamVars
  PROVE  WalkInv'
<1>1. CASE UNCHANGED streamVars \/ HeadReceives \/ HeadSends \/ HeadEnds \/ SinkEnds
  <2>1. UNCHANGED <<limited, unsent, walk, work, waiting, pipeClosed>>
    BY <1>1 DEF streamVars, HeadReceives, HeadSends, HeadEnds, SinkEnds, Upstream, Options
  <2> QED  BY <2>1, WalkSame
<1>2. ASSUME NEW i \in StreamItems, Generate(i) PROVE WalkInv'
  BY <1>2, WalkGenerates
<1>3. ASSUME NEW i \in StreamItems, WorkerGoes(i) PROVE WalkInv'
  BY <1>3, WalkWorks
<1>4. CASE StartWorker \/ WalkEnds \/ ClosePipe
  BY <1>4, WalkStarts, WalkOver
<1> QED  BY <1>1, <1>2, <1>3, <1>4 DEF StreamNext, Stages

HeadTypes ==
  /\ ending \in {"first", "done"} /\ headN \in Nat \ {0} /\ headLeft \in 0..headN
  /\ headStage \in {<<"recv">>, <<"drain">>, <<"over">>} \cup {<<"send", i>> : i \in StreamItems}
  /\ headClosed \in BOOLEAN /\ sink \in {"recv", "drain", "over"}
  /\ pipe \in Seq(StreamItems) /\ walked \in Nat

\* An item is in the pipe, with Head or with the caller once, and was put there
\* by its worker.
SentIn(w, i) == w[i] \in {"leave", "place", "over"}
Sent(i) == SentIn(work, i)
ItemsOnce ==
  /\ \A j \in 1..Len(pipe) : Sent(pipe[j]) /\ pipe[j] \notin got
  /\ \A j, k \in 1..Len(pipe) : pipe[j] = pipe[k] => j = k
  /\ \A i \in StreamItems : headStage = <<"send", i>> =>
       Sent(i) /\ i \notin got /\ \A j \in 1..Len(pipe) : pipe[j] # i
  /\ \A i \in got : i \in StreamItems /\ Sent(i)

\* Where the items that Walk has put in the pipe are.
ItemsCounted ==
  /\ headStage = <<"recv">> => headLeft > 0 /\ walked = Len(pipe) + (headN - headLeft)
  /\ headStage[1] = "send" => headLeft > 0 /\ walked = Len(pipe) + (headN - headLeft) + 1
  /\ headStage = <<"drain">> => headLeft = 0 /\ walked >= Len(pipe) + headN
  /\ headStage = <<"over">> => pipeClosed /\ (IF headLeft = 0 THEN walked >= headN ELSE walked = headN - headLeft)

\* What the caller has received.
ItemsReceived ==
  /\ IsFiniteSet(got)
  /\ Cardinality(got) = IF ending = "first" THEN (IF headLeft < headN THEN 1 ELSE 0) ELSE headN - headLeft
  /\ sink = "recv" => ending = "done" \/ headLeft = headN
  /\ sink = "drain" => ending = "first" /\ headLeft < headN
  /\ sink = "over" => headClosed
  /\ headClosed => headStage \in {<<"drain">>, <<"over">>}

HeadInv == HeadTypes /\ ItemsOnce /\ ItemsCounted /\ ItemsReceived

\* Head has passed nothing on at first.
LEMMA HeadStart == StreamInit => HeadInv
<1> SUFFICES ASSUME StreamInit PROVE HeadInv
  OBVIOUS
<1>1. IsFiniteSet({}) /\ Cardinality({}) = 0 /\ Len(<<>>) = 0 /\ <<>> \in Seq(StreamItems)
  BY FS_EmptySet
<1>2. headN \in Nat \ {0} /\ headLeft = headN
  BY HeadsAssumption DEF StreamInit
<1>3. HeadTypes
  <2>1. headLeft \in 0..headN
    BY <1>2
  <2> QED  BY ZenonT(30), <1>1, <1>2, <2>1 DEF StreamInit, HeadTypes
<1>4. ItemsOnce
  BY <1>1 DEF StreamInit, ItemsOnce
<1>5. ItemsCounted
  BY <1>1, <1>2 DEF StreamInit, ItemsCounted
<1>6. ItemsReceived
  BY <1>1, <1>2 DEF StreamInit, ItemsReceived
<1> QED  BY <1>3, <1>4, <1>5, <1>6 DEF HeadInv

\* Steps that leave the pipe and what is behind it as they are.
LEMMA HeadSame ==
  ASSUME HeadInv, UNCHANGED <<ending, headStage, headLeft, headClosed, headN, sink, got, pipe, walked>>,
         pipeClosed => pipeClosed', \A i \in StreamItems : Sent(i) => Sent(i)'
  PROVE  HeadInv'
<1>1. HeadTypes'
  BY DEF HeadInv, HeadTypes
<1>2. ItemsOnce'
  <2>1. \A j \in 1..Len(pipe) : pipe[j] \in StreamItems
    BY DEF HeadInv, HeadTypes
  <2> QED  BY <2>1 DEF HeadInv, ItemsOnce
<1>3. ItemsCounted' /\ ItemsReceived'
  BY DEF HeadInv, ItemsCounted, ItemsReceived
<1> QED  BY <1>1, <1>2, <1>3 DEF HeadInv

\* A worker puts its item into the pipe.
LEMMA HeadSent ==
  ASSUME HeadInv, WalkInv, NEW i \in StreamItems, WorkerSends(i)
  PROVE  HeadInv'
<1>0. UNCHANGED <<ending, headStage, headLeft, headClosed, headN, sink, got, pipeClosed>>
  BY DEF WorkerSends, Options, AfterWalk
<1>1. work[i] = "send" /\ pipe' = Append(pipe, i) /\ walked' = walked + 1 /\ work' = [work EXCEPT ![i] = "leave"]
  BY DEF WorkerSends, WorkAt
<1>2. ~pipeClosed
  <2>1. i \in Busy
    BY <1>1 DEF Busy
  <2> QED  BY <2>1, WalkOpen
<1>3. \A j \in StreamItems : (Sent(j) => Sent(j)' /\ j # i)
  BY <1>1 DEF Sent, SentIn, WalkInv, WalkTypes
<1>4. Sent(i)'
  BY <1>1 DEF Sent, SentIn, WalkInv, WalkTypes
<1>5. pipe \in Seq(StreamItems) /\ Len(pipe) \in Nat /\ \A j \in 1..Len(pipe) : pipe[j] \in StreamItems
  BY DEF HeadInv, HeadTypes
<1>6. /\ pipe' \in Seq(StreamItems) /\ Len(pipe') = Len(pipe) + 1
      /\ \A j \in 1..Len(pipe) + 1 : pipe'[j] = IF j = Len(pipe) + 1 THEN i ELSE pipe[j]
  BY <1>1, <1>5, AppendFacts
<1>7. HeadTypes'
  BY <1>0, <1>1, <1>6 DEF HeadInv, HeadTypes
<1>8. ItemsOnce'
  <2>1. \A j \in 1..Len(pipe) : pipe[j] # i
    BY <1>3, <1>5 DEF HeadInv, ItemsOnce
  <2>2. i \notin got /\ headStage # <<"send", i>>
    BY <1>3 DEF HeadInv, ItemsOnce
  <2>3. \A j \in 1..Len(pipe') : j = Len(pipe) + 1 \/ j \in 1..Len(pipe)
    BY <1>5, <1>6
  <2>4. \A j \in 1..Len(pipe') : SentIn(work', pipe'[j]) /\ pipe'[j] \notin got
    BY <1>3, <1>4, <1>5, <1>6, <2>2, <2>3 DEF HeadInv, ItemsOnce, Sent
  <2>5. \A j, k \in 1..Len(pipe') : pipe'[j] = pipe'[k] => j = k
    BY <1>6, <2>1, <2>3 DEF HeadInv, ItemsOnce
  <2>6. \A k \in StreamItems : headStage = <<"send", k>> =>
          Sent(k)' /\ k \notin got /\ \A j \in 1..Len(pipe') : pipe'[j] # k
    BY <1>3, <1>6, <2>2, <2>3 DEF HeadInv, ItemsOnce
  <2> QED  BY <1>0, <1>3, <2>4, <2>5, <2>6 DEF HeadInv, ItemsOnce, Sent
<1>9. ItemsCounted'
  <2>1. headN \in Nat /\ headLeft \in Nat /\ walked \in Nat
    BY DEF HeadInv, HeadTypes
  <2>2. headStage # <<"over">>
    BY <1>2 DEF HeadInv, ItemsCounted
  <2>3. headStage = <<"recv">> => headLeft > 0 /\ walked' = Len(pipe') + (headN - headLeft)
    BY <1>1, <1>5, <1>6, <2>1 DEF HeadInv, ItemsCounted
  <2>4. headStage[1] = "send" => headLeft > 0 /\ walked' = Len(pipe') + (headN - headLeft) + 1
    BY <1>1, <1>5, <1>6, <2>1 DEF HeadInv, ItemsCounted
  <2>5. headStage = <<"drain">> => headLeft = 0 /\ walked' >= Len(pipe') + headN
    BY <1>1, <1>5, <1>6, <2>1 DEF HeadInv, ItemsCounted
  <2> QED  BY <1>0, <2>2, <2>3, <2>4, <2>5 DEF ItemsCounted
<1>10. ItemsReceived'
  BY <1>0 DEF HeadInv, ItemsReceived
<1> QED  BY <1>7, <1>8, <1>9, <1>10 DEF HeadInv

\* Head receives an item.
LEMMA HeadTakes ==
  ASSUME HeadInv, HeadReceives
  PROVE  HeadInv'
<1>0. UNCHANGED <<ending, work, headLeft, headClosed, headN, sink, got, pipeClosed, walked>>
  BY DEF HeadReceives, Options, Upstream
<1>1. pipe # <<>> /\ pipe' = Tail(pipe) /\ pipe \in Seq(StreamItems)
  BY DEF HeadReceives, HeadInv, HeadTypes
<1>2. /\ Len(pipe) \in Nat /\ Len(pipe) > 0 /\ Head(pipe) = pipe[1] /\ Head(pipe) \in StreamItems
      /\ pipe' \in Seq(StreamItems) /\ Len(pipe') = Len(pipe) - 1
      /\ \A j \in 1..Len(pipe)-1 : pipe'[j] = pipe[j+1]
      /\ \A j \in 1..Len(pipe) : pipe[j] \in StreamItems
  BY <1>1, TailFacts
<1>3. \/ headStage = <<"recv">> /\ headStage' = <<"send", Head(pipe)>>
      \/ headStage = <<"drain">> /\ headStage' = <<"drain">>
  BY DEF HeadReceives
<1>4. HeadTypes'
  BY <1>0, <1>2, <1>3 DEF HeadInv, HeadTypes
<1>5. \A i \in StreamItems : Sent(i)' <=> Sent(i)
  BY <1>0 DEF Sent, SentIn
<1>6. \A j \in 1..Len(pipe') : j + 1 \in 1..Len(pipe) /\ j + 1 # 1 /\ pipe'[j] = pipe[j+1]
  <2>1. \A j \in 1..Len(pipe)-1 : j + 1 \in 1..Len(pipe) /\ j + 1 # 1
    BY <1>2
  <2> QED  BY <1>2, <2>1
<1>7. 1 \in 1..Len(pipe)
  BY <1>2
<1>8. ItemsOnce'
  <2>1. \A j \in 1..Len(pipe') : SentIn(work', pipe'[j]) /\ pipe'[j] \notin got
    BY <1>2, <1>5, <1>6 DEF HeadInv, ItemsOnce, Sent
  <2>2. \A j, k \in 1..Len(pipe') : pipe'[j] = pipe'[k] => j = k
    <3> SUFFICES ASSUME NEW j \in 1..Len(pipe'), NEW k \in 1..Len(pipe'), pipe'[j] = pipe'[k] PROVE j = k
      OBVIOUS
    <3>1. j + 1 = k + 1
      BY <1>6 DEF HeadInv, ItemsOnce
    <3> QED  BY <1>2, <3>1
  <2>3. \A i \in StreamItems : headStage' = <<"send", i>> => i = pipe[1]
    BY <1>2, <1>3
  <2>4. Sent(pipe[1]) /\ pipe[1] \notin got /\ \A j \in 1..Len(pipe') : pipe'[j] # pipe[1]
    BY <1>6, <1>7 DEF HeadInv, ItemsOnce
  <2> QED  BY <1>0, <1>2, <1>5, <2>1, <2>2, <2>3, <2>4 DEF HeadInv, ItemsOnce, Sent
<1>9. headN \in Nat /\ headLeft \in Nat /\ walked \in Nat
  BY DEF HeadInv, HeadTypes
<1>10. ItemsCounted'
  <2>1. CASE headStage = <<"recv">> /\ headStage' = <<"send", Head(pipe)>>
    <3>1. headLeft > 0 /\ walked = Len(pipe) + (headN - headLeft)
      BY <2>1 DEF HeadInv, ItemsCounted
    <3>2. headLeft > 0 /\ walked = Len(pipe') + (headN - headLeft) + 1
      BY <1>2, <1>9, <3>1
    <3>3. headStage' # <<"recv">> /\ headStage' # <<"drain">> /\ headStage' # <<"over">>
      BY <2>1
    <3> QED  BY <1>0, <3>2, <3>3 DEF ItemsCounted
  <2>2. CASE headStage = <<"drain">> /\ headStage' = <<"drain">>
    <3>1. headLeft = 0 /\ walked >= Len(pipe) + headN
      BY <2>2 DEF HeadInv, ItemsCounted
    <3>2. headLeft = 0 /\ walked >= Len(pipe') + headN
      BY <1>2, <1>9, <3>1
    <3>3. headStage' # <<"recv">> /\ headStage'[1] # "send" /\ headStage' # <<"over">>
      BY <2>2
    <3> QED  BY <1>0, <3>2, <3>3 DEF ItemsCounted
  <2> QED  BY <1>3, <2>1, <2>2
<1>11. ItemsReceived'
  <2>1. headClosed' => headStage' \in {<<"drain">>, <<"over">>}
    BY <1>0, <1>3 DEF HeadInv, ItemsReceived
  <2> QED  BY <1>0, <2>1 DEF HeadInv, ItemsReceived
<1> QED  BY <1>4, <1>8, <1>10, <1>11 DEF HeadInv

\* Head passes an item on and the caller receives it.
LEMMA HeadPasses ==
  ASSUME HeadInv, HeadSends
  PROVE  HeadInv'
<1>0. UNCHANGED <<ending, work, headN, pipe, pipeClosed, walked>>
  BY DEF HeadSends, Options, Upstream
<1>1. /\ headStage[1] = "send" /\ sink \in {"recv", "drain"}
      /\ headLeft' = headLeft - 1 /\ headClosed' = (headLeft = 1)
      /\ headStage' = IF headLeft = 1 THEN <<"drain">> ELSE <<"recv">>
      /\ got' = IF sink = "recv" THEN got \cup {headStage[2]} ELSE got
      /\ sink' = IF ending = "first" THEN "drain" ELSE sink
  BY DEF HeadSends
<1>2. PICK i \in StreamItems : headStage = <<"send", i>>
  BY <1>1 DEF HeadInv, HeadTypes
<1>3. got' = IF sink = "recv" THEN got \cup {i} ELSE got
  BY <1>1, <1>2
<1>4. headN \in Nat /\ headLeft \in 1..headN /\ walked \in Nat /\ Len(pipe) \in Nat
  <2>1. headLeft > 0 /\ headLeft \in 0..headN /\ headN \in Nat
    BY <1>1 DEF HeadInv, HeadTypes, ItemsCounted
  <2>2. walked \in Nat /\ Len(pipe) \in Nat
    BY DEF HeadInv, HeadTypes
  <2> QED  BY <2>1, <2>2
<1>5. HeadTypes'
  <2>1. headLeft' \in 0..headN /\ headClosed' \in BOOLEAN
    BY <1>1, <1>4
  <2>2. headStage' \in {<<"recv">>, <<"drain">>} /\ sink' \in {"recv", "drain"}
    BY <1>1
  <2> QED  BY <1>0, <2>1, <2>2 DEF HeadInv, HeadTypes
<1>6. \A k \in StreamItems : Sent(k)' <=> Sent(k)
  BY <1>0 DEF Sent, SentIn
<1>7. \A k \in StreamItems : headStage' # <<"send", k>>
  BY <1>1
<1>8. Sent(i) /\ i \notin got /\ \A j \in 1..Len(pipe) : pipe[j] # i
  BY <1>2 DEF HeadInv, ItemsOnce
<1>9. \A j \in 1..Len(pipe) : pipe[j] \in StreamItems
  BY DEF HeadInv, HeadTypes
<1>10. ItemsOnce'
  <2>1. \A k \in got' : k = i \/ k \in got
    BY <1>3
  <2>2. \A j \in 1..Len(pipe) : SentIn(work', pipe[j]) /\ pipe[j] \notin got'
    BY <1>6, <1>8, <1>9, <2>1 DEF HeadInv, ItemsOnce, Sent
  <2>3. \A k \in got' : k \in StreamItems /\ Sent(k)'
    BY <1>6, <1>8, <2>1 DEF HeadInv, ItemsOnce
  <2> QED  BY <1>0, <1>7, <2>2, <2>3 DEF HeadInv, ItemsOnce, Sent
<1>11. ItemsCounted'
  <2>1. walked = Len(pipe) + (headN - headLeft) + 1
    BY <1>1 DEF HeadInv, ItemsCounted
  <2>2. headStage' # <<"over">> /\ headStage'[1] # "send"
    BY <1>1
  <2>3. headStage' = <<"recv">> => headLeft' > 0 /\ walked = Len(pipe) + (headN - headLeft')
    <3>1. headStage' = <<"recv">> => headLeft # 1
      BY <1>1
    <3> QED  BY <1>1, <1>4, <2>1, <3>1
  <2>4. headStage' = <<"drain">> => headLeft' = 0 /\ walked >= Len(pipe) + headN
    <3>1. headStage' = <<"drain">> => headLeft = 1
      BY <1>1
    <3> QED  BY <1>1, <1>4, <2>1, <3>1
  <2> QED  BY <1>0, <2>2, <2>3, <2>4 DEF ItemsCounted
<1>12. ItemsReceived'
  <2>1. headClosed' => headStage' \in {<<"drain">>, <<"over">>}
    BY ZenonT(30), <1>1
  <2>2. IsFiniteSet(got) /\ IsFiniteSet(got')
    BY <1>3, FS_AddElement DEF HeadInv, ItemsReceived
  <2>3. Cardinality(got) \in Nat /\ (sink = "recv" => Cardinality(got') = Cardinality(got) + 1)
    BY <1>3, <1>8, <2>2, CountUp, FS_CardinalityType
  <2>4. /\ Cardinality(got) = IF ending = "first" THEN (IF headLeft < headN THEN 1 ELSE 0) ELSE headN - headLeft
        /\ sink = "recv" => ending = "done" \/ headLeft = headN
        /\ sink = "drain" => ending = "first" /\ headLeft < headN
        /\ ending \in {"first", "done"}
    BY DEF HeadInv, ItemsReceived, HeadTypes
  <2>5. CASE sink = "recv" /\ ending = "done"
    BY <1>0, <1>1, <1>4, <2>1, <2>2, <2>3, <2>4, <2>5 DEF ItemsReceived
  <2>6. CASE sink = "recv" /\ ending = "first"
    BY <1>0, <1>1, <1>4, <2>1, <2>2, <2>3, <2>4, <2>6 DEF ItemsReceived
  <2>7. CASE sink = "drain"
    <3>1. got' = got
      BY <1>3, <2>7
    <3> QED  BY <1>0, <1>1, <1>4, <2>1, <2>2, <2>4, <2>7, <3>1 DEF ItemsReceived
  <2> QED  BY <1>1, <2>4, <2>5, <2>6, <2>7
<1> QED  BY <1>5, <1>10, <1>11, <1>12 DEF HeadInv

\* Head finds the pipe closed.
LEMMA HeadOver ==
  ASSUME HeadInv, HeadEnds
  PROVE  HeadInv'
<1>0. UNCHANGED <<ending, work, headN, pipe, pipeClosed, walked, headLeft, sink, got>>
  BY DEF HeadEnds, Options, Upstream
<1>1. /\ headStage \in {<<"recv">>, <<"drain">>} /\ pipe = <<>> /\ pipeClosed
      /\ headStage' = <<"over">> /\ headClosed' = TRUE
  BY DEF HeadEnds
<1>2. HeadTypes'
  BY <1>0, <1>1 DEF HeadInv, HeadTypes
<1>3. \A k \in StreamItems : headStage' # <<"send", k>>
  BY <1>1
<1>4. ItemsOnce'
  BY <1>0, <1>3 DEF HeadInv, ItemsOnce, Sent
<1>5. ItemsCounted'
  <2>1. Len(pipe) = 0 /\ headN \in Nat /\ headLeft \in Nat /\ walked \in Nat
    BY <1>1 DEF HeadInv, HeadTypes
  <2>2. headStage' # <<"recv">> /\ headStage' # <<"drain">> /\ headStage'[1] # "send"
    BY <1>1
  <2>3. \/ headLeft > 0 /\ walked = Len(pipe) + (headN - headLeft)
        \/ headLeft = 0 /\ walked >= Len(pipe) + headN
    BY <1>1 DEF HeadInv, ItemsCounted
  <2>4. IF headLeft = 0 THEN walked >= headN ELSE walked = headN - headLeft
    BY <2>1, <2>3
  <2> QED  BY <1>0, <1>1, <2>2, <2>4 DEF ItemsCounted
<1>6. ItemsReceived'
  BY <1>0, <1>1 DEF HeadInv, ItemsReceived
<1> QED  BY <1>2, <1>4, <1>5, <1>6 DEF HeadInv

\* Every step of the stream keeps the count of the items.
LEMMA HeadStep ==
  ASSUME HeadInv, WalkInv, [StreamNext]_streamVars
  PROVE  HeadInv'
<1>1. CASE \/ UNCHANGED streamVars \/ StartWorker \/ WalkEnds \/ ClosePipe
           \/ \E i \in StreamItems : Generate(i) \/ WalkFn(i) \/ WorkerDone(i) \/ WorkerLeaves(i)
  <2>1. UNCHANGED <<ending, headStage, headLeft, headClosed, headN, sink, got, pipe, walked>>
    BY ZenonT(30), <1>1 DEF streamVars, StartWorker, WalkEnds, ClosePipe, Generate, WalkFn, WorkerDone, WorkerLeaves,
                Options, AfterWalk
  <2>2. pipeClosed => pipeClosed'
    BY ZenonT(30), <1>1 DEF streamVars, StartWorker, WalkEnds, ClosePipe, Generate, WalkFn, WorkerDone, WorkerLeaves
  <2>3. \A i \in StreamItems : Sent(i) => Sent(i)'
    <3>1. CASE UNCHANGED streamVars \/ WalkEnds \/ ClosePipe \/ \E i \in StreamItems : Generate(i)
      BY <3>1 DEF streamVars, WalkEnds, ClosePipe, Generate, Sent, SentIn
    <3>2. CASE StartWorker
      <4>1. PICK i \in StreamItems : walk = <<"slot", i>>
        BY <3>2 DEF StartWorker, WalkInv, WalkTypes
      <4>2. work[i] = "none" /\ work' = [work EXCEPT ![i] = "fn"]
        BY <3>2, <4>1 DEF StartWorker, WorkAt, WalkInv, WorkersCounted
      <4> QED  BY <4>2 DEF Sent, SentIn, WalkInv, WalkTypes
    <3>3. ASSUME NEW i \in StreamItems, WalkFn(i) \/ WorkerDone(i) \/ WorkerLeaves(i)
          PROVE  \A j \in StreamItems : Sent(j) => Sent(j)'
      BY <3>3 DEF WalkFn, WorkerDone, WorkerLeaves, WorkAt, Sent, SentIn, WalkInv, WalkTypes
    <3> QED  BY <1>1, <3>1, <3>2, <3>3
  <2> QED  BY <2>1, <2>2, <2>3, HeadSame
<1>2. ASSUME NEW i \in StreamItems, WorkerSends(i) PROVE HeadInv'
  BY <1>2, HeadSent
<1>3. CASE HeadReceives \/ HeadSends \/ HeadEnds
  BY <1>3, HeadTakes, HeadPasses, HeadOver
<1>4. CASE SinkEnds
  <2>0. UNCHANGED <<ending, work, headN, pipe, pipeClosed, walked, headStage, headLeft, headClosed, got>>
    BY <1>4 DEF SinkEnds, Upstream, Options
  <2>1. sink' = "over" /\ headClosed
    BY <1>4 DEF SinkEnds
  <2>2. HeadTypes' /\ ItemsOnce'
    BY <2>0, <2>1 DEF HeadInv, HeadTypes, ItemsOnce, Sent
  <2>3. ItemsCounted' /\ ItemsReceived'
    BY <2>0, <2>1 DEF HeadInv, ItemsCounted, ItemsReceived
  <2> QED  BY <2>2, <2>3 DEF HeadInv
<1> QED  BY <1>1, <1>2, <1>3, <1>4 DEF StreamNext, Stages, WorkerGoes

\* The invariant gives the number of items the caller has received.
LEMMA HeadEnd ==
  ASSUME HeadInv
  PROVE  HeadExact
<1> SUFFICES ASSUME headStage = <<"over">>
             PROVE  LET passed == IF walked < headN THEN walked ELSE headN
                    IN Cardinality(got) = IF ending = "first" /\ passed > 0 THEN 1 ELSE passed
  BY DEF HeadExact
<1>1. headN \in Nat \ {0} /\ headLeft \in 0..headN /\ walked \in Nat /\ ending \in {"first", "done"}
  BY DEF HeadInv, HeadTypes
<1>2. IF headLeft = 0 THEN walked >= headN ELSE walked = headN - headLeft
  BY DEF HeadInv, ItemsCounted
<1>3. Cardinality(got) = IF ending = "first" THEN (IF headLeft < headN THEN 1 ELSE 0) ELSE headN - headLeft
  BY DEF HeadInv, ItemsReceived
<1> QED  BY <1>1, <1>2, <1>3
=============================================================================
