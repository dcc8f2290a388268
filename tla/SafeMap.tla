------------------------------ MODULE SafeMap ------------------------------
(***************************************************************************)
(* core/collection/safemap.go: SafeMap, a map that moves its entries to a  *)
(* new Go map after many deletions, because a Go map never shrinks.        *)
(*                                                                         *)
(* Every operation holds m.lock from start to end: one action each.  A Go  *)
(* map is a function that gives Absent to the keys it does not hold.       *)
(***************************************************************************)
EXTENDS Integers, FiniteSets

CONSTANTS MapKeys, MapValues, Absent,
          CopyThreshold, MaxDeletion,
          MaxDeleted      \* bound on the two counters

ASSUME MapKeysFinite == IsFiniteSet(MapKeys)

VARIABLES dirtyOld, dirtyNew, deletionOld, deletionNew

mapVars == <<dirtyOld, dirtyNew, deletionOld, deletionNew>>

EmptyMap == [k \in MapKeys |-> Absent]

MapInit ==
  /\ dirtyOld = EmptyMap /\ dirtyNew = EmptyMap
  /\ deletionOld = 0 /\ deletionNew = 0

Held(map) == {k \in MapKeys : map[k] # Absent}

\* for k, v := range from { into[k] = v }
Copied(into, from) ==
  [k \in MapKeys |-> IF from[k] # Absent THEN from[k] ELSE into[k]]

\* The first test of Del after the deletion, then the second one on what the
\* first one left.
OldFull(old, delOld) == delOld >= MaxDeletion /\ Cardinality(Held(old)) < CopyThreshold

\* Mutant of Turned: the entries left in the old map are not copied.
TurnedLoses(old, delOld, new, delNew) ==
  IF OldFull(old, delOld)
  THEN <<new, delNew, EmptyMap, 0>>
  ELSE <<old, delOld, new, delNew>>

Turned(old, delOld, new, delNew) ==
  IF OldFull(old, delOld)
  THEN <<Copied(new, old), delNew, EmptyMap, 0>>
  ELSE <<old, delOld, new, delNew>>

Merged(m) ==
  IF OldFull(m[3], m[4])
  THEN <<Copied(m[1], m[3]), m[2], EmptyMap, 0>>
  ELSE m

Becomes(m) ==
  /\ dirtyOld' = m[1] /\ deletionOld' = m[2]
  /\ dirtyNew' = m[3] /\ deletionNew' = m[4]

Del(k) ==
  LET inOld == dirtyOld[k] # Absent
      inNew == ~inOld /\ dirtyNew[k] # Absent
  IN Becomes(Merged(Turned(
       [dirtyOld EXCEPT ![k] = Absent],
       IF inOld THEN deletionOld + 1 ELSE deletionOld,
       IF inNew THEN [dirtyNew EXCEPT ![k] = Absent] ELSE dirtyNew,
       IF inNew THEN deletionNew + 1 ELSE deletionNew)))

SetOld(k, v) ==
  /\ deletionOld <= MaxDeletion
  /\ dirtyNew' = [dirtyNew EXCEPT ![k] = Absent]
  /\ deletionNew' = IF dirtyNew[k] # Absent THEN deletionNew + 1 ELSE deletionNew
  /\ dirtyOld' = [dirtyOld EXCEPT ![k] = v]
  /\ UNCHANGED deletionOld

SetNew(k, v) ==
  /\ deletionOld > MaxDeletion
  /\ dirtyOld' = [dirtyOld EXCEPT ![k] = Absent]
  /\ deletionOld' = IF dirtyOld[k] # Absent THEN deletionOld + 1 ELSE deletionOld
  /\ dirtyNew' = [dirtyNew EXCEPT ![k] = v]
  /\ UNCHANGED deletionNew

Get(k) == IF dirtyOld[k] # Absent THEN dirtyOld[k] ELSE dirtyNew[k]

MapSize == Cardinality(Held(dirtyOld)) + Cardinality(Held(dirtyNew))

MapNext ==
  /\ deletionOld < MaxDeleted /\ deletionNew < MaxDeleted
  /\ \E k \in MapKeys : Del(k) \/ \E v \in MapValues : SetOld(k, v) \/ SetNew(k, v)

MapSpec == MapInit /\ [][MapNext]_mapVars

\* A key is in at most one of the two maps: Range would visit it twice and
\* Size would count it twice, and a deletion would uncover its older value.
OneCopy == Held(dirtyOld) \cap Held(dirtyNew) = {}

\* Through Get, the two maps are one map in which a key has the value last set.
Contents == [k \in MapKeys |-> Get(k)]
Store == INSTANCE KeyedStore WITH Keys <- MapKeys, Values <- MapValues, None <- Absent,
                                  contents <- Contents
ImplementsStore == Store!StoreSpec

\* Size counts the keys that Get finds.
SizeExact == MapSize = Cardinality(Held(Contents))

\* SafeMap is a map to its callers, whatever the deletions move: Get, Set and Del
\* are those of KeyedStore, no key is in both Go maps, and Size is exact.
MapSound == ImplementsStore /\ [](OneCopy /\ SizeExact)
=============================================================================
