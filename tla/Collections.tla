----------------------------- MODULE Collections -----------------------------
(***************************************************************************)
(* core/collection: the two circular buffers.                              *)
(***************************************************************************)
EXTENDS Integers, FiniteSets, Sequences

(***************************************************************************)
(* core/collection/fifo.go: Queue, a circular buffer that grows by `size'  *)
(* when it is full.  Every operation holds q.lock: one action each.        *)
(* Indices start at 0 as in the code; a slot never written holds NoItem.   *)
(***************************************************************************)
CONSTANTS FifoItems, NoItem,
          FifoSizes,      \* arguments of NewQueue
          MaxElements     \* bound on the length of the buffer

VARIABLES size, elements, head, tail, count

fifoVars == <<size, elements, head, tail, count>>

FifoInit ==
  /\ size \in FifoSizes
  /\ elements = [i \in 0..size - 1 |-> NoItem]
  /\ head = 0 /\ tail = 0 /\ count = 0

Length == Cardinality(DOMAIN elements)

\* Mutant of Grown: the elements are copied as they lie, without rotation.
GrownAsIs ==
  [i \in 0..Length + size - 1 |-> IF i < Length THEN elements[i] ELSE NoItem]

\* The two copies: from head to the end, then what lies before head.
Grown ==
  [i \in 0..Length + size - 1 |->
     IF i < Length - head THEN elements[head + i]
     ELSE IF i < Length THEN elements[i - (Length - head)] ELSE NoItem]

FifoGrow(x) ==
  /\ head = tail /\ count > 0
  /\ Length + size <= MaxElements
  /\ elements' = [Grown EXCEPT ![Length] = x]
  /\ head' = 0
  /\ tail' = (Length + 1) % (Length + size)
  /\ count' = count + 1
  /\ UNCHANGED size

FifoPut(x) ==
  /\ ~(head = tail /\ count > 0)
  /\ elements' = [elements EXCEPT ![tail] = x]
  /\ tail' = (tail + 1) % Length
  /\ count' = count + 1
  /\ UNCHANGED <<size, head>>

FifoTake ==
  /\ count # 0
  /\ head' = (head + 1) % Length
  /\ count' = count - 1
  /\ UNCHANGED <<size, elements, tail>>

FifoNext == FifoTake \/ \E x \in FifoItems : FifoPut(x) \/ FifoGrow(x)

FifoSpec == FifoInit /\ [][FifoNext]_fifoVars

\* From head, wrapping round, lie the items put and not yet taken, in order:
\* across every growth Take returns them first in, first out.
Queued == [i \in 1..count |-> elements[(head + i - 1) % Length]]
Line == INSTANCE ItemSequence WITH Items <- FifoItems, items <- Queued
ImplementsSequence == Line!SequenceSpec

(***************************************************************************)
(* core/collection/ring.go: Ring, which keeps the last n values added.     *)
(* Add holds r.lock for all of its work; Take only reads.                  *)
(***************************************************************************)
CONSTANTS RingValues, NoValue,
          RingSizes     \* arguments of NewRing, at least 1

VARIABLES rlen, cells, index,
          recent        \* history: the last rlen values added, oldest first

ringVars == <<rlen, cells, index, recent>>

RingInit ==
  /\ rlen \in RingSizes
  /\ cells = [i \in 0..rlen - 1 |-> NoValue]
  /\ index = 0
  /\ recent = <<>>

\* Mutant of Wrapped: the index goes back to the start of the ring.
WrappedToZero(i) == IF i >= 2 * rlen THEN 0 ELSE i

\* The index stays below 2 * rlen, and above rlen once the ring is full.
Wrapped(i) == IF i >= 2 * rlen THEN i - rlen ELSE i

RingAdd(v) ==
  /\ cells' = [cells EXCEPT ![index % rlen] = v]
  /\ index' = Wrapped(index + 1)
  /\ recent' = Append(IF Len(recent) = rlen THEN Tail(recent) ELSE recent, v)
  /\ UNCHANGED rlen

RingTake ==
  LET full == index > rlen
      start == IF full THEN index % rlen ELSE 0
  IN [i \in 1..(IF full THEN rlen ELSE index) |-> cells[(start + i - 1) % rlen]]

RingNext == \E v \in RingValues : RingAdd(v)

RingSpec == RingInit /\ [][RingNext]_ringVars

\* Take answers the last rlen values added, or all when fewer were, oldest
\* first: also at the wrap of the index, where "full" could be forgotten.
LastValues == RingTake = recent
=============================================================================
