---------------------------- MODULE ItemSequence ----------------------------
(***************************************************************************)
(* What a first-in first-out queue promises: an item is put at the end and *)
(* taken from the front.  The circular buffer of FifoQueue implements it.  *)
(***************************************************************************)
EXTENDS Sequences

CONSTANT Items

VARIABLE items

SequenceInit == items = <<>>

PutLast(x) == items' = Append(items, x)

TakeFirst == items # <<>> /\ items' = Tail(items)

SequenceNext == TakeFirst \/ \E x \in Items : PutLast(x)

SequenceSpec == SequenceInit /\ [][SequenceNext]_items
=============================================================================
