----------------------------- MODULE KeyedStore -----------------------------
(***************************************************************************)
(* What a map promises its callers: a key has the value last set, until it *)
(* is deleted.  The container of SafeMap is shown to implement it.         *)
(***************************************************************************)
CONSTANTS Keys, Values, None

VARIABLE contents

StoreInit == contents = [k \in Keys |-> None]

Put(k, v) == contents' = [contents EXCEPT ![k] = v]

Erase(k) == contents' = [contents EXCEPT ![k] = None]

StoreNext == \E k \in Keys : Erase(k) \/ \E v \in Values : Put(k, v)

StoreSpec == StoreInit /\ [][StoreNext]_contents
=============================================================================
