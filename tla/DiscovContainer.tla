-------------------------- MODULE DiscovContainer --------------------------
(***************************************************************************)
(* core/discov/subscriber.go: the container of a Subscriber, the listener  *)
(* that a registry tells of keys and values.  c.values, a list of keys for *)
(* each value, is the set of its <<value, key>> pairs: neither the order   *)
(* nor a repeated key is ever looked at.                                   *)
(***************************************************************************)
EXTENDS TLC, Functions

newContainer == [values |-> {}, mapping |-> <<>>]

\* Removes the key from the value it is mapped to now.
doRemoveKey(c, key) ==
  IF key \notin DOMAIN c.mapping THEN c
  ELSE [values |-> c.values \ {<<c.mapping[key], key>>},
        mapping |-> Restrict(c.mapping, DOMAIN c.mapping \ {key})]

\* Mutant of addKv: an exclusive container keeps the earlier keys.
addKvShares(c, exclusive, key, value) ==
  [values |-> c.values \cup {<<value, key>>}, mapping |-> (key :> value) @@ c.mapping]

\* An exclusive container first removes the keys that have the value.  (They are
\* at most one, so the list that doRemoveKey shortens in place is not read on.)
addKv(c, exclusive, key, value) ==
  LET same == {k \in DOMAIN c.mapping : exclusive /\ <<value, k>> \in c.values}
      rest == IF same = {} THEN c ELSE doRemoveKey(c, CHOOSE k \in same : TRUE)
  IN [values |-> rest.values \cup {<<value, key>>}, mapping |-> (key :> value) @@ rest.mapping]

getValues(c) == {vk[1] : vk \in c.values}
=============================================================================
