------------------------------- MODULE Hashing -------------------------------
(***************************************************************************)
(* core/hash/consistenthash.go: ConsistentHash.                            *)
(*                                                                         *)
(* Hashes are points 0..Points-1 of the circle; the hash function is any   *)
(* function of a node and the number of a replica: HashFunctions has some  *)
(* with collisions.  AddWithReplicas takes the lock twice, in Remove and   *)
(* then for the insertion: two steps, between which others run.            *)
(***************************************************************************)
EXTENDS Integers, Sequences, SequencesExt, FiniteSets

CONSTANTS HashNodes, Adders,
          Replicas,     \* h.replicas
          Points,
          HashFunctions \* the hash functions to choose from

VARIABLES at,           \* the hash function: at[n][i] for replica i of n
          keys, ring, nodes,
          adder,        \* an Add between its two parts: <<node, replicas>>
          overlapped    \* history: the nodes two insertions found present

hashVars == <<at, keys, ring, nodes, adder, overlapped>>

Circle == 0..Points - 1

HashInit ==
  /\ at \in HashFunctions
  /\ keys = <<>>
  /\ ring = [h \in Circle |-> <<>>]
  /\ nodes = {}
  /\ adder = [p \in Adders |-> <<>>]
  /\ overlapped = {}

\* Remove runs over all of h.replicas, also when n was added with fewer.
Removed(n) == [keys |-> FoldLeft(RemoveFirst, keys, at[n]),
               ring |-> [h \in Circle |->
                           IF \E i \in 1..Replicas : at[n][i] = h
                           THEN SelectSeq(ring[h], LAMBDA x : x # n) ELSE ring[h]]]

RemoveNode(n) ==
  IF n \in nodes
  THEN keys' = Removed(n).keys /\ ring' = Removed(n).ring /\ nodes' = nodes \ {n}
  ELSE UNCHANGED <<keys, ring, nodes>>

HashRemove(n) == n \in nodes /\ RemoveNode(n) /\ UNCHANGED <<at, adder, overlapped>>

\* AddWithReplicas up to the end of h.Remove(node).
AddNodeBegins(p, n, r) ==
  /\ adder[p] = <<>>
  /\ RemoveNode(n)
  /\ adder' = [adder EXCEPT ![p] = <<n, r>>]
  /\ UNCHANGED <<at, overlapped>>

\* Mutant of Inserted: the keys are not sorted again.
InsertedLast(n, r) == keys \o SubSeq(at[n], 1, r)

Inserted(n, r) == SortSeq(keys \o SubSeq(at[n], 1, r), <)

Times(n, r, h) == Cardinality({i \in 1..r : at[n][i] = h})

AddInserts(p) ==
  LET n == adder[p][1]
      r == adder[p][2]
  IN /\ adder[p] # <<>>
     /\ nodes' = nodes \cup {n}
     /\ keys' = Inserted(n, r)
     /\ ring' = [h \in Circle |-> ring[h] \o [j \in 1..Times(n, r, h) |-> n]]
     /\ overlapped' = IF n \in nodes THEN overlapped \cup {n} ELSE overlapped
     /\ adder' = [adder EXCEPT ![p] = <<>>]
     /\ UNCHANGED at

\* sort.Search, by bisection: with the keys in order, how many lie below h.
Search(h) ==
  LET bisect[i \in 0..Len(keys), j \in 0..Len(keys)] ==
        LET mid == (i + j) \div 2
        IN IF i >= j THEN i
           ELSE IF keys[mid + 1] >= h THEN bisect[i, mid] ELSE bisect[mid + 1, j]
  IN bisect[0, Len(keys)]

\* The index of the key Get uses.
Found(h) == (Search(h) % Len(keys)) + 1

\* The nodes Get(v) chooses from when v hashes to h: it takes the one that the
\* second hash of v, modulo their number, points at.
NodesAt(h) == IF keys = <<>> THEN <<>> ELSE ring[keys[Found(h)]]

HashNext ==
  /\ overlapped = {}    \* bound: nothing is said of what follows
  /\ \/ \E n \in HashNodes : HashRemove(n)
     \/ \E p \in Adders : AddInserts(p)
     \/ \E p \in Adders, n \in HashNodes, r \in 0..Replicas : AddNodeBegins(p, n, r)

HashSpec == HashInit /\ [][HashNext]_hashVars

Shared(h) == \E m, n \in HashNodes : /\ m # n
                                     /\ h \in {at[m][i] : i \in 1..Replicas}
                                     /\ h \in {at[n][i] : i \in 1..Replicas}

\* As long as two calls of Add for one node do not overlap, every key leads to
\* a node, and a cell has one key for each of its entries, except where the
\* hashes of two nodes meet: there Remove of a node with fewer replicas takes
\* the key of the other.
KeysMatchRing ==
  overlapped = {} =>
    \A h \in Circle : LET n == Len(SelectSeq(keys, LAMBDA k : k = h))
                      IN n <= Len(ring[h]) /\ (n < Len(ring[h]) => Shared(h))

\* A step that removes or inserts a node moves only values of that node: for
\* any other value Get chooses from the same nodes as before, unless the cell
\* it led to is one where the hashes of two nodes meet.
Moved == (nodes \ nodes') \cup (nodes' \ nodes)
OnlyItsValuesMove ==
  [][overlapped' = {} =>
       \A h \in Circle :
         \/ NodesAt(h)' = NodesAt(h)
         \/ ToSet(NodesAt(h)) \cap Moved # {} \/ ToSet(NodesAt(h)') \cap Moved # {}
         \/ keys # <<>> /\ Shared(keys[Found(h)])]_hashVars

-----------------------------------------------------------------------------
(***************************************************************************)
(* core/bloom/bloom.go: Filter, with its bits in Redis.  The locations of  *)
(* data are the hashes of append(data, byte(i)): where the slice has room  *)
(* the byte is written behind the data, and the goroutines that were given *)
(* the same slice share it.                                                *)
(***************************************************************************)
CONSTANTS Bloomers,     \* goroutines
          BloomData, BloomMaps,
          BloomHash,    \* the location for data and the byte that follows it
          MaxBlooms     \* bound: calls

VARIABLES bits,         \* the bits that are set
          roomy,        \* the slices have room behind their data
          behind,       \* the byte behind the data
          bloomer,      \* a call: what it does and how far it is
          asked, added, \* calls so far; what Add has returned nil for
          mixedUp,      \* history: a hash was taken with another's byte
          denied        \* history: Exists has said no of what was added

bloomVars == <<bits, roomy, behind, bloomer, asked, added, mixedUp, denied>>

NoBloom == [op |-> "none"]

BloomInit ==
  /\ bits = {} /\ roomy \in BOOLEAN /\ behind = [d \in BloomData |-> 0]
  /\ bloomer = [g \in Bloomers |-> NoBloom] /\ asked = 0 /\ added = {}
  /\ mixedUp = FALSE /\ denied = FALSE

\* Add or Exists of d begins; known says that d was added before it.
BloomCalled(g, op, d) ==
  /\ bloomer[g] = NoBloom /\ asked < MaxBlooms /\ asked' = asked + 1
  /\ bloomer' = [bloomer EXCEPT ![g] = [op |-> op, data |-> d, i |-> 0, at |-> "append",
                                        locations |-> {}, known |-> d \in added]]
  /\ UNCHANGED <<bits, roomy, behind, added, mixedUp, denied>>

Locating(g, s) == bloomer[g] # NoBloom /\ bloomer[g].at = s

\* append(data, byte(i)): in place, or in a slice of its own.
AppendByte(g) ==
  /\ Locating(g, "append")
  /\ behind' = IF roomy THEN [behind EXCEPT ![bloomer[g].data] = bloomer[g].i] ELSE behind
  /\ bloomer' = [bloomer EXCEPT ![g].at = "hash"]
  /\ UNCHANGED <<bits, roomy, asked, added, mixedUp, denied>>

HashByte(g) ==
  /\ Locating(g, "hash")
  /\ LET c == bloomer[g]
         b == IF roomy THEN behind[c.data] ELSE c.i
     IN /\ bloomer' = [bloomer EXCEPT ![g].locations = @ \cup {BloomHash[c.data][b]}, ![g].i = @ + 1,
                                      ![g].at = IF c.i + 1 < BloomMaps THEN "append" ELSE "script"]
        /\ mixedUp' = (mixedUp \/ b # c.i)
  /\ UNCHANGED <<bits, roomy, behind, asked, added, denied>>

\* Mutant of SetBits: one location too few.
SetBitsShort(ls) == {l \in ls : \E m \in ls : m > l}

\* setscript.lua.
SetBits(ls) == ls

BloomAdds(g) ==
  /\ Locating(g, "script") /\ bloomer[g].op = "add"
  /\ bits' = bits \cup SetBits(bloomer[g].locations) /\ added' = added \cup {bloomer[g].data}
  /\ bloomer' = [bloomer EXCEPT ![g] = NoBloom]
  /\ UNCHANGED <<roomy, behind, asked, mixedUp, denied>>

\* testscript.lua.
BloomTests(g) ==
  /\ Locating(g, "script") /\ bloomer[g].op = "exists"
  /\ denied' = (denied \/ (bloomer[g].known /\ ~(bloomer[g].locations \subseteq bits)))
  /\ bloomer' = [bloomer EXCEPT ![g] = NoBloom]
  /\ UNCHANGED <<bits, roomy, behind, asked, added, mixedUp>>

\* Redis does not answer: the call returns its error, and Add may have set the bits.
BloomFails(g) ==
  /\ Locating(g, "script") /\ bloomer' = [bloomer EXCEPT ![g] = NoBloom]
  /\ bits' \in {bits, IF bloomer[g].op = "add" THEN bits \cup SetBits(bloomer[g].locations) ELSE bits}
  /\ UNCHANGED <<roomy, behind, asked, added, mixedUp, denied>>

BloomNext ==
  \E g \in Bloomers :
    \/ \E d \in BloomData : BloomCalled(g, "add", d) \/ BloomCalled(g, "exists", d)
    \/ AppendByte(g) \/ HashByte(g) \/ BloomAdds(g) \/ BloomTests(g) \/ BloomFails(g)

BloomSpec == BloomInit /\ [][BloomNext]_bloomVars

-----------------------------------------------------------------------------
\* Exists never says no of data that was added, with calls that overlap and calls
\* that Redis does not answer, unless two calls were given one slice with room
\* behind its data at a time.
NoFalseNegative == denied => mixedUp
=============================================================================
