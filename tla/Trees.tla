-------------------------------- MODULE Trees --------------------------------
(***************************************************************************)
(* The two trees of core: keywords in a text, and the routes of a server.  *)
(***************************************************************************)
EXTENDS Integers, Sequences, SequencesExt, FiniteSets

(***************************************************************************)
(* core/stringx: the keyword automaton of node.go (add, build, find) and   *)
(* the replacer over it.                                                   *)
(*                                                                         *)
(* A node of the tree is the sequence of characters that leads to it: <<>> *)
(* is the root, a node's depth is its length.  build visits the nodes by   *)
(* depth, so the fail link of a node depends only on shorter ones.         *)
(***************************************************************************)
CONSTANTS WordSets,       \* what NewReplacer or NewTrie may be given
          Texts,
          Mapping(_),     \* the replacement of a word
          ReplaceTimes    \* 2 in replacer.go

VARIABLES words, text,
          fail,           \* the links, once built
          pos,            \* the characters find has read
          cur,            \* the node find is at
          scopes,
          rounds          \* the calls of doReplace that have ended

trieVars == <<words, text, fail, pos, cur, scopes, rounds>>

Root == <<>>

TrieInit ==
  /\ words \in WordSets /\ text \in Texts
  /\ fail = <<>> /\ pos = 0 /\ cur = Root /\ scopes = <<>>
  /\ rounds = -1

\* add: an empty word adds nothing.
Children == UNION {Prefixes(w) : w \in words} \ {Root}
Ends == words \ {Root}

\* The inner loop of build, from the node whose fail link is tried.
\* Mutant of FailFrom: the links of the link are not tried.
FailFromOnce(link, f, c) == IF Append(link, c) \in Children THEN Append(link, c) ELSE Root

FailFrom(link, f, c) ==
  LET try[q \in Children \cup {Root}] ==
        IF Append(q, c) \in Children THEN Append(q, c)
        ELSE IF q = Root THEN Root ELSE try[f[q]]
  IN try[link]

Links ==
  LET f[q \in Children] ==
        IF Len(q) = 1 THEN Root ELSE FailFrom(f[Front(q)], f, Last(q))
  IN f

Build ==
  /\ rounds = -1
  /\ fail' = Links /\ rounds' = 0
  /\ UNCHANGED <<words, text, pos, cur, scopes>>

\* The scopes that end after i characters, along the fail links from q.
EndsAt(q, i) ==
  LET chain[n \in Children \cup {Root}] ==
        IF n = Root THEN <<>>
        ELSE (IF n \in Ends THEN <<[start |-> i - Len(n), stop |-> i]>> ELSE <<>>) \o chain[fail[n]]
  IN chain[q]

\* One turn of the loop of find.
FindChar ==
  LET next == FailFrom(cur, fail, text[pos + 1])
  IN /\ rounds \in 0..ReplaceTimes - 1 /\ pos < Len(text)
     /\ pos' = pos + 1
     /\ cur' = next
     /\ scopes' = scopes \o EndsAt(next, pos + 1)
     /\ UNCHANGED <<words, text, fail, rounds>>

Before(a, b) == a.start < b.start \/ (a.start = b.start /\ a.stop > b.stop)

\* doReplace after find: the scopes in order, without those that start before
\* the end of the last one replaced.
Replaced ==
  LET step(r, s) ==
        IF s.start < r.index THEN r
        ELSE [out |-> r.out \o SubSeq(text, r.index + 1, s.start)
                            \o Mapping(SubSeq(text, s.start + 1, s.stop)),
              index |-> s.stop]
      all == FoldLeft(step, [out |-> <<>>, index |-> 0], SortSeq(scopes, Before))
  IN all.out \o SubSeq(text, all.index + 1, Len(text))

DoReplace ==
  /\ rounds \in 0..ReplaceTimes - 1 /\ pos = Len(text)
  /\ text' = Replaced
  /\ rounds' = IF scopes = <<>> THEN ReplaceTimes ELSE rounds + 1
  /\ pos' = 0 /\ cur' = Root /\ scopes' = <<>>
  /\ UNCHANGED <<words, fail>>

TrieNext == Build \/ FindChar \/ DoReplace

TrieSpec == TrieInit /\ [][TrieNext]_trieVars

\* find reports every occurrence of every word and nothing else, words inside
\* and overlapping other words included.
Occurs(i, j) == SubSeq(text, i + 1, j) \in Ends
ScopesExact ==
  rounds \in 0..ReplaceTimes - 1 =>
    ToSet(scopes) = {s \in [start : 0..pos, stop : 0..pos] : s.start < s.stop /\ Occurs(s.start, s.stop)}

\* A pass of the replacer goes from left to right and replaces the longest
\* word that starts where it is; what follows is read after that word.
LeftmostLongest ==
  LET here(i) == {j \in i + 1..Len(text) : Occurs(i, j)}
      from[i \in 0..Len(text)] ==
        IF i = Len(text) THEN <<>>
        ELSE IF here(i) = {} THEN <<text[i + 1]>> \o from[i + 1]
        ELSE LET j == CHOOSE j \in here(i) : \A k \in here(i) : k <= j
             IN Mapping(SubSeq(text, i + 1, j)) \o from[j]
  IN from[0]
ReplacesLongest == [][rounds >= 0 /\ rounds' > rounds => text' = LeftmostLongest]_trieVars

-----------------------------------------------------------------------------
(***************************************************************************)
(* core/search/tree.go: Tree, which finds the item of a route.             *)
(*                                                                         *)
(* A route is the sequence of what lies between its slashes: "/a/b" is     *)
(* <<"a", "b">>, "/a/" is <<"a", "">> and "/" is <<"">>.  A node is the    *)
(* sequence of tokens that leads to it.  Go visits the children of a map   *)
(* in any order, so a search has a set of possible outcomes.               *)
(***************************************************************************)
CONSTANTS Routes,       \* arguments of Add
          Named,        \* the tokens that begin with a colon
          Searched      \* arguments of Search

VARIABLES treeNodes,    \* the nodes that exist
          withItem      \* those that have an item

treeVars == <<treeNodes, withItem>>

TreeInit == treeNodes = {<<>>} /\ withItem = {}

\* The slash that follows at once after another: add stops there, and leaves
\* the nodes it has created.
DupSlash(route) == {i \in 1..Len(route) - 1 : route[i] = ""}

Target(route) == IF Last(route) = "" THEN Front(route) ELSE route

AddRefused(route) ==
  /\ DupSlash(route) # {}
  /\ LET i == CHOOSE i \in DupSlash(route) : \A j \in DupSlash(route) : i <= j
     IN treeNodes' = treeNodes \cup Prefixes(SubSeq(route, 1, i - 1))
  /\ UNCHANGED withItem

\* An item that is there already stays: errDupItem.
TreeAdd(route) ==
  /\ DupSlash(route) = {}
  /\ Target(route) \notin withItem
  /\ treeNodes' = treeNodes \cup Prefixes(Target(route))
  /\ withItem' = withItem \cup {Target(route)}

TreeNext == \E route \in Routes : AddRefused(route) \/ TreeAdd(route)

TreeSpec == TreeInit /\ [][TreeNext]_treeVars

NamedChildren(n) == {t \in Named : Append(n, t) \in treeNodes}

StaticChildren(n, token) == {t \in {token} \ Named : Append(n, t) \in treeNodes}

\* Mutant of FirstOf: the named children come first.
FirstOfNamed(static, named) == IF named # {} THEN named ELSE static

\* forEach: the static children first, then the named ones; the first child for
\* which the function answers true ends it.
FirstOf(static, named) == IF static # {} THEN static ELSE named

\* next: the nodes whose item a search from n for the rest of the route, from
\* its i-th token on, may end with.
Outcomes(route) ==
  LET next[n \in treeNodes, i \in 1..Len(route)] ==
        LET found(t) == IF i < Len(route) THEN next[Append(n, t), i + 1]
                        ELSE {Append(n, t)} \cap withItem
        IN IF i = Len(route) /\ route[i] = "" /\ n \in withItem THEN {n}
           ELSE FirstOf(UNION {found(t) : t \in StaticChildren(n, route[i])},
                        UNION {found(t) : t \in NamedChildren(n)})
  IN next[<<>>, 1]

Matching(node, route) ==
  /\ Len(node) \in {Len(route), Len(Target(route))}
  /\ \A i \in 1..Len(node) : node[i] \in {route[i]} \cup Named

\* q is preferred to p: where they part, q ends or goes on with the very token.
Preferred(q, p) ==
  \E i \in 1..Len(p) : /\ SubSeq(p, 1, i - 1) = SubSeq(q, 1, i - 1)
                       /\ i > Len(q) \/ (q[i] \notin Named /\ p[i] \in Named)

\* Search ends with an item whenever a route that was added matches, and then
\* with one that no matching route is preferred to: it backtracks from a static
\* token to the named ones, and only then.
SearchExact ==
  withItem # {} => \A route \in Searched :
    LET matching == {n \in withItem : Matching(n, route)}
    IN Outcomes(route) = {p \in matching : \A q \in matching : ~Preferred(q, p)}
=============================================================================
