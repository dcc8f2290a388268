----------------------------- MODULE HttpRouter -----------------------------
(***************************************************************************)
(* rest/router/internal/httprouter: the radix tree of tree.go and the      *)
(* Router over one tree for each method, as NewRouter of rest/router sets  *)
(* it up (RemoveExtraSlash, no redirects).                                 *)
(*                                                                         *)
(* Paths are sequences of characters, with ":" and "*" before the name of  *)
(* a wildcard.  A node is a record, a handler the route it was registered  *)
(* for.  A registration that panics ends the program that makes it: it is  *)
(* left out, with the tree it would have left.  Routes are registered      *)
(* before requests are served, and a request changes nothing.              *)
(***************************************************************************)
EXTENDS Integers, Sequences, SequencesExt, FiniteSets, FiniteSetsExt

CONSTANTS HttpMethods, HttpRoutes,
          RequestPaths,
          MaxRoutes       \* bound: routes registered

VARIABLES trees,          \* the root of each method
          order,          \* the methods in the order of their first route
          maxSections,
          registered      \* history: the routes of each method

routerVars == <<trees, order, maxSections, registered>>

NoHandler == <<>>
NewNode == [path |-> <<>>, indices |-> <<>>, wildChild |-> FALSE, nType |-> "static", priority |-> 0,
            children |-> <<>>, handlers |-> NoHandler]
PanicNode == [nType |-> "panic"]
Without(s, n) == SubSeq(s, n + 1, Len(s))
Prefix(s, n) == SubSeq(s, 1, n)

longestCommonPrefix(a, b) ==
  Max({0} \cup {i \in 1..Min({Len(a), Len(b)}) : Prefix(a, i) = Prefix(b, i)})

\* The wildcard child stays at the end.
addChild(n, child) ==
  [n EXCEPT !.children = IF n.wildChild /\ @ # <<>> THEN InsertAt(@, Len(@), child) ELSE Append(@, child)]

\* The child at pos has one route more, and moves before those with fewer.
PositionFor(n, pos) ==
  Max({1} \cup {i + 1 : i \in {j \in 1..pos - 1 : n.children[j].priority >= n.children[pos].priority + 1}})

incrementChildPrio(n, pos) ==
  LET to == PositionFor(n, pos)
      moved(s, e) == InsertAt(RemoveAt(s, pos), to, e)
  IN [n EXCEPT !.children = moved(@, [@[pos] EXCEPT !.priority = @ + 1]), !.indices = moved(@, @[pos])]

IndexOf(n, c) == Max({0} \cup {i \in 1..Len(n.indices) : n.indices[i] = c})

\* The first wildcard: where it begins (0 is nowhere), and its text up to the next
\* slash.
findWildcard(path) ==
  LET starts == {i \in 1..Len(path) : path[i] \in {":", "*"}}
      i == IF starts = {} THEN 0 ELSE Min(starts)
      ends == {j \in i + 1..Len(path) : path[j] = "/"}
      w == IF i = 0 THEN <<>> ELSE SubSeq(path, i, IF ends = {} THEN Len(path) ELSE Min(ends) - 1)
  IN [i |-> i, wildcard |-> w, valid |-> \A j \in 2..Len(w) : w[j] \notin {":", "*"}]

RECURSIVE insertChild(_, _, _)
insertChild(n, path, route) ==
  LET f == findWildcard(path)
      w == f.wildcard
      before == Prefix(path, f.i - 1)
      after == Without(path, f.i - 1 + Len(w))
      grand == insertChild([NewNode EXCEPT !.priority = 1], after, route)
      param == [NewNode EXCEPT !.nType = "param", !.path = w, !.priority = 1]
      variable == [NewNode EXCEPT !.nType = "catchAll", !.path = <<"/">> \o w, !.handlers = route, !.priority = 1]
      catch == [NewNode EXCEPT !.nType = "catchAll", !.wildChild = TRUE, !.priority = 1, !.children = <<variable>>]
      prefixed == IF before = <<>> THEN n ELSE [n EXCEPT !.path = before]
  IN IF f.i = 0 THEN [n EXCEPT !.path = path, !.handlers = route]
     ELSE IF ~f.valid \/ Len(w) < 2 THEN PanicNode
     ELSE IF w[1] = ":"
          THEN IF after = <<>>
               THEN [addChild(prefixed, [param EXCEPT !.handlers = route]) EXCEPT !.wildChild = TRUE]
               ELSE IF grand = PanicNode THEN PanicNode
               ELSE [addChild(prefixed, addChild(param, grand)) EXCEPT !.wildChild = TRUE]
     ELSE IF \/ after # <<>>
             \/ n.path # <<>> /\ Last(n.path) = "/"
             \/ before = <<>> \/ Last(before) # "/"
          THEN PanicNode
     ELSE [addChild([n EXCEPT !.path = Front(before)], catch) EXCEPT !.indices = <<"/">>]

\* Split edge: the node keeps the common prefix, and a child has what it had.
Split(n, i) ==
  [n EXCEPT !.children = <<[n EXCEPT !.path = Without(@, i), !.nType = "static", !.priority = @ - 1]>>,
            !.indices = <<n.path[i + 1]>>, !.path = Prefix(@, i), !.handlers = NoHandler, !.wildChild = FALSE]

WithChild(n, pos, child) == IF child = PanicNode THEN PanicNode ELSE [n EXCEPT !.children[pos] = child]

\* The wildcard in the path is the one of the node, and not the beginning of it.
SameWildcard(n, path) ==
  /\ n.nType # "catchAll" /\ IsPrefix(n.path, path)
  /\ Len(path) > Len(n.path) => path[Len(n.path) + 1] = "/"

RECURSIVE Walk(_, _, _)
Walk(node, path, route) ==
  LET i == longestCommonPrefix(path, node.path)
      n == IF i < Len(node.path) THEN Split(node, i) ELSE node
      rest == Without(path, i)
      c == rest[1]
      last == Len(n.children)
      raised(k) == [n.children[k] EXCEPT !.priority = @ + 1]
      j == IndexOf(n, c)
      up == incrementChildPrio(n, j)
      to == PositionFor(n, j)
      grown == addChild([n EXCEPT !.indices = Append(@, c)], NewNode)
      place == Len(grown.indices)
  IN IF rest = <<>>
     THEN IF n.handlers # NoHandler THEN PanicNode ELSE [n EXCEPT !.handlers = route]
     ELSE IF n.nType = "param" /\ c = "/" /\ last = 1
          THEN WithChild(n, 1, Walk(raised(1), rest, route))
     ELSE IF j # 0
          THEN WithChild(up, to, Walk(up.children[to], rest, route))
     ELSE IF c \notin {":", "*"} /\ n.nType # "catchAll"
          THEN WithChild(incrementChildPrio(grown, place), PositionFor(grown, place),
                         insertChild([NewNode EXCEPT !.priority = 1], rest, route))
     ELSE IF ~n.wildChild THEN insertChild(n, rest, route)
     ELSE IF SameWildcard(n.children[last], rest) THEN WithChild(n, last, Walk(raised(last), rest, route))
     ELSE PanicNode

addRoute(root, path) ==
  LET n == [root EXCEPT !.priority = @ + 1]
      first == insertChild(n, path, path)
  IN IF n.path = <<>> /\ n.children = <<>>
     THEN IF first = PanicNode THEN PanicNode ELSE [first EXCEPT !.nType = "root"]
     ELSE Walk(n, path, path)

-----------------------------------------------------------------------------
\* getValue: what it returns, with the skipped nodes that are left.
Value(h, params, skipped) == [handler |-> h, params |-> params, skipped |-> skipped, deepest |-> Len(skipped)]
Deepest(v, skipped) == [v EXCEPT !.deepest = Max({@, Len(skipped)})]

ParamEnd(path) == Min({Len(path)} \cup {i - 1 : i \in {j \in 1..Len(path) : path[j] = "/"}})

\* The last of the skipped nodes whose path ends as this one; 0 is none.
LastSkipped(skipped, path) ==
  Max({0} \cup {i \in 1..Len(skipped) : IsSuffix(path, skipped[i].path)})

RECURSIVE getValue(_, _, _, _)

\* Mutant of RollBack: the parameters that were read since stay.
RollBackKeeps(skipped, path, params) ==
  LET i == LastSkipped(skipped, path)
  IN IF i = 0 THEN Value(NoHandler, params, <<>>)
     ELSE getValue(skipped[i].node, skipped[i].path, params, Prefix(skipped, i - 1))

\* roll back to last valid skippedNode.
RollBack(skipped, path, params) ==
  LET i == LastSkipped(skipped, path)
  IN IF i = 0 THEN Value(NoHandler, params, <<>>)
     ELSE getValue(skipped[i].node, skipped[i].path, Prefix(params, skipped[i].paramsCount), Prefix(skipped, i - 1))

\* The wildcard child of a node.
WildValue(n, path, params, skipped) ==
  LET end == ParamEnd(path)
      read == Append(params, <<Tail(n.path), Prefix(path, end)>>)
  IN IF n.nType = "catchAll"
     THEN Value(n.handlers, Append(params, <<Without(n.path, 2), path>>), skipped)
     ELSE IF end = Len(path) THEN Value(n.handlers, read, skipped)
     ELSE IF n.children = <<>> THEN Value(NoHandler, read, skipped)
     ELSE getValue(n.children[1], Without(path, end), read, skipped)

getValue(n, path, params, skipped) ==
  LET rest == Without(path, Len(n.path))
      i == IndexOf(n, rest[1])
      here == [path |-> path, node |-> [n EXCEPT !.indices = <<>>], paramsCount |-> Len(params)]
      more == IF n.wildChild THEN Append(skipped, here) ELSE skipped
  IN IF Len(path) > Len(n.path) /\ IsPrefix(n.path, path)
     THEN IF i # 0 THEN Deepest(getValue(n.children[i], rest, params, more), more)
          ELSE IF n.wildChild THEN WildValue(Last(n.children), rest, params, skipped)
          ELSE IF rest = <<"/">> THEN Value(NoHandler, params, skipped)
          ELSE RollBack(skipped, rest, params)
     ELSE IF path = n.path
     THEN IF n.handlers = NoHandler /\ path # <<"/">> THEN RollBack(skipped, path, params)
          ELSE Value(n.handlers, params, skipped)
     ELSE IF \/ path = <<"/">>
             \/ n.path = Append(path, "/") /\ n.handlers # NoHandler
          THEN Value(NoHandler, params, skipped)
          ELSE RollBack(skipped, path, params)

-----------------------------------------------------------------------------
\* RemoveExtraSlash.
StripSlash(path) == IF Len(path) > 1 /\ Last(path) = "/" THEN Front(path) ELSE path

countSections(path) == Cardinality({i \in 1..Len(path) : path[i] = "/"})

RouterInit ==
  /\ trees = [m \in HttpMethods |-> NewNode] /\ order = <<>>
  /\ maxSections = 0 /\ registered = [m \in HttpMethods |-> {}]

RouteCount == FoldSet(LAMBDA m, n : n + Cardinality(registered[m]), 0, HttpMethods)

Handle(m, path) ==
  LET route == StripSlash(path)
      root == addRoute(trees[m], route)
  IN /\ RouteCount < MaxRoutes
     /\ root # PanicNode
     /\ trees' = [trees EXCEPT ![m] = root]
     /\ order' = IF registered[m] = {} THEN Append(order, m) ELSE order
     /\ maxSections' = Max({maxSections, countSections(route)})
     /\ registered' = [registered EXCEPT ![m] = @ \cup {route}]

RouterNext == \E m \in HttpMethods, path \in HttpRoutes : Handle(m, path)

RouterSpec == RouterInit /\ [][RouterNext]_routerVars

\* The search of the other trees: each one begins with the nodes that the one
\* before has left.
Allowed(m, path) ==
  LET search(found, o) ==
        LET v == getValue(trees[o], path, <<>>, found.skipped)
        IN [methods |-> IF v.handler # NoHandler THEN found.methods \cup {o} ELSE found.methods,
            skipped |-> v.skipped, deepest |-> Max({found.deepest, v.deepest})]
  IN FoldLeft(search, [methods |-> {}, skipped |-> <<>>, deepest |-> 0], SelectSeq(order, LAMBDA o : o # m))

\* What a request is answered with.  A walk that skips more nodes than there is
\* room for in the slice panics.
ServeHTTP(m, path) ==
  LET v == getValue(trees[m], StripSlash(path), <<>>, <<>>)
      a == Allowed(m, StripSlash(path))
  IN IF registered[m] # {} /\ v.deepest > maxSections THEN [code |-> "panic"]
     ELSE IF registered[m] # {} /\ v.handler # NoHandler
          THEN [code |-> "handled", handler |-> v.handler, params |-> v.params]
     ELSE IF a.deepest > maxSections THEN [code |-> "panic"]
     ELSE IF a.methods # {} THEN [code |-> "405", allow |-> a.methods]
     ELSE [code |-> "404"]

-----------------------------------------------------------------------------
\* What a route matches: a parameter takes the path up to the next slash, a
\* catch-all the rest with its slash.
RECURSIVE Matched(_, _)
Matched(r, p) ==
  IF r = <<>> THEN p = <<>>
  ELSE IF p = <<>> THEN FALSE
  ELSE IF r[1] = ":" THEN Matched(Without(r, ParamEnd(r)), Without(p, ParamEnd(p)))
  ELSE IF Len(r) > 1 /\ r[2] = "*" THEN p[1] = "/"
  ELSE r[1] = p[1] /\ Matched(Tail(r), Tail(p))

RECURSIVE ParamsOf(_, _)
ParamsOf(r, p) ==
  IF r = <<>> THEN <<>>
  ELSE IF r[1] = ":"
       THEN <<<<Tail(Prefix(r, ParamEnd(r))), Prefix(p, ParamEnd(p))>>>> \o ParamsOf(Without(r, ParamEnd(r)), Without(p, ParamEnd(p)))
  ELSE IF Len(r) > 1 /\ r[2] = "*" THEN <<<<Without(r, 2), p>>>>
  ELSE ParamsOf(Tail(r), Tail(p))

MatchingRoutes(m, path) == {r \in registered[m] : Matched(r, StripSlash(path))}

\* At the first difference r has a character, and s a wildcard.
MoreExact(r, s) ==
  LET i == longestCommonPrefix(r, s) + 1
  IN i <= Len(s) /\ s[i] \in {":", "*"} /\ r # s

\* A request is handled by a route of its method that matches its path, the most
\* exact one, with the parameters of that route, in whatever order the routes
\* were registered.
RouteExact ==
  \A m \in HttpMethods, p \in RequestPaths :
    LET a == ServeHTTP(m, p)
    IN a.code = "handled" =>
         /\ a.handler \in MatchingRoutes(m, p)
         /\ \A r \in MatchingRoutes(m, p) : ~MoreExact(r, a.handler)
         /\ a.params = ParamsOf(a.handler, StripSlash(p))

\* A request that some route of its method matches is handled, unless the search
\* gave up at a parameter with nodes left to which it could have rolled back.
RouteFound ==
  \A m \in HttpMethods, p \in RequestPaths :
    MatchingRoutes(m, p) # {} =>
      ServeHTTP(m, p).code = "handled" \/ getValue(trees[m], StripSlash(p), <<>>, <<>>).skipped # <<>>

\* Where wildcards are whole segments, the nodes that one search skips have room
\* in a slice for maxSections of them.
WholeSegments(r) == \A i \in 2..Len(r) : r[i] \in {":", "*"} => r[i - 1] = "/"
RoomForSkipped ==
  (\A m \in HttpMethods : \A r \in registered[m] : WholeSegments(r)) =>
    \A m \in HttpMethods, p \in RequestPaths :
      getValue(trees[m], StripSlash(p), <<>>, <<>>).deepest <= maxSections

\* The router finds the handler of a request as its routes say.
RouterSound == RouteExact /\ RouteFound /\ RoomForSkipped

\* "MUST generate an Allow header field in response containing a list of the target
\* resource's currently supported methods": a request that its own method does
\* not handle is told the methods whose tree, searched by itself, has a handler for
\* the path, and that there is none otherwise.
AllowExact ==
  \A m \in HttpMethods, p \in RequestPaths :
    LET alone(x) == getValue(trees[x], StripSlash(p), <<>>, <<>>).handler
        others == {x \in HttpMethods \ {m} : alone(x) # NoHandler}
    IN alone(m) = NoHandler =>
         ServeHTTP(m, p) = IF others = {} THEN [code |-> "404"] ELSE [code |-> "405", allow |-> others]

-----------------------------------------------------------------------------
\* Routes whose prefixes meet in every way of the radix tree, and the paths of up
\* to five characters that may reach them.
RadixRoutes == {<<"/">>, <<"/", "a">>, <<"/", ":", "x">>, <<"/", "a", "/", "b">>, <<"/", ":", "x", "/", "b">>,
                <<"/", "a", "/", ":", "y">>, <<"/", ":", "x", "/", ":", "y", "/", "c">>, <<"/", "a", "b">>,
                <<"/", "a", "/", "*", "z">>, <<"/", "*", "z">>, <<"/", "b", "/">>, <<"/", "a", ":", "x">>,
                <<"/", "a", "/", ":", "y", "/", "b">>}
RadixPaths ==
  {p \in UNION {[1..n -> {"/", "a", "b", "c"}] : n \in 1..5} :
     p[1] = "/" /\ \A i \in 1..Len(p) - 1 : ~(p[i] = "/" /\ p[i + 1] = "/")}
    \cup {<<"/", "a", "/", "b", "/", "c">>}

\* A few of them, for three methods.
ThreeRoutes == {<<"/">>, <<"/", "a">>, <<"/", ":", "x">>}
ShortPaths == {p \in RadixPaths : Len(p) <= 3}
=============================================================================
