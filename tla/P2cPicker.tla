------------------------------ MODULE P2cPicker ------------------------------
(***************************************************************************)
(* zrpc/internal/balancer/p2c/p2c.go: the picker of the p2c_ewma balancer. *)
(*                                                                         *)
(* Pick runs under the lock; the function it returns runs when the request *)
(* is done, under no lock.  The moving averages are data: a request that   *)
(* is done leaves its connection with any root of a lag.  healthy() only   *)
(* decides how often a pair is drawn again, and the third draw is taken as *)
(* it is, so every pair can be drawn; success is left out for that reason. *)
(***************************************************************************)
EXTENDS Clock, FiniteSets

CONSTANTS Conns, Calls,
          ReadySets,      \* the connections a picker is built with
          LagRoots,       \* int64(math.Sqrt(lag + 1))
          ForcePick,
          PickTime        \* bound on the clock

VARIABLES ready, lag, inflight, pick,
          call,           \* of a request: its connection and its stage
          lastPick,       \* history: the time of the last pick
          prevPick,       \* history: the time of the pick before it
          quiet           \* history: two picks were more than ForcePick apart

p2cState == <<ready, lag, inflight, pick, call, lastPick, prevPick, quiet>>
p2cVars == <<p2cState, clock>>

NoCall == <<"out">>

\* The clock starts a year after zero: a connection never picked was picked long
\* ago, here just longer ago than ForcePick.
LongAgo == 0 - ForcePick

P2cInit ==
  /\ ClockInit
  /\ ready \in ReadySets
  /\ lag = [c \in Conns |-> 1] /\ inflight = [c \in Conns |-> 0]
  /\ pick = [c \in Conns |-> LongAgo]
  /\ call = [r \in Calls |-> NoCall]
  /\ lastPick = LongAgo /\ prevPick = LongAgo /\ quiet = FALSE

Load(c) == lag[c] * (inflight[c] + 1)

\* Mutant of Choose: the lighter one is taken whatever the times.
ChooseLighter(a, b) == IF Load(a) > Load(b) THEN b ELSE a

Choose(a, b) ==
  LET heavy == IF Load(a) > Load(b) THEN a ELSE b
      light == IF Load(a) > Load(b) THEN b ELSE a
  IN IF a # b /\ clock - pick[heavy] > ForcePick THEN heavy ELSE light

\* The two connections that are compared; with one ready it is compared with none.
Pairs == {p \in ready \X ready : p[1] # p[2] \/ Cardinality(ready) = 1}

Pick(r, p) ==
  LET chosen == Choose(p[1], p[2])
  IN /\ call[r] = NoCall
     /\ pick' = [pick EXCEPT ![chosen] = clock]
     /\ inflight' = [inflight EXCEPT ![chosen] = @ + 1]
     /\ call' = [call EXCEPT ![r] = <<"flying", chosen>>]
     /\ prevPick' = lastPick /\ lastPick' = clock
     /\ quiet' = (quiet \/ (lastPick # LongAgo /\ clock - lastPick > ForcePick))
     /\ UNCHANGED <<ready, lag, clock>>

CallDone(r) ==
  /\ call[r][1] = "flying"
  /\ inflight' = [inflight EXCEPT ![call[r][2]] = @ - 1]
  /\ call' = [call EXCEPT ![r] = <<"lag", call[r][2]>>]
  /\ UNCHANGED <<ready, lag, pick, lastPick, prevPick, quiet, clock>>

StoreLag(r) ==
  /\ call[r][1] = "lag"
  /\ \E l \in LagRoots : lag' = [lag EXCEPT ![call[r][2]] = l]
  /\ call' = [call EXCEPT ![r] = NoCall]
  /\ UNCHANGED <<ready, inflight, pick, lastPick, prevPick, quiet, clock>>

P2cNext ==
  \/ \E r \in Calls : (\E p \in Pairs : Pick(r, p)) \/ CallDone(r) \/ StoreLag(r)
  \/ Tick(PickTime) /\ UNCHANGED p2cState

P2cSpec == P2cInit /\ [][P2cNext]_p2cVars

-----------------------------------------------------------------------------
\* inflight counts the requests that were given a connection and are not done,
\* so load() compares what is really under way.
InflightCounted ==
  \A c \in Conns : inflight[c] = Cardinality({r \in Calls : call[r] = <<"flying", c>>})

\* With two connections and no silence longer than ForcePick between picks, a
\* connection that the last pick left out had been picked within ForcePick,
\* however heavy its load: it gets a request, and with it a new lag.
\* After a silence only the heavier of the two is forced, and it may be forced
\* again and again while the lighter one waits.
PickedInTime ==
  Cardinality(ready) = 2 /\ ~quiet /\ prevPick # LongAgo =>
    \A c \in ready : lastPick - pick[c] <= ForcePick
=============================================================================
