---------------------------- MODULE TokenLimiter ----------------------------
(***************************************************************************)
(* core/limit/tokenlimit.go and tokenscript.lua: a token bucket in Redis,  *)
(* and a limiter in the process while Redis is away.                       *)
(*                                                                         *)
(* The script is one step of Redis (external).  A call takes its time      *)
(* before the script runs, so scripts may run in another order than their  *)
(* times; rescueLimiter is external and not followed.                      *)
(***************************************************************************)
EXTENDS Clock, FiniteSets

CONSTANTS Callers,
          Limits,      \* pairs of rate and burst
          TokenTime,   \* bound of the clock
          MaxOutages   \* bound: Redis goes away, or an answer is lost

ASSUME LimitsPositive == Limits \subseteq (Nat \ {0}) \X (Nat \ {0})

VARIABLES rate, burst,
          tokens, stamp, expiry,   \* the two keys, and when they expire (0: no keys)
          redisUp, outages,
          redisAlive, monitorStarted,
          monitor,                 \* waitForRedis: none, ping, clear
          caller, callTime,
          granted,                 \* history: tokens that the script has given
          lateness                 \* history: seconds between a call's time and its script

bucket == <<tokens, stamp, expiry, granted, lateness>>
store == <<redisUp, outages>>
rescue == <<redisAlive, monitorStarted, monitor>>
calling == <<caller, callTime>>
tokenState == <<rate, burst, bucket, store, rescue, calling>>
tokenVars == <<clock, tokenState>>

TokenInit ==
  /\ ClockInit
  /\ \E l \in Limits : rate = l[1] /\ burst = l[2]
  /\ tokens = 0 /\ stamp = 0 /\ expiry = 0 /\ granted = 0 /\ lateness = 0
  /\ redisUp = TRUE /\ outages = 0
  /\ redisAlive = TRUE /\ monitorStarted = FALSE /\ monitor = "none"
  /\ caller = [c \in Callers |-> "out"] /\ callTime = [c \in Callers |-> 0]

CallerAt(c, s) == caller' = [caller EXCEPT ![c] = s]
Min2(a, b) == IF a < b THEN a ELSE b

\* math.floor(fill_time*2): a setex with 0 is an error of the script.
Ttl == (2 * burst) \div rate

\* AllowN takes the time, then reserveN looks at redisAlive.
Allow(c) ==
  /\ caller[c] = "out"
  /\ CallerAt(c, "reserve") /\ callTime' = [callTime EXCEPT ![c] = clock]
  /\ UNCHANGED <<clock, rate, burst, bucket, store, rescue>>

Reserve(c) ==
  /\ caller[c] = "reserve"
  /\ CallerAt(c, IF redisAlive THEN "script" ELSE "out")
  /\ UNCHANGED <<clock, rate, burst, bucket, store, rescue, callTime>>

Live == expiry > clock
LastTokens == IF Live THEN tokens ELSE burst
LastRefreshed == IF Live THEN stamp ELSE 0

\* Mutant of Filled: the bucket has no top, and loses tokens when time goes back.
FilledUncapped(now) == LastTokens + (now - LastRefreshed) * rate

\* filled_tokens.
Filled(now) ==
  Min2(burst, LastTokens + (IF now > LastRefreshed THEN now - LastRefreshed ELSE 0) * rate)

\* The script, for one token.  Its answer may be lost.
Script(c) ==
  LET now == callTime[c]
      allowed == Filled(now) >= 1
  IN /\ caller[c] = "script" /\ redisUp /\ Ttl > 0
     /\ tokens' = IF allowed THEN Filled(now) - 1 ELSE Filled(now)
     /\ stamp' = now /\ expiry' = clock + Ttl
     /\ granted' = IF allowed THEN granted + 1 ELSE granted
     /\ lateness' = lateness + (clock - now)
     /\ \/ CallerAt(c, "out") /\ UNCHANGED outages
        \/ outages < MaxOutages /\ outages' = outages + 1 /\ CallerAt(c, "failed")
     /\ UNCHANGED <<clock, rate, burst, redisUp, rescue, callTime>>

\* An error: Redis is away, or the script fails.  (A context that is over ends
\* the call without the rescue.)
ScriptFails(c) ==
  /\ caller[c] = "script" /\ (~redisUp \/ Ttl = 0)
  /\ \E s \in {"failed", "out"} : CallerAt(c, s)
  /\ UNCHANGED <<clock, rate, burst, bucket, store, rescue, callTime>>

\* Mutant of StartMonitor: redisAlive is cleared before the monitor is looked at.
StartMonitorBlind(c) ==
  /\ caller[c] = "failed"
  /\ redisAlive' = FALSE
  /\ IF monitorStarted THEN UNCHANGED <<monitorStarted, monitor>>
     ELSE monitorStarted' = TRUE /\ monitor' = "ping"
  /\ CallerAt(c, "out")
  /\ UNCHANGED <<clock, rate, burst, bucket, store, callTime>>

\* startMonitor under rescueLock; then the rescue limiter answers.
StartMonitor(c) ==
  /\ caller[c] = "failed"
  /\ IF monitorStarted THEN UNCHANGED rescue
     ELSE monitorStarted' = TRUE /\ redisAlive' = FALSE /\ monitor' = "ping"
  /\ CallerAt(c, "out")
  /\ UNCHANGED <<clock, rate, burst, bucket, store, callTime>>

\* waitForRedis: a Ping that succeeds, and the deferred function after it.
Ping ==
  /\ monitor = "ping" /\ redisUp
  /\ redisAlive' = TRUE /\ monitor' = "clear"
  /\ UNCHANGED <<clock, rate, burst, bucket, store, monitorStarted, calling>>

MonitorEnds ==
  /\ monitor = "clear"
  /\ monitorStarted' = FALSE /\ monitor' = "none"
  /\ UNCHANGED <<clock, rate, burst, bucket, store, redisAlive, calling>>

RedisDown ==
  /\ redisUp /\ outages < MaxOutages
  /\ redisUp' = FALSE /\ outages' = outages + 1
  /\ UNCHANGED <<clock, rate, burst, bucket, rescue, calling>>

RedisBack ==
  /\ ~redisUp /\ redisUp' = TRUE
  /\ UNCHANGED <<clock, rate, burst, bucket, outages, rescue, calling>>

TokenTick == Tick(TokenTime) /\ UNCHANGED <<rate, burst, bucket, store, rescue, calling>>

Calling(c) == Reserve(c) \/ Script(c) \/ ScriptFails(c) \/ StartMonitor(c)

TokenNext ==
  \/ \E c \in Callers : Allow(c) \/ Calling(c)
  \/ Ping \/ MonitorEnds \/ RedisDown \/ RedisBack \/ TokenTick

TokenSpec == TokenInit /\ [][TokenNext]_tokenVars

\* Calls end, and the monitor's ticker fires.  Redis need not come back.
TokenFairness ==
  /\ \A c \in Callers : WF_tokenVars(Calling(c))
  /\ WF_tokenVars(Ping) /\ WF_tokenVars(MonitorEnds)

-----------------------------------------------------------------------------
\* The bucket gives at most burst tokens and rate more for each second, and that
\* for each second that a script runs late as well: it stores the older time, and
\* the next call is paid for the same second again.
GrantsBounded == granted <= burst + rate * (clock - 1 + lateness)

\* When the limiter has left Redis there is a monitor that will bring it back.
MonitorLives == ~redisAlive => monitorStarted /\ monitor = "ping"

\* Redis is used again once it stays up; a rate above twice the burst makes every
\* script fail (its ttl is zero), and the limiter leaves Redis again and again.
Recovers == <>[]redisUp => []<>redisAlive

\* With Redis there and answering, a limiter whose script can run never leaves it.
RescueExplained == ~redisAlive => outages > 0 \/ rate > 2 * burst

\* The limiter leaves Redis only for an outage or a ttl of zero, and then with a
\* monitor that will bring it back.
FallbackSound == MonitorLives /\ RescueExplained

=============================================================================
