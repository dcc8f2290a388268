---------------------------- MODULE RedisScripts ----------------------------
(***************************************************************************)
(* The scripts of a lock and of a limit that are kept in Redis.            *)
(***************************************************************************)
EXTENDS Clock, FiniteSets

(***************************************************************************)
(* core/stores/redis/redislock.go with lockscript.lua and delscript.lua: a *)
(* lock with a lease, one key in Redis that holds the id of its owner.     *)
(*                                                                         *)
(* A script is one step of Redis.  A request or an answer can be lost, and *)
(* an answer comes some time after the script: a client counts its lease   *)
(* from the moment it called Acquire.  A RedisLock is used by one          *)
(* goroutine.                                                              *)
(***************************************************************************)
CONSTANTS Lockers,     \* RedisLock objects; their random ids are all different
          Leases,      \* values of SetExpire, with the tolerance
          LockTime,    \* bound of the clock
          MaxLost,     \* bound: requests and answers that are lost
          NoOwner

ASSUME LeasesPositive == Leases \subseteq Nat \ {0}
ASSUME NoOwnerIsNobody == NoOwner \notin Lockers

VARIABLES owner, lockExpiry,      \* the key
          seconds,
          locker,                 \* out, acquire, ok, release, released
          called,                 \* when Acquire was called
          until,                  \* the time up to which a client knows it holds the lock; 0 never
          lostAnswers

lockState == <<owner, lockExpiry, seconds, locker, called, until, lostAnswers>>
lockVars == <<clock, lockState>>

LockInit ==
  /\ ClockInit
  /\ owner = NoOwner /\ lockExpiry = 0
  /\ seconds \in [Lockers -> Leases]
  /\ locker = [l \in Lockers |-> "out"] /\ called = [l \in Lockers |-> 0]
  /\ until = [l \in Lockers |-> 0] /\ lostAnswers = 0

LockerAt(l, s) == locker' = [locker EXCEPT ![l] = s]
Owned(l) == owner = l /\ lockExpiry > clock
Unowned == owner = NoOwner \/ lockExpiry <= clock

SetExpire(l, s) ==
  /\ locker[l] = "out" /\ seconds[l] # s
  /\ seconds' = [seconds EXCEPT ![l] = s]
  /\ UNCHANGED <<clock, owner, lockExpiry, locker, called, until, lostAnswers>>

\* A second Acquire renews the lease, or shortens it to the new one.
Acquire(l) ==
  /\ locker[l] = "out"
  /\ LockerAt(l, "acquire") /\ called' = [called EXCEPT ![l] = clock]
  /\ until' = [until EXCEPT ![l] = IF @ < clock + seconds[l] THEN @ ELSE clock + seconds[l]]
  /\ UNCHANGED <<clock, owner, lockExpiry, seconds, lostAnswers>>

\* Mutant of LockScript: SET without NX.
LockScriptAlways(l) ==
  /\ locker[l] = "acquire"
  /\ owner' = l /\ lockExpiry' = clock + seconds[l] /\ LockerAt(l, "ok")
  /\ UNCHANGED <<clock, seconds, called, until, lostAnswers>>

\* The owner renews its lease; anyone gets a key that is not there.
LockScript(l) ==
  /\ locker[l] = "acquire"
  /\ IF Owned(l) \/ Unowned
     THEN owner' = l /\ lockExpiry' = clock + seconds[l] /\ LockerAt(l, "ok")
     ELSE LockerAt(l, "out") /\ UNCHANGED <<owner, lockExpiry>>
  /\ UNCHANGED <<clock, seconds, called, until, lostAnswers>>

\* Acquire returns true: the lease is at least as long as since the call.
Acquired(l) ==
  /\ locker[l] = "ok"
  /\ LockerAt(l, "out")
  /\ until' = [until EXCEPT ![l] = called[l] + seconds[l]]
  /\ UNCHANGED <<clock, owner, lockExpiry, seconds, called, lostAnswers>>

\* The request or its answer is lost: Acquire or Release returns an error.
AnswerLost(l) ==
  /\ locker[l] # "out" /\ lostAnswers < MaxLost
  /\ LockerAt(l, "out") /\ lostAnswers' = lostAnswers + 1
  /\ UNCHANGED <<clock, owner, lockExpiry, seconds, called, until>>

\* Release may be called by anyone; the client gives up what it knew.
Release(l) ==
  /\ locker[l] = "out"
  /\ LockerAt(l, "release") /\ until' = [until EXCEPT ![l] = 0]
  /\ UNCHANGED <<clock, owner, lockExpiry, seconds, called, lostAnswers>>

\* Mutant of DelScript: DEL without GET.
DelScriptAlways(l) ==
  /\ locker[l] = "release"
  /\ owner' = NoOwner /\ lockExpiry' = 0 /\ LockerAt(l, "released")
  /\ UNCHANGED <<clock, seconds, called, until, lostAnswers>>

DelScript(l) ==
  /\ locker[l] = "release"
  /\ IF Owned(l) THEN owner' = NoOwner /\ lockExpiry' = 0 /\ LockerAt(l, "released")
                 ELSE LockerAt(l, "out") /\ UNCHANGED <<owner, lockExpiry>>
  /\ UNCHANGED <<clock, seconds, called, until, lostAnswers>>

\* Release returns true.
Released(l) ==
  /\ locker[l] = "released"
  /\ LockerAt(l, "out")
  /\ UNCHANGED <<clock, owner, lockExpiry, seconds, called, until, lostAnswers>>

LockTick == Tick(LockTime) /\ UNCHANGED <<owner, lockExpiry, seconds, locker, called, until, lostAnswers>>

LockNext ==
  \/ \E l \in Lockers : \/ Acquire(l) \/ LockScript(l) \/ Acquired(l) \/ AnswerLost(l)
                        \/ Release(l) \/ DelScript(l) \/ Released(l)
                        \/ \E s \in Leases : SetExpire(l, s)
  \/ LockTick

LockSpec == LockInit /\ [][LockNext]_lockVars

-----------------------------------------------------------------------------
\* What a client may rely on is true: while the lease counted from its call of
\* Acquire lasts, and it has not called Release, Redis has its id and no other
\* client holds the lock.
LeaseExclusive ==
  \A l \in Lockers : until[l] > clock => Owned(l)

\* Nobody takes or releases the lock of another: as long as its lease lasts the
\* key changes hands only through its owner.
KeyProtected ==
  [][\A l \in Lockers : Owned(l) /\ owner' # l => locker[l] = "release" /\ clock' = clock]_lockVars

\* A lock is its holder's while the lease lasts: nobody else holds it, and nobody
\* else takes or releases it.
LockSafe == []LeaseExclusive /\ KeyProtected

-----------------------------------------------------------------------------
(***************************************************************************)
(* core/limit/periodlimit.go and periodscript.lua: at most quota permits   *)
(* in a period, counted by one key in Redis.  With Align the key ends with *)
(* the period of the clock.                                                *)
(*                                                                         *)
(* TakeCtx reads the clock for the time to live before the script runs     *)
(* (external, one step).  The answers differ only in the permits.          *)
(***************************************************************************)
CONSTANTS PermitTakers, Quota, Period,
          PeriodTime,  \* bound of the clock
          MaxTakes     \* bound: calls while a key lives

VARIABLES align,
          taken, countExpiry,    \* the key
          permitTaker, window,   \* out, or script with its window
          permits, hits,         \* history: permits, and HitQuota, of this period
          lateTake               \* history: a script ran in a later second than its call

periodState == <<align, taken, countExpiry, permitTaker, window, permits, hits, lateTake>>
periodVars == <<clock, periodState>>

PeriodInit ==
  /\ ClockInit /\ align \in BOOLEAN
  /\ taken = 0 /\ countExpiry = 0
  /\ permitTaker = [t \in PermitTakers |-> "out"] /\ window = [t \in PermitTakers |-> 0]
  /\ permits = 0 /\ hits = 0 /\ lateTake = FALSE

\* Mutant of calcExpireSeconds: a period from now, aligned or not.
WholePeriod(now) == Period

\* (The offset of the time zone is taken to be a whole number of periods.)
calcExpireSeconds(now) == IF align THEN Period - (now % Period) ELSE Period

\* Mutant of Current: a key that is there is counted from its second call on.
CurrentStale == IF countExpiry > clock /\ taken > 1 THEN taken + 1 ELSE 1

\* INCRBY on a key that may have expired.
Current == IF countExpiry > clock THEN taken + 1 ELSE 1

TakePermit(t) ==
  /\ permitTaker[t] = "out" /\ Current <= MaxTakes
  /\ permitTaker' = [permitTaker EXCEPT ![t] = "script"]
  /\ window' = [window EXCEPT ![t] = calcExpireSeconds(clock)]
  /\ UNCHANGED <<clock, align, taken, countExpiry, permits, hits, lateTake>>

\* The script; when its answer is lost TakeCtx returns Unknown and an error.
PeriodScript(t, answered) ==
  /\ permitTaker[t] = "script"
  /\ permitTaker' = [permitTaker EXCEPT ![t] = "out"]
  /\ taken' = Current
  /\ countExpiry' = IF Current = 1 THEN clock + window[t] ELSE countExpiry
  /\ permits' = IF answered /\ Current <= Quota THEN permits + 1 ELSE permits
  /\ hits' = IF answered /\ Current = Quota THEN hits + 1 ELSE hits
  /\ lateTake' = (lateTake \/ (align /\ window[t] # calcExpireSeconds(clock)))
  /\ UNCHANGED <<clock, align, window>>

\* The request itself is lost.
TakeFails(t) ==
  /\ permitTaker[t] = "script"
  /\ permitTaker' = [permitTaker EXCEPT ![t] = "out"]
  /\ UNCHANGED <<clock, align, taken, countExpiry, window, permits, hits, lateTake>>

\* The history counts anew when a period of the clock begins, or without Align
\* when the key has expired.
PeriodTick ==
  /\ Tick(PeriodTime)
  /\ LET over == IF align THEN clock' % Period = 0 ELSE clock' >= countExpiry
     IN permits' = (IF over THEN 0 ELSE permits) /\ hits' = (IF over THEN 0 ELSE hits)
  /\ UNCHANGED <<align, taken, countExpiry, permitTaker, window, lateTake>>

PeriodNext ==
  \/ \E t \in PermitTakers : \/ TakePermit(t) \/ TakeFails(t)
                           \/ \E answered \in BOOLEAN : PeriodScript(t, answered)
  \/ PeriodTick

PeriodSpec == PeriodInit /\ [][PeriodNext]_periodVars

\* No period has more than quota permits, and at most one call is told that it
\* hit the quota: a period of the clock with Align, and the life of the key without.
\* A script that runs in a later second than its call stores the window of the
\* earlier second, so that an aligned key may end within the next period; two
\* keys then share a period.
QuotaKept == ~lateTake => permits <= Quota /\ hits <= 1
=============================================================================
