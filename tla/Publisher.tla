----------------------------- MODULE Publisher -----------------------------
(***************************************************************************)
(* core/discov/publisher.go: Publisher, which keeps a key in etcd under a  *)
(* lease until it is stopped.                                              *)
(*                                                                         *)
(* Every call to etcd may fail.  etcd is external: a lease whose renewal   *)
(* has ended expires, its key goes with it, and the client goes on         *)
(* renewing a lease until its channel closes or the lease is gone.  Pause  *)
(* and Resume are handed over on channels without a buffer: they happen    *)
(* when the goroutine receives them.                                       *)
(***************************************************************************)
EXTENDS Integers, FiniteSets

CONSTANTS LeaseIds,     \* at least 2 more than MaxFailed
          MaxFailed     \* bound on the calls that fail

VARIABLES pub,          \* where the publisher is
          afterRevoke,  \* where it goes when the call of revoke returns
          pubStarted,      \* KeepAlive has returned without an error
          withId,       \* WithId: every registration has the same key
          lease,        \* p.lease; 0 is NoLease
          leases,       \* the leases etcd knows
          published,    \* the leases of the keys in etcd
          renewed,      \* the leases the client renews
          pubQuit,
          failed,       \* the calls that have failed
          kept          \* a revoke failed: the client still renews that lease

pubVars == <<pub, afterRevoke, pubStarted, withId, lease, leases, published, renewed, pubQuit,
             failed, kept>>

PubInit ==
  /\ pub = "grant" /\ afterRevoke = "end" /\ pubStarted = FALSE
  /\ withId \in BOOLEAN
  /\ lease = 0 /\ leases = {} /\ published = {} /\ renewed = {}
  /\ pubQuit = FALSE /\ failed = 0 /\ kept = FALSE

Etcd == <<leases, published, renewed>>

Fails == failed < MaxFailed /\ failed' = failed + 1

\* What follows an error: KeepAlive returns it, doKeepAlive waits for a tick.
AfterError == IF pubStarted THEN "tick" ELSE "error"

\* register: client.Grant.
PubGrant ==
  /\ pub = "grant"
  /\ \E l \in LeaseIds \ (leases \cup renewed) :
       /\ \A m \in LeaseIds \ (leases \cup renewed) : l <= m
       /\ lease' = l /\ leases' = leases \cup {l}
  /\ pub' = "put"
  /\ UNCHANGED <<afterRevoke, pubStarted, withId, published, renewed, pubQuit, failed, kept>>

GrantFails ==
  /\ pub = "grant" /\ Fails
  /\ lease' = 0 /\ pub' = AfterError
  /\ UNCHANGED <<afterRevoke, pubStarted, withId, Etcd, pubQuit, kept>>

\* A key that is put again belongs to the new lease only.
Keyed == IF lease \notin leases THEN published
         ELSE IF withId THEN {lease} ELSE published \cup {lease}

\* register: client.Put with the lease, which fails when the lease is gone.
PubPut ==
  /\ pub = "put" /\ lease \in leases
  /\ published' = Keyed /\ pub' = "keepalive"
  /\ UNCHANGED <<afterRevoke, pubStarted, withId, lease, leases, renewed, pubQuit, failed, kept>>

\* An error says nothing about whether etcd has the key.
PutFails ==
  /\ pub = "put" /\ Fails
  /\ published' \in {published, Keyed}
  /\ pub' = AfterError
  /\ UNCHANGED <<afterRevoke, pubStarted, withId, lease, leases, renewed, pubQuit, kept>>

\* cli.KeepAlive; the channel of a lease that is gone closes at once.
PubKeepAlive ==
  /\ pub = "keepalive"
  /\ renewed' = renewed \cup ({lease} \cap leases)
  /\ pubStarted' = TRUE /\ pub' = "renew"
  /\ UNCHANGED <<afterRevoke, withId, lease, leases, published, pubQuit, failed, kept>>

KeepAliveFails ==
  /\ pub = "keepalive" /\ Fails
  /\ pub' = AfterError
  /\ UNCHANGED <<afterRevoke, pubStarted, withId, lease, Etcd, pubQuit, kept>>

\* The three cases of the goroutine's select, each of which revokes the lease.
Leaves(next) ==
  /\ pub = "renew" /\ pub' = "revoke" /\ afterRevoke' = next
  /\ UNCHANGED <<pubStarted, withId, lease, Etcd, pubQuit, failed, kept>>

ChannelClosed == lease \notin renewed /\ Leaves("tick")
PubPause == Leaves("paused")
PubQuits == pubQuit /\ Leaves("end")

\* Mutant of PubRevoke: the lease is left to expire.
PubRevokeNothing ==
  /\ pub = "revoke" /\ pub' = afterRevoke
  /\ UNCHANGED <<afterRevoke, pubStarted, withId, lease, Etcd, pubQuit, failed, kept>>

PubRevoke ==
  /\ pub = "revoke"
  /\ leases' = leases \ {lease} /\ published' = published \ {lease}
  /\ renewed' = renewed \ {lease}
  /\ pub' = afterRevoke
  /\ UNCHANGED <<afterRevoke, pubStarted, withId, lease, pubQuit, failed, kept>>

RevokeFails ==
  /\ pub = "revoke" /\ Fails
  /\ kept' = (kept \/ lease \in renewed)
  /\ pub' = afterRevoke
  /\ UNCHANGED <<afterRevoke, pubStarted, withId, lease, Etcd, pubQuit>>

\* A tick of doKeepAlive.
PubTick ==
  /\ pub = "tick"
  /\ pub' = IF pubQuit THEN "end" ELSE "grant"
  /\ UNCHANGED <<afterRevoke, pubStarted, withId, lease, Etcd, pubQuit, failed, kept>>

PubResume ==
  /\ pub = "paused" /\ pub' = "tick"
  /\ UNCHANGED <<afterRevoke, pubStarted, withId, lease, Etcd, pubQuit, failed, kept>>

QuitPaused ==
  /\ pub = "paused" /\ pubQuit /\ pub' = "end"
  /\ UNCHANGED <<afterRevoke, pubStarted, withId, lease, Etcd, pubQuit, failed, kept>>

PubStop ==
  /\ ~pubQuit /\ pubQuit' = TRUE
  /\ UNCHANGED <<pub, afterRevoke, pubStarted, withId, lease, Etcd, failed, kept>>

\* The client loses the lease: it closes the channel, etcd may still have it.
RenewalEnds ==
  /\ \E l \in renewed : renewed' = renewed \ {l}
  /\ UNCHANGED <<pub, afterRevoke, pubStarted, withId, lease, leases, published, pubQuit, failed, kept>>

\* Before Put, that is one of the failures that are counted.
LeaseExpires(l) ==
  /\ l \in leases \ renewed
  /\ (pub = "put" /\ l = lease) => failed < MaxFailed
  /\ leases' = leases \ {l} /\ published' = published \ {l}
  /\ UNCHANGED <<pub, afterRevoke, pubStarted, withId, lease, renewed, pubQuit, failed, kept>>

PubSteps ==
  \/ PubGrant \/ GrantFails \/ PubPut \/ PutFails \/ PubKeepAlive \/ KeepAliveFails
  \/ ChannelClosed \/ PubQuits \/ PubRevoke \/ RevokeFails \/ PubTick \/ QuitPaused

PubNext ==
  \/ PubSteps \/ PubPause \/ PubResume \/ PubStop \/ RenewalEnds
  \/ \E l \in LeaseIds : LeaseExpires(l)

PubSpec == PubInit /\ [][PubNext]_pubVars

\* The goroutine runs, its ticker ticks, and etcd lets leases expire.
PubFairness ==
  /\ WF_pubVars(PubSteps)
  /\ \A l \in LeaseIds : WF_pubVars(LeaseExpires(l))

\* etcd has one key of the publisher while it is registered and none while it
\* is paused, waits for a tick or has ended; each call that failed may leave
\* one more.
Registered == pub \in {"put", "keepalive", "renew", "revoke"}
KeysExplained == Cardinality(published) <= (IF Registered THEN 1 ELSE 0) + failed

\* After Stop the key goes away and stays away, unless a revoke failed while
\* the client was still renewing the lease: nothing ends that renewal.
StopWithdraws == pubQuit ~> (kept \/ [](published = {}))

\* A publisher whose key has gone from etcd puts it there again, however often
\* renewals and calls have failed before, unless it is stopped or paused.
Republished ==
  pubStarted /\ published = {} ~>
    published # {} \/ pubQuit \/ pub = "paused" \/ afterRevoke = "paused"
=============================================================================
