------------------------------ MODULE BalanceCache ------------------------------
(***************************************************************************)
(* The cached balance of one user at his primary facilitator               *)
(* (facilitator-balance.service.ts): read through Redis, fetched from the  *)
(* provider and written back for thirty seconds; webhooks invalidate it    *)
(* after they have booked a movement.  Redis may be away at any call.      *)
(***************************************************************************)
EXTENDS Naturals

CONSTANTS Readers, Hooks, Empty,
          NoAnswer,  \* the answer "balance unavailable"
          Changes    \* bound: changes of the balance at the provider

CacheAssumption == Empty # NoAnswer /\ {Empty, NoAnswer} \cap Nat = {} /\ Changes \in Nat

VARIABLES
    real,      \* the version of the balance at the provider
    cached,    \* the version in Redis
    reader,    \* where each getBalance is
    holds,     \* the version it has fetched
    shown,     \* the version it returned
    asOf,      \* the announced version when it began (history)
    hooked,    \* where each webhook is
    announced, \* the newest version an invalidation has announced (history)
    raced      \* an invalidation ran while a fetch was under way, or without Redis (history)

cacheVars == <<real, cached, reader, holds, shown, asOf, hooked, announced, raced>>

Init ==
    /\ real = 0 /\ announced = 0
    /\ cached = Empty
    /\ reader = [r \in Readers |-> "idle"]
    /\ holds = [r \in Readers |-> 0]
    /\ shown = [r \in Readers |-> Empty]
    /\ asOf = [r \in Readers |-> 0]
    /\ hooked = [h \in Hooks |-> "idle"]
    /\ raced = FALSE

\* Money moves at the provider, which announces it.
Move(h) ==
    /\ hooked[h] = "idle" /\ real < Changes
    /\ real' = real + 1
    /\ hooked' = [hooked EXCEPT ![h] = "delivered"]
    /\ UNCHANGED <<cached, reader, holds, shown, asOf, announced, raced>>

Fetching == \E r \in Readers : reader[r] = "write"

\* Without Redis nothing is deleted and nothing is reported.
InvalidateCache(h) ==
    /\ hooked[h] = "delivered"
    /\ announced' = real
    /\ hooked' = [hooked EXCEPT ![h] = "done"]
    /\ \/ cached' = Empty /\ raced' = (raced \/ Fetching)
       \/ raced' = TRUE /\ UNCHANGED cached
    /\ UNCHANGED <<real, reader, holds, shown, asOf>>

\* A hit is returned; forceRefresh, a miss or a Redis error lead to a fetch.
ReadCache(r) ==
    /\ reader[r] = "idle"
    /\ asOf' = [asOf EXCEPT ![r] = announced]
    /\ \/ /\ cached # Empty
          /\ shown' = [shown EXCEPT ![r] = cached]
          /\ reader' = [reader EXCEPT ![r] = "done"]
       \/ /\ reader' = [reader EXCEPT ![r] = "fetch"]
          /\ UNCHANGED shown
    /\ UNCHANGED <<real, cached, holds, hooked, announced, raced>>

\* A provider that is not set up, or tells no balance, gives an answer as well, which is
\* cached like any other.  One that fails gives none: what it throws is not caught here,
\* and the caller gets an error.
Fetch(r) ==
    /\ reader[r] = "fetch"
    /\ \/ /\ \E v \in {real, NoAnswer} : holds' = [holds EXCEPT ![r] = v]
          /\ reader' = [reader EXCEPT ![r] = "write"]
       \/ reader' = [reader EXCEPT ![r] = "done"] /\ UNCHANGED holds
    /\ UNCHANGED <<real, cached, shown, asOf, hooked, announced, raced>>

\* A Redis error does not matter to the caller.
WriteCache(r) ==
    /\ reader[r] = "write"
    /\ cached' \in {cached, holds[r]}
    /\ shown' = [shown EXCEPT ![r] = holds[r]]
    /\ reader' = [reader EXCEPT ![r] = "done"]
    /\ UNCHANGED <<real, holds, asOf, hooked, announced, raced>>

Expire ==
    /\ cached # Empty
    /\ cached' = Empty
    /\ UNCHANGED <<real, reader, holds, shown, asOf, hooked, announced, raced>>

Next ==
    \/ \E h \in Hooks : Move(h) \/ InvalidateCache(h)
    \/ \E r \in Readers : ReadCache(r) \/ Fetch(r) \/ WriteCache(r)
    \/ Expire

Spec == Init /\ [][Next]_cacheVars

\* Redis drops a key after its time to live.
Fairness == WF_cacheVars(Expire)
FairSpec == Spec /\ Fairness

-----------------------------------------------------------------------------
(* Properties.                                                              *)

TypeOK ==
    /\ real \in 0..Changes /\ announced \in 0..real
    /\ cached \in 0..real \cup {Empty, NoAnswer}
    /\ reader \in [Readers -> {"idle", "fetch", "write", "done"}]
    /\ holds \in [Readers -> 0..real \cup {NoAnswer}] /\ asOf \in [Readers -> 0..real]
    /\ shown \in [Readers -> 0..real \cup {Empty, NoAnswer}]
    /\ hooked \in [Hooks -> {"idle", "delivered", "done"}]
    /\ raced \in BOOLEAN

\* A balance shown is at least as new as the last change announced before it
\* was asked for, unless an invalidation ran into a fetch or found no Redis.
ShownIsAnnounced ==
    ~raced => \A r \in Readers : shown[r] \in Nat => shown[r] >= asOf[r]

\* What such a race leaves in the cache, or a provider without an answer, is gone after
\* the time to live.
NoneStale == cached \in {Empty, real}
StaleGoes == []<>NoneStale
=============================================================================
