-------------------------- MODULE OperationRegistry --------------------------
(***************************************************************************)
(* The per-tenant operation cache of Registry.LoadOperations              *)
(* (pkg/connectors/registry.go) on the database path.  A call checks the  *)
(* entry under the read lock and returns it while it is younger than the  *)
(* TTL; otherwise it releases the lock, queries the database without any  *)
(* lock, and stores the result under the write lock, stamped with the time *)
(* of the store.  Calls of several goroutines (manifest requests, OpenAPI  *)
(* builds) interleave with admin writes to the connector tables.  r.mu is *)
(* held only around a map read or a map write, with no I/O inside, so each *)
(* locked section is one step and the lock needs no variable of its own.   *)
(*                                                                         *)
(* Entries of different tenants are independent, so one tenant is         *)
(* modelled.  The operation set in the database is abstracted to a        *)
(* version number that every admin write increments.                      *)
(***************************************************************************)
EXTENDS Naturals

CONSTANTS
    Readers,      \* goroutines calling LoadOperations
    TTL,          \* r.ttl, in clock ticks
    MaxTime,      \* bound of the clock
    MaxVersion,   \* bound of the admin writes
    NoEntry       \* byTenant has no entry for the tenant

VARIABLES
    dbVer,    \* the version of the tenant's operations in the database
    cache,    \* byTenant[tenant]: [loadedAt, ver] or NoEntry
    now,      \* the clock of time.Now and time.Since
    pc,       \* per call: "idle", "query" (lock released) or "store"
    fetched   \* per call: the version its query returned
vars == <<dbVer, cache, now, pc, fetched>>

Init ==
    /\ dbVer = 0
    /\ cache = NoEntry
    /\ now = 0
    /\ pc = [r \in Readers |-> "idle"]
    /\ fetched = [r \in Readers |-> 0]

\* ok && time.Since(c.loadedAt) < r.ttl
Fresh == cache # NoEntry /\ now - cache.loadedAt < TTL

(* RLock, read the entry, RUnlock: a fresh entry is returned (the call    *)
(* ends), a missing or expired one sends the call to the query.           *)
CheckEntry(r) ==
    /\ pc[r] = "idle"
    /\ IF Fresh THEN UNCHANGED pc
                ELSE pc' = [pc EXCEPT ![r] = "query"]
    /\ UNCHANGED <<dbVer, cache, now, fetched>>

(* The query, with no lock held: it reads the operations as they are now, *)
(* or fails and the call returns the error without touching the cache.    *)
QueryOperations(r) ==
    /\ pc[r] = "query"
    /\ \/ /\ fetched' = [fetched EXCEPT ![r] = dbVer]
          /\ pc' = [pc EXCEPT ![r] = "store"]
       \/ /\ pc' = [pc EXCEPT ![r] = "idle"]
          /\ UNCHANGED fetched
    /\ UNCHANGED <<dbVer, cache, now>>

\* A store that stamps the entry with its expiry instead of its load time.
StoreEntryStampExpiry(r) ==
    /\ pc[r] = "store"
    /\ cache' = [loadedAt |-> now + TTL, ver |-> fetched[r]]
    /\ pc' = [pc EXCEPT ![r] = "idle"]
    /\ UNCHANGED <<dbVer, now, fetched>>

(* Lock, byTenant[tenantID] = cachedTenant{loadedAt: time.Now(), ...},    *)
(* Unlock: whatever the entry holds now is overwritten.                   *)
StoreEntry(r) ==
    /\ pc[r] = "store"
    /\ cache' = [loadedAt |-> now, ver |-> fetched[r]]
    /\ pc' = [pc EXCEPT ![r] = "idle"]
    /\ UNCHANGED <<dbVer, now, fetched>>

\* An admin write to connector_operations, connector_definitions or
\* tenant_connectors.
AdminWrite ==
    /\ dbVer < MaxVersion
    /\ dbVer' = dbVer + 1
    /\ UNCHANGED <<cache, now, pc, fetched>>

\* The clock never blocks anyone: at its bound it stops advancing.
Tick ==
    /\ now' = IF now < MaxTime THEN now + 1 ELSE now
    /\ UNCHANGED <<dbVer, cache, pc, fetched>>

Next ==
    \/ \E r \in Readers : CheckEntry(r) \/ QueryOperations(r) \/ StoreEntry(r)
    \/ AdminWrite
    \/ Tick

Spec == Init /\ [][Next]_vars

-----------------------------------------------------------------------------
TypeOK ==
    /\ dbVer \in 0..MaxVersion
    /\ cache \in {NoEntry} \cup [loadedAt : 0..MaxTime, ver : 0..MaxVersion]
    /\ now \in 0..MaxTime
    /\ pc \in [Readers -> {"idle", "query", "store"}]
    /\ fetched \in [Readers -> 0..MaxVersion]

(* The spec's "cache misses refetch atomically under a write lock": an    *)
(* entry is only ever replaced by one at least as new, so once a manifest *)
(* has been built from a version, no later call is answered from an older *)
(* one.  The code stores what its own query read, whenever it finishes.   *)
CacheNeverRegresses ==
    [][cache # NoEntry /\ cache' # NoEntry => cache'.ver >= cache.ver]_cache

====
