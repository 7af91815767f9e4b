--------------------------- MODULE GetOrLoadCache ---------------------------
(***************************************************************************)
(* pkg/cache/cache.go: the load-through cache every provider keeps its OCI *)
(* answers in (instances, attachments, images, subnets, reservations ...). *)
(*                                                                         *)
(* Callers run concurrently.  GetOrLoad looks the key up, takes a mutex    *)
(* registered for that key in the sync.Map `locks`, looks again, and calls *)
(* the loader; its two deferred calls run in reverse order: first          *)
(* mu.Unlock(), then locks.Delete(key).  Refresh and Set write without any *)
(* lock; Evict and expiry remove an entry at any moment.                   *)
(*                                                                         *)
(* A cached value is abstracted to the version of the OCI resource that it *)
(* was read from, so that "stale" can be said of it.                       *)
(***************************************************************************)
EXTENDS Naturals, FiniteSets

CONSTANTS
  Threads,     \* callers of the cache (reconcilers, the scheduler)
  Keys,        \* cache keys: OCIDs or selector hashes
  Mutexes,     \* sync.Mutex objects the runtime can allocate
  MaxVersion,  \* bound on how often a resource changes in OCI
  None         \* nil: no entry, no mutex, no value, no holder

ASSUME CacheAssumption ==
  /\ MaxVersion \in Nat
  /\ None \notin Threads \cup Keys \cup Mutexes \cup Nat

VARIABLES
  cache,    \* key -> cached version, or None
  lockOf,   \* the sync.Map `locks`: key -> registered mutex, or None
  holder,   \* mutex -> the caller that has it locked, or None
  pc,       \* where each caller is
  op,       \* which entry point the caller is in
  key,      \* the key of the call
  mu,       \* the mutex GetOrLoad fetched for the call
  val,      \* the value the call will return (or returned last)
  backend,  \* key -> current version of the resource in OCI
  churn,    \* history: key was evicted, or expired, or a load of it failed
  floor     \* history: no value older than this may be cached

vars == <<cache, lockOf, holder, pc, op, key, mu, val, backend, churn, floor>>
callVars == <<op, key, mu>>

Version  == 0..MaxVersion
Location == {"idle", "register", "lock", "recheck", "load", "store", "unlock", "forget"}
Ops      == {"GetOrLoad", "Refresh", "Set"}

TypeOK ==
  /\ cache \in [Keys -> Version \cup {None}]
  /\ lockOf \in [Keys -> Mutexes \cup {None}]
  /\ holder \in [Mutexes -> Threads \cup {None}]
  /\ pc \in [Threads -> Location]
  /\ op \in [Threads -> Ops]
  /\ key \in [Threads -> Keys]
  /\ mu \in [Threads -> Mutexes \cup {None}]
  /\ val \in [Threads -> Version \cup {None}]
  /\ backend \in [Keys -> Version]
  /\ churn \in [Keys -> BOOLEAN]
  /\ floor \in [Keys -> Version]

Init ==
  /\ cache = [k \in Keys |-> None]
  /\ lockOf = [k \in Keys |-> None]
  /\ holder = [m \in Mutexes |-> None]
  /\ pc = [t \in Threads |-> "idle"]
  /\ op = [t \in Threads |-> "GetOrLoad"]
  /\ key \in [Threads -> Keys]
  /\ mu = [t \in Threads |-> None]
  /\ val = [t \in Threads |-> None]
  /\ backend = [k \in Keys |-> 0]
  /\ churn = [k \in Keys |-> FALSE]
  /\ floor = [k \in Keys |-> 0]

-----------------------------------------------------------------------------
(* GetOrLoad *)

\* getFromCache found the key: the value is returned at once (GetCached is
\* this read and nothing else).
CacheHit(t, k) ==
  /\ pc[t] = "idle"
  /\ cache[k] # None
  /\ val' = [val EXCEPT ![t] = cache[k]]
  /\ UNCHANGED <<cache, lockOf, holder, pc, callVars, backend, churn, floor>>

\* The first lookup missed.
CacheMiss(t, k) ==
  /\ pc[t] = "idle"
  /\ cache[k] = None
  /\ pc' = [pc EXCEPT ![t] = "register"]
  /\ op' = [op EXCEPT ![t] = "GetOrLoad"]
  /\ key' = [key EXCEPT ![t] = k]
  /\ val' = [val EXCEPT ![t] = None]
  /\ UNCHANGED <<cache, lockOf, holder, mu, backend, churn, floor>>

\* A mutex that neither the map nor a caller refers to: what &sync.Mutex{}
\* can return.
Unreferenced(m) ==
  /\ \A k \in Keys : lockOf[k] # m
  /\ \A t \in Threads : mu[t] # m
  /\ holder[m] = None

\* Mutant of LoadOrStore: locks.Store(key, &sync.Mutex{}).
LoadOrStoreNew(t) ==
  /\ pc[t] = "register"
  /\ \E m \in Mutexes :
       /\ Unreferenced(m)
       /\ mu' = [mu EXCEPT ![t] = m]
       /\ lockOf' = [lockOf EXCEPT ![key[t]] = m]
  /\ pc' = [pc EXCEPT ![t] = "lock"]
  /\ UNCHANGED <<cache, holder, op, key, val, backend, churn, floor>>

\* locks.LoadOrStore(key, &sync.Mutex{}).
LoadOrStore(t) ==
  /\ pc[t] = "register"
  /\ \/ /\ lockOf[key[t]] # None
        /\ mu' = [mu EXCEPT ![t] = lockOf[key[t]]]
        /\ UNCHANGED lockOf
     \/ /\ lockOf[key[t]] = None
        /\ \E m \in Mutexes :
             /\ Unreferenced(m)
             /\ mu' = [mu EXCEPT ![t] = m]
             /\ lockOf' = [lockOf EXCEPT ![key[t]] = m]
  /\ pc' = [pc EXCEPT ![t] = "lock"]
  /\ UNCHANGED <<cache, holder, op, key, val, backend, churn, floor>>

\* mu.Lock().
Lock(t) ==
  /\ pc[t] = "lock"
  /\ holder[mu[t]] = None
  /\ holder' = [holder EXCEPT ![mu[t]] = t]
  /\ pc' = [pc EXCEPT ![t] = "recheck"]
  /\ UNCHANGED <<cache, lockOf, callVars, val, backend, churn, floor>>

\* The double check after the lock: return the entry, or go and load it.
Recheck(t) ==
  /\ pc[t] = "recheck"
  /\ pc' = [pc EXCEPT ![t] = IF cache[key[t]] # None THEN "unlock" ELSE "load"]
  /\ val' = [val EXCEPT ![t] = cache[key[t]]]
  /\ UNCHANGED <<cache, lockOf, holder, callVars, backend, churn, floor>>

\* The first deferred call: mu.Unlock().
Unlock(t) ==
  /\ pc[t] = "unlock"
  /\ holder' = [holder EXCEPT ![mu[t]] = None]
  /\ mu' = [mu EXCEPT ![t] = None]
  /\ pc' = [pc EXCEPT ![t] = "forget"]
  /\ UNCHANGED <<cache, lockOf, op, key, val, backend, churn, floor>>

\* The second deferred call: locks.Delete(key), whatever mutex is registered
\* by now; then the call returns.
ForgetLock(t) ==
  /\ pc[t] = "forget"
  /\ lockOf' = [lockOf EXCEPT ![key[t]] = None]
  /\ pc' = [pc EXCEPT ![t] = "idle"]
  /\ UNCHANGED <<cache, holder, callVars, val, backend, churn, floor>>

-----------------------------------------------------------------------------
(* Refresh and Set, and the loader they share with GetOrLoad *)

\* Refresh(key, loader) calls the loader without looking at the cache; Set is
\* called with something its caller has read from OCI by itself.
StartWrite(t, k, o) ==
  /\ pc[t] = "idle"
  /\ o \in {"Refresh", "Set"}
  /\ pc' = [pc EXCEPT ![t] = "load"]
  /\ op' = [op EXCEPT ![t] = o]
  /\ key' = [key EXCEPT ![t] = k]
  /\ val' = [val EXCEPT ![t] = None]
  /\ UNCHANGED <<cache, lockOf, holder, mu, backend, churn, floor>>

\* OCI answers the loader with the version the resource has now.
LoaderReturns(t) ==
  /\ pc[t] = "load"
  /\ val' = [val EXCEPT ![t] = backend[key[t]]]
  /\ pc' = [pc EXCEPT ![t] = "store"]
  /\ UNCHANGED <<cache, lockOf, holder, callVars, backend, churn, floor>>

\* Mutant of LoaderFails: a failed load is tried again under the lock.
LoaderFailsRetried(t) ==
  /\ pc[t] = "load"
  /\ pc' = [pc EXCEPT ![t] = IF op[t] = "GetOrLoad" THEN "recheck" ELSE "idle"]
  /\ churn' = [churn EXCEPT ![key[t]] = @ \/ op[t] = "GetOrLoad"]
  /\ UNCHANGED <<cache, lockOf, holder, callVars, val, backend, floor>>

\* The loader fails: nothing is stored and the zero value is returned.
LoaderFails(t) ==
  /\ pc[t] = "load"
  /\ pc' = [pc EXCEPT ![t] = IF op[t] = "GetOrLoad" THEN "unlock" ELSE "idle"]
  /\ churn' = [churn EXCEPT ![key[t]] = @ \/ op[t] = "GetOrLoad"]
  /\ UNCHANGED <<cache, lockOf, holder, callVars, val, backend, floor>>

\* cache.Set after a successful load.
Store(t) ==
  /\ pc[t] = "store"
  /\ cache' = [cache EXCEPT ![key[t]] = val[t]]
  /\ pc' = [pc EXCEPT ![t] = IF op[t] = "GetOrLoad" THEN "unlock" ELSE "idle"]
  /\ UNCHANGED <<lockOf, holder, callVars, val, backend, churn, floor>>

\* Mutant of Evict: the entry stays.
EvictNothing(k) ==
  /\ cache[k] # None
  /\ churn' = [churn EXCEPT ![k] = TRUE]
  /\ floor' = [floor EXCEPT ![k] =
       IF \E t \in Threads : pc[t] = "store" /\ key[t] = k THEN @ ELSE backend[k]]
  /\ UNCHANGED <<cache, lockOf, holder, pc, callVars, val, backend>>

\* Evict(key), one key of EvictMatching, or the entry's TTL running out.  The
\* floor rises unless some caller already holds an answer it has yet to store.
Evict(k) ==
  /\ cache[k] # None
  /\ cache' = [cache EXCEPT ![k] = None]
  /\ churn' = [churn EXCEPT ![k] = TRUE]
  /\ floor' = [floor EXCEPT ![k] =
       IF \E t \in Threads : pc[t] = "store" /\ key[t] = k THEN @ ELSE backend[k]]
  /\ UNCHANGED <<lockOf, holder, pc, callVars, val, backend>>

\* Somebody changes the resource in OCI.
BackendChanges(k) ==
  /\ backend[k] < MaxVersion
  /\ backend' = [backend EXCEPT ![k] = @ + 1]
  /\ UNCHANGED <<cache, lockOf, holder, pc, callVars, val, churn, floor>>

-----------------------------------------------------------------------------
Call(t) ==
  \E k \in Keys :
    \/ CacheHit(t, k)
    \/ CacheMiss(t, k)
    \/ \E o \in {"Refresh", "Set"} : StartWrite(t, k, o)

\* A call that has begun: every step of it except waiting for the mutex.
Progress(t) ==
  \/ LoadOrStore(t)
  \/ Recheck(t)
  \/ LoaderReturns(t)
  \/ LoaderFails(t)
  \/ Store(t)
  \/ Unlock(t)
  \/ ForgetLock(t)

Environment == \E k \in Keys : Evict(k) \/ BackendChanges(k)

Next ==
  \/ \E t \in Threads : Call(t) \/ Progress(t) \/ Lock(t)
  \/ Environment

Spec == Init /\ [][Next]_vars

\* A started call keeps running: goroutines are scheduled, the OCI client's
\* requests time out, and sync.Mutex hands itself to a waiter in starvation
\* mode, so a waiter is not passed over for ever.
FairSpec ==
  /\ Spec
  /\ \A t \in Threads : WF_vars(Progress(t)) /\ SF_vars(Lock(t))

-----------------------------------------------------------------------------
(* Properties *)

\* Callers of GetOrLoad whose loader is in flight for key k.
Loading(k) ==
  {t \in Threads : op[t] = "GetOrLoad" /\ key[t] = k /\ pc[t] \in {"load", "store"}}

\* "Lock for this key to avoid duplicate loads": as long as no load of the key has
\* failed and the key has not been evicted or expired, GetOrLoad loads it at most
\* once at a time, and Unlock-before-Delete of the mutex does no harm.  After that
\* a waiter on the old mutex and a newcomer with a new one may load together.
SerialisedLoadsUntilChurn ==
  \A k \in Keys : ~churn[k] => \A t, u \in Loading(k) : t = u

\* Evict is effective against everything but answers already in flight: once an
\* entry is removed, no version older than the one OCI had then is cached again.
EvictionEffective ==
  \A k \in Keys : cache[k] # None => cache[k] >= floor[k]

\* Every call that has begun returns: no caller waits for ever on a mutex that
\* was replaced in, or deleted from, the lock table under it.
CallsReturn == \A t \in Threads : pc[t] # "idle" ~> pc[t] = "idle"

=============================================================================
