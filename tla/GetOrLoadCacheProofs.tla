------------------------ MODULE GetOrLoadCacheProofs ------------------------
(***************************************************************************)
(* Proofs about GetOrLoadCache, for any number of callers, keys and        *)
(* mutexes: type correctness, serialised loads until the key is disturbed, *)
(* and the effectiveness of Evict.                                         *)
(***************************************************************************)
EXTENDS GetOrLoadCache, TLAPS

\* The mutex protocol: only GetOrLoad waits for and releases mutexes, it refers
\* to one exactly between LoadOrStore and Unlock, and has it locked from Lock on.
MutexProtocol ==
  \A t \in Threads :
    /\ op[t] # "GetOrLoad" => pc[t] \in {"idle", "load", "store"}
    /\ (op[t] # "GetOrLoad" \/ pc[t] \in {"idle", "register", "forget"}) => mu[t] = None
    /\ (op[t] = "GetOrLoad" /\ pc[t] \notin {"idle", "register", "forget"}) => mu[t] \in Mutexes
    /\ (op[t] = "GetOrLoad" /\ pc[t] \in {"recheck", "load", "store", "unlock"})
         => holder[mu[t]] = t

\* Until the key is first stored, or a load fails, no caller has come as far as
\* Unlock, so the registered mutex is still the one all of them refer to.
OneMutexUntilStored ==
  \A k \in Keys : ~churn[k] /\ cache[k] = None =>
    \A t \in Threads : op[t] = "GetOrLoad" /\ key[t] = k =>
      /\ pc[t] \notin {"unlock", "forget"}
      /\ mu[t] # None => mu[t] = lockOf[k]

\* What is about to be stored is a version no older than the floor.
FreshAnswers ==
  /\ \A k \in Keys : backend[k] >= floor[k]
  /\ \A t \in Threads : pc[t] = "store" => val[t] \in Version /\ val[t] >= floor[key[t]]

\* The inductive invariant.
IInv ==
  /\ TypeOK
  /\ MutexProtocol
  /\ OneMutexUntilStored
  /\ SerialisedLoadsUntilChurn
  /\ FreshAnswers
  /\ EvictionEffective
-----------------------------------------------------------------------------
\* The empty cache satisfies the invariant.
LEMMA InitIInv == Init => IInv
  BY CacheAssumption
  DEF Init, IInv, TypeOK, MutexProtocol, OneMutexUntilStored, SerialisedLoadsUntilChurn,
      Loading, FreshAnswers, EvictionEffective, Location, Ops, Version

\* Every step of a caller, of eviction and of OCI preserves the invariant.
LEMMA NextIInv == IInv /\ [Next]_vars => IInv'
  <1> SUFFICES ASSUME IInv, [Next]_vars PROVE IInv'
    OBVIOUS
  <1> USE CacheAssumption DEF TypeOK, Version, Location, Ops, callVars
  <1>0. /\ TypeOK /\ MutexProtocol /\ OneMutexUntilStored
        /\ SerialisedLoadsUntilChurn /\ FreshAnswers /\ EvictionEffective
    BY DEF IInv
  <1>1. ASSUME NEW t \in Threads, NEW k \in Keys, CacheHit(t, k) PROVE IInv'
    BY <1>0, <1>1
    DEF IInv, MutexProtocol, OneMutexUntilStored, SerialisedLoadsUntilChurn, Loading,
        FreshAnswers, EvictionEffective, CacheHit
  <1>2. ASSUME NEW t \in Threads, NEW k \in Keys, CacheMiss(t, k) PROVE IInv'
    BY <1>0, <1>2
    DEF IInv, MutexProtocol, OneMutexUntilStored, SerialisedLoadsUntilChurn, Loading,
        FreshAnswers, EvictionEffective, CacheMiss
  <1>3. ASSUME NEW t \in Threads, NEW k \in Keys, NEW o \in {"Refresh", "Set"}, StartWrite(t, k, o) PROVE IInv'
    BY <1>0, <1>3
    DEF IInv, MutexProtocol, OneMutexUntilStored, SerialisedLoadsUntilChurn, Loading,
        FreshAnswers, EvictionEffective, StartWrite
  <1>4. ASSUME NEW t \in Threads, LoadOrStore(t) PROVE IInv'
    <2>1. TypeOK'
      BY <1>0, <1>4 DEF FreshAnswers, LoadOrStore, Unreferenced
    <2>2. MutexProtocol'
      BY <1>0, <1>4 DEF MutexProtocol, LoadOrStore, Unreferenced
    <2>3. OneMutexUntilStored'
      BY <1>0, <1>4 DEF MutexProtocol, OneMutexUntilStored, FreshAnswers, LoadOrStore, Unreferenced
    <2>4. SerialisedLoadsUntilChurn'
      BY <1>0, <1>4 DEF MutexProtocol, OneMutexUntilStored, SerialisedLoadsUntilChurn, Loading, LoadOrStore, Unreferenced
    <2>5. FreshAnswers'
      BY <1>0, <1>4 DEF FreshAnswers, LoadOrStore, Unreferenced
    <2>6. EvictionEffective'
      BY <1>0, <1>4 DEF FreshAnswers, EvictionEffective, LoadOrStore, Unreferenced
    <2>7. QED  BY <2>1, <2>2, <2>3, <2>4, <2>5, <2>6 DEF IInv
  <1>5. ASSUME NEW t \in Threads, Recheck(t) PROVE IInv'
    <2>1. TypeOK'
      BY <1>0, <1>5 DEF FreshAnswers, Recheck
    <2>2. MutexProtocol'
      BY <1>0, <1>5 DEF MutexProtocol, Recheck
    <2>3. OneMutexUntilStored'
      BY <1>0, <1>5 DEF MutexProtocol, OneMutexUntilStored, FreshAnswers, Recheck
    <2>4. SerialisedLoadsUntilChurn'
      BY <1>0, <1>5 DEF MutexProtocol, OneMutexUntilStored, SerialisedLoadsUntilChurn, Loading, Recheck
    <2>5. FreshAnswers'
      BY <1>0, <1>5 DEF FreshAnswers, Recheck
    <2>6. EvictionEffective'
      BY <1>0, <1>5 DEF FreshAnswers, EvictionEffective, Recheck
    <2>7. QED  BY <2>1, <2>2, <2>3, <2>4, <2>5, <2>6 DEF IInv
  <1>6. ASSUME NEW t \in Threads, LoaderReturns(t) PROVE IInv'
    BY <1>0, <1>6
    DEF IInv, MutexProtocol, OneMutexUntilStored, SerialisedLoadsUntilChurn, Loading,
        FreshAnswers, EvictionEffective, LoaderReturns
  <1>7. ASSUME NEW t \in Threads, LoaderFails(t) PROVE IInv'
    <2>1. TypeOK'
      BY <1>0, <1>7 DEF FreshAnswers, LoaderFails
    <2>2. MutexProtocol'
      BY <1>0, <1>7 DEF MutexProtocol, LoaderFails
    <2>3. OneMutexUntilStored'
      <3>1. \A k \in Keys : ~churn'[k] => ~churn[k] /\ ~(k = key[t] /\ op[t] = "GetOrLoad")
        BY <1>0, <1>7, Zenon DEF LoaderFails
      <3>2. QED
        BY <1>0, <1>7, <3>1 DEF MutexProtocol, OneMutexUntilStored, LoaderFails
    <2>4. SerialisedLoadsUntilChurn'
      BY <1>0, <1>7 DEF MutexProtocol, OneMutexUntilStored, SerialisedLoadsUntilChurn, Loading, LoaderFails
    <2>5. FreshAnswers'
      BY <1>0, <1>7 DEF FreshAnswers, LoaderFails
    <2>6. EvictionEffective'
      BY <1>0, <1>7 DEF FreshAnswers, EvictionEffective, LoaderFails
    <2>7. QED  BY <2>1, <2>2, <2>3, <2>4, <2>5, <2>6 DEF IInv
  <1>8. ASSUME NEW t \in Threads, Store(t) PROVE IInv'
    <2>1. TypeOK'
      BY <1>0, <1>8 DEF FreshAnswers, Store
    <2>2. MutexProtocol'
      BY <1>0, <1>8 DEF MutexProtocol, Store
    <2>3. OneMutexUntilStored'
      BY <1>0, <1>8 DEF MutexProtocol, OneMutexUntilStored, FreshAnswers, Store
    <2>4. SerialisedLoadsUntilChurn'
      BY <1>0, <1>8 DEF MutexProtocol, OneMutexUntilStored, SerialisedLoadsUntilChurn, Loading, Store
    <2>5. FreshAnswers'
      BY <1>0, <1>8 DEF FreshAnswers, Store
    <2>6. EvictionEffective'
      BY <1>0, <1>8 DEF FreshAnswers, EvictionEffective, Store
    <2>7. QED  BY <2>1, <2>2, <2>3, <2>4, <2>5, <2>6 DEF IInv
  <1>9. ASSUME NEW t \in Threads, Unlock(t) PROVE IInv'
    BY <1>0, <1>9
    DEF IInv, MutexProtocol, OneMutexUntilStored, SerialisedLoadsUntilChurn, Loading,
        FreshAnswers, EvictionEffective, Unlock
  <1>10. ASSUME NEW t \in Threads, ForgetLock(t) PROVE IInv'
    BY <1>0, <1>10
    DEF IInv, MutexProtocol, OneMutexUntilStored, SerialisedLoadsUntilChurn, Loading,
        FreshAnswers, EvictionEffective, ForgetLock
  <1>11. ASSUME NEW t \in Threads, Lock(t) PROVE IInv'
    BY <1>0, <1>11
    DEF IInv, MutexProtocol, OneMutexUntilStored, SerialisedLoadsUntilChurn, Loading,
        FreshAnswers, EvictionEffective, Lock
  <1>12. ASSUME NEW k \in Keys, Evict(k) PROVE IInv'
    <2>1. TypeOK'
      BY <1>0, <1>12 DEF FreshAnswers, Evict
    <2>2. MutexProtocol'
      BY <1>0, <1>12 DEF MutexProtocol, Evict
    <2>3. OneMutexUntilStored'
      BY <1>0, <1>12 DEF MutexProtocol, OneMutexUntilStored, FreshAnswers, Evict
    <2>4. SerialisedLoadsUntilChurn'
      BY <1>0, <1>12 DEF MutexProtocol, OneMutexUntilStored, SerialisedLoadsUntilChurn, Loading, Evict
    <2>5. FreshAnswers'
      BY <1>0, <1>12 DEF FreshAnswers, Evict
    <2>6. EvictionEffective'
      BY <1>0, <1>12 DEF FreshAnswers, EvictionEffective, Evict
    <2>7. QED  BY <2>1, <2>2, <2>3, <2>4, <2>5, <2>6 DEF IInv
  <1>13. ASSUME NEW k \in Keys, BackendChanges(k) PROVE IInv'
    BY <1>0, <1>13
    DEF IInv, MutexProtocol, OneMutexUntilStored, SerialisedLoadsUntilChurn, Loading,
        FreshAnswers, EvictionEffective, BackendChanges
  <1>14. ASSUME UNCHANGED vars PROVE IInv'
    BY <1>0, <1>14
    DEF IInv, MutexProtocol, OneMutexUntilStored, SerialisedLoadsUntilChurn, Loading,
        FreshAnswers, EvictionEffective, vars
  <1>15. QED
    BY <1>1, <1>2, <1>3, <1>4, <1>5, <1>6, <1>7, <1>8, <1>9, <1>10, <1>11, <1>12, <1>13, <1>14
    DEF Next, Call, Progress, Environment

\* The invariant holds in every reachable state.
LEMMA IInvHolds == Spec => []IInv
  BY InitIInv, NextIInv, PTL DEF Spec

-----------------------------------------------------------------------------
\* Type correctness of the cache, its lock table and its callers.
THEOREM TypeCorrect == Spec => []TypeOK
  <1>1. IInv => TypeOK  BY DEF IInv
  <1>2. QED  BY <1>1, IInvHolds, PTL

\* GetOrLoad never has two loads of one key in flight before a failed load, an
\* eviction or an expiry of that key, although Unlock comes before locks.Delete.
THEOREM LoadsSerialised == Spec => []SerialisedLoadsUntilChurn
  <1>1. IInv => SerialisedLoadsUntilChurn  BY DEF IInv
  <1>2. QED  BY <1>1, IInvHolds, PTL

\* After Evict only an answer that was already in flight can bring back a
\* version older than the one OCI had at the eviction.
THEOREM EvictEffective == Spec => []EvictionEffective
  <1>1. IInv => EvictionEffective  BY DEF IInv
  <1>2. QED  BY <1>1, IInvHolds, PTL

=============================================================================
