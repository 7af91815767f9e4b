-------------------------- MODULE ControllerProofs --------------------------
(***************************************************************************)
(* Proofs about the two controllers that watch NodeClaims: NpnRecovery,    *)
(* for any number of claims, generations of the class and restarts; and    *)
(* CapacityDiscovery, for any number of nodes, keys and restarts.          *)
(***************************************************************************)
EXTENDS NpnRecovery, TLAPS

-----------------------------------------------------------------------------
(* NPN recovery *)

\* A copy of the class that is Ready for its own generation carries the hash of
\* that generation; Ready and hash are never ahead of the spec.
Sound(k) ==
  /\ k.ready <= k.gen /\ k.hash <= k.gen
  /\ k.ready = k.gen => k.hash = k.gen

ClassSound == Sound(class) /\ Sound(cached)

Launched(c) == claim[c] \in {"launched", "initialized", "gone"}

\* The hash of a claim is settled before anything is built for it, and the copy
\* that createNpn builds from is the spec the claim was launched from.
CopyMatches ==
  /\ \A c \in Claims : claim[c] # "absent" => hash[c] # 0
  /\ worker # None => Launched(worker) /\ copy = hash[worker]
  /\ \A c \in Claims : npn[c] # None => Launched(c) /\ npn[c] = hash[c]

\* Past the grace period the informer has every NPN that Create wrote.
CreatedIsVisible ==
  /\ \A c \in Claims : ~Launched(c) => age[c] = "grace"
  /\ \A c \in Claims : npn[c] # None => c \in visible \cup recreated \/ age[c] = "grace"
  /\ visible \subseteq {c \in Claims : npn[c] # None}

IInv ==
  /\ TypeOK
  /\ ClassSound
  /\ CopyMatches
  /\ CreatedIsVisible
  /\ ServedClaimsKept

-----------------------------------------------------------------------------
\* The empty cluster satisfies the invariant.
LEMMA InitIInv == Init => IInv
  <1> SUFFICES ASSUME Init PROVE IInv
    OBVIOUS
  <1> USE RecoveryAssumption DEF Init
  <1>1. TypeOK  BY DEF TypeOK, Class
  <1>2. ClassSound  BY DEF ClassSound, Sound
  <1>3. CopyMatches  BY DEF CopyMatches, Launched
  <1>4. CreatedIsVisible /\ ServedClaimsKept  BY DEF CreatedIsVisible, ServedClaimsKept, Launched
  <1>5. QED  BY <1>1, <1>2, <1>3, <1>4 DEF IInv

\* Every step preserves the invariant.
LEMMA NextIInv == IInv /\ [Next]_vars => IInv'
  <1> SUFFICES ASSUME IInv, [Next]_vars PROVE IInv'
    OBVIOUS
  <1> USE RecoveryAssumption DEF TypeOK, Class, claimVars, classVars, workVars, history
  <1>0. TypeOK /\ ClassSound /\ CopyMatches /\ CreatedIsVisible /\ ServedClaimsKept
    BY DEF IInv
  <1>1. ASSUME ClassEdited PROVE IInv'
    BY <1>0, <1>1
    DEF IInv, ClassSound, Sound, CopyMatches, CreatedIsVisible, ServedClaimsKept, Launched,
        ClassEdited
  <1>2. ASSUME ClassHashed PROVE IInv'
    BY <1>0, <1>2
    DEF IInv, ClassSound, Sound, CopyMatches, CreatedIsVisible, ServedClaimsKept, Launched,
        ClassHashed
  <1>3. ASSUME ClassReady PROVE IInv'
    BY <1>0, <1>3
    DEF IInv, ClassSound, Sound, CopyMatches, CreatedIsVisible, ServedClaimsKept, Launched,
        ClassReady
  <1>4. ASSUME ClassNotReady PROVE IInv'
    BY <1>0, <1>4
    DEF IInv, ClassSound, Sound, CopyMatches, CreatedIsVisible, ServedClaimsKept, Launched,
        ClassNotReady
  <1>5. ASSUME ClassSeen PROVE IInv'
    BY <1>0, <1>5
    DEF IInv, ClassSound, Sound, CopyMatches, CreatedIsVisible, ServedClaimsKept, Launched,
        ClassSeen
  <1>6. ASSUME NEW c \in Claims, LaunchStarts(c) PROVE IInv'
    BY <1>0, <1>6
    DEF IInv, ClassSound, Sound, CopyMatches, CreatedIsVisible, ServedClaimsKept, Launched,
        LaunchStarts
  <1>7. ASSUME NEW c \in Claims, LaunchEnds(c) PROVE IInv'
    <2>1. TypeOK'  BY <1>0, <1>7 DEF LaunchEnds, CopyMatches
    <2>2. ClassSound'  BY <1>0, <1>7 DEF ClassSound, Sound, LaunchEnds
    <2>3. CopyMatches'  BY <1>0, <1>7 DEF CopyMatches, Launched, LaunchEnds
    <2>4. CreatedIsVisible'  BY <1>0, <1>7 DEF CreatedIsVisible, CopyMatches, Launched, LaunchEnds
    <2>5. ServedClaimsKept'  BY <1>0, <1>7 DEF ServedClaimsKept, CreatedIsVisible, LaunchEnds
    <2>6. QED  BY <2>1, <2>2, <2>3, <2>4, <2>5 DEF IInv
  <1>8. ASSUME NEW c \in Claims, Initialized(c) PROVE IInv'
    BY <1>0, <1>8
    DEF IInv, ClassSound, Sound, CopyMatches, CreatedIsVisible, ServedClaimsKept, Launched,
        Initialized
  <1>9. ASSUME NEW c \in Claims, ClaimTouched(c) PROVE IInv'
    BY <1>0, <1>9
    DEF IInv, ClassSound, Sound, CopyMatches, CreatedIsVisible, ServedClaimsKept, Launched,
        ClaimTouched
  <1>10. ASSUME NEW c \in Claims, ClaimDeleted(c) PROVE IInv'
    BY <1>0, <1>10
    DEF IInv, ClassSound, Sound, CopyMatches, CreatedIsVisible, ServedClaimsKept, Launched,
        ClaimDeleted
  <1>11. ASSUME NEW c \in Claims, ReconcileIgnores(c) PROVE IInv'
    BY <1>0, <1>11
    DEF IInv, ClassSound, Sound, CopyMatches, CreatedIsVisible, ServedClaimsKept, Launched,
        ReconcileIgnores, Takes
  <1>12. ASSUME NEW c \in Claims, ReconcileWaits(c) PROVE IInv'
    BY <1>0, <1>12
    DEF IInv, ClassSound, Sound, CopyMatches, CreatedIsVisible, ServedClaimsKept, Launched,
        ReconcileWaits, Takes
  <1>13. ASSUME NEW c \in Claims, ReconcileReplaces(c) PROVE IInv'
    BY <1>0, <1>13
    DEF IInv, ClassSound, Sound, CopyMatches, CreatedIsVisible, ServedClaimsKept, Launched,
        ReconcileReplaces, Takes, Missing, InGrace
  <1>14. ASSUME NEW c \in Claims, ReconcileRecreates(c) PROVE IInv'
    <2>1. TypeOK'  BY <1>0, <1>14 DEF ReconcileRecreates, Takes, Missing, ClassCurrent, Drifted, CopyMatches
    <2>2. ClassSound'  BY <1>0, <1>14 DEF ClassSound, Sound, ReconcileRecreates, Takes, Missing, ClassCurrent, Drifted
    <2>3. CopyMatches'  BY <1>0, <1>14 DEF CopyMatches, Launched, ReconcileRecreates, Takes, Missing, ClassCurrent, Drifted, ClassSound, Sound
    <2>4. CreatedIsVisible'  BY <1>0, <1>14 DEF CreatedIsVisible, CopyMatches, Launched, ReconcileRecreates, Takes, Missing, ClassCurrent, Drifted
    <2>5. ServedClaimsKept'  BY <1>0, <1>14 DEF ServedClaimsKept, CreatedIsVisible, ReconcileRecreates, Takes, Missing, ClassCurrent, Drifted
    <2>6. QED  BY <2>1, <2>2, <2>3, <2>4, <2>5 DEF IInv
  <1>15. ASSUME NEW c \in Claims, NpnCreated(c) PROVE IInv'
    <2>1. TypeOK'  BY <1>0, <1>15 DEF NpnCreated, CopyMatches, Launched
    <2>2. ClassSound'  BY <1>0, <1>15 DEF ClassSound, Sound, NpnCreated
    <2>3. CopyMatches'  BY <1>0, <1>15 DEF CopyMatches, Launched, NpnCreated
    <2>4. CreatedIsVisible'  BY <1>0, <1>15 DEF CreatedIsVisible, CopyMatches, Launched, NpnCreated
    <2>5. ServedClaimsKept'  BY <1>0, <1>15 DEF ServedClaimsKept, CreatedIsVisible, NpnCreated
    <2>6. QED  BY <2>1, <2>2, <2>3, <2>4, <2>5 DEF IInv
  <1>16. ASSUME NEW c \in Claims, CreateNpnFails(c) PROVE IInv'
    BY <1>0, <1>16
    DEF IInv, ClassSound, Sound, CopyMatches, CreatedIsVisible, ServedClaimsKept, Launched,
        CreateNpnFails
  <1>17. ASSUME NEW c \in Claims, RequeueAfter(c) PROVE IInv'
    BY <1>0, <1>17
    DEF IInv, ClassSound, Sound, CopyMatches, CreatedIsVisible, ServedClaimsKept, Launched,
        RequeueAfter
  <1>18. ASSUME NEW c \in Claims, NpnSeen(c) PROVE IInv'
    BY <1>0, <1>18
    DEF IInv, ClassSound, Sound, CopyMatches, CreatedIsVisible, ServedClaimsKept, Launched,
        NpnSeen
  <1>19. ASSUME NEW c \in Claims, GraceEnds(c) PROVE IInv'
    BY <1>0, <1>19
    DEF IInv, ClassSound, Sound, CopyMatches, CreatedIsVisible, ServedClaimsKept, Launched,
        GraceEnds
  <1>20. ASSUME NEW c \in Claims, WindowEnds(c) PROVE IInv'
    BY <1>0, <1>20
    DEF IInv, ClassSound, Sound, CopyMatches, CreatedIsVisible, ServedClaimsKept, Launched,
        WindowEnds
  <1>21. ASSUME Crash PROVE IInv'
    <2>1. TypeOK'  BY <1>0, <1>21 DEF Crash
    <2>2. ClassSound'  BY <1>0, <1>21 DEF ClassSound, Sound, Crash
    <2>3. CopyMatches'  BY <1>0, <1>21 DEF CopyMatches, Launched, Crash
    <2>4. CreatedIsVisible'  BY <1>0, <1>21 DEF CreatedIsVisible, CopyMatches, Launched, Crash
    <2>5. ServedClaimsKept'  BY <1>0, <1>21 DEF ServedClaimsKept, CreatedIsVisible, Crash
    <2>6. QED  BY <2>1, <2>2, <2>3, <2>4, <2>5 DEF IInv
  <1>22. ASSUME UNCHANGED vars PROVE IInv'
    BY <1>0, <1>22
    DEF IInv, ClassSound, Sound, CopyMatches, CreatedIsVisible, ServedClaimsKept, Launched, vars
  <1>23. QED
    BY <1>1, <1>2, <1>3, <1>4, <1>5, <1>6, <1>7, <1>8, <1>9, <1>10, <1>11, <1>12, <1>13, <1>14, <1>15, <1>16, <1>17, <1>18, <1>19, <1>20, <1>21, <1>22
    DEF Next, Reconcile

\* Claims, class, informers and worker keep their types.
THEOREM TypeCorrect == Spec => []TypeOK
  <1>1. IInv => TypeOK
    BY DEF IInv
  <1>2. QED
    BY InitIInv, NextIInv, <1>1, PTL DEF Spec

\* The NPN is built from the spec the instance was launched from, whether Create or
\* the recovery builds it.
THEOREM NpnMatches == Spec => []NpnMatchesInstance
  <1>1. IInv => NpnMatchesInstance
    BY DEF IInv, CopyMatches, NpnMatchesInstance
  <1>2. QED
    BY InitIInv, NextIInv, <1>1, PTL DEF Spec

\* A claim whose NPN Create wrote is not replaced by the recovery.
THEOREM ServedKept == Spec => []ServedClaimsKept
  <1>1. IInv => ServedClaimsKept
    BY DEF IInv
  <1>2. QED
    BY InitIInv, NextIInv, <1>1, PTL DEF Spec

-----------------------------------------------------------------------------
(* Capacity discovery *)

CONSTANTS Nodes, Keys, Memory
VARIABLES key, node, identified, reporting, nodeClaim, nodeQueue, nodeTimers, firstMiss,
          measured, seen, learned, dropped

CD == INSTANCE CapacityDiscovery
  WITH claim <- nodeClaim, queue <- nodeQueue, timers <- nodeTimers

\* What a measurement says is the least memory of the nodes seen: inductive
\* together with the types.
MeasureInv == CD!DiscoveryAssumption /\ CD!TypeOK /\ CD!SmallestIsServed

\* Nothing is measured at first.
LEMMA InitMeasureInv == CD!DiscoveryAssumption /\ CD!Init => MeasureInv
  BY DEF CD!DiscoveryAssumption, CD!Init, MeasureInv, CD!TypeOK, CD!SmallestIsServed

\* Steps that touch neither the measurements nor what they were made from.
LEMMA Unmeasured == CD!SmallestIsServed /\ UNCHANGED <<measured, seen>> => CD!SmallestIsServed'
  BY DEF CD!SmallestIsServed

\* Record merges one more node into the measurement of its key.
LEMMA RecordKeepsLeast ==
  ASSUME MeasureInv, NEW n \in Nodes, CD!ReconcileRecords(n)
  PROVE  CD!SmallestIsServed'
  <1> USE DEF MeasureInv, CD!TypeOK, CD!DiscoveryAssumption
  <1> DEFINE k == key[n]
             m == IF measured[k] # None /\ Memory[n] > measured[k] THEN measured[k] ELSE Memory[n]
  <1>1. k \in Keys
    BY DEF CD!ReconcileRecords
  <1>2. measured' = [measured EXCEPT ![k] = m]
    BY <1>1 DEF CD!ReconcileRecords, CD!Record
  <1>3. seen' = [seen EXCEPT ![k] = @ \cup {n}]
    BY DEF CD!ReconcileRecords
  <1>4. /\ Memory[n] \in Nat
        /\ measured[k] # None => measured[k] \in Nat
        /\ \A x \in seen[k] : x \in Nodes /\ Memory[x] \in Nat
    BY <1>1
  <1>5. m \in Nat /\ m # None /\ m <= Memory[n] /\ (measured[k] # None => m <= measured[k])
    BY <1>4
  <1>6. ASSUME NEW x \in seen[k] \cup {n} PROVE m <= Memory[x]
    <2>1. CASE x = n
      BY <2>1, <1>5
    <2>2. CASE x \in seen[k]
      <3>1. measured[k] # None /\ measured[k] <= Memory[x]
        BY <2>2, <1>1 DEF CD!SmallestIsServed
      <3>2. QED  BY <3>1, <2>2, <1>4, <1>5
    <2>3. QED  BY <2>1, <2>2
  <1>7. \E x \in seen[k] \cup {n} : m = Memory[x]
    <2>1. CASE m = Memory[n]
      BY <2>1
    <2>2. CASE m # Memory[n]
      <3>1. measured[k] # None /\ m = measured[k]
        BY <2>2
      <3>2. \E x \in seen[k] : measured[k] = Memory[x]
        BY <3>1, <1>1 DEF CD!SmallestIsServed
      <3>3. QED  BY <3>1, <3>2
    <2>3. QED  BY <2>1, <2>2
  <1>8. ASSUME NEW j \in Keys, j # k
        PROVE  measured'[j] = measured[j] /\ seen'[j] = seen[j]
    BY <1>2, <1>3, <1>8
  <1>9. measured'[k] = m /\ seen'[k] = seen[k] \cup {n}
    BY <1>1, <1>2, <1>3
  <1>10. ASSUME NEW j \in Keys
         PROVE  /\ measured'[j] = None <=> seen'[j] = {}
                /\ \A x \in seen'[j] : measured'[j] <= Memory[x]
                /\ seen'[j] # {} => \E x \in seen'[j] : measured'[j] = Memory[x]
    <2>1. CASE j = k
      BY <2>1, <1>5, <1>6, <1>7, <1>9
    <2>2. CASE j # k
      BY <2>2, <1>8 DEF CD!SmallestIsServed
    <2>3. QED  BY <2>1, <2>2
  <1>11. QED  BY <1>10 DEF CD!SmallestIsServed

LEMMA NextMeasureInv == MeasureInv /\ [CD!Next]_CD!vars => MeasureInv'
  <1> SUFFICES ASSUME MeasureInv, [CD!Next]_CD!vars PROVE MeasureInv'
    OBVIOUS
  <1> USE DEF MeasureInv, CD!TypeOK, CD!DiscoveryAssumption
  <1>1. ASSUME NEW n \in Nodes, CD!Cluster(n) PROVE MeasureInv'
    <2>1. UNCHANGED <<measured, seen>>
      BY <1>1 DEF CD!Cluster, CD!NodeRegisters, CD!NodeIdentified, CD!MemoryReported, CD!NodeRemoved,
                  CD!ClaimPaired, CD!ClaimTouched, CD!ClaimRemoved
    <2>2. CD!SmallestIsServed'
      BY <2>1, Unmeasured
    <2>3. CD!TypeOK'
      BY <1>1 DEF CD!Cluster, CD!NodeRegisters, CD!NodeIdentified, CD!MemoryReported, CD!NodeRemoved,
                  CD!ClaimPaired, CD!ClaimTouched, CD!ClaimRemoved, CD!NodeClaimEvent,
                  CD!nodeVars, CD!workVars, CD!history
    <2>4. QED  BY <2>2, <2>3
  <1>2. ASSUME NEW n \in Nodes, CD!ReconcileRecords(n) PROVE MeasureInv'
    <2>1. CD!SmallestIsServed'
      BY <1>2, RecordKeepsLeast
    <2>2. key[n] \in Keys /\ Memory[n] \in Nat
      BY <1>2 DEF CD!ReconcileRecords
    <2>3. measured' \in [Keys -> Nat \cup {None}]
      BY <1>2, <2>2 DEF CD!ReconcileRecords, CD!Record
    <2>4. CD!TypeOK'
      BY <1>2, <2>2, <2>3 DEF CD!ReconcileRecords, CD!Forget, CD!nodeVars
    <2>5. QED  BY <2>1, <2>4
  <1>3. ASSUME NEW n \in Nodes,
               \/ CD!ReconcileIgnores(n) \/ CD!ReconcileAwaitsClaim(n) \/ CD!ReconcileGivesUp(n)
               \/ CD!ReconcileAwaitsMemory(n) \/ CD!ReconcileSkips(n)
               \/ CD!RequeueAfter(n) \/ CD!WindowPasses(n) \/ CD!MissLapses(n)
        PROVE  MeasureInv'
    <2>1. UNCHANGED <<measured, seen>>
      BY <1>3 DEF CD!ReconcileIgnores, CD!ReconcileAwaitsClaim, CD!ReconcileGivesUp,
                  CD!ReconcileAwaitsMemory, CD!ReconcileSkips, CD!RequeueAfter, CD!WindowPasses, CD!MissLapses
    <2>2. CD!SmallestIsServed'
      BY <2>1, Unmeasured
    <2>3. CD!TypeOK'
      BY <1>3 DEF CD!ReconcileIgnores, CD!ReconcileAwaitsClaim, CD!ReconcileGivesUp,
                  CD!ReconcileAwaitsMemory, CD!ReconcileSkips, CD!RequeueAfter, CD!WindowPasses, CD!MissLapses,
                  CD!FirstMiss, CD!Forget, CD!nodeVars, CD!workVars, CD!history
    <2>4. QED  BY <2>2, <2>3
  <1>4. ASSUME NEW k \in Keys, CD!MeasurementExpires(k) PROVE MeasureInv'
    <2>1. CD!TypeOK'
      BY <1>4 DEF CD!MeasurementExpires, CD!nodeVars, CD!workVars, CD!history
    <2>2. CD!SmallestIsServed'
      BY <1>4 DEF CD!MeasurementExpires, CD!SmallestIsServed
    <2>3. QED  BY <2>1, <2>2
  <1>5. CASE CD!Crash
    <2>1. CD!TypeOK'
      BY <1>5 DEF CD!Crash, CD!nodeVars
    <2>2. CD!SmallestIsServed'
      BY <1>5 DEF CD!Crash, CD!SmallestIsServed
    <2>3. QED  BY <2>1, <2>2
  <1>6. CASE UNCHANGED CD!vars
    <2>1. CD!TypeOK'
      BY <1>6 DEF CD!vars, CD!nodeVars, CD!workVars, CD!history
    <2>2. CD!SmallestIsServed'
      BY <1>6, Unmeasured DEF CD!vars
    <2>3. QED  BY <2>1, <2>2
  <1>7. QED
    BY <1>1, <1>2, <1>3, <1>4, <1>5, <1>6 DEF CD!Next, CD!Reconcile

\* The inductive invariant holds throughout.
LEMMA MeasureInvHolds == CD!DiscoveryAssumption /\ CD!Spec => []MeasureInv
  BY InitMeasureInv, NextMeasureInv, PTL DEF CD!Spec

\* Nodes, claims, the work queue, the miss tracker and the measurements keep their
\* types.
THEOREM DiscoveryTypeCorrect ==
  CD!DiscoveryAssumption /\ CD!Spec => []CD!TypeOK
  <1>1. MeasureInv => CD!TypeOK
    BY DEF MeasureInv
  <1>2. QED  BY <1>1, MeasureInvHolds, PTL

\* nodeCapacity.Record and the expiry of its entries serve, for each key, the least
\* memory of the nodes recorded since the entry was made.
THEOREM LeastMemoryServed ==
  CD!DiscoveryAssumption /\ CD!Spec => []CD!SmallestIsServed
  <1>1. MeasureInv => CD!SmallestIsServed
    BY DEF MeasureInv
  <1>2. QED  BY <1>1, MeasureInvHolds, PTL

=============================================================================
