------------------------ MODULE NodeLifecycleProofs -------------------------
(***************************************************************************)
(* Proofs about NodeLifecycle, for any number of claims, instances,        *)
(* attempts and restarts.                                                  *)
(***************************************************************************)
EXTENDS NodeLifecycle, TLAPS

\* A Create call holds an instance exactly while it polls, cleans up or returns,
\* runs only for a claim without ProviderID, and what it holds, like what a claim
\* refers to, was launched for that claim; the attempts never exceed the bound.
HandProtocol ==
  /\ \A c \in Claims :
       /\ pc[c] \in {"idle", "attempt"} <=> hand[c] = None
       /\ pc[c] # "idle" => pid[c] = None /\ claim[c] # "absent"
       /\ hand[c] # None => owner[hand[c]] = c
       /\ pid[c] # None => owner[pid[c]] = c
       /\ tries[c] < MaxAttempts
  /\ \A i \in Instances :
       /\ state[i] = "unused" <=> owner[i] = None
       /\ state[i] = "unused" => i \notin aged \cup reclaimedBlind \cup reclaimedKnown

\* A live instance of an undisturbed claim is held by its Create call or is its
\* ProviderID, unless the claim was removed by force before Create returned.
Accounted ==
  \A i \in Instances : Live(i) /\ owner[i] \notin disturbed =>
    \/ hand[owner[i]] = i
    \/ pid[owner[i]] = i
    \/ claim[owner[i]] = "gone" /\ pc[owner[i]] = "idle"

\* A gracefully finalized claim is gone for good and no Create call runs for it.
GracefulGone ==
  \A c \in graceful : claim[c] = "gone" /\ pc[c] = "idle"

\* The snapshot is the past of the ProviderIDs, which never change once set; what
\* was old before the pass and recorded is recorded in the snapshot.
SnapshotIsPast ==
  /\ opc = "idle" => snap = {}
  /\ \A c \in snap : snapPid[c] # None => pid[c] = snapPid[c]
  /\ \A c \in snap : pid[c] \in aged => snapPid[c] = pid[c]
  /\ \A c \in Claims : hand[c] \notin aged

\* What was reclaimed with its claim in the snapshot is nobody's instance.
ReclaimedKnownIsLost ==
  \A c \in Claims : hand[c] \notin reclaimedKnown /\ pid[c] \notin reclaimedKnown

\* The inductive invariant for every value of the constants ...
IInv ==
  /\ TypeOK
  /\ HandProtocol
  /\ Accounted
  /\ GracefulGone
  /\ AtMostOneInstance
  /\ GracefulDeleteLeavesNothing

\* ... and what is inductive besides when launches are shorter than the threshold.
PassInv ==
  /\ SnapshotIsPast
  /\ ReclaimedKnownIsLost

-----------------------------------------------------------------------------
\* The empty cluster satisfies both invariants.
LEMMA InitIInv == Init => IInv /\ PassInv
  <1> SUFFICES ASSUME Init PROVE IInv /\ PassInv
    OBVIOUS
  <1> USE LifecycleAssumption DEF Init
  <1>1. TypeOK
    <2>1. 0 \in 0..MaxAttempts /\ 0 \in 0..MaxCrashes
      OBVIOUS
    <2>2. QED  BY <2>1 DEF TypeOK, Phase, Lifecycle, Location
  <1>2. HandProtocol  BY DEF HandProtocol
  <1>3. Accounted /\ GracefulGone  BY DEF Accounted, GracefulGone, Live
  <1>4. AtMostOneInstance /\ GracefulDeleteLeavesNothing
    BY DEF AtMostOneInstance, GracefulDeleteLeavesNothing, InstancesOf, Live
  <1>5. PassInv  BY DEF PassInv, SnapshotIsPast, ReclaimedKnownIsLost
  <1>6. QED  BY <1>1, <1>2, <1>3, <1>4, <1>5 DEF IInv

\* Every step preserves the invariant.
LEMMA NextIInv == IInv /\ [Next]_vars => IInv'
  <1> SUFFICES ASSUME IInv, [Next]_vars PROVE IInv'
    OBVIOUS
  <1> USE LifecycleAssumption
      DEF TypeOK, Phase, Lifecycle, Location, claimVars, createVars, ociVars, orphanVars,
          reclaimed, history
  <1>0. /\ TypeOK /\ HandProtocol /\ Accounted /\ GracefulGone
        /\ AtMostOneInstance /\ GracefulDeleteLeavesNothing
    BY DEF IInv
  <1>1. ASSUME NEW c \in Claims, CreateClaim(c) PROVE IInv'
    BY <1>0, <1>1
    DEF IInv, HandProtocol, Accounted, GracefulGone, AtMostOneInstance,
        GracefulDeleteLeavesNothing, InstancesOf, Live, CreateClaim
  <1>2. ASSUME NEW c \in Claims, DeleteClaim(c) PROVE IInv'
    BY <1>0, <1>2
    DEF IInv, HandProtocol, Accounted, GracefulGone, AtMostOneInstance,
        GracefulDeleteLeavesNothing, InstancesOf, Live, DeleteClaim
  <1>3. ASSUME NEW c \in Claims, ForceRemove(c) PROVE IInv'
    BY <1>0, <1>3
    DEF IInv, HandProtocol, Accounted, GracefulGone, AtMostOneInstance,
        GracefulDeleteLeavesNothing, InstancesOf, Live, ForceRemove
  <1>4. ASSUME NEW c \in Claims, StartCreate(c) PROVE IInv'
    BY <1>0, <1>4
    DEF IInv, HandProtocol, Accounted, GracefulGone, AtMostOneInstance,
        GracefulDeleteLeavesNothing, InstancesOf, Live, StartCreate
  <1>5. ASSUME NEW c \in Claims, LaunchRefused(c) PROVE IInv'
    <2>1. TypeOK'
      BY <1>0, <1>5 DEF HandProtocol, LaunchRefused, AttemptFails
    <2>2. HandProtocol'
      BY <1>0, <1>5 DEF HandProtocol, Live, LaunchRefused, AttemptFails
    <2>3. Accounted'
      BY <1>0, <1>5 DEF HandProtocol, Accounted, Live, LaunchRefused, AttemptFails
    <2>4. GracefulGone'
      BY <1>0, <1>5 DEF GracefulGone, LaunchRefused, AttemptFails
    <2>5. AtMostOneInstance'
      BY <1>0, <1>5 DEF HandProtocol, Accounted, AtMostOneInstance, InstancesOf, Live, LaunchRefused, AttemptFails
    <2>6. GracefulDeleteLeavesNothing'
      BY <1>0, <1>5 DEF HandProtocol, Accounted, GracefulGone, GracefulDeleteLeavesNothing, InstancesOf, Live, LaunchRefused, AttemptFails
    <2>7. QED  BY <2>1, <2>2, <2>3, <2>4, <2>5, <2>6 DEF IInv
  <1>6. ASSUME NEW c \in Claims, NEW i \in Instances, LaunchAccepted(c, i) PROVE IInv'
    BY <1>0, <1>6
    DEF IInv, HandProtocol, Accounted, GracefulGone, AtMostOneInstance,
        GracefulDeleteLeavesNothing, InstancesOf, Live, LaunchAccepted, Launches
  <1>7. ASSUME NEW c \in Claims, NEW i \in Instances, LaunchUnconfirmed(c, i) PROVE IInv'
    <2>1. TypeOK'
      BY <1>0, <1>7 DEF HandProtocol, LaunchUnconfirmed, Launches, AttemptFails
    <2>2. HandProtocol'
      BY <1>0, <1>7 DEF HandProtocol, Live, LaunchUnconfirmed, Launches, AttemptFails
    <2>3. Accounted'
      BY <1>0, <1>7 DEF HandProtocol, Accounted, Live, LaunchUnconfirmed, Launches, AttemptFails
    <2>4. GracefulGone'
      BY <1>0, <1>7 DEF GracefulGone, LaunchUnconfirmed, Launches, AttemptFails
    <2>5. AtMostOneInstance'
      BY <1>0, <1>7 DEF HandProtocol, Accounted, AtMostOneInstance, InstancesOf, Live, LaunchUnconfirmed, Launches, AttemptFails
    <2>6. GracefulDeleteLeavesNothing'
      BY <1>0, <1>7 DEF HandProtocol, Accounted, GracefulGone, GracefulDeleteLeavesNothing, InstancesOf, Live, LaunchUnconfirmed, Launches, AttemptFails
    <2>7. QED  BY <2>1, <2>2, <2>3, <2>4, <2>5, <2>6 DEF IInv
  <1>8. ASSUME NEW c \in Claims, WorkRequestSucceeded(c) PROVE IInv'
    BY <1>0, <1>8
    DEF IInv, HandProtocol, Accounted, GracefulGone, AtMostOneInstance,
        GracefulDeleteLeavesNothing, InstancesOf, Live, WorkRequestSucceeded
  <1>9. ASSUME NEW c \in Claims, WorkRequestFailed(c) PROVE IInv'
    <2>1. TypeOK'
      BY <1>0, <1>9 DEF HandProtocol, WorkRequestFailed, AttemptFails
    <2>2. HandProtocol'
      BY <1>0, <1>9 DEF HandProtocol, Live, WorkRequestFailed, AttemptFails
    <2>3. Accounted'
      BY <1>0, <1>9 DEF HandProtocol, Accounted, Live, WorkRequestFailed, AttemptFails
    <2>4. GracefulGone'
      BY <1>0, <1>9 DEF GracefulGone, WorkRequestFailed, AttemptFails
    <2>5. AtMostOneInstance'
      BY <1>0, <1>9 DEF HandProtocol, Accounted, AtMostOneInstance, InstancesOf, Live, WorkRequestFailed, AttemptFails
    <2>6. GracefulDeleteLeavesNothing'
      BY <1>0, <1>9 DEF HandProtocol, Accounted, GracefulGone, GracefulDeleteLeavesNothing, InstancesOf, Live, WorkRequestFailed, AttemptFails
    <2>7. QED  BY <2>1, <2>2, <2>3, <2>4, <2>5, <2>6 DEF IInv
  <1>10. ASSUME NEW c \in Claims, LaunchTimeout(c) PROVE IInv'
    BY <1>0, <1>10
    DEF IInv, HandProtocol, Accounted, GracefulGone, AtMostOneInstance,
        GracefulDeleteLeavesNothing, InstancesOf, Live, LaunchTimeout
  <1>11. ASSUME NEW c \in Claims, LaunchTimeoutCleanup(c) PROVE IInv'
    BY <1>0, <1>11
    DEF IInv, HandProtocol, Accounted, GracefulGone, AtMostOneInstance,
        GracefulDeleteLeavesNothing, InstancesOf, Live, LaunchTimeoutCleanup
  <1>12. ASSUME NEW c \in Claims, CleanupDone(c) PROVE IInv'
    <2>1. TypeOK'
      BY <1>0, <1>12 DEF HandProtocol, CleanupDone, AttemptFails
    <2>2. HandProtocol'
      BY <1>0, <1>12 DEF HandProtocol, Live, CleanupDone, AttemptFails
    <2>3. Accounted'
      BY <1>0, <1>12 DEF HandProtocol, Accounted, Live, CleanupDone, AttemptFails
    <2>4. GracefulGone'
      BY <1>0, <1>12 DEF GracefulGone, CleanupDone, AttemptFails
    <2>5. AtMostOneInstance'
      BY <1>0, <1>12 DEF HandProtocol, Accounted, AtMostOneInstance, InstancesOf, Live, CleanupDone, AttemptFails
    <2>6. GracefulDeleteLeavesNothing'
      BY <1>0, <1>12 DEF HandProtocol, Accounted, GracefulGone, GracefulDeleteLeavesNothing, InstancesOf, Live, CleanupDone, AttemptFails
    <2>7. QED  BY <2>1, <2>2, <2>3, <2>4, <2>5, <2>6 DEF IInv
  <1>13. ASSUME NEW c \in Claims, CleanupFails(c) PROVE IInv'
    BY <1>0, <1>13
    DEF IInv, HandProtocol, Accounted, GracefulGone, AtMostOneInstance,
        GracefulDeleteLeavesNothing, InstancesOf, Live, CleanupFails
  <1>14. ASSUME NEW c \in Claims, CreateReturns(c) PROVE IInv'
    <2>1. TypeOK'
      BY <1>0, <1>14 DEF HandProtocol, CreateReturns
    <2>2. HandProtocol'
      BY <1>0, <1>14 DEF HandProtocol, Live, CreateReturns
    <2>3. Accounted'
      BY <1>0, <1>14 DEF HandProtocol, Accounted, Live, CreateReturns
    <2>4. GracefulGone'
      BY <1>0, <1>14 DEF GracefulGone, CreateReturns
    <2>5. AtMostOneInstance'
      BY <1>0, <1>14 DEF HandProtocol, Accounted, AtMostOneInstance, InstancesOf, Live, CreateReturns
    <2>6. GracefulDeleteLeavesNothing'
      BY <1>0, <1>14 DEF HandProtocol, Accounted, GracefulGone, GracefulDeleteLeavesNothing, InstancesOf, Live, CreateReturns
    <2>7. QED  BY <2>1, <2>2, <2>3, <2>4, <2>5, <2>6 DEF IInv
  <1>15. ASSUME NEW c \in Claims, DeleteInstance(c) PROVE IInv'
    BY <1>0, <1>15
    DEF IInv, HandProtocol, Accounted, GracefulGone, AtMostOneInstance,
        GracefulDeleteLeavesNothing, InstancesOf, Live, DeleteInstance
  <1>16. ASSUME NEW c \in Claims, DeleteNotFound(c) PROVE IInv'
    BY <1>0, <1>16
    DEF IInv, HandProtocol, Accounted, GracefulGone, AtMostOneInstance,
        GracefulDeleteLeavesNothing, InstancesOf, Live, DeleteNotFound
  <1>17. ASSUME NEW c \in Claims, DeleteNotAuthorized(c) PROVE IInv'
    BY <1>0, <1>17
    DEF IInv, HandProtocol, Accounted, GracefulGone, AtMostOneInstance,
        GracefulDeleteLeavesNothing, InstancesOf, Live, DeleteNotAuthorized
  <1>18. ASSUME NEW i \in Instances, Provisioned(i) PROVE IInv'
    BY <1>0, <1>18
    DEF IInv, HandProtocol, Accounted, GracefulGone, AtMostOneInstance,
        GracefulDeleteLeavesNothing, InstancesOf, Live, Provisioned
  <1>19. ASSUME NEW i \in Instances, InstanceLost(i) PROVE IInv'
    BY <1>0, <1>19
    DEF IInv, HandProtocol, Accounted, GracefulGone, AtMostOneInstance,
        GracefulDeleteLeavesNothing, InstancesOf, Live, InstanceLost
  <1>20. ASSUME NEW i \in Instances, Terminated(i) PROVE IInv'
    BY <1>0, <1>20
    DEF IInv, HandProtocol, Accounted, GracefulGone, AtMostOneInstance,
        GracefulDeleteLeavesNothing, InstancesOf, Live, Terminated
  <1>21. ASSUME NEW i \in Instances, GrowsOld(i) PROVE IInv'
    BY <1>0, <1>21
    DEF IInv, HandProtocol, Accounted, GracefulGone, AtMostOneInstance,
        GracefulDeleteLeavesNothing, InstancesOf, Live, GrowsOld
  <1>22. ASSUME WarmUp PROVE IInv'
    BY <1>0, <1>22
    DEF IInv, HandProtocol, Accounted, GracefulGone, AtMostOneInstance,
        GracefulDeleteLeavesNothing, InstancesOf, Live, WarmUp
  <1>23. ASSUME Crash PROVE IInv'
    <2>1. TypeOK'
      <3>1. crashes' \in 0..MaxCrashes
        BY <1>0, <1>23 DEF Crash
      <3>2. disturbed' \in SUBSET Claims
        BY <1>0, <1>23, Zenon DEF Crash
      <3>3. /\ pc' \in [Claims -> Location] /\ hand' \in [Claims -> Instances \cup {None}]
            /\ initialized' \in BOOLEAN /\ snapPid' \in [Claims -> Instances \cup {None}]
        BY <1>0, <1>23 DEF Crash
      <3>4. QED
        BY <1>0, <1>23, <3>1, <3>2, <3>3 DEF Crash
    <2>2. HandProtocol'
      BY <1>0, <1>23 DEF HandProtocol, Live, Crash
    <2>3. Accounted'
      BY <1>0, <1>23 DEF HandProtocol, Accounted, Live, Crash
    <2>4. GracefulGone'
      BY <1>0, <1>23 DEF GracefulGone, Crash
    <2>5. AtMostOneInstance'
      BY <1>0, <1>23 DEF HandProtocol, Accounted, AtMostOneInstance, InstancesOf, Live, Crash
    <2>6. GracefulDeleteLeavesNothing'
      BY <1>0, <1>23 DEF HandProtocol, Accounted, GracefulGone, GracefulDeleteLeavesNothing, InstancesOf, Live, Crash
    <2>7. QED  BY <2>1, <2>2, <2>3, <2>4, <2>5, <2>6 DEF IInv
  <1>24. ASSUME OrphanSnapshot PROVE IInv'
    BY <1>0, <1>24
    DEF IInv, HandProtocol, Accounted, GracefulGone, AtMostOneInstance,
        GracefulDeleteLeavesNothing, InstancesOf, Live, OrphanSnapshot
  <1>25. ASSUME OrphanList PROVE IInv'
    BY <1>0, <1>25
    DEF IInv, HandProtocol, Accounted, GracefulGone, AtMostOneInstance,
        GracefulDeleteLeavesNothing, InstancesOf, Live, OrphanList
  <1>26. ASSUME NEW i \in Instances, OrphanSkip(i) PROVE IInv'
    BY <1>0, <1>26
    DEF IInv, HandProtocol, Accounted, GracefulGone, AtMostOneInstance,
        GracefulDeleteLeavesNothing, InstancesOf, Live, OrphanSkip
  <1>27. ASSUME NEW i \in Instances, OrphanReclaim(i) PROVE IInv'
    BY <1>0, <1>27
    DEF IInv, HandProtocol, Accounted, GracefulGone, AtMostOneInstance,
        GracefulDeleteLeavesNothing, InstancesOf, Live, OrphanReclaim, ShouldReclaim
  <1>28. ASSUME OrphanDone PROVE IInv'
    BY <1>0, <1>28
    DEF IInv, HandProtocol, Accounted, GracefulGone, AtMostOneInstance,
        GracefulDeleteLeavesNothing, InstancesOf, Live, OrphanDone
  <1>29. ASSUME UNCHANGED vars PROVE IInv'
    BY <1>0, <1>29
    DEF IInv, HandProtocol, Accounted, GracefulGone, AtMostOneInstance,
        GracefulDeleteLeavesNothing, InstancesOf, Live, vars
  <1>30. QED
    BY <1>1, <1>2, <1>3, <1>4, <1>5, <1>6, <1>7, <1>8, <1>9, <1>10, <1>11, <1>12, <1>13, <1>14,
       <1>15, <1>16, <1>17, <1>18, <1>19, <1>20, <1>21, <1>22, <1>23, <1>24, <1>25, <1>26, <1>27, <1>28, <1>29
    DEF Next, Core, Creating, Deleting, Compute, Orphan

\* With short launches every step preserves the orphan controller's part.
LEMMA NextPassInv == ~SlowLaunch /\ IInv /\ PassInv /\ [Next]_vars => PassInv'
  <1> SUFFICES ASSUME ~SlowLaunch, IInv, PassInv, [Next]_vars PROVE PassInv'
    OBVIOUS
  <1> USE LifecycleAssumption
      DEF TypeOK, Phase, Lifecycle, Location, claimVars, createVars, ociVars, orphanVars,
          reclaimed, history
  <1>0. /\ ~SlowLaunch /\ TypeOK /\ HandProtocol /\ SnapshotIsPast /\ ReclaimedKnownIsLost
    BY DEF IInv, PassInv
  <1>1. ASSUME NEW c \in Claims, CreateClaim(c) PROVE PassInv'
    BY <1>0, <1>1
    DEF PassInv, SnapshotIsPast, ReclaimedKnownIsLost, HandProtocol, Live, CreateClaim
  <1>2. ASSUME NEW c \in Claims, DeleteClaim(c) PROVE PassInv'
    BY <1>0, <1>2
    DEF PassInv, SnapshotIsPast, ReclaimedKnownIsLost, HandProtocol, Live, DeleteClaim
  <1>3. ASSUME NEW c \in Claims, ForceRemove(c) PROVE PassInv'
    BY <1>0, <1>3
    DEF PassInv, SnapshotIsPast, ReclaimedKnownIsLost, HandProtocol, Live, ForceRemove
  <1>4. ASSUME NEW c \in Claims, StartCreate(c) PROVE PassInv'
    BY <1>0, <1>4
    DEF PassInv, SnapshotIsPast, ReclaimedKnownIsLost, HandProtocol, Live, StartCreate
  <1>5. ASSUME NEW c \in Claims, LaunchRefused(c) PROVE PassInv'
    BY <1>0, <1>5
    DEF PassInv, SnapshotIsPast, ReclaimedKnownIsLost, HandProtocol, Live, LaunchRefused,
        AttemptFails
  <1>6. ASSUME NEW c \in Claims, NEW i \in Instances, LaunchAccepted(c, i) PROVE PassInv'
    BY <1>0, <1>6
    DEF PassInv, SnapshotIsPast, ReclaimedKnownIsLost, HandProtocol, Live, LaunchAccepted,
        Launches
  <1>7. ASSUME NEW c \in Claims, NEW i \in Instances, LaunchUnconfirmed(c, i) PROVE PassInv'
    BY <1>0, <1>7
    DEF PassInv, SnapshotIsPast, ReclaimedKnownIsLost, HandProtocol, Live, LaunchUnconfirmed,
        Launches, AttemptFails
  <1>8. ASSUME NEW c \in Claims, WorkRequestSucceeded(c) PROVE PassInv'
    BY <1>0, <1>8
    DEF PassInv, SnapshotIsPast, ReclaimedKnownIsLost, HandProtocol, Live, WorkRequestSucceeded
  <1>9. ASSUME NEW c \in Claims, WorkRequestFailed(c) PROVE PassInv'
    BY <1>0, <1>9
    DEF PassInv, SnapshotIsPast, ReclaimedKnownIsLost, HandProtocol, Live, WorkRequestFailed,
        AttemptFails
  <1>10. ASSUME NEW c \in Claims, LaunchTimeout(c) PROVE PassInv'
    BY <1>0, <1>10
    DEF PassInv, SnapshotIsPast, ReclaimedKnownIsLost, HandProtocol, Live, LaunchTimeout
  <1>11. ASSUME NEW c \in Claims, LaunchTimeoutCleanup(c) PROVE PassInv'
    BY <1>0, <1>11
    DEF PassInv, SnapshotIsPast, ReclaimedKnownIsLost, HandProtocol, Live, LaunchTimeoutCleanup
  <1>12. ASSUME NEW c \in Claims, CleanupDone(c) PROVE PassInv'
    BY <1>0, <1>12
    DEF PassInv, SnapshotIsPast, ReclaimedKnownIsLost, HandProtocol, Live, CleanupDone,
        AttemptFails
  <1>13. ASSUME NEW c \in Claims, CleanupFails(c) PROVE PassInv'
    BY <1>0, <1>13
    DEF PassInv, SnapshotIsPast, ReclaimedKnownIsLost, HandProtocol, Live, CleanupFails
  <1>14. ASSUME NEW c \in Claims, CreateReturns(c) PROVE PassInv'
    BY <1>0, <1>14
    DEF PassInv, SnapshotIsPast, ReclaimedKnownIsLost, HandProtocol, Live, CreateReturns
  <1>15. ASSUME NEW c \in Claims, DeleteInstance(c) PROVE PassInv'
    BY <1>0, <1>15
    DEF PassInv, SnapshotIsPast, ReclaimedKnownIsLost, HandProtocol, Live, DeleteInstance
  <1>16. ASSUME NEW c \in Claims, DeleteNotFound(c) PROVE PassInv'
    BY <1>0, <1>16
    DEF PassInv, SnapshotIsPast, ReclaimedKnownIsLost, HandProtocol, Live, DeleteNotFound
  <1>17. ASSUME NEW c \in Claims, DeleteNotAuthorized(c) PROVE PassInv'
    BY <1>0, <1>17
    DEF PassInv, SnapshotIsPast, ReclaimedKnownIsLost, HandProtocol, Live, DeleteNotAuthorized
  <1>18. ASSUME NEW i \in Instances, Provisioned(i) PROVE PassInv'
    BY <1>0, <1>18
    DEF PassInv, SnapshotIsPast, ReclaimedKnownIsLost, HandProtocol, Live, Provisioned
  <1>19. ASSUME NEW i \in Instances, InstanceLost(i) PROVE PassInv'
    BY <1>0, <1>19
    DEF PassInv, SnapshotIsPast, ReclaimedKnownIsLost, HandProtocol, Live, InstanceLost
  <1>20. ASSUME NEW i \in Instances, Terminated(i) PROVE PassInv'
    BY <1>0, <1>20
    DEF PassInv, SnapshotIsPast, ReclaimedKnownIsLost, HandProtocol, Live, Terminated
  <1>21. ASSUME NEW i \in Instances, GrowsOld(i) PROVE PassInv'
    BY <1>0, <1>21
    DEF PassInv, SnapshotIsPast, ReclaimedKnownIsLost, HandProtocol, Live, GrowsOld
  <1>22. ASSUME WarmUp PROVE PassInv'
    BY <1>0, <1>22
    DEF PassInv, SnapshotIsPast, ReclaimedKnownIsLost, HandProtocol, Live, WarmUp
  <1>23. ASSUME Crash PROVE PassInv'
    BY <1>0, <1>23
    DEF PassInv, SnapshotIsPast, ReclaimedKnownIsLost, HandProtocol, Live, Crash
  <1>24. ASSUME OrphanSnapshot PROVE PassInv'
    BY <1>0, <1>24
    DEF PassInv, SnapshotIsPast, ReclaimedKnownIsLost, HandProtocol, Live, OrphanSnapshot
  <1>25. ASSUME OrphanList PROVE PassInv'
    BY <1>0, <1>25
    DEF PassInv, SnapshotIsPast, ReclaimedKnownIsLost, HandProtocol, Live, OrphanList
  <1>26. ASSUME NEW i \in Instances, OrphanSkip(i) PROVE PassInv'
    BY <1>0, <1>26
    DEF PassInv, SnapshotIsPast, ReclaimedKnownIsLost, HandProtocol, Live, OrphanSkip
  <1>27. ASSUME NEW i \in Instances, OrphanReclaim(i) PROVE PassInv'
    BY <1>0, <1>27
    DEF PassInv, SnapshotIsPast, ReclaimedKnownIsLost, HandProtocol, Live, OrphanReclaim,
        ShouldReclaim
  <1>28. ASSUME OrphanDone PROVE PassInv'
    BY <1>0, <1>28
    DEF PassInv, SnapshotIsPast, ReclaimedKnownIsLost, HandProtocol, Live, OrphanDone
  <1>29. ASSUME UNCHANGED vars PROVE PassInv'
    BY <1>0, <1>29
    DEF PassInv, SnapshotIsPast, ReclaimedKnownIsLost, HandProtocol, Live, vars
  <1>30. QED
    BY <1>1, <1>2, <1>3, <1>4, <1>5, <1>6, <1>7, <1>8, <1>9, <1>10, <1>11, <1>12, <1>13, <1>14,
       <1>15, <1>16, <1>17, <1>18, <1>19, <1>20, <1>21, <1>22, <1>23, <1>24, <1>25, <1>26, <1>27, <1>28, <1>29
    DEF Next, Core, Creating, Deleting, Compute, Orphan

\* The invariant holds in every reachable state.
LEMMA IInvHolds == Spec => []IInv
  BY InitIInv, NextIInv, PTL DEF Spec

-----------------------------------------------------------------------------
\* Type correctness of claims, instances, Create calls and orphan passes.
THEOREM TypeCorrect == Spec => []TypeOK
  <1>1. IInv => TypeOK  BY DEF IInv
  <1>2. QED  BY <1>1, IInvHolds, PTL

\* No sequence of failed, timed-out and cleaned-up launch attempts, and no repeated
\* call of Create, leaves a claim with two live instances, unless a launch was lost.
THEOREM OneInstancePerClaim == Spec => []AtMostOneInstance
  <1>1. IInv => AtMostOneInstance  BY DEF IInv
  <1>2. QED  BY <1>1, IInvHolds, PTL

\* Delete answers NodeClaimNotFound, and so releases the finalizer, only when no
\* instance of the claim is left running, unless one was lost before.
THEOREM NothingLeftBehind == Spec => []GracefulDeleteLeavesNothing
  <1>1. IInv => GracefulDeleteLeavesNothing  BY DEF IInv
  <1>2. QED  BY <1>1, IInvHolds, PTL

\* When launches and passes are shorter than creationTimeThreshold, the orphan
\* controller spares the instance of every claim its snapshot contains.
THEOREM KnownClaimsSafe == ~SlowLaunch /\ Spec => []KnownClaimsKeepTheirInstance
  <1>1. ReclaimedKnownIsLost => KnownClaimsKeepTheirInstance
    BY DEF ReclaimedKnownIsLost, KnownClaimsKeepTheirInstance
  <1>2. IInv /\ PassInv => KnownClaimsKeepTheirInstance
    BY <1>1 DEF PassInv
  <1>3. ASSUME ~SlowLaunch PROVE Spec => [](IInv /\ PassInv)
    <2>1. IInv /\ PassInv /\ [Next]_vars => (IInv /\ PassInv)'
      BY <1>3, NextIInv, NextPassInv
    <2>2. QED  BY <2>1, InitIInv, PTL DEF Spec
  <1>4. ASSUME ~SlowLaunch PROVE Spec => []KnownClaimsKeepTheirInstance
    BY <1>2, <1>3, <1>4, PTL
  <1>5. QED  BY <1>4

-----------------------------------------------------------------------------
(* NodeLifecycle implements ClaimContract.  The steps of Create, Delete and the
   orphan controller that the contract allows only under a condition meet it because
   of the inductive invariant above. *)


\* A step that changes no claim, no history the contract sees and no instance
\* beyond provisioning -> running and terminating -> terminated.
Invisible ==
  /\ UNCHANGED <<claim, graceful, disturbed, owner>>
  /\ \A i \in Instances : Live(i)' = Live(i) /\ (state'[i] = "unused") = (state[i] = "unused")

\* The contract does not see such a step.
LEMMA InvisibleStutters == Invisible => UNCHANGED Contract!vars
  <1> SUFFICES ASSUME Invisible PROVE UNCHANGED Contract!vars
    OBVIOUS
  <1>1. phaseOf' = phaseOf  BY DEF Invisible, phaseOf
  <1>2. ASSUME NEW c \in Claims PROVE InstancesOf(c)' = InstancesOf(c)
    BY DEF Invisible, InstancesOf
  <1>3. fleetOf' = fleetOf  BY <1>2 DEF fleetOf
  <1>4. usedOf' = usedOf  BY DEF Invisible, usedOf
  <1>5. QED  BY <1>1, <1>3, <1>4 DEF Invisible, Contract!vars

\* Steps of Create, the orphan controller and OCI that the contract does not see.
LEMMA Stutters ==
  ASSUME IInv,
         UNCHANGED <<claim, graceful, disturbed, owner>>,
         \A i \in Instances : state'[i] # state[i] =>
            \/ state[i] = "provisioning" /\ state'[i] = "running"
            \/ state[i] = "terminating" /\ state'[i] = "terminated"
  PROVE  UNCHANGED Contract!vars
  <1>1. Invisible  BY DEF Invisible, Live
  <1>2. QED  BY <1>1, InvisibleStutters

\* A live instance that starts to terminate leaves the fleet of the claim it was
\* launched for.
LEMMA Ends ==
  ASSUME IInv, NEW i \in Instances, Live(i),
         state' = [state EXCEPT ![i] = "terminating"],
         UNCHANGED <<claim, graceful, disturbed, owner>>
  PROVE  \E c \in Claims : Contract!End(c, i)
  <1> USE DEF IInv, TypeOK, Lifecycle
  <1>1. owner[i] \in Claims
    BY DEF HandProtocol, Live
  <1> DEFINE o == owner[i]
  <1>2. i \in fleetOf[o]
    BY <1>1 DEF fleetOf, InstancesOf
  <1>3. ASSUME NEW c \in Claims PROVE InstancesOf(c)' = IF c = o THEN InstancesOf(c) \ {i} ELSE InstancesOf(c)
    BY <1>1 DEF InstancesOf, Live
  <1>4. fleetOf' = [fleetOf EXCEPT ![o] = @ \ {i}]
    BY <1>1, <1>3 DEF fleetOf
  <1>5. usedOf' = usedOf
    BY DEF usedOf, Live
  <1>6. phaseOf' = phaseOf
    BY DEF phaseOf
  <1>7. Contract!End(o, i)
    BY <1>2, <1>4, <1>5, <1>6 DEF Contract!End
  <1>8. QED  BY <1>1, <1>7

\* A Create call that attempts a launch has a claim that is still there, or was
\* removed by force, and that has no instance yet unless one was lost.
LEMMA LaunchAllowed ==
  ASSUME IInv, NEW c \in Claims, pc[c] = "attempt"
  PROVE  /\ phaseOf[c] \in {"live", "deleting", "gone"}
         /\ fleetOf[c] = {} \/ c \in disturbed
  <1> USE DEF IInv, TypeOK, Phase, Lifecycle, Location
  <1>1. c \notin graceful
    BY DEF GracefulGone
  <1>2. claim[c] \in {"live", "deleting", "gone"}
    BY DEF HandProtocol
  <1>3. ASSUME c \notin disturbed, NEW i \in InstancesOf(c) PROVE FALSE
    BY <1>3, LifecycleAssumption DEF InstancesOf, Accounted, HandProtocol
  <1>4. QED  BY <1>1, <1>2, <1>3 DEF phaseOf, fleetOf

\* What computeClient.LaunchInstance does is the contract's launch.
LEMMA LaunchStep ==
  ASSUME IInv, NEW c \in Claims, NEW i \in Instances, Launches(c, i),
         UNCHANGED graceful, disturbed' \in {disturbed, disturbed \cup {c}}
  PROVE  Contract!Launch(c, i)
  <1> USE DEF IInv, TypeOK, Lifecycle
  <1>1. pc[c] = "attempt" /\ state[i] = "unused" /\ UNCHANGED claim
    BY DEF Launches, claimVars
  <1>2. ASSUME NEW d \in Claims
        PROVE  InstancesOf(d)' = IF d = c THEN InstancesOf(d) \cup {i} ELSE InstancesOf(d)
    BY <1>1 DEF Launches, InstancesOf, Live
  <1>3. fleetOf' = [fleetOf EXCEPT ![c] = @ \cup {i}]
    BY <1>2 DEF fleetOf
  <1>4. usedOf' = usedOf \cup {i} /\ i \notin usedOf
    BY <1>1 DEF Launches, usedOf
  <1>5. phaseOf' = phaseOf
    BY <1>1 DEF phaseOf
  <1>6. QED  BY <1>1, <1>3, <1>4, <1>5, LaunchAllowed DEF Contract!Launch

\* Delete answers NodeClaimNotFound only when the contract lets the claim go.
LEMMA FinalizeStep ==
  ASSUME IInv, NEW c \in Claims, DeleteNotFound(c) \/ DeleteNotAuthorized(c)
  PROVE  Contract!Finalize(c)
  <1> USE DEF IInv, TypeOK, Phase, Lifecycle, Location
  <1>1. /\ claim[c] = "deleting" /\ pc[c] = "idle"
        /\ claim' = [claim EXCEPT ![c] = "gone"] /\ graceful' = graceful \cup {c}
        /\ UNCHANGED <<state, owner>>
    BY DEF DeleteNotFound, DeleteNotAuthorized, ociVars
  <1>2. c \notin graceful
    BY <1>1 DEF GracefulGone
  <1>3. phaseOf[c] = "deleting" /\ phaseOf' = [phaseOf EXCEPT ![c] = "finalized"]
    BY <1>1, <1>2 DEF phaseOf
  <1>4. fleetOf' = fleetOf /\ usedOf' = usedOf
    BY <1>1 DEF fleetOf, usedOf, InstancesOf, Live
  <1>5. disturbed' \in {disturbed, disturbed \cup {c}}
    BY DEF DeleteNotFound, DeleteNotAuthorized
  <1>6. ASSUME c \notin disturbed', NEW i \in InstancesOf(c) PROVE FALSE
    <2>1. DeleteNotFound(c) /\ disturbed' = disturbed
      BY <1>6 DEF DeleteNotFound, DeleteNotAuthorized
    <2>2. QED
      BY <2>1, <1>1, <1>6, LifecycleAssumption
      DEF DeleteNotFound, InstancesOf, Accounted, HandProtocol, Live
  <1>7. fleetOf[c] = {} \/ c \in disturbed'
    BY <1>6 DEF fleetOf
  <1>8. QED  BY <1>3, <1>4, <1>5, <1>7 DEF Contract!Finalize

\* Users and core Karpenter change a claim as the contract says.
LEMMA RequestStep ==
  ASSUME IInv, NEW c \in Claims, CreateClaim(c) \/ DeleteClaim(c) \/ ForceRemove(c)
  PROVE  Contract!Request(c)
  <1> USE DEF IInv, TypeOK, Phase
  <1>1. /\ claim[c] \in {"absent", "live", "deleting"}
        /\ UNCHANGED <<state, owner, graceful, disturbed>>
    BY DEF CreateClaim, DeleteClaim, ForceRemove, ociVars, history
  <1>2. c \notin graceful
    BY <1>1 DEF GracefulGone
  <1>3. fleetOf' = fleetOf /\ usedOf' = usedOf
    BY <1>1 DEF fleetOf, usedOf, InstancesOf, Live
  <1>4. ASSUME NEW p \in {"live", "deleting", "gone"}, claim' = [claim EXCEPT ![c] = p]
        PROVE  phaseOf[c] = claim[c] /\ phaseOf' = [phaseOf EXCEPT ![c] = p]
    BY <1>1, <1>2, <1>4 DEF phaseOf
  <1>5. QED
    BY <1>1, <1>3, <1>4 DEF Contract!Request, CreateClaim, DeleteClaim, ForceRemove

\* A restart loses track of the claims whose Create call was past its launch.
LEMMA CrashStep ==
  ASSUME IInv, Crash
  PROVE  Contract!LoseTrack
  <1>1. UNCHANGED <<claim, graceful, state, owner>>
    BY DEF Crash, claimVars, ociVars
  <1>2. phaseOf' = phaseOf /\ fleetOf' = fleetOf /\ usedOf' = usedOf
    BY <1>1 DEF phaseOf, fleetOf, usedOf, InstancesOf, Live
  <1>3. \E S \in SUBSET Claims : disturbed' = disturbed \cup S
    BY DEF Crash
  <1>4. QED  BY <1>2, <1>3 DEF Contract!LoseTrack

\* One step of a Create call.
LEMMA CreatingStep ==
  ASSUME IInv, NEW c \in Claims, Creating(c)
  PROVE  [Contract!Next]_(Contract!vars)
  <1> USE DEF IInv, TypeOK
  <1>1. CASE \/ LaunchRefused(c) \/ WorkRequestSucceeded(c) \/ WorkRequestFailed(c)
             \/ LaunchTimeout(c) \/ CleanupDone(c) \/ CleanupFails(c) \/ CreateReturns(c)
    <2>1. UNCHANGED <<claim, graceful, disturbed, owner, state>>
      BY <1>1 DEF LaunchRefused, WorkRequestSucceeded, WorkRequestFailed, LaunchTimeout,
                  CleanupDone, CleanupFails, CreateReturns, claimVars, ociVars, history
    <2>2. QED  BY <2>1, Stutters
  <1>2. CASE \E i \in Instances : LaunchAccepted(c, i) \/ LaunchUnconfirmed(c, i)
    <2>1. PICK i \in Instances : LaunchAccepted(c, i) \/ LaunchUnconfirmed(c, i)
      BY <1>2
    <2>2. /\ Launches(c, i) /\ UNCHANGED graceful
          /\ disturbed' \in {disturbed, disturbed \cup {c}}
      BY <2>1 DEF LaunchAccepted, LaunchUnconfirmed, history
    <2>3. Contract!Launch(c, i)
      BY <2>2, LaunchStep
    <2>4. QED  BY <2>3 DEF Contract!Next
  <1>3. CASE LaunchTimeoutCleanup(c)
    <2>1. hand[c] \in Instances
      BY <1>3, LifecycleAssumption DEF LaunchTimeoutCleanup, HandProtocol
    <2>2. UNCHANGED <<claim, graceful, disturbed, owner>>
      BY <1>3 DEF LaunchTimeoutCleanup, claimVars, history
    <2>3. CASE Live(hand[c]) /\ state' = [state EXCEPT ![hand[c]] = "terminating"]
      <3>1. \E d \in Claims : Contract!End(d, hand[c])
        BY <2>1, <2>2, <2>3, Ends
      <3>2. QED  BY <2>1, <3>1 DEF Contract!Next
    <2>4. CASE UNCHANGED state
      BY <2>2, <2>4, Stutters
    <2>5. QED  BY <1>3, <2>3, <2>4 DEF LaunchTimeoutCleanup
  <1>4. QED  BY <1>1, <1>2, <1>3 DEF Creating

\* Every step of the provider, core Karpenter or OCI is a step of the contract, or
\* one that it does not see.
LEMMA ContractStep ==
  ASSUME IInv, [Next]_vars
  PROVE  [Contract!Next]_(Contract!vars)
  <1> USE DEF IInv, TypeOK
  <1>1. ASSUME NEW i \in Instances, Live(i), state' = [state EXCEPT ![i] = "terminating"],
               UNCHANGED <<claim, graceful, disturbed, owner>>
        PROVE  Contract!Next
    BY <1>1, Ends DEF Contract!Next
  <1>2. ASSUME NEW c \in Claims, Core(c) PROVE [Contract!Next]_(Contract!vars)
    <2>1. CASE CreateClaim(c) \/ DeleteClaim(c) \/ ForceRemove(c)
      BY <2>1, RequestStep DEF Contract!Next
    <2>2. CASE StartCreate(c)
      <3>1. UNCHANGED <<claim, graceful, disturbed, owner, state>>
        BY <2>2 DEF StartCreate, claimVars, ociVars, history
      <3>2. QED  BY <3>1, Stutters
    <2>3. QED  BY <1>2, <2>1, <2>2 DEF Core
  <1>3. ASSUME NEW c \in Claims, Deleting(c) PROVE [Contract!Next]_(Contract!vars)
    <2>1. CASE DeleteInstance(c)
      <3>1. /\ pid[c] \in Instances /\ Live(pid[c])
            /\ state' = [state EXCEPT ![pid[c]] = "terminating"]
            /\ UNCHANGED <<claim, graceful, disturbed, owner>>
        BY <2>1 DEF DeleteInstance, claimVars, history
      <3>2. QED  BY <3>1, <1>1
    <2>2. CASE DeleteNotFound(c) \/ DeleteNotAuthorized(c)
      BY <2>2, FinalizeStep DEF Contract!Next
    <2>3. QED  BY <1>3, <2>1, <2>2 DEF Deleting
  <1>4. ASSUME NEW i \in Instances, Compute(i) PROVE [Contract!Next]_(Contract!vars)
    <2>1. UNCHANGED <<claim, graceful, disturbed, owner>>
      BY <1>4 DEF Compute, Provisioned, InstanceLost, Terminated, GrowsOld, claimVars, history
    <2>2. CASE InstanceLost(i)
      BY <2>1, <2>2, <1>1 DEF InstanceLost
    <2>3. CASE Provisioned(i) \/ Terminated(i) \/ GrowsOld(i)
      <3>1. \A j \in Instances : state'[j] # state[j] =>
               \/ state[j] = "provisioning" /\ state'[j] = "running"
               \/ state[j] = "terminating" /\ state'[j] = "terminated"
        BY <2>3 DEF Provisioned, Terminated, GrowsOld
      <3>2. QED  BY <2>1, <3>1, Stutters
    <2>4. QED  BY <1>4, <2>2, <2>3 DEF Compute
  <1>5. CASE Orphan
    <2>1. UNCHANGED <<claim, graceful, disturbed, owner>>
      BY <1>5 DEF Orphan, OrphanSnapshot, OrphanList, OrphanSkip, OrphanReclaim, OrphanDone,
                  claimVars, ociVars, history
    <2>2. CASE \E i \in Instances : OrphanReclaim(i)
      BY <2>1, <2>2, <1>1 DEF OrphanReclaim
    <2>3. CASE UNCHANGED state
      BY <2>1, <2>3, Stutters
    <2>4. QED
      BY <1>5, <2>2, <2>3 DEF Orphan, OrphanSnapshot, OrphanList, OrphanSkip, OrphanDone, ociVars
  <1>6. CASE WarmUp \/ UNCHANGED vars
    <2>1. UNCHANGED <<claim, graceful, disturbed, owner, state>>
      BY <1>6 DEF WarmUp, vars, claimVars, ociVars, history
    <2>2. QED  BY <2>1, Stutters
  <1>7. CASE Crash
    BY <1>7, CrashStep DEF Contract!Next
  <1>8. QED
    BY <1>2, <1>3, <1>4, <1>5, <1>6, <1>7, CreatingStep DEF Next

\* Create, Delete, the orphan controller and restarts implement the contract: at
\* most one machine per claim, launched once, and a claim let go only without one,
\* unless the provider has lost track of it.
THEOREM ImplementsClaimContract == Spec => ImplementsContract
  <1>1. Init => Contract!Init
    <2> SUFFICES ASSUME Init PROVE Contract!Init
      OBVIOUS
    <2>1. phaseOf = [c \in Claims |-> "absent"]
      BY DEF Init, phaseOf
    <2>2. fleetOf = [c \in Claims |-> {}]
      BY DEF Init, fleetOf, InstancesOf, Live
    <2>3. usedOf = {}
      BY DEF Init, usedOf
    <2>4. QED  BY <2>1, <2>2, <2>3 DEF Init, Contract!Init
  <1>2. IInv /\ [Next]_vars => [Contract!Next]_(Contract!vars)
    BY ContractStep
  <1>3. Spec => []IInv
    BY IInvHolds
  <1>4. QED  BY <1>1, <1>2, <1>3, PTL DEF Spec, ImplementsContract, Contract!Spec

=============================================================================
