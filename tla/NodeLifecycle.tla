--------------------------- MODULE NodeLifecycle ----------------------------
(***************************************************************************)
(* The life of a NodeClaim and of the OCI instances launched for it.       *)
(*                                                                         *)
(* Modelled from src/: CloudProvider.Create, Delete and the warm-up loop   *)
(* (pkg/cloudprovider/cloud_provider.go), the instance provider's launch,  *)
(* its time-out failover and DeleteInstance                                *)
(* (pkg/providers/instance/provider.go), the retry loop of PlaceInstance,  *)
(* and the orphan-instance controller                                      *)
(* (pkg/controllers/orphaninstance/controller.go).                         *)
(*                                                                         *)
(* External, modelled from how src/ uses them: core Karpenter, which calls *)
(* Create and Delete for one claim at a time, writes the ProviderID Create *)
(* returned and drops the finalizer when Delete says NotFound; and the OCI *)
(* compute service, which provisions, preempts and terminates.             *)
(***************************************************************************)
EXTENDS Naturals, FiniteSets

CONSTANTS
  Claims,       \* NodeClaim names; a name is never used twice
  Instances,    \* OCIDs the compute service can hand out
  MaxAttempts,  \* bound: proposals x instance types one Create call tries
  MaxCrashes,   \* bound: restarts of the controller process
  FailOver,     \* the launch-timeout-failover option
  SlowLaunch,   \* launches and orphan passes may outlast creationTimeThreshold
  None

ASSUME LifecycleAssumption ==
  /\ MaxAttempts \in Nat \ {0} /\ MaxCrashes \in Nat
  /\ FailOver \in BOOLEAN /\ SlowLaunch \in BOOLEAN
  /\ None \notin Claims \cup Instances

VARIABLES
  claim,        \* phase of each NodeClaim object in the API server
  pid,          \* its status.providerID
  pc,           \* where the Create call for the claim is
  hand,         \* the instance that call has launched
  tries,        \* attempts of the call that have failed
  state,        \* lifecycle state of each instance
  owner,        \* displayName tag: the claim an instance was launched for
  aged,         \* the instance is older than creationTimeThreshold
  initialized,  \* CloudProvider.initialized
  opc,          \* orphan controller: "idle", "snapshot" taken or "listed"
  snap,         \* nameToNodeClaims
  snapPid,      \* providerIdToClaims, by claim
  listed,       \* instances of cloudProvider.List still to be examined
  crashes,      \* restarts so far
  disturbed,    \* history: claims for which a launch went unrecorded, or a
                \* live instance was reported NotFound
  graceful,     \* history: claims that went by the finalizer's path
  reclaimedBlind, reclaimedKnown
                \* history: instances the orphan controller deleted while its
                \* snapshot lacked, or had, the claim they were launched for

claimVars  == <<claim, pid>>
createVars == <<pc, hand, tries>>
ociVars    == <<state, owner, aged>>
orphanVars == <<opc, snap, snapPid, listed>>
reclaimed  == <<reclaimedBlind, reclaimedKnown>>
history    == <<disturbed, graceful, reclaimed>>
vars == <<claimVars, createVars, ociVars, initialized, orphanVars, crashes, history>>

Phase     == {"absent", "live", "deleting", "gone"}
Lifecycle == {"unused", "provisioning", "running", "terminating", "terminated"}
Location  == {"idle", "attempt", "poll", "cleanup", "return"}

TypeOK ==
  /\ claim \in [Claims -> Phase]
  /\ pid \in [Claims -> Instances \cup {None}]
  /\ pc \in [Claims -> Location]
  /\ hand \in [Claims -> Instances \cup {None}]
  /\ tries \in [Claims -> 0..MaxAttempts]
  /\ state \in [Instances -> Lifecycle]
  /\ owner \in [Instances -> Claims \cup {None}]
  /\ aged \in SUBSET Instances
  /\ initialized \in BOOLEAN
  /\ opc \in {"idle", "snapshot", "listed"}
  /\ snap \in SUBSET Claims
  /\ snapPid \in [Claims -> Instances \cup {None}]
  /\ listed \in SUBSET Instances
  /\ crashes \in 0..MaxCrashes
  /\ disturbed \in SUBSET Claims
  /\ graceful \in SUBSET Claims
  /\ reclaimedBlind \in SUBSET Instances
  /\ reclaimedKnown \in SUBSET Instances

Init ==
  /\ claim = [c \in Claims |-> "absent"]
  /\ pid = [c \in Claims |-> None]
  /\ pc = [c \in Claims |-> "idle"]
  /\ hand = [c \in Claims |-> None]
  /\ tries = [c \in Claims |-> 0]
  /\ state = [i \in Instances |-> "unused"]
  /\ owner = [i \in Instances |-> None]
  /\ aged = {}
  /\ initialized = FALSE
  /\ opc = "idle"
  /\ snap = {}
  /\ snapPid = [c \in Claims |-> None]
  /\ listed = {}
  /\ crashes = 0
  /\ disturbed = {}
  /\ graceful = {}
  /\ reclaimedBlind = {}
  /\ reclaimedKnown = {}

Live(i) == state[i] \in {"provisioning", "running"}

-----------------------------------------------------------------------------
(* NodeClaim objects: core Karpenter and users *)

CreateClaim(c) ==
  /\ claim[c] = "absent"
  /\ claim' = [claim EXCEPT ![c] = "live"]
  /\ UNCHANGED <<pid, createVars, ociVars, initialized, orphanVars, crashes, history>>

\* Scale-down, expiry, drift, or an InsufficientCapacityError from Create.
DeleteClaim(c) ==
  /\ claim[c] = "live"
  /\ claim' = [claim EXCEPT ![c] = "deleting"]
  /\ UNCHANGED <<pid, createVars, ociVars, initialized, orphanVars, crashes, history>>

\* "someone manually remove the finalizer of a node claim then delete it".
ForceRemove(c) ==
  /\ claim[c] \in {"live", "deleting"}
  /\ claim' = [claim EXCEPT ![c] = "gone"]
  /\ UNCHANGED <<pid, createVars, ociVars, initialized, orphanVars, crashes, history>>

-----------------------------------------------------------------------------
(* CloudProvider.Create *)

\* Create is refused until the placement cache has been warmed up; core calls
\* it for claims without a ProviderID, one call per claim at a time.
StartCreate(c) ==
  /\ initialized
  /\ claim[c] = "live" /\ pid[c] = None /\ pc[c] = "idle"
  /\ pc' = [pc EXCEPT ![c] = "attempt"]
  /\ UNCHANGED <<claimVars, hand, tries, ociVars, initialized, orphanVars, crashes, history>>

\* Mutant of AttemptFails: one proposal too many.
AttemptFailsLate(c) ==
  /\ \E next \in {"attempt", "idle"} :
       /\ next = "attempt" => tries[c] <= MaxAttempts
       /\ pc' = [pc EXCEPT ![c] = next]
       /\ tries' = [tries EXCEPT ![c] = IF next = "attempt" THEN @ + 1 ELSE 0]
  /\ hand' = [hand EXCEPT ![c] = None]

\* LaunchInstance returned an error: PlaceInstance goes on to the next proposal
\* and Create, if the error is skippable, to the next instance type; or Create
\* returns the error.
AttemptFails(c) ==
  /\ \E next \in {"attempt", "idle"} :
       /\ next = "attempt" => tries[c] + 1 < MaxAttempts
       /\ pc' = [pc EXCEPT ![c] = next]
       /\ tries' = [tries EXCEPT ![c] = IF next = "attempt" THEN @ + 1 ELSE 0]
  /\ hand' = [hand EXCEPT ![c] = None]

LaunchRefused(c) ==
  /\ pc[c] = "attempt"
  /\ AttemptFails(c)
  /\ UNCHANGED <<claimVars, ociVars, initialized, orphanVars, crashes, history>>

\* Mutant of Launches: a repeated request is answered with an instance that has ended.
LaunchesAgain(c, i) ==
  /\ pc[c] = "attempt"
  /\ state[i] = "unused" \/ (state[i] = "terminated" /\ owner[i] = c)
  /\ state' = [state EXCEPT ![i] = "provisioning"]
  /\ owner' = [owner EXCEPT ![i] = c]
  /\ UNCHANGED <<claimVars, aged, initialized, orphanVars, crashes>>

\* computeClient.LaunchInstance made a new instance named after the claim.
Launches(c, i) ==
  /\ pc[c] = "attempt"
  /\ state[i] = "unused"
  /\ state' = [state EXCEPT ![i] = "provisioning"]
  /\ owner' = [owner EXCEPT ![i] = c]
  /\ UNCHANGED <<claimVars, aged, initialized, orphanVars, crashes>>

LaunchAccepted(c, i) ==
  /\ Launches(c, i)
  /\ pc' = [pc EXCEPT ![c] = "poll"]
  /\ hand' = [hand EXCEPT ![c] = i]
  /\ UNCHANGED <<tries, history>>

\* The instance was made but the response is lost, or has no work request ID:
\* the attempt fails and nobody remembers the instance.
LaunchUnconfirmed(c, i) ==
  /\ Launches(c, i)
  /\ AttemptFails(c)
  /\ disturbed' = disturbed \cup {c}
  /\ UNCHANGED <<graceful, reclaimed>>

WorkRequestSucceeded(c) ==
  /\ pc[c] = "poll"
  /\ state[hand[c]] # "provisioning"
  /\ pc' = [pc EXCEPT ![c] = "return"]
  /\ UNCHANGED <<claimVars, hand, tries, ociVars, initialized, orphanVars, crashes, history>>

\* Failed, cancelled or cancelling: the compute service is getting rid of the
\* instance by itself.
WorkRequestFailed(c) ==
  /\ pc[c] = "poll"
  /\ state[hand[c]] \in {"terminating", "terminated"}
  /\ AttemptFails(c)
  /\ UNCHANGED <<claimVars, ociVars, initialized, orphanVars, crashes, history>>

\* The launch timer fires with the work request unfinished.  Without the failover
\* option, for bare metal, or when a boot volume is attached (or cannot be
\* listed), or when TerminateInstance is refused, the instance is returned.
LaunchTimeout(c) ==
  /\ pc[c] = "poll"
  /\ pc' = [pc EXCEPT ![c] = "return"]
  /\ UNCHANGED <<claimVars, hand, tries, ociVars, initialized, orphanVars, crashes, history>>

\* Mutant of LaunchTimeoutCleanup: on to the next attempt without the clean-up.
LaunchTimeoutAbandon(c) ==
  /\ FailOver
  /\ pc[c] = "poll"
  /\ AttemptFails(c)
  /\ UNCHANGED <<claimVars, ociVars, initialized, orphanVars, crashes, history>>

\* Otherwise DeleteInstance is called to clean up before the next attempt; the
\* accepted TerminateInstance may yet not go through.
LaunchTimeoutCleanup(c) ==
  /\ FailOver
  /\ pc[c] = "poll"
  /\ pc' = [pc EXCEPT ![c] = "cleanup"]
  /\ \/ /\ Live(hand[c])
        /\ state' = [state EXCEPT ![hand[c]] = "terminating"]
     \/ UNCHANGED state
  /\ UNCHANGED <<claimVars, hand, tries, owner, aged, initialized, orphanVars, crashes, history>>

\* DeleteInstance saw TERMINATED: NoCapacityError, on to the next attempt.
CleanupDone(c) ==
  /\ pc[c] = "cleanup"
  /\ state[hand[c]] = "terminated"
  /\ AttemptFails(c)
  /\ UNCHANGED <<claimVars, ociVars, initialized, orphanVars, crashes, history>>

\* DeleteInstance timed out, or one of its GetInstance polls failed: the
\* instance is returned as if launched.
CleanupFails(c) ==
  /\ pc[c] = "cleanup"
  /\ pc' = [pc EXCEPT ![c] = "return"]
  /\ UNCHANGED <<claimVars, hand, tries, ociVars, initialized, orphanVars, crashes, history>>

\* Create returns the instance and core writes its OCID into the claim's status,
\* if the claim still exists.
CreateReturns(c) ==
  /\ pc[c] = "return"
  /\ pid' = IF claim[c] \in {"live", "deleting"} THEN [pid EXCEPT ![c] = hand[c]] ELSE pid
  /\ pc' = [pc EXCEPT ![c] = "idle"]
  /\ hand' = [hand EXCEPT ![c] = None]
  /\ tries' = [tries EXCEPT ![c] = 0]
  /\ UNCHANGED <<claim, ociVars, initialized, orphanVars, crashes, history>>

-----------------------------------------------------------------------------
(* CloudProvider.Delete, called by core until it answers NodeClaimNotFound *)

\* GetInstance found the instance: TerminateInstance, then wait or time out.
DeleteInstance(c) ==
  /\ claim[c] = "deleting" /\ pc[c] = "idle" /\ pid[c] # None
  /\ Live(pid[c])
  /\ state' = [state EXCEPT ![pid[c]] = "terminating"]
  /\ UNCHANGED <<claimVars, createVars, owner, aged, initialized, orphanVars, crashes, history>>

\* Mutant of DeleteNotFound: an instance that is not running yet does not count.
DeleteNotFoundEarly(c) ==
  /\ claim[c] = "deleting" /\ pc[c] = "idle"
  /\ pid[c] # None => state[pid[c]] \in {"provisioning", "terminated"}
  /\ claim' = [claim EXCEPT ![c] = "gone"]
  /\ graceful' = graceful \cup {c}
  /\ UNCHANGED <<pid, createVars, ociVars, initialized, orphanVars, crashes, disturbed, reclaimed>>

\* Mutant of DeleteNotFound: a claim that never got a ProviderID is not let go.
DeleteNotFoundWithId(c) ==
  /\ claim[c] = "deleting" /\ pc[c] = "idle" /\ pid[c] # None
  /\ state[pid[c]] = "terminated"
  /\ claim' = [claim EXCEPT ![c] = "gone"]
  /\ graceful' = graceful \cup {c}
  /\ UNCHANGED <<pid, createVars, ociVars, initialized, orphanVars, crashes, disturbed, reclaimed>>

\* GetInstance says NotFound or TERMINATED (or there is no ProviderID to ask
\* for): NodeClaimNotFoundError, and core removes the finalizer.
DeleteNotFound(c) ==
  /\ claim[c] = "deleting" /\ pc[c] = "idle"
  /\ pid[c] # None => state[pid[c]] = "terminated"
  /\ claim' = [claim EXCEPT ![c] = "gone"]
  /\ graceful' = graceful \cup {c}
  /\ UNCHANGED <<pid, createVars, ociVars, initialized, orphanVars, crashes, disturbed, reclaimed>>

\* "oci does not differentiate not authorized or not found".
DeleteNotAuthorized(c) ==
  /\ claim[c] = "deleting" /\ pc[c] = "idle" /\ pid[c] # None
  /\ state[pid[c]] # "terminated"
  /\ claim' = [claim EXCEPT ![c] = "gone"]
  /\ graceful' = graceful \cup {c}
  /\ disturbed' = disturbed \cup {c}
  /\ UNCHANGED <<pid, createVars, ociVars, initialized, orphanVars, crashes, reclaimed>>

-----------------------------------------------------------------------------
(* Start-up and restart of the controller process *)

\* The goroutine of New: List succeeded once.
WarmUp ==
  /\ ~initialized
  /\ initialized' = TRUE
  /\ UNCHANGED <<claimVars, createVars, ociVars, orphanVars, crashes, history>>

\* The process dies, or shuts down and cancels its contexts.
Crash ==
  /\ crashes < MaxCrashes
  /\ crashes' = crashes + 1
  /\ disturbed' = disturbed \cup {c \in Claims : pc[c] \in {"poll", "cleanup", "return"}}
  /\ pc' = [c \in Claims |-> "idle"]
  /\ hand' = [c \in Claims |-> None]
  /\ tries' = [c \in Claims |-> 0]
  /\ initialized' = FALSE
  /\ opc' = "idle"
  /\ snap' = {}
  /\ snapPid' = [c \in Claims |-> None]
  /\ listed' = {}
  /\ UNCHANGED <<claimVars, ociVars, graceful, reclaimed>>

-----------------------------------------------------------------------------
(* The orphan-instance controller *)

\* nodeclaimutils.ListManaged, and the two maps built from it.
OrphanSnapshot ==
  /\ opc = "idle"
  /\ opc' = "snapshot"
  /\ snap' = {c \in Claims : claim[c] \in {"live", "deleting"}}
  /\ snapPid' = pid
  /\ UNCHANGED <<claimVars, createVars, ociVars, initialized, listed, crashes, history>>

\* cloudProvider.List: every instance not TERMINATED that a NodePool owns.
OrphanList ==
  /\ opc = "snapshot"
  /\ opc' = "listed"
  /\ listed' = {i \in Instances : state[i] \notin {"unused", "terminated"}}
  /\ UNCHANGED <<claimVars, createVars, ociVars, initialized, snap, snapPid, crashes, history>>

\* Mutant of ShouldReclaim: the look-up by ProviderID is missing.
ShouldReclaimByName(i) ==
  \/ owner[i] \notin snap
  \/ snapPid[owner[i]] # None
  \/ i \in aged

\* Mutant of ShouldReclaim: an instance without a claim of its name is let be.
ShouldReclaimNamed(i) ==
  /\ ~ \E c \in snap : snapPid[c] = i
  /\ owner[i] \in snap
  /\ snapPid[owner[i]] # None \/ i \in aged

\* The test of Reconcile: by ProviderID first, then by name.
ShouldReclaim(i) ==
  /\ ~ \E c \in snap : snapPid[c] = i
  /\ \/ owner[i] \notin snap
     \/ snapPid[owner[i]] # None
     \/ i \in aged

\* Nothing to reclaim; or the node is still draining, or a call failed, and the
\* instance is left to a later pass.
OrphanSkip(i) ==
  /\ opc = "listed" /\ i \in listed
  /\ listed' = listed \ {i}
  /\ UNCHANGED <<claimVars, createVars, ociVars, initialized, opc, snap, snapPid, crashes, history>>

\* reclaim: the node is drained or there is none, and CloudProvider.Delete
\* terminates the instance.
OrphanReclaim(i) ==
  /\ opc = "listed" /\ i \in listed
  /\ ShouldReclaim(i)
  /\ listed' = listed \ {i}
  /\ Live(i)
  /\ state' = [state EXCEPT ![i] = "terminating"]
  /\ IF owner[i] \in snap
     THEN reclaimedKnown' = reclaimedKnown \cup {i} /\ UNCHANGED reclaimedBlind
     ELSE reclaimedBlind' = reclaimedBlind \cup {i} /\ UNCHANGED reclaimedKnown
  /\ UNCHANGED <<claimVars, createVars, owner, aged, initialized, opc, snap, snapPid,
                 crashes, disturbed, graceful>>

OrphanDone ==
  /\ opc = "listed" /\ listed = {}
  /\ opc' = "idle"
  /\ snap' = {}
  /\ snapPid' = [c \in Claims |-> None]
  /\ UNCHANGED <<claimVars, createVars, ociVars, initialized, listed, crashes, history>>

-----------------------------------------------------------------------------
(* The OCI compute service *)

Provisioned(i) ==
  /\ state[i] = "provisioning"
  /\ state' = [state EXCEPT ![i] = "running"]
  /\ UNCHANGED <<claimVars, createVars, owner, aged, initialized, orphanVars, crashes, history>>

\* Provisioning fails, or a preemptible instance is taken away.
InstanceLost(i) ==
  /\ Live(i)
  /\ state' = [state EXCEPT ![i] = "terminating"]
  /\ UNCHANGED <<claimVars, createVars, owner, aged, initialized, orphanVars, crashes, history>>

Terminated(i) ==
  /\ state[i] = "terminating"
  /\ state' = [state EXCEPT ![i] = "terminated"]
  /\ UNCHANGED <<claimVars, createVars, owner, aged, initialized, orphanVars, crashes, history>>

\* The instance becomes older than creationTimeThreshold (one hour).  A VM launch
\* is given up after five minutes and a pass takes minutes, so unless SlowLaunch
\* holds (bare metal: the launch time-out is one hour as well) this happens
\* neither during the launch nor during a pass.
GrowsOld(i) ==
  /\ Live(i) /\ i \notin aged
  /\ SlowLaunch \/ (opc = "idle" /\ \A c \in Claims : hand[c] # i)
  /\ aged' = aged \cup {i}
  /\ UNCHANGED <<claimVars, createVars, state, owner, initialized, orphanVars, crashes, history>>

-----------------------------------------------------------------------------
Core(c) == CreateClaim(c) \/ DeleteClaim(c) \/ ForceRemove(c) \/ StartCreate(c)

\* The steps of a Create call that has begun.
Creating(c) ==
  \/ LaunchRefused(c)
  \/ \E i \in Instances : LaunchAccepted(c, i) \/ LaunchUnconfirmed(c, i)
  \/ WorkRequestSucceeded(c)
  \/ WorkRequestFailed(c)
  \/ LaunchTimeout(c)
  \/ LaunchTimeoutCleanup(c)
  \/ CleanupDone(c)
  \/ CleanupFails(c)
  \/ CreateReturns(c)

Deleting(c) == DeleteInstance(c) \/ DeleteNotFound(c) \/ DeleteNotAuthorized(c)

Orphan ==
  \/ OrphanSnapshot
  \/ OrphanList
  \/ \E i \in Instances : OrphanSkip(i) \/ OrphanReclaim(i)
  \/ OrphanDone

Compute(i) == Provisioned(i) \/ InstanceLost(i) \/ Terminated(i) \/ GrowsOld(i)

Next ==
  \/ \E c \in Claims : Core(c) \/ Creating(c) \/ Deleting(c)
  \/ \E i \in Instances : Compute(i)
  \/ WarmUp
  \/ Crash
  \/ Orphan

Spec == Init /\ [][Next]_vars

\* Core calls Delete again until it is told NotFound; a started Create call goes
\* on; termination completes; time passes; the orphan controller requeues itself
\* after every pass, its List call succeeds again and again, and an instance it
\* examines over and over is not skipped for ever.
FairSpec ==
  /\ Spec
  /\ \A c \in Claims : WF_vars(Creating(c)) /\ WF_vars(Deleting(c))
  /\ \A i \in Instances :
       /\ WF_vars(Terminated(i))
       /\ SF_vars(GrowsOld(i))
       /\ SF_vars(OrphanReclaim(i))
  /\ WF_vars(Orphan)

-----------------------------------------------------------------------------
(* Properties *)

InstancesOf(c) == {i \in Instances : owner[i] = c /\ Live(i)}

\* instanceInProvisioningOrPlacementTimeOut "must clean up existing instance to
\* avoid launching multiple instances against a single nodeClaim": whatever
\* mixture of failed, timed-out and cleaned-up attempts Create goes through, and
\* however often core calls it again, a claim has at most one live instance,
\* unless a launch was lost by a restart or an unusable response.
AtMostOneInstance ==
  \A c \in Claims \ disturbed : \A i, j \in InstancesOf(c) : i = j

\* A claim that went through its finalizer has no instance left running, unless
\* a launch was lost or OCI said NotFound of a live instance.
GracefulDeleteLeavesNothing ==
  \A c \in graceful \ disturbed : InstancesOf(c) = {}

\* What the contract sees of claims and instances.
phaseOf == [c \in Claims |-> IF c \in graceful THEN "finalized" ELSE claim[c]]
fleetOf == [c \in Claims |-> InstancesOf(c)]
usedOf  == {i \in Instances : state[i] # "unused"}

Contract == INSTANCE ClaimContract
              WITH phase <- phaseOf, fleet <- fleetOf, used <- usedOf, lost <- disturbed

\* Create, Delete, the orphan controller and the restarts between them, with all
\* their retries and time-outs, implement the contract: every step of theirs is one
\* of its steps or changes nothing it talks about.
ImplementsContract == Contract!Spec

\* Reconcile's case 1, "there is no node claim with the same name": the orphan
\* controller never deletes the instance of a NodeClaim that is in service.
ReclaimsOnlyOrphans ==
  \A c \in Claims : claim[c] = "live" => pid[c] \notin reclaimedBlind \cup reclaimedKnown

\* What the code does ensure while launches and passes are shorter than the
\* threshold: an instance of a claim that was in the snapshot is never deleted
\* from under it, however the launch, the status update and the pass interleave.
KnownClaimsKeepTheirInstance ==
  \A c \in Claims : claim[c] = "live" => pid[c] \notin reclaimedKnown

\* An instance that no claim has or will have as its ProviderID.
Orphaned(i) ==
  /\ Live(i)
  /\ \A c \in Claims : hand[c] # i /\ (claim[c] # "gone" => pid[c] # i)

\* Every orphan, whether its claim is gone, was launched a second time or is
\* still waiting for a launch, is eventually terminated.
OrphansReclaimed == \A i \in Instances : Orphaned(i) ~> ~Live(i)

\* A claim that is being deleted is eventually finalized.
DeletionCompletes == \A c \in Claims : claim[c] = "deleting" ~> claim[c] = "gone"

=============================================================================
