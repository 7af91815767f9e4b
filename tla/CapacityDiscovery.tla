-------------------------- MODULE CapacityDiscovery -------------------------
(***************************************************************************)
(* pkg/controllers/capacitydiscovery and pkg/providers/capacitydiscovery:  *)
(* the memory that registered nodes report replaces the estimate for later *)
(* launches of the same instance type and image.                           *)
(*                                                                         *)
(* A Node is queued when it registers, when an event of its NodeClaim      *)
(* arrives, when a RequeueAfter timer fires, and after a restart.  Node,   *)
(* NodeClaim and their pairing by provider ID are what the informers show: *)
(* the controller reads nothing else.  The three are written separately,   *)
(* in any order, and only one worker reconciles.                           *)
(***************************************************************************)
EXTENDS Integers, FiniteSets

CONSTANTS
  Nodes,
  Keys,        \* instance type and image (cacheKey)
  Memory,      \* the memory a node has
  MaxCrashes,  \* bound: restarts
  None

ASSUME DiscoveryAssumption ==
  /\ Memory \in [Nodes -> Nat]
  /\ MaxCrashes \in Nat
  /\ None \notin Keys \cup Nat

VARIABLES
  key,        \* of each node, or None without the label or the NodeClaim's ImageID
  node,       \* "joined" (no registered label yet), "registered" or "gone"
  identified, \* nodes with a spec.providerID
  reporting,  \* nodes that have published their memory capacity
  claim,      \* "launching", "paired" (status.providerID written) or "removed"
  queue,      \* nodes due for Reconcile
  timers,     \* nodes with a RequeueAfter pending
  firstMiss,  \* missTracker: None, "recent", or "old" once the window has passed
  measured,   \* nodeCapacity: the memory measured for each key, or None
  crashes,
  seen,       \* history: nodes recorded since the key's entry was made
  learned,    \* history: nodes recorded since the process started
  dropped     \* history: nodes given up while they had no spec.providerID

nodeVars == <<key, node, identified, reporting, claim>>
workVars == <<queue, timers>>
history  == <<learned, dropped>>
vars == <<nodeVars, workVars, firstMiss, measured, crashes, seen, history>>

TypeOK ==
  /\ key \in [Nodes -> Keys \cup {None}]
  /\ node \in [Nodes -> {"joined", "registered", "gone"}]
  /\ identified \in SUBSET Nodes /\ reporting \in SUBSET Nodes
  /\ claim \in [Nodes -> {"launching", "paired", "removed"}]
  /\ queue \in SUBSET Nodes /\ timers \in SUBSET Nodes
  /\ firstMiss \in [Nodes -> {None, "recent", "old"}]
  /\ measured \in [Keys -> Nat \cup {None}]
  /\ crashes \in 0..MaxCrashes
  /\ seen \in [Keys -> SUBSET Nodes]
  /\ learned \in SUBSET Nodes /\ dropped \in SUBSET Nodes

Init ==
  /\ key \in [Nodes -> Keys \cup {None}]
  /\ node = [n \in Nodes |-> "joined"]
  /\ identified = {} /\ reporting = {}
  /\ claim = [n \in Nodes |-> "launching"]
  /\ queue = {} /\ timers = {}
  /\ firstMiss = [n \in Nodes |-> None]
  /\ measured = [k \in Keys |-> None]
  /\ crashes = 0
  /\ seen = [k \in Keys |-> {}]
  /\ learned = {} /\ dropped = {}

Present(n) == node[n] # "gone"

\* nodeutils.NodeClaimForNode finds exactly one NodeClaim.
Paired(n) == n \in identified /\ claim[n] = "paired"

-----------------------------------------------------------------------------
(* The cluster: kubelet, cloud controller and core Karpenter *)

\* Core labels the node, with the NodeClass label that makes it a managed node;
\* this is the one update of a Node that the predicate lets through.
NodeRegisters(n) ==
  /\ node[n] = "joined"
  /\ node' = [node EXCEPT ![n] = "registered"]
  /\ queue' = queue \cup {n}
  /\ UNCHANGED <<key, identified, reporting, claim, timers, firstMiss, measured, crashes, seen, history>>

NodeIdentified(n) ==
  /\ Present(n) /\ n \notin identified
  /\ identified' = identified \cup {n}
  /\ UNCHANGED <<key, node, reporting, claim, workVars, firstMiss, measured, crashes, seen, history>>

MemoryReported(n) ==
  /\ Present(n) /\ n \notin reporting
  /\ reporting' = reporting \cup {n}
  /\ UNCHANGED <<key, node, identified, claim, workVars, firstMiss, measured, crashes, seen, history>>

NodeRemoved(n) ==
  /\ Present(n)
  /\ node' = [node EXCEPT ![n] = "gone"]
  /\ identified' = identified \ {n}
  /\ reporting' = reporting \ {n}
  /\ UNCHANGED <<key, claim, workVars, firstMiss, measured, crashes, seen, history>>

\* Mutant of NodeClaimEvent: NodeClaims are not watched.
NodeClaimIgnored(n) == UNCHANGED queue

\* nodeutils.NodeClaimEventHandler: the nodes with the claim's provider ID.
NodeClaimEvent(n) ==
  queue' = IF n \in identified THEN queue \cup {n} ELSE queue

\* ProviderID and ImageID are written in one status update.
ClaimPaired(n) ==
  /\ claim[n] = "launching"
  /\ claim' = [claim EXCEPT ![n] = "paired"]
  /\ NodeClaimEvent(n)
  /\ UNCHANGED <<key, node, identified, reporting, timers, firstMiss, measured, crashes, seen, history>>

ClaimTouched(n) ==
  /\ claim[n] = "paired"
  /\ NodeClaimEvent(n)
  /\ UNCHANGED <<nodeVars, timers, firstMiss, measured, crashes, seen, history>>

ClaimRemoved(n) ==
  /\ claim[n] = "paired"
  /\ claim' = [claim EXCEPT ![n] = "removed"]
  /\ NodeClaimEvent(n)
  /\ UNCHANGED <<key, node, identified, reporting, timers, firstMiss, measured, crashes, seen, history>>

-----------------------------------------------------------------------------
(* Reconcile *)

\* The node is not there any more, or is not (yet) managed.
ReconcileIgnores(n) ==
  /\ n \in queue /\ node[n] # "registered"
  /\ queue' = queue \ {n}
  /\ UNCHANGED <<nodeVars, timers, firstMiss, measured, crashes, seen, history>>

\* missTracker.firstMiss: when the claim was first missing, now if not before.
FirstMiss(n) == IF firstMiss[n] = None THEN "recent" ELSE firstMiss[n]

\* missTracker.forget: the next miss starts a fresh window.
Forget(n) == firstMiss' = [firstMiss EXCEPT ![n] = None]

\* requeueForMissingNodeClaim within the window.
ReconcileAwaitsClaim(n) ==
  /\ n \in queue /\ node[n] = "registered" /\ ~Paired(n)
  /\ FirstMiss(n) = "recent"
  /\ firstMiss' = [firstMiss EXCEPT ![n] = FirstMiss(n)]
  /\ queue' = queue \ {n}
  /\ timers' = timers \cup {n}
  /\ UNCHANGED <<nodeVars, measured, crashes, seen, history>>

\* Mutant of ReconcileGivesUp: the window is measured anew by every miss.
ReconcileStartsOver(n) ==
  /\ n \in queue /\ node[n] = "registered" /\ ~Paired(n)
  /\ FirstMiss(n) = "old"
  /\ firstMiss' = [firstMiss EXCEPT ![n] = "recent"]
  /\ queue' = queue \ {n}
  /\ timers' = timers \cup {n}
  /\ UNCHANGED <<nodeVars, measured, crashes, seen, history>>

\* ... and past it.  The record stays, so that a later pass gives up as well.
ReconcileGivesUp(n) ==
  /\ n \in queue /\ node[n] = "registered" /\ ~Paired(n)
  /\ FirstMiss(n) = "old"
  /\ queue' = queue \ {n}
  /\ dropped' = IF n \in identified THEN dropped ELSE dropped \cup {n}
  /\ UNCHANGED <<nodeVars, timers, firstMiss, measured, crashes, seen, learned>>

\* ErrCapacityNotReported.
ReconcileAwaitsMemory(n) ==
  /\ n \in queue /\ node[n] = "registered" /\ Paired(n)
  /\ key[n] # None /\ n \notin reporting
  /\ Forget(n)
  /\ queue' = queue \ {n}
  /\ timers' = timers \cup {n}
  /\ UNCHANGED <<nodeVars, measured, crashes, seen, history>>

\* Mutant of Record: the last value wins.
RecordLast(k, m) == measured' = [measured EXCEPT ![k] = m]

\* nodeCapacity.Record, under its mutex.
Record(k, m) ==
  measured' = [measured EXCEPT ![k] = IF @ # None /\ m > @ THEN @ ELSE m]

ReconcileRecords(n) ==
  /\ n \in queue /\ node[n] = "registered" /\ Paired(n)
  /\ key[n] # None /\ n \in reporting
  /\ Forget(n)
  /\ queue' = queue \ {n}
  /\ Record(key[n], Memory[n])
  /\ seen' = [seen EXCEPT ![key[n]] = @ \cup {n}]
  /\ learned' = learned \cup {n}
  /\ UNCHANGED <<nodeVars, timers, crashes, dropped>>

\* Nothing to key the measurement on.
ReconcileSkips(n) ==
  /\ n \in queue /\ node[n] = "registered" /\ Paired(n)
  /\ key[n] = None
  /\ Forget(n)
  /\ queue' = queue \ {n}
  /\ UNCHANGED <<nodeVars, timers, measured, crashes, seen, history>>

Reconcile(n) ==
  \/ ReconcileIgnores(n)
  \/ ReconcileAwaitsClaim(n) \/ ReconcileGivesUp(n)
  \/ ReconcileAwaitsMemory(n)
  \/ ReconcileRecords(n) \/ ReconcileSkips(n)

-----------------------------------------------------------------------------
(* Time and restarts *)

RequeueAfter(n) ==
  /\ n \in timers
  /\ timers' = timers \ {n}
  /\ queue' = queue \cup {n}
  /\ UNCHANGED <<nodeVars, firstMiss, measured, crashes, seen, history>>

\* nodeClaimLookupWindow passes.
WindowPasses(n) ==
  /\ firstMiss[n] = "recent"
  /\ firstMiss' = [firstMiss EXCEPT ![n] = "old"]
  /\ UNCHANGED <<nodeVars, workVars, measured, crashes, seen, history>>

\* The record expires after twice the window: minutes after the last retry, which
\* follows the one before in seconds.
MissLapses(n) ==
  /\ firstMiss[n] = "old" /\ n \notin queue \cup timers
  /\ firstMiss' = [firstMiss EXCEPT ![n] = None]
  /\ UNCHANGED <<nodeVars, workVars, measured, crashes, seen, history>>

\* The TTL of the measurement.
MeasurementExpires(k) ==
  /\ measured[k] # None
  /\ measured' = [measured EXCEPT ![k] = None]
  /\ seen' = [seen EXCEPT ![k] = {}]
  /\ UNCHANGED <<nodeVars, workVars, firstMiss, crashes, history>>

\* The caches are empty; the informers replay every registered node.
Crash ==
  /\ crashes < MaxCrashes
  /\ crashes' = crashes + 1
  /\ queue' = {n \in Nodes : node[n] = "registered"} /\ timers' = {}
  /\ firstMiss' = [n \in Nodes |-> None]
  /\ measured' = [k \in Keys |-> None]
  /\ seen' = [k \in Keys |-> {}]
  /\ learned' = {} /\ dropped' = {}
  /\ UNCHANGED nodeVars

Cluster(n) ==
  \/ NodeRegisters(n) \/ NodeIdentified(n) \/ MemoryReported(n)
  \/ NodeRemoved(n)
  \/ ClaimPaired(n) \/ ClaimTouched(n) \/ ClaimRemoved(n)

Next ==
  \/ \E n \in Nodes : Cluster(n) \/ Reconcile(n)
                      \/ RequeueAfter(n) \/ WindowPasses(n) \/ MissLapses(n)
  \/ \E k \in Keys : MeasurementExpires(k)
  \/ Crash

Spec == Init /\ [][Next]_vars

\* The worker empties its queue, timers fire and time passes; nothing is assumed
\* of the cluster.
FairSpec ==
  /\ Spec
  /\ \A n \in Nodes :
       WF_vars(Reconcile(n)) /\ WF_vars(RequeueAfter(n)) /\ WF_vars(WindowPasses(n))

-----------------------------------------------------------------------------
(* Properties *)

\* Record keeps "the smallest value seen": what is served for a key is
\* the least memory of the nodes recorded for it since the entry was made, in
\* whatever order they registered, were retried or were touched again; without
\* such a node it serves nothing.
SmallestIsServed ==
  \A k \in Keys :
    /\ measured[k] = None <=> seen[k] = {}
    /\ \A n \in seen[k] : measured[k] <= Memory[n]
    /\ seen[k] # {} => \E n \in seen[k] : measured[k] = Memory[n]

\* A registered node from which something can be learned.
Teachable(n) ==
  /\ node[n] = "registered" /\ Paired(n)
  /\ key[n] # None /\ n \in reporting

\* No measurement is lost to the order in which registration, provider ID,
\* NodeClaim status and memory appear, nor to a restart: the node is recorded
\* eventually, unless its provider ID came after the window had closed.
EveryNodeTeaches ==
  \A n \in Nodes : Teachable(n) ~> n \in learned \cup dropped \/ ~Teachable(n)

\* A node without NodeClaim is not retried for ever ("retrying would go on forever
\* for a Node with nothing to teach").
RetriesEnd ==
  \A n \in Nodes :
    <>[](claim[n] # "paired") => <>[](n \notin queue \cup timers)

=============================================================================
