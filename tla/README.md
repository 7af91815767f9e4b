# Formal models of karpenter-provider-oci

TLA+ modules, TLC runs and TLAPS proofs about the parts of
`oracle/karpenter-provider-oci` in which several actors, time-outs, restarts or
failures meet. Every definition is translated from the Go source; `PROJECT.json`
maps definitions to lines.

## 1. The system

The provider is a Kubernetes controller process. Core Karpenter (a library, not
in this repository) calls its `CloudProvider` for one NodeClaim at a time but for
many claims concurrently; the repository adds four controllers of its own and a
set of *providers* that wrap OCI services behind caches.

| component | state | operations | talks to |
|---|---|---|---|
| `pkg/cache` GetOrLoadCache | entries with TTL, a `sync.Map` of per-key mutexes | GetOrLoad, GetCached, Set, Refresh, Evict, EvictMatching | a loader (OCI) |
| `pkg/cache` UnavailableOfferings | offerings marked for a while after a failed launch | MarkUnavailable, IsUnavailable | instance types, instance provider |
| `pkg/cloudprovider` | `initialized` | Create, Delete, Get, List, GetInstanceTypes, IsDrifted; the warm-up goroutine | all providers |
| `pkg/providers/instance` | drift caches: instance, attachments, VNICs, boot volume | LaunchInstance, DeleteInstance, Get, List, cached reads | OCI compute, work requests |
| `pkg/cloudprovider` drift | none between passes | IsDrifted, stage by stage | drift caches, image and reservation providers, the class's status |
| `pkg/providers/instancetype` | shapes by domain, prices, preemptible and cluster shapes, cluster version | refreshShapes, reloadConfigFile, ListInstanceTypes | OCI compute, UnavailableOfferings, reservations |
| `pkg/providers/placement` | per NodePool, where its instances are | PlaceInstance, InstanceFound, InstanceForget | reservations, clusters, groups |
| `pkg/providers/capacityreservation` | two caches, a Usage object per reservation | Resolve, MarkUsed, MarkReleased | OCI compute |
| `pkg/controllers/orphaninstance` | none between passes | Reconcile (snapshot, list, reclaim) | API server, CloudProvider |
| `pkg/controllers/nodeclasses` | the OCINodeClass object | Reconcile, finalize | API server, all resolvers |
| `pkg/controllers/npnrecovery` | none | Reconcile | API server, NPN provider |
| `pkg/controllers/capacitydiscovery`, `pkg/providers/capacitydiscovery` | measured memory per type and image; first misses | Reconcile, Record | API server, instance types |
| image, network, identity, compute cluster, placement group, KMS, block storage, metadata providers | caches of OCI answers | Resolve*, List* | OCI |
| `pkg/oci`, `pkg/operator`, `pkg/metrics`, `pkg/utils`, `cmd` | token buckets, wiring | - | - |

Hard behaviour, and what correctness means there:

* **Launching.** `LaunchInstance` may be refused, be accepted and lost, fail
  later, or time out and be cleaned up; `PlaceInstance` and `Create` retry over
  proposals and instance types; the process may die in between. A claim should
  have one instance, deletion should leave none, and whatever is lost should be
  reclaimed.
* **Falling back.** Failures for want of capacity suppress offerings for later
  calls; reservations, clusters, groups, fault domains and compartments narrow what
  a failure says. A mark should suppress what failed and nothing else, and capacity
  that is there should be found in the end.
* **Drift.** A pass compares a class that is edited, resolved and resolved again
  with caches that never expire and that other calls refresh and evict. It should
  report an instance only if its replacement would differ, and miss nothing the
  class asks for.
* **Orphans.** The orphan controller works from a snapshot of claims and a later
  list of instances. It should delete every orphan and nothing else.
* **Placement.** The view is shared by concurrent Create calls, Delete and List,
  and lost on restart. It should miss no live instance and keep nothing else.
* **Reservations.** Two caches of OCI's count and a local correction are read
  and written concurrently. The sum should not fall behind what is known.
* **Node classes.** Two patches with optimistic locks, a stale informer and a
  finalizer race with users, core and OCI. `Ready` should always mean what
  Create takes it to mean.
* **NPN recovery.** The controller rebuilds, from a lagging copy of the class, an
  object that must match an instance launched earlier, or replaces the claim. It
  should act on every claim without NPN and touch no other.
* **Capacity discovery.** Registration, provider ID, claim status and memory appear
  in any order. Each node should be measured once they are there, a node without
  claim should not be retried for ever, and the smallest measurement should win.
* **Caching.** Callers, evictions and slow loaders interleave per key.

`PROJECT.json` lists the hazards at their lines, and the properties for each.

## 2. Modules

| module | models | proofs |
|---|---|---|
| `GetOrLoadCache` | `pkg/cache/cache.go` | `GetOrLoadCacheProofs` |
| `NodeLifecycle` | Create, Delete, launch and failover, orphan controller, warm-up gate | `NodeLifecycleProofs` |
| `ClaimContract` | what Create, Delete and the orphan controller promise together; implemented by `NodeLifecycle` | `NodeLifecycleProofs` |
| `InstanceTypes` | `pkg/providers/instancetype`: shapes to types, sizes, prices, offerings (operators) | `LaunchProofs` |
| `Launch` | Create's loop over types and proposals, `UnavailableOfferings`, the catalogue's refreshers, on `InstanceTypes` | `LaunchProofs` |
| `Resolution` | what the image, network, cluster, group, key and compartment providers resolve, the launch request, the static hash (operators) | `DriftProofs` |
| `Drift` | IsDrifted, the drift caches, Get and List, on `Resolution` | `DriftProofs` |
| `CapacityReservation` | `pkg/providers/capacityreservation` | `CapacityReservationProofs` |
| `Placement` | `pkg/providers/placement`, List, the warm-up loop | `PlacementProofs` |
| `NodeClassStatus` | `pkg/controllers/nodeclasses`, the readiness check of Create | `NodeClassStatusProofs` |
| `NpnRecovery` | `pkg/controllers/npnrecovery`, Create's NPN step | `ControllerProofs` |
| `CapacityDiscovery` | `pkg/controllers/capacitydiscovery`, `pkg/providers/capacitydiscovery` | `ControllerProofs` |

`MC<module>` supplies constant values and, where a run uses one, the symmetry set. Definitions commented
"Mutant of X" are faulty variants of X, used only to confirm that each property
can be violated: with X replaced by its mutant, TLC reports the property.

### GetOrLoadCache

One `pc` per caller; the steps are the ones another goroutine can interleave
with: the first look-up (`CacheHit`, `CacheMiss`), `LoadOrStore` on the lock
table, `Lock`, the double check (`Recheck`), the loader's answer or failure,
`Store`, and the deferred calls in their real order, `Unlock` and then
`ForgetLock`. `Evict` stands for Evict, one key of EvictMatching and expiry. A
value is the *version* of the OCI resource it was read from. `churn` and `floor`
are history variables: whether the key has been evicted or failed to load, and
the oldest version that may legitimately be cached.

### NodeLifecycle

A claim is `absent`, `live`, `deleting` or `gone`; an instance `unused`,
`provisioning`, `running`, `terminating` or `terminated`. `pc[c]` is the Create
call of the claim: `attempt` (a proposal is about to be launched), `poll` (the
work request is polled), `cleanup` (the time-out's DeleteInstance), `return`.
`AttemptFails` is the common end of an attempt: the next proposal or instance
type, or the error. `LaunchUnconfirmed` is a launch whose response is lost or has
no work request ID. The orphan controller is three steps, `OrphanSnapshot`,
`OrphanList` and one `OrphanSkip` or `OrphanReclaim` per listed instance;
draining is a reason to skip. `tries` counts the attempts of one Create call. `Crash` drops all calls, the pass and
`initialized`. Core Karpenter and OCI compute are external: core calls Create
only for a claim without ProviderID, never runs Create and Delete of one claim
at once, writes the ProviderID before its next call, and calls Delete until
NodeClaimNotFound. `disturbed` and `graceful` are history.

### ClaimContract

Four variables: the phase of a claim, its fleet of live machines, the machines
used so far, and the claims the provider has lost track of. `Launch` needs an empty
fleet, `Finalize` leaves an empty fleet behind, `End` takes a machine out for good;
a claim in `lost` is exempt. `NodeLifecycle` maps onto it with `phaseOf`, `fleetOf`,
`usedOf` and `disturbed`: polls, time-outs, clean-ups, retries, the orphan
controller's snapshots and the warm-up are invisible, a clean-up, a Delete, a
preemption and a reclaim are all `End`.

### InstanceTypes and Launch

`InstanceTypes` has no state: a shape and a class become types (`TypesOfShape`),
each with its platform check, vCPUs, memory, reserved resources, eviction threshold,
pods, VNICs, price and offerings. OCPUs are whole. Declared memory may be a fraction of
a GB: it is counted in thousandths, what is reserved of it in hundred-thousandths, and
`MemoryMiB` cuts and rounds to whole MiB where `memoryCapacityMiB` does. A measured
figure takes its place (`MemoryCapacity`), looked up by the type's name, in which the
memory is rounded to whole GBs (`NameOf`). The price unit is that of a thousandth of a GB.

`Launch` takes a *scenario*: the claims' requirements and classes, the metadata
files, the pages `ListShapes` returns, and what OCI may run out of. Create is
`CreateStarts` (the offerings are listed once, with the marks of that moment),
`PlaceInstance` for the next cheapest type (the decoration reads the reservations
again), one `LaunchSucceeds` or `LaunchFails` per proposal, `TypesExhausted`.
Proposals are tried in any order: which is first is Placement's subject. `Answer` is
OCI's; a failure is a lack of host capacity, a limit or a quota, or (counted by
`faults`) anything else. `marks` is the cache, `failures` its history with the reason
kept. The refreshers run beside it; `lister` is a `refreshShapes` under way with its
page token. `measured` holds, for each name, the smallest memory that a node of it has
reported; `NodeMeasured` and `MeasurementExpires` stand for CapacityDiscovery, whose
subject is how the figure comes about.

### Resolution and Drift

`Resolution` has no state either: each `Resolve...` gives the set of possible
results, empty for an error. The class, the world of OCI resources and a *look* (which image look-ups
are cached or answered) are arguments.

`Drift` follows one class, one claim and its instance. `oci` and `cache` have the
same keys; a read that misses is two steps, OCI's answer and the store, and any other
call may come in between. `BeginDrift` is IsDrifted up to the first read of the
instance; the stages `inst`, `net`, `sec` and `boot` each read what they need
(`NextReads`), compare (`Reasons`) and, on a difference, start again with `real` set:
the confirming calls. Get, Delete's poll and List share the actions `GetAnswered`,
`GetNotFound`, `ListAnswered` and `OtherStored`, which refresh and evict. `verdict`
holds the outcome of a pass that nothing disturbed, for one step: only then do the
class and OCI still look as they did during the pass. `straddled` notes an eviction
while a pass held attachments it had read: the children it stores afterwards have no
parent left to evict them.

What is abstracted: a not-ready class's status is not read; the network provider's
expiring caches are read as current; an image counts as published when the listings
that lack it have expired.

### CapacityReservation

One reservation, one shape, one fault domain. A point in time is the number of
marks committed before it, since only the order of loads and marks matters
(`lastCommit` and load times). A resolver asks by OCID (`ResolveById`) or through
the selector cache (`SelectorHit`, `SelectorMiss`), gets the record from
`capResCache` or from OCI (`GetCached`; `GetAnswered`, `GetStored`), resets the
usage (`ResetUsage`), and returns the adjusted number (`Resolved`). A Mark call
is two steps, `GetOrCreateUsage` under the provider's mutex and `Adjust` under
the Usage's. That the caches serve one loader at a time is taken from
GetOrLoadCache.

### Placement

The view maps claim names (stand-ins) and instances to availability domains;
fault domains are abstracted away. `Decorate` drops the offerings that the second
resolution no longer finds available, and `Propose` and its stand-in are one atomic
step (one mutex). LaunchInstance is three steps: `Send`, the request; `Accepted`, from
which on the instance lives in OCI, whether or not the call still waits for it; and,
after any time of polling, `Placed` or `PlaceFails`, both with the deferred forget. Until
then a List may see the instance and enter it beside its stand-in. A call may fail before
it has sent anything, because the request was refused (the instance is `unused` again), or
although it was or still will be accepted: then a live instance is left that nobody has
entered, and it is in `lost` until a List enters it. `InstanceFound` is a later step: the
window the comment in PlaceInstance speaks of. `blur` is the largest number of instances
that a proposal found counted twice or not at all. A List call is fetched at one moment and entered one instance at a time; one
List is under way at a time, the warm-up loop's, which alone sets `initialized`,
or another's. `over` is the set of instances for which Delete has been called for
the last time, `leaked` the history of the two ways in which one of them stays in
the view: a last Delete that does not reach InstanceForget
(`DeletedUnforgotten`), and a List that had fetched it before it ended.

### NodeClassStatus

The API object, the informer's copy and Reconcile's working copy are three
records. A resourceVersion is abstracted to "still the latest" (`lag`,
`behind`). A pass goes through `StartPass`, `AddFinalizer`, one `SubReconcile`
per condition, `SubsDone` (the re-computed Ready, the hash, "no change"),
`AnnotatePatch` and `StatusPatch`, each patch with its conflict, error and
lost-response outcomes. Two points deserve mention. The annotation patch decodes
the server's response into `annotationPatchOnly`, so the status patch is computed
against the server's status; when the annotation patch fails,
`annotationPatchOnly` is still the copy of `nodeClass` and the status patch is
empty. And a RequeueAfter of minutes survives passes in between and comes long
after the informer has caught up.

### NpnRecovery

A generation of the class stands for its static fields and for their hash; edits
that change no static field are left out. `class` and `cached` are the API object
and the informer's copy. `ClassHashed` and `ClassReady` take over the order that
NodeClassStatus checks as `ReadyMeansHashed`: Ready is published for a generation
only after its hash. Create is two steps, the launch from the cached class and the
NPN write, which may fail without failing Create. Reconcile has one worker and
reads the caches at one moment; createNpn ends in a step of its own
(`NpnCreated`, `CreateNpnFails`), so that edits, deletions, restarts and the
informer come in between. `GraceEnds` states the assumption the grace period stands
for: by its end the informer has an NPN that Create wrote. `recreated` and
`replaced` are history.

### CapacityDiscovery

`queue` and `timers` are the work queue and the pending RequeueAfters. What the
informers show of a Node and of its NodeClaim changes in five independent steps;
being registered includes being managed, since core sets both labels in one
update. Each return of Reconcile is an action: not managed, claim missing within
or past `nodeClaimLookupWindow`, memory not reported, recorded, nothing to key on.
`firstMiss` is the miss tracker with its window and its own TTL; `measured` is the
cache of `Record`, its merge atomic under the mutex. `seen` and `learned` are
history; `dropped` are the nodes given up while they had no `spec.providerID`,
whose appearance alone queues nothing.

## 3. Runs

| run | checks | instance |
|---|---|---|
| `GetOrLoadCache_calls` | serialised loads until churn, effective eviction, every call returns | 2 callers, 1 key, 2 mutexes, 2 versions |
| `NodeLifecycle_claims` | types, one instance per claim, nothing left behind, known claims keep their instance, the contract is implemented, orphans are reclaimed, deletion completes | 1 claim, 2 instances, 2 attempts, 1 restart |
| `NodeLifecycle_orphan_race` | *violation*: only orphans are reclaimed | 1 claim, 1 instance |
| `Launch_fallback` | suppressed only where it failed, routed around, nothing cheaper skipped, launched as offered, sound sizes, complete catalogue, fallback reaches capacity | 9 scenarios with 1 or 2 claims, 5 shapes, 2 domains, 2 measurements |
| `Launch_fd_reservation` | *violation*: PlaceInstance never uses a proposal that is not there | 1 claim, 1 reservation of a fault domain |
| `Drift_pass` | drift means the replacement differs, no drift means the request holds, cached children belong to cached parents, the cached image is the launch's, what is gone is forgotten | 1 instance, 2 secondary VNICs, 3 images, 2 classes with 11 edits, 1 event, 1 fault |
| `CapacityReservation_usage` | marked usage is counted unless raced, the reported use heals | 2 resolvers on both paths, 1 launch, 1 place |
| `Placement_view` | view covers live instances, stand-ins in flight, even spread, forgotten for good | 2 claims, 2 instances, 2 domains, 1 restart |
| `NodeClassStatus_patches` | Ready means hashed and resolved, hash only of Ready specs | 1 required and 1 optional condition, 2 generations, 1 restart |
| `NodeClassStatus_live` | the class becomes Ready, outlives its instances, and its deletion completes | 1 condition, 2 generations, 1 claim |
| `NpnRecovery_npn` | NPN and instance from one spec, served claims are kept, a claim without NPN is served or replaced | 1 claim, 2 generations, 1 restart |
| `CapacityDiscovery_nodes` | the smallest measurement is served, every node is measured, retries end | 2 nodes of different memory, 1 key, 1 restart |

Why the bounds are enough. Two callers give a holder and a waiter or newcomer on
one key, and the safety properties are proved for any number of them; with as many
mutexes as callers allocation never blocks. Keys do not interact. Two instances let one claim lose
one launch to a restart, or time out and clean up once, and be launched again;
an orphan pass can then meet an orphan and the claim's own instance together.
The safety properties of NodeLifecycle are proved for any number of claims,
instances, attempts and restarts. Two resolvers and one launch give every order
of load, mark and reset; that marked usage is counted is proved for any number of
resolvers, launches and Usage objects. Two domains and two Create calls are the least
for spreading; the properties of Placement, spreading included, are proved for any
number. The run (1.5 million states, up to the symmetry of claims, of instances and of the
two domains) reaches a List that enters an instance its call still polls for, a launch that
fails after it was accepted, and a restart in between; with two instances only, `blur` of 1
already allows every distribution, so that how far a double count may tilt the spread is
the theorem's to say. Two generations and two conditions give an edit during a pass and a condition
that comes or goes; the liveness run needs one condition only, since sub-reconcilers
run one after the other, and the invariants are proved for any number of conditions,
generations, claims and restarts. Claims meet in NpnRecovery only in the
one worker, and its safety properties are proved for any number of claims and
generations; two generations are an edit between launch and recovery. Two nodes of
one key, with different memory, record in either order, and a node without key is
among the initial states; keys do not interact. `CapacityDiscovery_nodes` does not
check deadlock: a cluster whose nodes are gone may stop. So may `Drift_pass`, once
the instance is gone.

The scenarios of `Launch_fallback` are one for each way in which a failure is
narrower than an offering (compartment, configuration, fault domain, cluster, group,
reservation) or in which the catalogue is built while a claim waits; each has what
two claims, or one claim and a change of supply, need to disturb each other. The
safety properties of Launch are proved for every set of shapes, claims and scenarios
that satisfies its assumptions. One event and one fault in `Drift_pass` are enough
because each exception a pass can meet needs one change against a cache filled before
it; which change is chosen among the edits, OCI's resources, tags, images and the
catalogue. Both launched claims and the pass run over every combination of cached and
uncached parts. The invariants of Drift are proved for every class, image, network,
number of VNICs, events and faults; only `GoneForgotten` rests on these bounds.

The two violations are disagreements between a comment and the code:

* *Orphan race* (`orphaninstance/controller.go:60`, `:77`): a claim created and
  launched after the snapshot and before the list is "missing" and loses its
  instance. Claims in the snapshot are safe (`KnownClaimsKeepTheirInstance`,
  proved for launches shorter than the threshold).
* *Fault-domain reservation* (`capacityreservation/resolve_result.go:49`): the
  availability of a fault domain loses it on the way to the offering, no proposal
  survives the decoration, and PlaceInstance dereferences the nil that Propose
  returns. A reservation that fills up between the two resolutions leads to the same
  place (`PlaceInstance` of Launch, `Propose` of Placement).

Several properties carry a qualifier, each a fact about the code:

* `SerialisedLoadsUntilChurn`: Unlock runs before `locks.Delete` (`cache.go:68`,
  `:72`), so after a failed load or an eviction a waiter and a newcomer may load the
  same key together.
* `MarkedUsageCountedUnlessRaced`: by OCID the correction is dropped on every
  look-up, cache hits included (`capacityreservation/provider.go:208`).
* `ServedClaimsKept` exempts claims whose NPN this controller made: one recreated
  just before the time-out may be replaced while the informer still lags.
* `EveryNodeTeaches` exempts `dropped` nodes.
* `CatalogMatchesOci` exempts a refresh that sent a page token of another domain.
* `ViewCoversLiveInstances` exempts, besides the instances of calls under way, those in
  `lost`: a launch may be accepted and its call still end in an error
  (`instance/provider.go:254-257`, `:276-277`, `:308`) or with the process. Nothing
  enters the instance until a List does, and the spreading does not see it.
* `SpreadEvenly` allows one more for each instance that was counted twice or not at all
  when a proposal was made. A List during the polling (`cloud_provider.go:558`) enters an
  instance whose stand-in still counts, so that with nothing failed or gone its domain
  looks fuller than it is.
* `SizesSound` does not speak of a type whose namesake was measured with more memory. The
  name of a type rounds its memory to whole GBs (`instancetype/provider.go:261`) and keys
  the measurements, so that 16.4 GB may stand for 16.3 GB: of the coarse key,
  `capacitydiscovery/provider.go:309` says that it "does not cost correctness".
* `SuppressedOnlyWhereItFailed` knows a configuration as the key does, without the
  burstable baseline.
* `DriftMeansReplacementDiffers` names the four cases in which an instance is
  reported although a replacement would equal it: `StaleNetworkStatus` (drift reads
  status.network, Create resolves anew), `StillProvisioning` (returned at the launch
  time-out with nothing attached), `AmbiguousSecondaries` (greedy matching in map
  order) and an image dropped because OCI did not answer for its base. TLC reaches
  all four: without any one of them the property fails.
* `NoDriftMeansRequestHolds` exempts changes made in OCI outside Karpenter, which the
  caches hide for good, and static fields that differ only in the order of the
  secondary VNICs, which the hash ignores, or in equal ones, which cancel out of it. It
  is silent on the secondary VNICs of a class that has fewer or more of them than the
  instance was launched with while the hash is the same: the attachments may have been
  cached when only some were attached, and then their number fits by accident. The
  proof found this last case, which needs equal VNICs and an attachment still under way.
* `ChildrenBelong` and `GoneForgotten` exempt `straddled` behaviours.

Observations no run is about: one instance whose claim cannot be built makes the
whole List fail (`cloud_provider.go:552`), which holds up the warm-up and the orphan
controller; `initialized` is written by a goroutine and read without synchronisation
(`cloud_provider.go:135`); `adjustCapacityAgainstUsage` ranges over the Usage's map
without its mutex (`resolve_result.go:84`); `listAndFilterClusterPlacementGroups` keeps only
the groups that *are* deleted (`clusterplacementgroup/provider.go:149`), so a
selector never finds an active group; a selector of security groups may find none
or several, where `docs/guide/ocinodeclass.md:55` asks for exactly one.

### Fairness

* GetOrLoadCache: goroutines run and OCI requests time out (weak); a waiter on a
  mutex gets it in the end (strong: Go's mutex has a starvation mode).
* NodeLifecycle: started calls go on, core repeats Delete, terminations complete,
  the orphan controller requeues itself; strong fairness of `OrphanReclaim` and
  `GrowsOld` says that an instance examined over and over is not skipped each
  time, and that time passes between passes.
* Launch: a Create call runs to its end, core calls it again, and marks expire (weak).
  Nothing is assumed of OCI: `FallbackReached` is about claims for which it can
  supply some offering from some moment on.
* Drift: a call that is answered returns, and Karpenter lists the instances
  periodically (weak).
* CapacityReservation: resolvers and Mark calls finish, entries expire. The
  selector's entry is stored after the reservation's and has the same TTL.
* NodeClassStatus: the queue is worked off, informers deliver, and a patch tried
  again and again succeeds once. `BecomesReady` exempts behaviours in which a
  status patch was applied but its response lost: the retry may find "no change"
  on the stale copy and not be queued again.
* NpnRecovery: the worker goes on, timers fire, informers deliver NPNs, time passes
  (weak). OCI may refuse the NPN for ever and the class may never be Ready.
* CapacityDiscovery: the worker goes on, timers fire, the window passes (weak).
  Nothing is assumed of the cluster.

## 4. Proofs

`GetOrLoadCacheProofs` (`TypeCorrect`, `LoadsSerialised`, `EvictEffective`), from
`CacheAssumption` only. `SerialisedLoadsUntilChurn` is not inductive: that two
callers hold different mutexes must be excluded first. The strengthening `IInv`
adds `MutexProtocol` (who refers to and holds a mutex at which step),
`OneMutexUntilStored` (before the first store nobody has come as far as Unlock,
so the registered mutex is the only one in use; after it, every second look
hits) and, for evictions, `FreshAnswers`.

`NodeLifecycleProofs` (`TypeCorrect`, `OneInstancePerClaim`,
`NothingLeftBehind`, `KnownClaimsSafe`), from `LifecycleAssumption`. `IInv` adds
`HandProtocol` (what a Create call holds at each step, and that it runs only
without a ProviderID), `Accounted` (a live instance of an undisturbed claim is in
its Create call's hand or is its ProviderID) and `GracefulGone`. `KnownClaimsSafe`
assumes `~SlowLaunch` and rests on `PassInv`: the snapshot is the past of the
ProviderIDs, nothing grows old within a pass, and what was reclaimed knowingly is
nobody's.

The same module shows that NodeLifecycle implements ClaimContract
(`ImplementsClaimContract`): the initial states map to initial states and every step
maps to a step of the contract or leaves its variables alone. The conditional steps
need `IInv`: a Create call at `attempt` holds nothing, so by `Accounted` an undisturbed
claim has no live instance (`LaunchAllowed`); DeleteNotFound finds the ProviderID
terminated, so by `Accounted` nothing is left (`FinalizeStep`); and a live instance has
an owner (`Ends`).

`LaunchProofs`, from the assumptions of `Launch`. `IInv` has no types of its own: it
says of each variable what the next step reads.

* `SuppressedWhereItFailed` and `FailuresRoutedAround` rest on `MarksMatch`: an entry of
  the cache stands for a remembered failure and, with a time to live, the other way
  round. `RoutedAround` is about the proposals made, later, from offers that were listed
  when a failure was already known, so `OfferSound` keeps with every listed offer that
  it was free of the failures known then.
* `EveryOfferTried` and `LaunchIsAnOffer` rest on `ClaimInv`: an offer that Create listed
  has been tried, or is in a candidate to come, or has a proposal of the present
  candidate, and candidates come in the order of their price. The proof showed that
  `OfferAssumption` is needed. Create tells spot from on-demand by price when it groups
  offerings, so at a price of 0 both would fall into one candidate, and the capacity
  type of the launch would be that of the wrong offering.
* `CatalogComplete` rests on `RefreshSound`: a refresh that has not been overtaken and
  has sent no stale token holds exactly the pages it has passed.
* `SizesAreSound`, from `SizeAssumption` and `PercentAssumption` on the figures of
  shapes, classes and nodes and from `CatalogKnown`. Memory: the declared figure, to the fraction of a MiB, covers the
  modelled capacity and the whole overhead of a VM, and covers a measured capacity too
  (`MemoryWithin`); rounding either step the other way breaks this at fractions of a GB.
  Reserve: the bands join (`BandsJoin`) and grow (`ReserveGrows`), so that what is reserved
  by the declared memory is no less than the measured memory would ask for, which the
  comment at `instancetype/provider.go:350` relies on. Cores: `CoresLeft` shows that the
  vCPUs are those of a number of cores which the per cent asked for pins down, rounded up,
  or down on each of two sockets with one left there, with one thread each where
  multi-threading is off. Assumed are that a two-socket shape has a core on each socket, that
  the eighths of the memory which comes with an OCPU are whole thousandths of a GB, and
  that no node finds more memory than its type declares.

`CapacityReservationProofs` (`TypeCorrect`, `UsageCounted`), from
`ReservationAssumption` and `NoneAssumption`. `MarkedUsageCountedUnlessRaced` compares
what a resolver returns, which reads a Usage object that may have been replaced
meanwhile, with its record and the marks made since that was loaded. `IInv` adds
`CountsRight` (OCI counts the launches that occupy a place, the clock counts the
marks), `RecordsPast`, `OneLoader` (a filter has one caller resolving it, and only
while its list is not cached) and `AllCounted` (the marks made since a record was
loaded are the ones the present Usage object counts). A mark that does not race goes to
the present object. A reset after a load loses nothing: the record's time is still the
clock, and because there is one loader no older list is cached that would need what the
reset drops. A record at least as young as `lastCommit` has no marks since. The lemmas
on `MarkedSince` and `ReleasedSince` carry the cardinalities.

`ControllerProofs`, first half (`TypeCorrect`, `NpnMatches`, `ServedKept`), about
NpnRecovery from `RecoveryAssumption`. `NpnMatchesInstance` needs to know why comparing hash
annotations on a lagging copy is enough. `IInv` adds `ClassSound` (the class and
every copy of it that is Ready for its own generation carry that generation's
hash), `CopyMatches` (createNpn builds from the generation its claim was launched
from) and `CreatedIsVisible` (past the grace period only an NPN this controller
made can be missing from the informer).

`PlacementProofs` (`TypeCorrect`, `StandInsForgotten`, `ViewCovers`,
`StaysForgotten`, `Spread`), from `PlacementAssumption`. `ViewCoversLiveInstances` speaks of
the time after the warm-up; why it holds is decided during it. `IInv` adds
`WarmUpAlone` (no Create call runs before the warm-up is over, so nothing is launched
behind the back of its List), `WarmUpCovers` (that List has entered, or is yet to
enter, every live instance, unless its launch was lost), `SentOwned` (a request that OCI
may still accept has a call waiting for it, or is lost), `Holdings` (a launching call's
request is its own and in the domain its stand-in counts for, and only instances that
exist are entered) and, for `ForgottenForGood`, `OverMeansEnded` (a last Delete is of an
instance that has ended and that no Create call has in hand). `Spread` also assumes
`AllOffered`, an offering in every domain: the view cannot even out what is offered in
some domains only. It needs `ViewExact`: until something fails or goes away, every Create
call chooses among all proposals, no launch is lost, and each entry of the view is where
its instance is. The view's count of a domain then differs from what the domain holds by
at most the instances of that domain that are counted twice or not at all at the moment
(`CountNear`), and no instance is miscounted in two domains (`MiscountedApart`), so the
choice of a least count keeps all domains within `1 + blur` of each other (`EvenStep`).
Claims and instances are assumed finite for their cardinalities.

`NodeClassStatusProofs` (`TypeCorrect`, `ReadyIsHashed`, `ReadyIsResolved`,
`HashIsOfReadySpec`, `ClassStaysForInstances`), from `NodeClassAssumption` and
`NoneAssumption`. None of the properties is inductive, since a patch writes what was
computed on a copy that may be stale. `PassInSync` says what the optimistic lock buys:
as long as nobody else has written, the object is what the next patch is computed
against, or the patch is empty. `SubsProgress` and `ResultSound` follow a pass, from
conditions renewed one by one to a root condition of this generation and the hash that
goes with it; `HashFirst` states the order of the two patches and `HashesProven` that
every copy's hash was once found Ready. `ClassOutlivesItsInstances` rests on the other
half: `CopyTrails` (the informer's copy is an earlier state, and a finalizer or a
deletion it shows is not undone), `ReadyHasFinalizer`, `InCreate` (a claim in Create is
visible to finalize and its class keeps the finalizer) and `FinalizeSound` (finalize
works on a class whose deletion every copy shows, so that no Create call passes the
readiness check any more).

`ControllerProofs`, second half (`DiscoveryTypeCorrect`, `LeastMemoryServed`), about
CapacityDiscovery, which it instantiates as `CD` with constants and variables of its own.
An instance brings no assumptions, so `CD!DiscoveryAssumption` is a hypothesis of the
theorems; the run `CapacityDiscovery_nodes` evaluates it. `SmallestIsServed` is inductive
with the types; the work is in `RecordKeepsLeast`, the merge of one more node.

`DriftProofs`, from the assumptions of `Resolution` and `Drift`. A type invariant is not
enough of a start, since the specs, images and networks are whatever the constants say:
`Shape` says which fields the records have and which keys the maps, and `LaunchInv` that
the instance is the one the claim and the NativePodNetwork ask for, with the primary VNIC
and the first few secondary ones attached, and all of them once the node is initialized.

* `CachedChildrenBelong`. `CacheInv` adds to the property what makes it inductive: unless
  the pass is straddled, the attachments it reads its children from are the cached ones
  (`ReadsHeld`); and an answer under way is to the next read of the pass, for attachments
  read through the cache only while none are cached (`LoadSound`).
* `NoDriftIsSound`. The verdict is drawn by comparing a snapshot of the request with
  answers that may be from any time. `FreshInv` says why old answers do: nothing but OCI
  completing the launch changes the instance, so what is cached agrees with it, up to
  attachments not yet made. `WantInv` says that a pass nobody disturbed compares with what
  the class asks for now, the image included: the lemmas from `LookKept` to `NowImagesKept`
  show that caching an image never changes what is resolved. `GotInv` and `StageInv` carry
  what the stages behind have established to the end of the pass. In the stage of the
  secondary VNICs the counts are equal, so the one-to-one map the matching loop builds is
  onto (`SecStage`).
* `DriftIsReal`. `RealInv`: what a clean pass reads to confirm is what OCI has. Each stage
  is then shown to give no reason when the instance equals what a launch would make
  (`EqualInst`, `EqualPrimary`, `EqualSecondary`, `EqualBoot`). The loop over the
  secondary VNICs takes any VNIC that fits, in map order, and could be left with none:
  `NeverStuck` shows by pigeonhole that it cannot be, when no desired VNIC fits one that
  another needs, which is what `AmbiguousSecondaries` negates.
* `CachedImageIsLaunchImage`. The version of an image is that of its nearest tagged
  ancestor, a recursion over the images. Without an induction schema, the proof argues by
  least counterexample in the order of creation (`LeastNatural`): a function that satisfies
  the recursion exists for the images before any time and is unique there (`RightExists`,
  `RightAgree`), so the recursive definition means what it says (`KletBody`), and a version
  found with some images at hand is found with more (`KletMore`).

Assumed of the constants: VNICs have ids of their own; a class has no more secondary VNICs
than there are ids; images have ids of their own and are made after their bases; a
placement group has an id; a class names an image or a filter; absent values are not
values. All are facts about OCI's identifiers and the API's validation.

The type invariants of GetOrLoadCache, NpnRecovery, Placement, CapacityDiscovery,
CapacityReservation and NodeClassStatus are proved and not run.

Every invariant a passing run checks is a theorem. Model-checked only are

* liveness under fairness, which is outside the prover's reach: `CallsReturn`,
  `OrphansReclaimed`, `DeletionCompletes`, `SelfHeals`, `BecomesReady`,
  `ClassDeletionCompletes`, `EveryNodeTeaches`, `RetriesEnd`, `RecoveredOrReplaced`,
  `FallbackReached` and `GoneForgotten`. That every drift is reported in the end is left to
  its safety half, `NoDriftMeansRequestHolds`;
* the two violations.

## 5. Not modelled, and the plan

Left out for good: tags, metadata and cloud-init strings of the launch request, labels
and requirements of an instance type, ephemeral storage, flag parsing, metrics,
wiring, the OCI client wrappers and their rate limiters, the API schema and its
generated code, fakes and the price tables. They are data or I/O without a state that
steps of different actors share.

What remains: the two refresh paths of the network provider's caches, which Drift reads
as current, could be modelled like the image provider's; and the read of the Usage map
without its mutex (`resolve_result.go:84`) has no property, as its outcome is not one
of the values the model has.
