------------------------------ MODULE Placement -----------------------------
(***************************************************************************)
(* pkg/providers/placement: the in-memory view of where the instances of a *)
(* NodePool are, by which new ones are spread over availability domains.   *)
(*                                                                         *)
(* PlaceInstance proposes a domain and enters the NodeClaim's name in the  *)
(* view as a stand-in, launches, forgets the stand-in, and tries the next  *)
(* proposal if the launch failed.  LaunchInstance sends the request and    *)
(* then polls: meanwhile the instance is in OCI and a List may see it, and *)
(* the call may fail though OCI has accepted the request.  Create enters   *)
(* the instance afterwards (InstanceFound), CloudProvider.List enters      *)
(* every instance it sees, and Delete removes one when it finds it gone    *)
(* (InstanceForget).  The view is rebuilt by a List after a restart,       *)
(* before Create is admitted.                                              *)
(***************************************************************************)
EXTENDS Integers, FiniteSets

CONSTANTS
  Claims,      \* NodeClaims of the NodePool
  Instances,   \* launch requests, each with the instance OCI makes of it
  Ads,         \* availability domains
  Proposals,   \* offerings: zone, reservation, compute cluster, group
  AdOf,        \* the domain of each proposal
  MaxCrashes,  \* bound: restarts
  None

ASSUME PlacementAssumption ==
  /\ AdOf \in [Proposals -> Ads]
  /\ MaxCrashes \in Nat
  /\ Claims \cap Instances = {}
  /\ IsFiniteSet(Claims) /\ IsFiniteSet(Instances)
  /\ None \notin Claims \cup Instances \cup Ads \cup Proposals \cup {"warmUp", "other"}

VARIABLES
  view,         \* instanceMap: the domain of each entry, or None
  open,         \* proposals the decorate function accepts now
  pc,           \* where each Create call is
  eligible,     \* the available offerings Create has resolved, until they are decorated
  proposals,    \* the proposals left to try, until one is placed
  chosen,       \* the proposal being placed
  got,          \* the request Create has sent, the instance it launched
  state,        \* "unused", "sent" to OCI, "live" in OCI, "gone"
  ad,           \* the domain a request names
  listing,      \* who has a List call under way: the "warmUp" loop or an "other"
                \* caller, or None
  fetched,      \* instances the List call has yet to enter
  initialized,  \* CloudProvider.initialized
  crashes,
  over,         \* instances Delete has been called for the last time
  leaked,       \* history: instances whose last Delete did not forget them, or
                \* that a List entered when they had ended
  lost,         \* history: launches whose call failed or died after it had sent
                \* them, not entered in the view since by a List
  disturbed,    \* history: launches failed, instances or offerings went away
  blur          \* history: the most instances that were counted twice or not at
                \* all when a proposal was made, until something disturbed it

createVars == <<pc, eligible, proposals, chosen, got>>
ociVars    == <<state, ad, open>>
listVars   == <<listing, fetched>>
procVars   == <<initialized, crashes>>
history    == <<over, leaked, lost, disturbed, blur>>
vars == <<view, createVars, ociVars, listVars, procVars, history>>

Ids == Claims \cup Instances

TypeOK ==
  /\ view \in [Ids -> Ads \cup {None}]
  /\ open \in SUBSET Proposals
  /\ pc \in [Claims -> {"idle", "decorate", "propose", "placing", "launching", "placed", "done", "panic"}]
  /\ eligible \in [Claims -> SUBSET Proposals]
  /\ proposals \in [Claims -> SUBSET Proposals]
  /\ chosen \in [Claims -> Proposals \cup {None}]
  /\ got \in [Claims -> Instances \cup {None}]
  /\ state \in [Instances -> {"unused", "sent", "live", "gone"}]
  /\ ad \in [Instances -> Ads \cup {None}]
  /\ listing \in {"warmUp", "other", None}
  /\ fetched \in SUBSET Instances
  /\ initialized \in BOOLEAN
  /\ crashes \in 0..MaxCrashes
  /\ over \in SUBSET Instances /\ leaked \in SUBSET Instances /\ lost \in SUBSET Instances
  /\ disturbed \in BOOLEAN
  /\ blur \in Nat

Init ==
  /\ view = [x \in Ids |-> None]
  /\ open = Proposals
  /\ pc = [c \in Claims |-> "idle"]
  /\ eligible = [c \in Claims |-> {}]
  /\ proposals = [c \in Claims |-> {}]
  /\ chosen = [c \in Claims |-> None]
  /\ got = [c \in Claims |-> None]
  /\ state = [i \in Instances |-> "unused"]
  /\ ad = [i \in Instances |-> None]
  /\ listing = None
  /\ fetched = {}
  /\ initialized = FALSE
  /\ crashes = 0
  /\ over = {} /\ leaked = {} /\ lost = {}
  /\ disturbed = FALSE
  /\ blur = 0

Live(i) == state[i] = "live"

\* adFdSummary.updateBy: an entry that is there already is left as it is.
Entered(x, a) == [view EXCEPT ![x] = IF @ = None THEN a ELSE @]

\* Mutant of Count: the stand-ins are not counted.
CountPlaced(a) == Cardinality({i \in Instances : view[i] = a})

\* adFdSummary.instanceCountForAdFd.
Count(a) == Cardinality({x \in Ids : view[x] = a})

-----------------------------------------------------------------------------
(* CloudProvider.Create and PlaceInstance *)

\* resolveInstanceTypes: only available offerings are eligible; without one
\* Create is refused.
ResolveOfferings(c) ==
  /\ initialized
  /\ pc[c] = "idle"
  /\ open # {}
  /\ eligible' = [eligible EXCEPT ![c] = open]
  /\ pc' = [pc EXCEPT ![c] = "decorate"]
  /\ UNCHANGED <<view, proposals, chosen, got, ociVars, listVars, procVars, history>>

\* placementDecorateFunc: reservations are resolved again, and full ones, failed
\* look-ups, and offerings outside the domain of a cluster or group are dropped.
Decorate(c) ==
  /\ pc[c] = "decorate"
  /\ proposals' = [proposals EXCEPT ![c] = eligible[c] \cap open]
  /\ eligible' = [eligible EXCEPT ![c] = {}]
  /\ pc' = [pc EXCEPT ![c] = "propose"]
  /\ UNCHANGED <<view, chosen, got, ociVars, listVars, procVars, history>>

\* The compute cluster or the placement groups cannot be resolved: PlaceInstance
\* returns the error.
DecorateFails(c) ==
  /\ pc[c] = "decorate"
  /\ eligible' = [eligible EXCEPT ![c] = {}]
  /\ pc' = [pc EXCEPT ![c] = "idle"]
  /\ UNCHANGED <<view, proposals, chosen, got, ociVars, listVars, procVars, history>>

\* The instance a call polls for, its stand-in in the view.
Launching(c, i) == pc[c] = "launching" /\ got[c] = i

\* The window between the deferred forget and InstanceFound.
InWindow(c, i) == pc[c] = "placed" /\ got[c] = i

\* Instances the view counts wrongly: not at all, in the window, or twice, when a
\* List has entered one beside its stand-in.
Miscounted ==
  {i \in Instances : \E c \in Claims :
     (InWindow(c, i) /\ view[i] = None) \/ (Launching(c, i) /\ view[i] # None)}

Larger(m, n) == IF m < n THEN n ELSE m

\* adFdSummary.Propose, under its mutex: one of the proposals whose domain has
\* the fewest entries, and the stand-in for it.
Propose(c) ==
  /\ pc[c] = "propose"
  /\ \E p \in proposals[c] :
       /\ \A q \in proposals[c] : Count(AdOf[p]) <= Count(AdOf[q])
       /\ chosen' = [chosen EXCEPT ![c] = p]
       /\ view' = Entered(c, AdOf[p])
  /\ pc' = [pc EXCEPT ![c] = "placing"]
  /\ blur' = IF disturbed THEN blur ELSE Larger(blur, Cardinality(Miscounted))
  /\ UNCHANGED <<eligible, proposals, got, ociVars, listVars, procVars, over, leaked, lost, disturbed>>

\* Propose returns nil for an empty slice; placeFunc and the deferred forget both
\* dereference it.
ProposeNil(c) ==
  /\ pc[c] = "propose"
  /\ proposals[c] = {}
  /\ pc' = [pc EXCEPT ![c] = "panic"]
  /\ UNCHANGED <<view, eligible, proposals, chosen, got, ociVars, listVars, procVars, history>>

\* The work queue recovers the panic and tries the claim again.
Recovered(c) ==
  /\ pc[c] = "panic"
  /\ pc' = [pc EXCEPT ![c] = "idle"]
  /\ UNCHANGED <<view, eligible, proposals, chosen, got, ociVars, listVars, procVars, history>>

\* placeFunc, LaunchInstance: the request is sent to OCI, for the proposal's domain.
Send(c, i) ==
  /\ pc[c] = "placing"
  /\ state[i] = "unused"
  /\ state' = [state EXCEPT ![i] = "sent"]
  /\ ad' = [ad EXCEPT ![i] = AdOf[chosen[c]]]
  /\ got' = [got EXCEPT ![c] = i]
  /\ pc' = [pc EXCEPT ![c] = "launching"]
  /\ UNCHANGED <<view, eligible, proposals, chosen, open, listVars, procVars, history>>

\* OCI accepts the request: the instance exists, whether or not a call still waits
\* for it.
Accepted(i) ==
  /\ state[i] = "sent"
  /\ state' = [state EXCEPT ![i] = "live"]
  /\ UNCHANGED <<view, createVars, ad, open, listVars, procVars, history>>

\* Mutant of Forgotten: the stand-in is forgotten on success only.
ForgottenPlaced(c) ==
  /\ view' = IF pc'[c] = "placed" THEN [view EXCEPT ![c] = None] ELSE view
  /\ chosen' = [chosen EXCEPT ![c] = None]

\* The deferred forget of PlaceInstance, on every way out of placeFunc.
Forgotten(c) ==
  /\ view' = [view EXCEPT ![c] = None]
  /\ chosen' = [chosen EXCEPT ![c] = None]

\* placeFunc failed: forget the stand-in; the next proposal, or the last error.  A
\* request that was sent may have been refused; or it may yet be accepted, and the
\* instance of one that was accepted is there, when the answer names no work
\* request, the context is cancelled, the work request fails, or the time-out has
\* only begun to delete it.
PlaceFails(c) ==
  /\ pc[c] \in {"placing", "launching"}
  /\ proposals' = [proposals EXCEPT ![c] = @ \ {chosen[c]}]
  /\ pc' = [pc EXCEPT ![c] = IF proposals'[c] = {} THEN "idle" ELSE "propose"]
  /\ Forgotten(c)
  /\ got' = [got EXCEPT ![c] = None]
  /\ \/ /\ \A i \in Instances : got[c] = i => state[i] = "sent"
        /\ state' = [i \in Instances |-> IF got[c] = i THEN "unused" ELSE state[i]]
        /\ ad' = [i \in Instances |-> IF got[c] = i THEN None ELSE ad[i]]
        /\ UNCHANGED lost
     \/ /\ got[c] # None
        /\ lost' = lost \cup {i \in Instances : got[c] = i /\ view[i] = None}
        /\ UNCHANGED <<state, ad>>
  /\ disturbed' = TRUE
  /\ UNCHANGED <<eligible, open, listVars, procVars, over, leaked, blur>>

\* The work request has succeeded, or the time-out leaves the instance to the
\* registration: forget the stand-in at once.
Placed(c) ==
  /\ pc[c] = "launching"
  /\ state[got[c]] \in {"live", "gone"}
  /\ proposals' = [proposals EXCEPT ![c] = {}]
  /\ pc' = [pc EXCEPT ![c] = "placed"]
  /\ Forgotten(c)
  /\ UNCHANGED <<eligible, got, ociVars, listVars, procVars, history>>

\* Create enters the instance in the view and returns it.
InstanceFound(c) ==
  /\ pc[c] = "placed"
  /\ view' = Entered(got[c], ad[got[c]])
  /\ pc' = [pc EXCEPT ![c] = "done"]
  /\ UNCHANGED <<eligible, proposals, chosen, got, ociVars, listVars, procVars, history>>

-----------------------------------------------------------------------------
(* CloudProvider.Delete *)

\* The instance ends: terminated by an earlier Delete call, or taken by OCI.
Ends(i) ==
  /\ Live(i)
  /\ state' = [state EXCEPT ![i] = "gone"]
  /\ lost' = lost \ {i}
  /\ disturbed' = TRUE
  /\ UNCHANGED <<view, createVars, ad, open, listVars, procVars, over, leaked, blur>>

\* No Create call still has the instance in hand.
Settled(i) == \A c \in Claims : got[c] = i => pc[c] = "done"

\* Mutant of InstanceForget: the stand-in's name is forgotten, not the instance.
InstanceForgetName(i) ==
  /\ state[i] = "gone" /\ Settled(i) /\ i \notin over
  /\ view' = [x \in Ids |-> IF x \in Claims /\ got[x] = i THEN None ELSE view[x]]
  /\ over' = over \cup {i}
  /\ UNCHANGED <<createVars, ociVars, listVars, procVars, leaked, lost, disturbed, blur>>

\* Delete finds the instance NotFound or TERMINATED, forgets it and answers
\* NodeClaimNotFound, after which it is not called again.
InstanceForget(i) ==
  /\ state[i] = "gone" /\ Settled(i) /\ i \notin over
  /\ view' = [view EXCEPT ![i] = None]
  /\ over' = over \cup {i}
  /\ UNCHANGED <<createVars, ociVars, listVars, procVars, leaked, lost, disturbed, blur>>

\* The last Delete call for the instance does not reach InstanceForget: the
\* orphan controller calls it once, and it returns when DeleteInstance succeeds;
\* or DeleteInstance itself ends in NotFound.
DeletedUnforgotten(i) ==
  /\ state[i] = "gone" /\ Settled(i) /\ i \notin over
  /\ over' = over \cup {i}
  /\ leaked' = leaked \cup {i}
  /\ UNCHANGED <<view, createVars, ociVars, listVars, procVars, lost, disturbed, blur>>

-----------------------------------------------------------------------------
(* CloudProvider.List, called by the warm-up loop, the orphan controller and core *)

\* ListInstances gives every instance that is not TERMINATED, those still being
\* provisioned or terminated too.
ListFetches ==
  /\ listing = None
  /\ \E who \in {"warmUp", "other"} :
       /\ who = "warmUp" => ~initialized
       /\ listing' = who
  /\ fetched' = {i \in Instances : Live(i)}
  /\ UNCHANGED <<view, createVars, ociVars, procVars, history>>

ListEnters(i) ==
  /\ i \in fetched
  /\ fetched' = fetched \ {i}
  /\ view' = Entered(i, ad[i])
  /\ leaked' = IF state[i] = "gone" THEN leaked \cup {i} ELSE leaked
  /\ lost' = lost \ {i}
  /\ UNCHANGED <<createVars, ociVars, listing, procVars, over, disturbed, blur>>

\* The List call is over.
ListEnded == listing # None /\ listing' = None /\ fetched' = {}

\* Mutant of ListReturns: warmed up by a List that failed half-way.
ListReturnsEarly ==
  /\ ListEnded
  /\ initialized' = (initialized \/ listing = "warmUp")
  /\ UNCHANGED <<view, createVars, ociVars, crashes, history>>

\* Every instance has been entered.  The first List of the warm-up loop that
\* succeeds admits Create.
ListReturns ==
  /\ fetched = {}
  /\ ListEnded
  /\ initialized' = (initialized \/ listing = "warmUp")
  /\ UNCHANGED <<view, createVars, ociVars, crashes, history>>

\* List gives up on the first error and returns nothing.
ListFails ==
  /\ ListEnded
  /\ UNCHANGED <<view, createVars, ociVars, procVars, history>>

-----------------------------------------------------------------------------
\* A reservation fills up or empties, a cluster or group comes or goes.
OfferingChanges(p) ==
  /\ open' = IF p \in open THEN open \ {p} ELSE open \cup {p}
  /\ disturbed' = TRUE
  /\ UNCHANGED <<view, createVars, state, ad, listVars, procVars, over, leaked, lost, blur>>

\* The process restarts with an empty view; the requests it had sent may still be
\* accepted.
Crash ==
  /\ crashes < MaxCrashes
  /\ crashes' = crashes + 1
  /\ view' = [x \in Ids |-> None]
  /\ pc' = [c \in Claims |-> IF pc[c] = "done" THEN "done" ELSE "idle"]
  /\ eligible' = [c \in Claims |-> {}]
  /\ proposals' = [c \in Claims |-> {}]
  /\ chosen' = [c \in Claims |-> None]
  /\ got' = [c \in Claims |-> IF pc[c] = "done" THEN got[c] ELSE None]
  /\ lost' = lost \cup {i \in Instances : \E c \in Claims : Launching(c, i)}
  /\ listing' = None
  /\ fetched' = {}
  /\ initialized' = FALSE
  /\ disturbed' = TRUE
  /\ UNCHANGED <<ociVars, over, leaked, blur>>

Create(c) ==
  \/ ResolveOfferings(c) \/ Decorate(c) \/ DecorateFails(c)
  \/ Propose(c) \/ ProposeNil(c) \/ Recovered(c)
  \/ \E i \in Instances : Send(c, i)
  \/ PlaceFails(c) \/ Placed(c) \/ InstanceFound(c)

Next ==
  \/ \E c \in Claims : Create(c)
  \/ \E i \in Instances : Accepted(i)
  \/ \E i \in Instances : Ends(i) \/ InstanceForget(i) \/ DeletedUnforgotten(i) \/ ListEnters(i)
  \/ ListFetches \/ ListReturns \/ ListFails
  \/ \E p \in Proposals : OfferingChanges(p)
  \/ Crash

Spec == Init /\ [][Next]_vars

-----------------------------------------------------------------------------
(* Properties *)

\* Once Create is admitted, the view misses no live instance but those of a Create
\* call under way, polled for with the stand-in of the same domain in their place or
\* in the window before InstanceFound, and the launches whose call failed or died
\* after it had sent them, until a List enters them: restarts, lists and deletes never
\* make the spreading blind.
ViewCoversLiveInstances ==
  initialized => \A i \in Instances : Live(i) =>
    \/ view[i] # None
    \/ \E c \in Claims : InWindow(c, i) \/ (Launching(c, i) /\ view[c] = ad[i])
    \/ i \in lost

\* A stand-in is in the view only while its launch is in flight, so that failed
\* and retried proposals leave nothing behind.
StandInsAreInFlight ==
  \A c \in Claims : view[c] # None => pc[c] \in {"placing", "launching"}

\* What a domain holds: an instance counts once its launch is over, the launch
\* before that.
InDomain(a) ==
  {i \in Instances : Live(i) /\ ad[i] = a /\ ~ \E c \in Claims : Launching(c, i)}
  \cup {c \in Claims : pc[c] \in {"placing", "launching"} /\ AdOf[chosen[c]] = a}

\* Concurrent Create calls spread: with every domain on offer and nothing failing,
\* the numbers of placed or launching instances differ between domains by at most
\* one, and one more for each instance that was counted twice (a List entered it
\* beside its stand-in) or not at all (the window) when a proposal was made.
SpreadEvenly ==
  ~disturbed => \A a, b \in Ads :
    Cardinality(InDomain(a)) <= Cardinality(InDomain(b)) + 1 + blur

\* An instance whose deletion is over is out of the view for good: the only ways
\* for it to stay, or to come back, are a last Delete that did not forget it and a
\* List that had fetched it before it ended.
ForgottenForGood ==
  \A i \in over : view[i] = None \/ i \in leaked

=============================================================================
