------------------------- MODULE CapacityReservation ------------------------
(***************************************************************************)
(* pkg/providers/capacityreservation: how much of one capacity reservation *)
(* is believed to be in use.                                               *)
(*                                                                         *)
(* The provider caches what OCI said of the reservation, once by OCID and  *)
(* once more in the list a selector resolved to, and corrects it with the  *)
(* launches and releases it has been told of since: a Usage object per     *)
(* reservation in usageMap.  Reconcilers, the scheduler and PlaceInstance  *)
(* resolve concurrently with the Mark calls of Create and Delete.          *)
(*                                                                         *)
(* One shape, one fault domain.  A point in time is the number of marks    *)
(* committed before it: only the order of loads and marks matters.         *)
(***************************************************************************)
EXTENDS Integers, FiniteSets

CONSTANTS
  Resolvers,  \* concurrent callers of ResolveCapacityReservations
  Launches,   \* instances launched into the reservation
  Usages,     \* Usage objects the runtime can allocate
  Total,      \* ReservedCount
  Paths,      \* how NodeClasses name the reservation: "ocid", "filter"
  None

ASSUME ReservationAssumption ==
  /\ Total \in Nat /\ IsFiniteSet(Launches)
  /\ Paths \subseteq {"ocid", "filter"}
  /\ None \notin Resolvers \cup Launches \cup Usages \cup Paths

VARIABLES
  used,       \* UsedCount in OCI
  phase,      \* of each launch: before, in or after the reservation, marked or not
  markedAt,   \* when it was marked used, 0 for never
  releasedAt, \* when it was marked released, 0 for never
  clock,      \* marks committed so far
  capRes,     \* capResCache: [used, time] or None
  sel,        \* capResSelectorCache: [used, time] or None
  renewed,    \* capRes was loaded after what sel holds
  usageMap,   \* the reservation's Usage object, or None
  count,      \* instances counted by each Usage object
  lastCommit, \* its lastCommit
  target,     \* the Usage object a Mark call is about to adjust
  pc,         \* where each resolver is
  path,       \* which kind of config it resolves
  rec,        \* the CapResWithLoadTime it has in hand
  raced       \* history: a mark ran into the window of a load or into a Usage
              \* object that had been deleted, or a look-up by OCID or from
              \* the cache deleted one

ociVars     == <<used, phase>>
markVars    == <<markedAt, releasedAt, clock, target>>
cacheVars   == <<capRes, sel, renewed>>
usageVars   == <<usageMap, count, lastCommit>>
resolveVars == <<pc, path, rec>>
vars == <<ociVars, markVars, cacheVars, usageVars, resolveVars, raced>>

Time   == 0..(2 * Cardinality(Launches))
Record == [used : 0..Total, time : Time]

\* Nothing is no record.
ASSUME NoneAssumption == None \notin Record

Phase  == {"new", "consuming", "marked", "freed", "released"}

TypeOK ==
  /\ used \in 0..Total
  /\ phase \in [Launches -> Phase]
  /\ markedAt \in [Launches -> Time] /\ releasedAt \in [Launches -> Time]
  /\ clock \in Time
  /\ capRes \in Record \cup {None} /\ sel \in Record \cup {None}
  /\ renewed \in BOOLEAN
  /\ usageMap \in Usages \cup {None}
  /\ count \in [Usages -> Int] /\ lastCommit \in [Usages -> Time]
  /\ target \in [Launches -> Usages \cup {None}]
  /\ pc \in [Resolvers -> {"idle", "get", "hit", "answered", "reset", "keep", "adjust"}]
  /\ path \in [Resolvers -> {"ocid", "filter"}]
  /\ rec \in [Resolvers -> Record \cup {None}]
  /\ raced \in BOOLEAN

Init ==
  /\ used = 0
  /\ phase = [l \in Launches |-> "new"]
  /\ markedAt = [l \in Launches |-> 0] /\ releasedAt = [l \in Launches |-> 0]
  /\ clock = 0
  /\ capRes = None /\ sel = None
  /\ renewed = FALSE
  /\ usageMap = None
  /\ count = [u \in Usages |-> 0] /\ lastCommit = [u \in Usages |-> 0]
  /\ target = [l \in Launches |-> None]
  /\ pc = [r \in Resolvers |-> "idle"]
  /\ path = [r \in Resolvers |-> "ocid"]
  /\ rec = [r \in Resolvers |-> None]
  /\ raced = FALSE

-----------------------------------------------------------------------------
(* OCI, and the two Mark calls *)

\* LaunchInstance takes a place, if there is one.
Consume(l) ==
  /\ phase[l] = "new" /\ used < Total
  /\ used' = used + 1
  /\ phase' = [phase EXCEPT ![l] = "consuming"]
  /\ UNCHANGED <<markVars, cacheVars, usageVars, resolveVars, raced>>

\* The instance is terminated, and OCI takes the place back.
Free(l) ==
  /\ phase[l] = "marked"
  /\ used' = used - 1
  /\ phase' = [phase EXCEPT ![l] = "freed"]
  /\ UNCHANGED <<markVars, cacheVars, usageVars, resolveVars, raced>>

\* getOrCreateUsage, under the provider's mutex.
GetOrCreateUsage(l) ==
  /\ phase[l] \in {"consuming", "freed"} /\ target[l] = None
  /\ \/ /\ usageMap # None
        /\ target' = [target EXCEPT ![l] = usageMap]
        /\ UNCHANGED usageVars
     \/ /\ usageMap = None
        /\ \E u \in Usages :
             /\ \A m \in Launches : target[m] # u
             /\ target' = [target EXCEPT ![l] = u]
             /\ usageMap' = u
             /\ count' = [count EXCEPT ![u] = 0]
             /\ lastCommit' = [lastCommit EXCEPT ![u] = clock]
  /\ UNCHANGED <<ociVars, markedAt, releasedAt, clock, cacheVars, resolveVars, raced>>

\* Usage.adjust, under the Usage object's own mutex: IncreaseUsage after a
\* launch, DecreaseUsage after a termination.
Adjust(l) ==
  /\ target[l] # None
  /\ clock' = clock + 1
  /\ \/ /\ phase[l] = "consuming"
        /\ phase' = [phase EXCEPT ![l] = "marked"]
        /\ markedAt' = [markedAt EXCEPT ![l] = clock']
        /\ count' = [count EXCEPT ![target[l]] = @ + 1]
        /\ UNCHANGED releasedAt
     \/ /\ phase[l] = "freed"
        /\ phase' = [phase EXCEPT ![l] = "released"]
        /\ releasedAt' = [releasedAt EXCEPT ![l] = clock']
        /\ count' = [count EXCEPT ![target[l]] = @ - 1]
        /\ UNCHANGED markedAt
  /\ lastCommit' = [lastCommit EXCEPT ![target[l]] = clock']
  /\ target' = [target EXCEPT ![l] = None]
  /\ raced' = (raced \/ usageMap # target[l] \/ \E r \in Resolvers : pc[r] \in {"answered", "reset"})
  /\ UNCHANGED <<used, cacheVars, usageMap, resolveVars>>

-----------------------------------------------------------------------------
(* ResolveCapacityReservations *)

\* A config that gives the OCID goes to getCapacityReservation ...
ResolveById(r) ==
  /\ pc[r] = "idle" /\ "ocid" \in Paths
  /\ pc' = [pc EXCEPT ![r] = "get"]
  /\ path' = [path EXCEPT ![r] = "ocid"]
  /\ UNCHANGED <<ociVars, markVars, cacheVars, usageVars, rec, raced>>

\* ... a filter is served from capResSelectorCache ...
SelectorHit(r) ==
  /\ pc[r] = "idle" /\ "filter" \in Paths
  /\ sel # None
  /\ pc' = [pc EXCEPT ![r] = "adjust"]
  /\ path' = [path EXCEPT ![r] = "filter"]
  /\ rec' = [rec EXCEPT ![r] = sel]
  /\ UNCHANGED <<ociVars, markVars, cacheVars, usageVars, raced>>

\* ... or loads it, one caller at a time (GetOrLoadCache), by listing and then
\* getting the reservation.
SelectorMiss(r) ==
  /\ pc[r] = "idle" /\ "filter" \in Paths
  /\ sel = None
  /\ \A q \in Resolvers : path[q] = "filter" => pc[q] \in {"idle", "adjust"}
  /\ pc' = [pc EXCEPT ![r] = "get"]
  /\ path' = [path EXCEPT ![r] = "filter"]
  /\ UNCHANGED <<ociVars, markVars, cacheVars, usageVars, rec, raced>>

\* getCapacityReservation: capResCache.GetOrLoad hits,
GetCached(r) ==
  /\ pc[r] = "get"
  /\ capRes # None
  /\ rec' = [rec EXCEPT ![r] = capRes]
  /\ pc' = [pc EXCEPT ![r] = "hit"]
  /\ UNCHANGED <<ociVars, markVars, cacheVars, usageVars, path, raced>>

\* or one caller asks OCI,
GetAnswered(r) ==
  /\ pc[r] = "get"
  /\ capRes = None
  /\ \A q \in Resolvers : pc[q] # "answered"
  /\ rec' = [rec EXCEPT ![r] = [used |-> used, time |-> clock]]
  /\ pc' = [pc EXCEPT ![r] = "answered"]
  /\ UNCHANGED <<ociVars, markVars, cacheVars, usageVars, path, raced>>

\* and stamps the answer with the time at which it arrived, and stores it.
GetStored(r) ==
  /\ pc[r] = "answered"
  /\ rec' = [rec EXCEPT ![r].time = clock]
  /\ capRes' = rec'[r]
  /\ renewed' = TRUE
  /\ pc' = [pc EXCEPT ![r] = "reset"]
  /\ UNCHANGED <<ociVars, markVars, sel, usageVars, path, raced>>

\* "reset usage to respect capacity reservation response": delete(usageMap, ocid)
\* after every successful getCapacityReservation, loaded or cached.
ResetUsage(r) ==
  /\ pc[r] \in {"hit", "reset"}
  /\ usageMap' = None
  /\ raced' = (raced \/ (usageMap # None /\ (pc[r] = "hit" \/ path[r] = "ocid")))
  /\ pc' = [pc EXCEPT ![r] = IF path[r] = "filter" THEN "keep" ELSE "adjust"]
  /\ UNCHANGED <<ociVars, markVars, cacheVars, count, lastCommit, path, rec>>

\* The loader of the selector returns and its list is cached.
KeepSelection(r) ==
  /\ pc[r] = "keep"
  /\ sel' = rec[r]
  /\ renewed' = FALSE
  /\ pc' = [pc EXCEPT ![r] = "adjust"]
  /\ UNCHANGED <<ociVars, markVars, capRes, usageVars, path, rec, raced>>

Least(a, b) == IF a <= b THEN a ELSE b

\* Mutant of Resolved: usage marked since the load is only taken off, not added.
ResolvedUnadjusted(r) ==
  IF usageMap # None /\ rec[r].time < lastCommit[usageMap] /\ count[usageMap] < 0
  THEN rec[r].used + count[usageMap]
  ELSE rec[r].used

\* What the call returns as Used: adjustCapacityAgainstUsage if the record is
\* older than the usage.
Resolved(r) ==
  IF usageMap # None /\ rec[r].time < lastCommit[usageMap]
  THEN Least(Total, rec[r].used + count[usageMap])
  ELSE rec[r].used

ResolveReturns(r) ==
  /\ pc[r] = "adjust"
  /\ pc' = [pc EXCEPT ![r] = "idle"]
  /\ rec' = [rec EXCEPT ![r] = None]
  /\ UNCHANGED <<ociVars, markVars, cacheVars, usageVars, path, raced>>

-----------------------------------------------------------------------------
(* Expiry.  Both caches keep an entry for an hour, and the selector's was stored
   after the reservation's it was made from, so it expires after it. *)

\* Mutant of ExpireCapRes: the cache is made without an expiration.
ExpireCapResNever == FALSE /\ UNCHANGED vars

ExpireCapRes ==
  /\ capRes # None
  /\ capRes' = None
  /\ UNCHANGED <<ociVars, markVars, sel, renewed, usageVars, resolveVars, raced>>

ExpireSelection ==
  /\ sel # None
  /\ capRes = None \/ renewed
  /\ sel' = None
  /\ UNCHANGED <<ociVars, markVars, capRes, renewed, usageVars, resolveVars, raced>>

Resolve(r) ==
  \/ ResolveById(r) \/ SelectorHit(r) \/ SelectorMiss(r)
  \/ GetCached(r) \/ GetAnswered(r) \/ GetStored(r)
  \/ ResetUsage(r) \/ KeepSelection(r) \/ ResolveReturns(r)

Next ==
  \/ \E l \in Launches : Consume(l) \/ Free(l) \/ GetOrCreateUsage(l) \/ Adjust(l)
  \/ \E r \in Resolvers : Resolve(r)
  \/ ExpireCapRes
  \/ ExpireSelection

Spec == Init /\ [][Next]_vars

\* NodeClasses are reconciled and instance types listed again and again, entries
\* expire, and a Mark call that has begun is finished.
FairSpec ==
  /\ Spec
  /\ \A l \in Launches : WF_vars(GetOrCreateUsage(l)) /\ WF_vars(Adjust(l))
  /\ \A r \in Resolvers : WF_vars(Resolve(r))
  /\ WF_vars(ExpireCapRes) /\ SF_vars(ExpireSelection)

-----------------------------------------------------------------------------
(* Properties *)

MarkedSince(t)   == {l \in Launches : markedAt[l] > t}
ReleasedSince(t) == {l \in Launches : releasedAt[l] > t}

\* What the record says plus what has been marked since it was loaded.
Known(r) ==
  Least(Total, rec[r].used + Cardinality(MarkedSince(rec[r].time))
                           - Cardinality(ReleasedSince(rec[r].time)))

\* "reconcile usage so we don't over-shoot": Resolve never reports less use than the
\* record it starts from together with the marks made since.  It does so for a filter
\* config, of a record that is still the cached one, as long as no mark ran between
\* OCI's answer and the reset of the usage that follows it, and no usage was thrown
\* away by a look-up by OCID or by one that hit the cache.
MarkedUsageCountedUnlessRaced ==
  ~raced => \A r \in Resolvers :
    pc[r] = "adjust" /\ rec[r] = sel => Resolved(r) >= Known(r)

\* Delete's "it will self-heal as capacity reservation cache refresh": once every
\* launch and release has been marked, what Resolve returns becomes, and stays,
\* what OCI says, whatever races there have been.
SelfHeals ==
  <>[](\A r \in Resolvers : pc[r] = "adjust" => Resolved(r) = used)

=============================================================================
