------------------------------- MODULE Launch -------------------------------
(***************************************************************************)
(* How a NodeClaim becomes a launched instance: CloudProvider.Create goes  *)
(* through the instance types by price, the placement provider turns their *)
(* offerings into proposals, the instance provider launches one proposal   *)
(* after the other, and a failure for want of capacity makes the offering  *)
(* unavailable for a while (pkg/cache/unavailableofferings.go).  Beside it *)
(* run the refreshers of the catalogue the instance types are made from.   *)
(*                                                                         *)
(* What an instance type offers is in InstanceTypes.  The instance itself, *)
(* the wait for its work request and NPN are in NodeLifecycle, the spread  *)
(* over availability domains in Placement: proposals come in any order.    *)
(***************************************************************************)
EXTENDS InstanceTypes

CONSTANTS
  Claims,
  Shapes,        \* the shapes of the region
  Ads,
  Scenarios,     \* what the claims ask for and what goes on around them
  GlobalConfigs, \* the global shape configurations
  Families       \* the IP families of the cluster

ASSUME LaunchAssumption ==
  /\ \A s1, s2 \in Shapes : s1.name = s2.name => s1 = s2
  /\ \A sc \in Scenarios : {sc.maxFaults, sc.maxChanges, sc.refreshes} \subseteq Nat

\* Nothing is no number and no truth value.
ASSUME NoneAssumption == None \notin Int /\ None \notin BOOLEAN

\* ListShapes answers with pages of shapes of the region.
ASSUME CatalogAssumption ==
  \A sc \in Scenarios :
    /\ sc.catalogs # <<>>
    /\ sc.catalogs \in Seq([Ads -> Seq(SUBSET {s.name : s \in Shapes})])

\* A metadata file has its four parts.
ASSUME MetadataAssumption ==
  \A sc \in Scenarios : \A f \in sc.files :
    DOMAIN f = {"price", "preemptible", "cluster", "oneVcpu"}

\* A reservation has an identifier.  A type with a price in one of the metadata files
\* costs something: Create tells spot from on-demand offerings by their price.
ASSUME OfferAssumption ==
  \A sc \in Scenarios, c \in Claims : sc.want[c] # None =>
    /\ \A r \in sc.want[c].class.reservations : r.id # None
    /\ \A f \in sc.files, m \in {sc.minor, None}, s \in Shapes :
         \A t \in TypesOfShape([minor |-> m, configs |-> GlobalConfigs], sc.want[c].class, s) :
           UnitPrice([price |-> f.price], s) # None =>
             Price([price |-> f.price], t) \in Nat \ {0}

VARIABLES
  scenario,   \* .want: claim to its requirements, or None; .gate: service-limit
              \* fallback; .files: metadata files; .catalogs: what ListShapes
              \* answers, pages of names for each domain, one after the other;
              \* .warm: the refreshers have run; .refreshes: bound on further
              \* runs of refreshShapes; .blockable: what OCI may run out of;
              \* .nodes: what nodes may report, the name of their type, the memory it
              \* declares and the memory found; .maxFaults: bound on calls that
              \* fail for another reason than capacity; .maxChanges: bound on changes of what OCI can supply
  shapeAdMap, \* the shapes refreshShapes found: name to availability domains
  meta,       \* the shape metadata reloadConfigFile holds
  minor,      \* the minor version of the cluster, or None
  lister,     \* refreshShapes under way, or None
  version,    \* which of the catalogs OCI has now
  measured,   \* of .nodes, the one recorded for a name, if any
  refreshes,  \* how often refreshShapes has run, at most scenario.refreshes
  marks,      \* the keys in the unavailable-offerings cache
  blocked,    \* what OCI cannot supply now
  used,       \* the used count of each reservation entry
  pc, todo, props, cur, skip,  \* Create of each claim
  launched,   \* what was launched for each claim, or None
  offered,    \* history: the offers Create listed
  seen,       \* history: the failures when it listed them
  tried,      \* history: the offers it has tried
  failures,   \* history: what failed for want of capacity, and the compartment if
              \* that was for its quota; until the cache forgets it
  faults, changes

catalogVars == <<shapeAdMap, meta, minor, lister, version, measured, refreshes>>
createVars  == <<pc, todo, props, cur, skip, launched, offered, seen, tried>>
ociVars     == <<blocked, used, changes>>
vars == <<scenario, catalogVars, marks, ociVars, createVars, failures, faults>>

Names     == {s.name : s \in Shapes}
Active    == {c \in Claims : scenario.want[c] # None}
Want(c)   == scenario.want[c]
Class(c)  == Want(c).class
Classes   == UNION {{sc.want[c].class : c \in {d \in Claims : sc.want[d] # None}} : sc \in Scenarios}
Entry     == UNION {UNION {{<<r.id, e>> : e \in r.entries} : r \in k.reservations} : k \in Classes}

\* The figures of shapes and classes.  OCPUs are whole, and so are the eighths of the
\* memory that comes with one; the two-socket shapes are fixed and have a core on each
\* socket; only Arm shapes have one vCPU to an OCPU; and no node finds more memory than
\* it declares.
ASSUME SizeAssumption ==
  /\ \A s \in Shapes :
       IF s.flexible
       THEN /\ {s.ocpuMin, s.gbsMin, s.gbsPerOcpu} \subseteq Nat \ {0}
            /\ {s.ocpuMax, s.gbsMax} \subseteq Nat
            /\ s.gbsPerOcpu % 8 = 0 /\ s.baselines \subseteq {1, 2, 8}
            /\ s.sockets # 2
       ELSE {s.ocpus, s.gbs} \subseteq Nat \ {0} /\ (s.sockets = 2 => s.ocpus >= 2)
  /\ \A k \in Classes :
       k.platform # <<>> => {"percent", "smt"} \subseteq DOMAIN k.platform
  /\ \A sc \in Scenarios :
       /\ \A f \in sc.files : \A s \in Shapes : s.name \in f.oneVcpu => s.arm
       /\ \A x \in sc.nodes : /\ {x.gbs, x.mib} \subseteq Nat
                              /\ 1000 * x.mib <= 1024 * x.gbs

\* The share of the cores that a shape allows to enable, and its default, are percentages.
ASSUME PercentAssumption ==
  \A s \in Shapes : s.platform # None =>
    s.platform["percent"].allowed \cup {s.platform["percent"].default} \subseteq 1..100 \cup {None}

P == [ads |-> shapeAdMap, price |-> meta.price, preemptible |-> meta.preemptible,
      cluster |-> meta.cluster, oneVcpu |-> meta.oneVcpu, minor |-> minor,
      measured |-> measured, configs |-> GlobalConfigs, families |-> Families]

Results == {"insufficient", "createError", "panicked"}

\* Every shape, with the domains OCI offers it in.
Complete(v) ==
  [n \in Names |-> {ad \in Ads : \E i \in DOMAIN scenario.catalogs[v][ad] :
                                  n \in scenario.catalogs[v][ad][i]}]

NoMeta == [price |-> <<>>, preemptible |-> {}, cluster |-> {}, oneVcpu |-> {}]

Init ==
  /\ scenario \in Scenarios
  /\ shapeAdMap = IF scenario.warm THEN Complete(1) ELSE [n \in Names |-> {}]
  /\ meta \in IF scenario.warm THEN scenario.files ELSE {NoMeta}
  /\ minor = IF scenario.warm THEN scenario.minor ELSE None
  /\ lister = None /\ version = 1 /\ measured = {} /\ refreshes = 0
  /\ marks = {} /\ failures = {}
  /\ blocked \in SUBSET scenario.blockable
  /\ used = [x \in Entry |-> 0]
  /\ pc = [c \in Claims |-> "idle"]
  /\ todo = [c \in Claims |-> {}] /\ props = [c \in Claims |-> {}]
  /\ cur = [c \in Claims |-> None] /\ skip = [c \in Claims |-> FALSE]
  /\ launched = [c \in Claims |-> None]
  /\ offered = [c \in Claims |-> {}] /\ seen = [c \in Claims |-> {}]
  /\ tried = [c \in Claims |-> {}]
  /\ faults = 0 /\ changes = 0

-----------------------------------------------------------------------------
(* The catalogue *)

\* refreshShapes lists one availability domain after the other.  The page token
\* is declared outside both loops: the one that fetched the last page of a domain
\* is sent again with the first request for the next (stale).
RefreshShapesStarts ==
  /\ lister = None
  /\ refreshes < scenario.refreshes /\ refreshes' = refreshes + 1
  /\ \E ad \in Ads :
       lister' = [ad |-> ad, left |-> Ads \ {ad}, got |-> [n \in Names |-> {}],
                  token |-> None, stale |-> FALSE, version |-> version]
  /\ UNCHANGED <<scenario, shapeAdMap, meta, minor, version, measured, marks, ociVars, createVars,
                 failures, faults>>

\* The page a request returns: the one its token names.
PageOf(l) == Given(l.token, 1)

\* Mutant of Listed: a page replaces the ones before it.
ListedLast(l) ==
  LET names == scenario.catalogs[version][l.ad][PageOf(l)]
  IN  [n \in Names |-> IF n \in names THEN l.got[n] \union {l.ad} ELSE l.got[n] \ {l.ad}]

Listed(l) ==
  LET names == scenario.catalogs[version][l.ad][PageOf(l)]
  IN  [n \in Names |-> IF n \in names THEN l.got[n] \union {l.ad} ELSE l.got[n]]

RefreshShapesPage ==
  /\ lister # None
  /\ PageOf(lister) < Len(scenario.catalogs[version][lister.ad])
  /\ lister' = [lister EXCEPT !.got = Listed(lister), !.token = PageOf(lister) + 1]
  /\ UNCHANGED <<scenario, shapeAdMap, meta, minor, version, refreshes, measured, marks, ociVars,
                 createVars, failures, faults>>

\* The last page of a domain: on to the next one, or the new map is put in place.
RefreshShapesLastPage ==
  /\ lister # None
  /\ PageOf(lister) = Len(scenario.catalogs[version][lister.ad])
  /\ IF lister.left # {}
     THEN /\ \E ad \in lister.left :
               lister' = [lister EXCEPT !.got = Listed(lister), !.ad = ad, !.left = @ \ {ad},
                                        !.stale = @ \/ lister.token # None]
          /\ UNCHANGED shapeAdMap
     ELSE /\ shapeAdMap' = Listed(lister)
          /\ lister' = None
  /\ UNCHANGED <<scenario, meta, minor, version, refreshes, measured, marks, ociVars,
                 createVars, failures, faults>>

\* An error, or a token the domain does not know, ends the refresh: the old map
\* stays.
RefreshShapesFails ==
  /\ lister # None
  /\ \/ faults < scenario.maxFaults /\ faults' = faults + 1
     \/ PageOf(lister) > Len(scenario.catalogs[version][lister.ad]) /\ UNCHANGED faults
  /\ lister' = None
  /\ UNCHANGED <<scenario, shapeAdMap, meta, minor, version, refreshes, measured, marks, ociVars,
                 createVars, failures>>

\* reloadConfigFile: everything is replaced, but preemptible shapes accumulate.
ReloadConfigFile ==
  /\ \E f \in scenario.files :
       meta' = [f EXCEPT !.preemptible = meta.preemptible \union @]
  /\ meta' # meta
  /\ UNCHANGED <<scenario, shapeAdMap, minor, lister, version, refreshes, measured, marks, ociVars,
                 createVars, failures, faults>>

RefreshClusterVersion ==
  /\ minor # scenario.minor
  /\ minor' = scenario.minor
  /\ UNCHANGED <<scenario, shapeAdMap, meta, lister, version, refreshes, measured, marks, ociVars,
                 createVars, failures, faults>>

\* External: OCI changes the shapes it offers.
CatalogChanges ==
  /\ version < Len(scenario.catalogs)
  /\ version' = version + 1
  /\ UNCHANGED <<scenario, shapeAdMap, meta, minor, lister, refreshes, measured, marks, ociVars,
                 createVars, failures, faults>>

\* A node reports its memory, and the smaller figure of its name is kept.
NodeMeasured ==
  /\ \E x \in scenario.nodes :
       /\ \A y \in measured : y.name = x.name => x.mib < y.mib
       /\ measured' = {y \in measured : y.name # x.name} \union {x}
  /\ UNCHANGED <<scenario, shapeAdMap, meta, minor, lister, version, refreshes, marks, ociVars,
                 createVars, failures, faults>>

\* The time to live of a measurement passes, or the image resolution no longer names
\* the image it was taken with.
MeasurementExpires ==
  /\ \E x \in measured : measured' = measured \ {x}
  /\ UNCHANGED <<scenario, shapeAdMap, meta, minor, lister, version, refreshes, marks, ociVars,
                 createVars, failures, faults>>

-----------------------------------------------------------------------------
(* CloudProvider.Create *)

\* Offerings.Compatible: capacity type, zone and reservation.
Compatible(w, o) == /\ o.cap \in w.caps
                    /\ o.ad \in w.zones
                    /\ w.reservation # None => o.res = w.reservation

OffersOf(c, t) ==
  {o \in Offerings(P, Class(c), t, Want(c).taints, marks, used) : Compatible(Want(c), o)}

Types(c) == ListInstanceTypes(P, Class(c), Shapes, Want(c).taints)

\* resolveInstanceTypes: the pod requests fit.
FitsRequests(c, t) ==
  LET a == Allocatable(P, Class(c), t)
  IN  \A res \in DOMAIN Want(c).requests : Want(c).requests[res] <= a[res]

\* orderInstanceTypesByPrice: one candidate for each type and price.
Candidates(c) ==
  UNION {LET offers == OffersOf(c, t)
         IN  {[type |-> t, price |-> p, offers |-> {o \in offers : o.price = p}] :
                p \in {o.price : o \in offers}} :
         t \in {x \in Types(c) : FitsRequests(c, x)}}

\* Mutant of Cheapest: the candidates are not sorted.
CheapestUnsorted(cands) == cands

\* Cheapest first; equal prices go by name, which is any order here.
Cheapest(cands) == {x \in cands : \A y \in cands : x.price <= y.price}

\* Nothing to choose from is a lack of capacity; no instance type at all an error.
CreateStarts(c) ==
  /\ c \in Active /\ pc[c] = "idle"
  /\ LET cands == Candidates(c)
     IN  /\ todo' = [todo EXCEPT ![c] = cands]
         /\ offered' = [offered EXCEPT ![c] =
              UNION {{<<x.type, o>> : o \in x.offers} : x \in cands}]
         /\ pc' = [pc EXCEPT ![c] = CASE Types(c) = {} -> "createError"
                                      [] Types(c) # {} /\ cands = {} -> "insufficient"
                                      [] cands # {} -> "placing"]
  /\ seen' = [seen EXCEPT ![c] = failures]
  /\ tried' = [tried EXCEPT ![c] = {}]
  /\ skip' = [skip EXCEPT ![c] = FALSE]
  /\ UNCHANGED <<scenario, catalogVars, marks, ociVars, props, cur, launched, failures, faults>>

\* No node class, an unresolved reservation, network or key: Create returns before
\* the first launch.
CreateFails(c) ==
  /\ c \in Active /\ pc[c] = "idle"
  /\ faults < scenario.maxFaults /\ faults' = faults + 1
  /\ pc' = [pc EXCEPT ![c] = "createError"]
  /\ UNCHANGED <<scenario, catalogVars, marks, ociVars, todo, props, cur, skip, launched,
                 offered, seen, tried, failures>>

\* Mutant of CapacityType: spot whenever the claim allows it.
CapacityTypeOfClaim(c, cand) ==
  IF "spot" \in Want(c).caps /\ ~Burstable(cand.type) THEN "spot" ELSE "on-demand"

\* decideCapacityType.
CapacityType(c, cand) ==
  IF "spot" \in Want(c).caps /\ ~Burstable(cand.type) /\ \E o \in cand.offers : o.cap = "spot"
  THEN "spot" ELSE "on-demand"

\* An offering as a proposal, with the fault domain the claim asks for.
ProposalFor(c, o) == [ad |-> o.ad, fd |-> Want(c).fd, res |-> None, cluster |-> None, group |-> None]

\* The reservation has capacity left for the type in that fault domain.
HasRoom(c, r, t) ==
  LET av == AvailabilityForShape(r, t, used)
      fd == Given(Want(c).fd, "")
  IN  fd \in DOMAIN av /\ av[fd].total > av[fd].used

\* placementDecorateFunc.
Decorate(c, t, o) ==
  LET k == Class(c)
  IN  CASE o.res # None ->
             {[ProposalFor(c, o) EXCEPT !.res = r.id] :
                r \in {q \in k.reservations : q.id = o.res /\ HasRoom(c, q, t)}}
        [] o.res = None /\ k.cluster # None ->
             IF o.ad = k.cluster.ad THEN {[ProposalFor(c, o) EXCEPT !.cluster = k.cluster.id]} ELSE {}
        [] o.res = None /\ k.cluster = None /\ k.groups # None ->
             {[ProposalFor(c, o) EXCEPT !.group = g.id] : g \in {h \in k.groups : h.ad = o.ad}}
        [] OTHER -> {ProposalFor(c, o)}

Proposals(c, cand) == UNION {Decorate(c, cand.type, o) : o \in cand.offers}

\* The next candidate.  PlaceInstance dereferences the proposal it chose, and there
\* is none to choose when the decoration left none.
PlaceInstance(c) ==
  /\ pc[c] = "placing"
  /\ \E cand \in Cheapest(todo[c]) :
       /\ todo' = [todo EXCEPT ![c] = @ \ {cand}]
       /\ cur' = [cur EXCEPT ![c] = cand]
       /\ props' = [props EXCEPT ![c] = Proposals(c, cand)]
       /\ pc' = [pc EXCEPT ![c] = IF Proposals(c, cand) = {} THEN "panicked" ELSE "launching"]
  /\ UNCHANGED <<scenario, catalogVars, marks, ociVars, skip, launched, offered, seen, tried,
                 failures, faults>>

\* The image cannot be resolved for the shape: the candidate is passed over.
ImageFails(c) ==
  /\ pc[c] = "placing"
  /\ faults < scenario.maxFaults /\ faults' = faults + 1
  /\ \E cand \in Cheapest(todo[c]) :
       /\ todo' = [todo EXCEPT ![c] = @ \ {cand}]
       /\ tried' = [tried EXCEPT ![c] = @ \union {<<cand.type, o>> : o \in cand.offers}]
  /\ UNCHANGED <<scenario, catalogVars, marks, ociVars, pc, props, cur, skip, launched, offered,
                 seen, failures>>

-----------------------------------------------------------------------------
(* LaunchInstance *)

\* External: what OCI answers.  Host capacity is that of the reservation, cluster
\* or group of the proposal, else of the capacity type.
Pool(pr, cap) == CASE pr.res # None     -> pr.res
                   [] pr.cluster # None -> pr.cluster
                   [] pr.group # None   -> pr.group
                   [] OTHER             -> cap

\* The reservation entry a proposal draws on.
EntryOf(c, t, pr) ==
  CHOOSE x \in Entry : /\ x[1] = pr.res
                       /\ \E r \in Class(c).reservations :
                            r.id = pr.res /\ x[2] \in Entries(r, t)
                       /\ Given(x[2].fd, "") = Given(pr.fd, "")

Answer(c, t, pr, cap) ==
  CASE \/ <<"capacity", t.shape.name, pr.ad, Pool(pr, cap)>> \in blocked
       \/ pr.res # None /\ used[EntryOf(c, t, pr)] = EntryOf(c, t, pr)[2].total -> "capacity"
    [] <<"limit", t.shape.name>> \in blocked -> "limit"
    [] <<"quota", t.shape.name, Class(c).comp>> \in blocked -> "quota"
    [] OTHER -> "launched"

\* IsSkippableLaunchError.
IsSkippableLaunchError(err) ==
  err = "capacity" \/ (scenario.gate /\ err \in {"limit", "quota"})

\* The scopes the key of the cache does not know.
Scoped(pr) == {pr.res, pr.cluster, pr.group, pr.fd} # {None}

\* Mutant of MarkOf: a quota failure is recorded for every compartment.
MarkOfTenancy(c, t, pr, cap, err) ==
  IF ~IsSkippableLaunchError(err) \/ Scoped(pr) THEN {} ELSE {OfferingKey(t, pr.ad, cap, "")}

\* markUnavailableOffering.
MarkOf(c, t, pr, cap, err) ==
  IF ~IsSkippableLaunchError(err) \/ Scoped(pr) THEN {}
  ELSE {OfferingKey(t, pr.ad, cap, IF err = "quota" THEN Class(c).comp ELSE "")}

\* The offers a proposal stands for.
OffersFor(c, pr) == {<<cur[c].type, o>> : o \in {x \in cur[c].offers : x.ad = pr.ad /\ x.res = pr.res}}

LaunchSucceeds(c) ==
  /\ pc[c] = "launching"
  /\ \E pr \in props[c] :
       LET t == cur[c].type
           cap == CapacityType(c, cur[c])
       IN  /\ Answer(c, t, pr, cap) = "launched"
           /\ launched' = [launched EXCEPT ![c] =
                [type |-> t, price |-> cur[c].price, ad |-> pr.ad, res |-> pr.res,
                 cap |-> IF cap = "spot" THEN "spot"
                         ELSE IF pr.res # None THEN "reserved" ELSE cap]]
           /\ used' = IF pr.res = None THEN used
                      ELSE [used EXCEPT ![EntryOf(c, t, pr)] = @ + 1]
  /\ pc' = [pc EXCEPT ![c] = "launched"]
  /\ UNCHANGED <<scenario, catalogVars, marks, blocked, changes, todo, props, cur, skip, offered,
                 seen, tried, failures, faults>>

\* The next proposal, or the next candidate if the last error is skippable.
LaunchFails(c) ==
  /\ pc[c] = "launching"
  /\ \E pr \in props[c] :
       LET t == cur[c].type
           cap == CapacityType(c, cur[c])
           last == props[c] = {pr}
       IN  \E err \in ({Answer(c, t, pr, cap)} \ {"launched"})
                         \union IF faults < scenario.maxFaults THEN {"other"} ELSE {} :
             /\ faults' = IF err = "other" THEN faults + 1 ELSE faults
             /\ marks' = marks \union (IF scenario.ttl THEN MarkOf(c, t, pr, cap, err) ELSE {})
             /\ failures' = IF Scoped(pr) \/ ~IsSkippableLaunchError(err) THEN failures
                  ELSE failures \union
                    {[config |-> ConfigOf(t), ad |-> pr.ad, cap |-> cap, err |-> err,
                      comp |-> IF err = "quota" THEN Class(c).comp ELSE ""]}
             /\ tried' = [tried EXCEPT ![c] = @ \union OffersFor(c, pr)]
             /\ props' = [props EXCEPT ![c] = @ \ {pr}]
             /\ skip' = [skip EXCEPT ![c] = @ \/ (last /\ IsSkippableLaunchError(err))]
             /\ pc' = [pc EXCEPT ![c] = CASE ~last -> "launching"
                                          [] last /\ IsSkippableLaunchError(err) -> "placing"
                                          [] OTHER -> "createError"]
  /\ UNCHANGED <<scenario, catalogVars, ociVars, todo, cur, launched, offered, seen>>

\* Every candidate is consumed.
TypesExhausted(c) ==
  /\ pc[c] = "placing" /\ todo[c] = {}
  /\ pc' = [pc EXCEPT ![c] = IF skip[c] THEN "insufficient" ELSE "createError"]
  /\ UNCHANGED <<scenario, catalogVars, marks, ociVars, todo, props, cur, skip, launched, offered,
                 seen, tried, failures, faults>>

\* External: core calls Create again, for the claim or (a lack of capacity) for the
\* one that replaces it; a panic is recovered by the controller runtime.
CoreRetries(c) ==
  /\ pc[c] \in Results
  /\ pc' = [pc EXCEPT ![c] = "idle"]
  /\ todo' = [todo EXCEPT ![c] = {}] /\ props' = [props EXCEPT ![c] = {}]
  /\ cur' = [cur EXCEPT ![c] = None] /\ skip' = [skip EXCEPT ![c] = FALSE]
  /\ offered' = [offered EXCEPT ![c] = {}] /\ seen' = [seen EXCEPT ![c] = {}]
  /\ tried' = [tried EXCEPT ![c] = {}]
  /\ UNCHANGED <<scenario, catalogVars, marks, ociVars, launched, failures, faults>>

\* Mutant of MarkExpires: entries are set without an expiration.
MarkExpiresNever(m) == m \in marks /\ FALSE /\ UNCHANGED vars

\* The time to live of an entry passes.
MarkExpires(m) ==
  /\ m \in marks
  /\ marks' = marks \ {m}
  /\ failures' = {f \in failures : <<f.config, f.ad, f.cap, f.comp>> # m}
  /\ UNCHANGED <<scenario, catalogVars, ociVars, createVars, faults>>

\* External: capacity, a limit or a quota comes or goes.
SupplyChanges ==
  /\ changes < scenario.maxChanges /\ changes' = changes + 1
  /\ \E b \in scenario.blockable :
       blocked' = IF b \in blocked THEN blocked \ {b} ELSE blocked \union {b}
  /\ UNCHANGED <<scenario, catalogVars, marks, used, createVars, failures, faults>>

\* External: somebody else takes reserved capacity.
ReservationTaken ==
  /\ changes < scenario.maxChanges /\ changes' = changes + 1
  /\ \E x \in Entry : /\ \E c \in Active : \E r \in Class(c).reservations : r.id = x[1]
                      /\ used[x] < x[2].total
                      /\ used' = [used EXCEPT ![x] = @ + 1]
  /\ UNCHANGED <<scenario, catalogVars, marks, blocked, createVars, failures, faults>>

\* The keys of the cache, for the fairness of their expiry.
Keys ==
  LET known == [minor |-> 31, configs |-> GlobalConfigs]
      cfgs  == UNION {UNION {{ConfigOf(t) : t \in TypesOfShape(known, k, s)} : s \in Shapes} :
                        k \in Classes}
  IN  cfgs \X Ads \X {"spot", "on-demand"} \X ({""} \union {k.comp : k \in Classes})

Done == (\A c \in Active : pc[c] = "launched") /\ UNCHANGED vars

Create(c) == \/ CreateStarts(c) \/ PlaceInstance(c) \/ LaunchSucceeds(c) \/ LaunchFails(c)
             \/ TypesExhausted(c)

Refresh == RefreshShapesStarts \/ RefreshShapesPage \/ RefreshShapesLastPage \/ RefreshShapesFails

Next ==
  \/ Refresh \/ ReloadConfigFile \/ RefreshClusterVersion
  \/ CatalogChanges \/ NodeMeasured \/ MeasurementExpires \/ SupplyChanges \/ ReservationTaken
  \/ \E c \in Claims : Create(c) \/ CreateFails(c) \/ ImageFails(c) \/ CoreRetries(c)
  \/ \E m \in marks : MarkExpires(m)
  \/ Done

\* Create runs to its end, core calls again, and entries of the cache expire.
Fairness ==
  /\ \A c \in Claims : WF_vars(Create(c)) /\ WF_vars(CoreRetries(c))
  /\ \A m \in Keys : WF_vars(MarkExpires(m))

Spec == Init /\ [][Next]_vars /\ Fairness

-----------------------------------------------------------------------------
(* Properties *)

\* Classes whose offers become proposals one for one.
PlainClass(k) == k.cluster = None /\ k.groups = None /\ k.reservations = {}

\* A failure that concerns the offering: the same configuration, domain and capacity
\* type, and the same compartment if its quota was the reason.
Concerns(f, k, t, ad, cap) ==
  <<f.config, f.ad, f.cap>> = <<ConfigOf(t), ad, cap>> /\ f.comp \in {"", k.comp}

\* An offering is made unavailable by the cache only where a launch of that very
\* configuration, in that domain, with that capacity type failed for want of capacity
\* outside any reservation, cluster, group or fault domain; and by a quota only for
\* classes that launch into its compartment.  (MarkUnavailable, IsUnavailable and
\* markUnavailableOffering agree on the scope.  A configuration is shape, OCPUs and
\* memory: two that differ in the burstable baseline only are one to the cache.)
SuppressedOnlyWhereItFailed ==
  \A c \in Active : \A t \in Types(c), ad \in Ads, cap \in {"spot", "on-demand"} :
    IsUnavailable(marks, Class(c), t, [ad |-> ad, cap |-> cap]) =>
      \E f \in failures : Concerns(f, Class(c), t, ad, cap)

\* A Create call that lists the offerings after a failure was recorded does not try
\* again what failed: fallback moves on to another offering.
RoutedAround ==
  \A c \in Active : scenario.ttl /\ pc[c] = "launching" =>
    \A pr \in props[c] : pr.res = None =>
      ~\E f \in seen[c] :
          Concerns(f, Class(c), cur[c].type, pr.ad, CapacityType(c, cur[c]))

\* A claim is given up for want of capacity, or launched at a price, only when every
\* offering listed for it (every cheaper one) has been tried in this call.
NothingSkipped ==
  \A c \in Active : PlainClass(Class(c)) =>
    /\ pc[c] = "insufficient" => offered[c] \subseteq tried[c]
    /\ pc[c] = "launched" => {x \in offered[c] : x[2].price < launched[c].price} \subseteq tried[c]

\* What is launched is one of the offerings listed: the capacity type that
\* decideCapacityType requests and getCapacityTypeFromInstance reads back, the zone,
\* the reservation and the price go together.
LaunchedAsOffered ==
  \A c \in Active : pc[c] = "launched" =>
    \E x \in offered[c] : /\ x[1] = launched[c].type
                          /\ \A f \in {"ad", "cap", "price", "res"} : x[2][f] = launched[c][f]

\* Some type of the claim has an offering OCI can supply, and with the gate off no
\* limit or quota stops Create before it gets there.
Feasible(c) ==
  /\ PlainClass(Class(c))
  /\ scenario.gate \/ \A b \in blocked : b[1] = "capacity"
  /\ \E t \in {x \in Types(c) : FitsRequests(c, x)} :
       \E o \in Offerings(P, Class(c), t, Want(c).taints, {}, used) :
         /\ Compatible(Want(c), o)
         /\ Answer(c, t, [ad |-> o.ad, res |-> None, cluster |-> None, group |-> None],
                   o.cap) = "launched"

\* A claim for which capacity stays available somewhere is launched there in the end,
\* whatever has failed and been marked before.
FallbackReached ==
  \A c \in Claims : (c \in Active /\ <>[](c \in Active /\ Feasible(c))) => <>(pc[c] = "launched")

\* A refresh during which OCI's shapes do not change, and that sends no token of
\* another domain, finds every shape in every domain.
CatalogMatchesOci ==
  [][lister # None /\ shapeAdMap' # shapeAdMap /\ ~lister.stale /\ lister.version = version
       => shapeAdMap' = Complete(version)]_vars

\* The reserved memory as the sum of a rate for each band of the memory.
MarginalReserve(gbs) ==
  LET Band(lo, hi, rate) == rate * (Least(gbs, hi) - Least(gbs, lo))
  IN  Band(0, 4000, 25) + Band(4000, 8000, 20) + Band(8000, 16000, 10)
        + Band(16000, 128000, 6) + Band(128000, gbs, 2)

\* The vCPUs are those of the cores the platform configuration leaves enabled: the
\* per cent asked for, or the default, of all cores, and less than a core more (on two
\* sockets no more, but a core on each, and less than a core on each fewer), with one
\* thread where multi-threading is off.
CoresSound(c, t) ==
  LET s == t.shape
      asked(f) == IF Class(c).platform # <<>> /\ PlatformCompatible(s, Class(c))
                  THEN Effective(s, Class(c), f) ELSE None
      percent  == Given(asked("percent"), 100)
      threads  == IF s.arm \/ asked("smt") = FALSE THEN 1 ELSE 2
      cores    == IF s.arm /\ s.name \notin meta.oneVcpu THEN 2 * Ocpu(t) ELSE Ocpu(t)
  IN  \E enabled \in 1..cores :
        /\ Vcpu(P, Class(c), t) = threads * enabled
        /\ s.sockets # 2 => /\ percent * cores <= 100 * enabled
                            /\ 100 * (enabled - 1) < percent * cores
        /\ s.sockets = 2 => /\ percent * cores < 100 * (enabled + 2)
                            /\ enabled = 2 \/ 100 * enabled <= percent * cores

\* A smaller type is not taken for one of the same name.
NoNamesake(t) == \A x \in measured : x.name = NameOf(t) => x.gbs <= Gbs(t)

\* A node is not promised memory it will not have.  Where nothing was measured, the
\* declared memory covers the capacity and the whole overhead of a VM, to the fraction of
\* a MiB; where something was, the capacity still is within what the type declares.
MemorySound(t) ==
  /\ ~t.shape.bm /\ MemoryMiB(t) > 1 =>
       1000 * MemoryMiB(t) + (600000 + 19 * Gbs(t)) <= 1024 * Gbs(t)
  /\ NoNamesake(t) => 1000 * MemoryCapacity(P, t) <= 1024 * Gbs(t)

\* What is reserved has no gap between two bands, and is no less than it would be for the
\* memory the node has ("the reserve is marginally generous").
ReserveSound(t) ==
  /\ KubeReservedMemory(Gbs(t)) = MarginalReserve(Gbs(t))
  /\ NoNamesake(t) =>
       KubeReservedMemory((1000 * MemoryCapacity(P, t)) \div 1024) <= KubeReservedMemory(Gbs(t))

\* The sizes the scheduler relies on, for every type of every claim
\* (memoryCapacityMiB, the measurement that overrides it, kubeReservedResources and
\* adjustVCPUForPlatformConfig).
SizesSound ==
  \A c \in Active : \A t \in Types(c) : MemorySound(t) /\ ReserveSound(t) /\ CoresSound(c, t)

\* PlaceInstance always has a proposal to try: "an offering can have fd placement
\* requirement if it is from fd capacity reservation".
NeverPanics == \A c \in Claims : pc[c] # "panicked"
=============================================================================
