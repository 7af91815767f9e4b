------------------------------- MODULE Drift --------------------------------
(***************************************************************************)
(* CloudProvider.IsDrifted and what it looks at: one OCINodeClass, the     *)
(* NodeClaim and the instance Create launched from it, OCI's view of the   *)
(* instance, and the non-expiring caches of the instance, its attachments, *)
(* its VNICs and its boot volume (pkg/cloudprovider/drift.go,              *)
(* pkg/providers/instance/drift_cache.go).                                 *)
(*                                                                         *)
(* A pass compares the class with the caches, stage by stage, and confirms *)
(* every difference with OCI before it reports it.  Around it users edit   *)
(* the class, OCI changes, other controllers Get, List and Delete the      *)
(* instance through the same caches, and the class is reconciled again.    *)
(*                                                                         *)
(* `oci` and `cache` map the same keys: "inst", "vatt" and "batt" (the     *)
(* attachments), the VNICs and "boot"; None is absent.                     *)
(***************************************************************************)
EXTENDS Resolution

CONSTANTS
  Specs, InitialSpecs,  \* specs a class may have, and start with
  Edits,                \* pairs of specs: the edits users make
  TypeInfo,             \* instance type name -> [shape, size, flex]
  Nsgs,                 \* network security groups
  Images,               \* images, published or to be
  Published,            \* ids of the images published at the start
  Version,              \* minor version of the cluster
  Primary, Secondaries, \* VNIC ids: the primary, the secondaries in order
  MaxEvents,            \* bound: edits of the class and of OCI's resources
  MaxFaults             \* bound: OCI calls that fail or time out

ASSUME DriftAssumption ==
  /\ InitialSpecs \subseteq Specs /\ Edits \subseteq Specs \X Specs
  /\ MaxEvents \in Nat /\ MaxFaults \in Nat

VARIABLES
  class,    \* the OCINodeClass: spec, status and hash annotation
  claim,    \* the NodeClaim of the instance, or None
  npn,      \* the VNICs its NativePodNetwork asks for
  oci,      \* the instance and its parts as OCI has them
  cache,    \* DriftCaches
  catalog,  \* names of the instance types discovered
  untagged, \* groups that have lost their tags
  imgs,     \* image ids published, and the image provider's caches
  pass,     \* the running IsDrifted
  verdict,  \* history: how a pass that nothing disturbed ended, in the last step
  other,    \* what Get, Delete or List has been answered and has not stored yet
  events, faults,
  outside,  \* history: OCI's resources were changed outside Karpenter
  straddled \* history: parents were evicted while a pass was reading children

worldVars == <<catalog, untagged, outside>>
vars == <<class, claim, npn, oci, cache, worldVars, imgs, pass, verdict, other,
          events, faults, straddled>>

Vnics == {Primary} \cup Range(Secondaries)
Keys  == {"inst", "vatt", "batt", "boot"} \cup Vnics
Types == DOMAIN TypeInfo
Ids   == {i.id : i \in Images}

\* The claims Create can return.
Claims ==
  [hash : {KarpenterHash(StaticFields(s)) : s \in Specs}, type : Types,
   res : {None} \cup UNION {s.res : s \in Specs}, init : BOOLEAN,
   fields : {StaticFields(s) : s \in Specs}]

\* Every VNIC has an id of its own, and no value is the absent one.
ASSUME KeysAssumption ==
  /\ Secondaries \in Seq(Range(Secondaries)) /\ IsInjective(Secondaries)
  /\ Primary \notin Range(Secondaries)
  /\ Vnics \cap {"inst", "vatt", "batt", "boot"} = {}
  /\ None \notin Claims

\* A class's secondary VNICs can all be attached.
ASSUME SpecsAssumption ==
  \A s \in Specs :
    /\ s.secondary \in Seq(Range(s.secondary)) /\ Len(s.secondary) <= Len(Secondaries)
    /\ DOMAIN s.boot = {"enc", "size", "kms", "vpus"} /\ s.boot.size \in {None} \cup Nat

\* A class names an image or filters them.  Images have ids of their own, and are
\* made after their bases.
ASSUME ImagesAssumption ==
  /\ \A s \in Specs : s.image.id = None => s.image.filter # None
  /\ \A i, j \in Images : i.id = j.id => i = j
  /\ \A i \in Images : i.made \in Nat /\ \A j \in Images : i.base = j.id => j.made < i.made
  /\ Published \subseteq Ids /\ \A S \in SUBSET Ids : S # None

Empty   == [k \in Keys |-> None]
NoVnics == [v \in {} |-> None]
NoPass == [stage |-> "idle", real |-> FALSE, want |-> None, got |-> Empty, load |-> None,
           clean |-> FALSE, skipped |-> FALSE]
NoVerdict == [reason |-> "none", skipped |-> FALSE]

-----------------------------------------------------------------------------
(* What the class asks for now *)

NsgsNow == {IF g.id \in untagged THEN [g EXCEPT !.tags = {}] ELSE g : g \in Nsgs}

NetworkNow(spec) == ResolveNetworkConfig(spec, NsgsNow)

\* The image provider's caches, completed by OCI except for the calls in `fail`.
LaunchLook(spec, fail) ==
  [list   |-> IF spec.image.id # None THEN None
              ELSE IF imgs.list[spec.image.filter] # None
                   THEN {i \in Images : i.id \in imgs.list[spec.image.filter]}
              ELSE IF <<"list", None>> \in fail THEN None
              ELSE ListedImages({i \in Images : i.id \in imgs.pub}, spec.image),
   have   |-> imgs.have \cup {i \in Ids : <<"image", i>> \notin fail},
   shapes |-> imgs.shapes \cup {i \in Ids : <<"shapes", i>> \notin fail},
   strict |-> FALSE]

CachedLook(spec) ==
  [list   |-> IF spec.image.id # None \/ imgs.list[spec.image.filter] = None THEN None
              ELSE {i \in Images : i.id \in imgs.list[spec.image.filter]},
   have   |-> imgs.have, shapes |-> imgs.shapes, strict |-> TRUE]

ImageFor(spec, type, look) ==
  ResolveImageForShape(spec.image, TypeInfo[type].shape, Images, look, Version)

\* What resolveImages, and resolveImageForShape after it, leave in the caches.
RememberImages(spec, look) ==
  [imgs EXCEPT !.list = IF look.list = None THEN @
                        ELSE [@ EXCEPT ![spec.image.filter] = {i.id : i \in look.list}],
               !.have = @ \cup ImagesRead(spec.image, Images, look)]

RememberShapes(spec, type, look) ==
  [RememberImages(spec, look) EXCEPT
     !.shapes = @ \cup ShapesRead(spec.image, TypeInfo[type].shape, Images, look, Version)]

\* ListInstanceTypes: the discovered types the spec allows.
ListInstanceTypes(spec) == spec.types \cap catalog

\* The sub-reconcilers, all of which must succeed.
Resolves(spec) ==
  /\ NetworkNow(spec) # {}
  /\ ResolveImages(spec.image, Images, LaunchLook(spec, {}), Version) # {}
  /\ PlacementGroupsReady(spec.cpgs)
  /\ ComputeClusterReady(spec.cc)
  /\ KmsKeyReady(spec.boot.kms)
  /\ ResolveCompartment(GetInstanceCompartment(spec))
  /\ CapacityReservationsReady(spec.res)

GroupsOf(spec) == UNION {{g.id : g \in gs} : gs \in ResolveClusterPlacementGroups(spec.cpgs)}

ReadyClass(spec) ==
  [spec |-> spec, ready |-> TRUE, net |-> CHOOSE n \in NetworkNow(spec) : TRUE,
   cpgs |-> GroupsOf(spec), hash |-> KarpenterHash(StaticFields(spec))]

-----------------------------------------------------------------------------
(* The caches.  An eviction runs its callbacks only if there was an entry. *)

\* Mutant: no eviction callback on the VNIC attachments.
EvictVattOnly(c) == [c EXCEPT !["vatt"] = None]

EvictVatt(c) ==
  IF c["vatt"] = None THEN c
  ELSE [k \in Keys |-> IF k = "vatt" \/ k \in DOMAIN c["vatt"] THEN None ELSE c[k]]

EvictBatt(c) ==
  IF c["batt"] = None THEN c
  ELSE [k \in Keys |-> IF k = "batt" \/ (k = "boot" /\ c["batt"].attached) THEN None ELSE c[k]]

\* Mutant: the instance is evicted without its parts.
EvictInstanceOnly(c) == [c EXCEPT !["inst"] = None]

\* evictInstanceCaches, and evictUnseenInstanceCaches for this instance: the
\* instance, whose callback evicts both attachments, then each of them.
EvictInstance(c) == EvictBatt(EvictVatt([c EXCEPT !["inst"] = None]))

IsInstanceTerminated(i) == i.state = "terminated"

\* What a loaded value of key k does to the caches: Set, after the eviction of the
\* old attachments when they were listed again, and followed by the eviction of the
\* instance when it turns out to be terminated.
StoreValue(c, k, v, real) ==
  LET old == IF real /\ k = "vatt" THEN EvictVatt(c)
             ELSE IF real /\ k = "batt" THEN EvictBatt(c) ELSE c
      new == [old EXCEPT ![k] = v]
  IN  IF k = "inst" /\ IsInstanceTerminated(v) THEN EvictInstance(new) ELSE new

\* n calls to OCI fail or time out.
Faults(n) == faults + n <= MaxFaults /\ faults' = faults + n

\* A pass that has read the attachments may still store what they name.
Straddles == pass.stage \in {"net", "sec", "boot"}

-----------------------------------------------------------------------------
(* IsDrifted: the comparisons *)

\* A comparison gives its reason if it finds a difference; the first one counts.
Reason(differs, reason) == IF differs THEN reason ELSE ""

FirstReason(reasons) ==
  LET n == {i \in DOMAIN reasons : reasons[i] # ""} IN
    IF n = {} THEN "" ELSE reasons[Min(n)]

isLaunchOptionMismatch(desired, actual) ==
  \E f \in DOMAIN desired : desired[f] # None /\ desired[f] # actual[f]

\* IsInstanceDriftedFromInstanceType.
IsInstanceDriftedFromInstanceType(i, it) == i.shape # it.shape \/ i.size # it.size

CapacityReservationMismatch(want, i) ==
  IF want.res = {} THEN i.res # None ELSE i.res \notin want.res

ClusterPlacementGroupMismatch(want, i) ==
  \/ want.cpgs # {} /\ i.cpg = None
  \/ i.cpg # None /\ (want.spec.cpgs = {} \/ i.cpg \notin want.cpgs)

\* Mutant: the image is not compared.
IsInstanceDriftedNoImage(want, i) ==
  FirstReason(<<
    Reason(want.it.flex /\ IsInstanceDriftedFromInstanceType(i, want.it), "shapeMismatch"),
    Reason(CapacityReservationMismatch(want, i), "CapacityReservationMismatch"),
    Reason(ClusterPlacementGroupMismatch(want, i), "ClusterPlacementGroupMismatch"),
    Reason(isLaunchOptionMismatch(want.spec.launch, i.launch), "LaunchOptionMismatch")>>)

IsInstanceDrifted(want, i) ==
  FirstReason(<<
    Reason(i.comp # GetInstanceCompartment(want.spec), "instanceCompartmentMismatch"),
    Reason(want.it.flex /\ IsInstanceDriftedFromInstanceType(i, want.it), "shapeMismatch"),
    Reason(i.image # want.image, "imageMismatch"),
    Reason(CapacityReservationMismatch(want, i), "CapacityReservationMismatch"),
    Reason(ClusterPlacementGroupMismatch(want, i), "ClusterPlacementGroupMismatch"),
    Reason(isLaunchOptionMismatch(want.spec.launch, i.launch), "LaunchOptionMismatch")>>)

\* Every desired group is on the VNIC; it may have others.
isVnicNsgIdsMatch(r, vnic) == r.nsgs \subseteq vnic.nsgs

\* The VNICs of the primary's subnet are read until the primary is found.
FoundPrimary(p) == {v \in Vnics : p.got[v] # None /\ p.got[v].primary}

PrimaryDrifted(p) ==
  FirstReason(<<
    Reason(FoundPrimary(p) = {}, "PrimaryVnicMismatch"),
    Reason(\E v \in FoundPrimary(p) : ~isVnicNsgIdsMatch(p.want.net.primary, p.got[v]),
      "PrimaryVnicNsgIdsMismatch")>>)

Fits(r, vnic) == vnic.subnet = r.subnet /\ isVnicNsgIdsMatch(r, vnic)

\* What the first k desired VNICs may have taken: each in turn takes one that matches
\* it out of the map, in the map's iteration order, which is any.
Taken(desired, got, vnics, k) ==
  {f \in [1..k -> vnics] : IsInjective(f) /\ \A i \in 1..k : Fits(desired[i], got[f[i]])}

\* All find one, or one of them finds none that matches among those left.
MatchOutcomes(desired, got, vnics) ==
  LET all   == Taken(desired, got, vnics, Len(desired)) # {}
      stuck == \E k \in DOMAIN desired : \E f \in Taken(desired, got, vnics, k - 1) :
                 \A v \in vnics \ Range(f) : ~Fits(desired[k], got[v])
  IN  {ok \in BOOLEAN : IF ok THEN all ELSE stuck}

\* isNetworkSecondVnicDrifted.
SecondaryReasons(p) ==
  LET desired == p.want.net.secondary
      found   == {v \in DOMAIN p.got["vatt"] : ~p.got[v].primary}
  IN  IF Cardinality(found) # Len(desired) THEN {"SecondaryVnicsNumberMismatch"}
      ELSE {IF ok THEN "" ELSE "SecondaryVnicNsgIdsMismatch" : ok \in MatchOutcomes(desired, p.got, found)}

AttachmentDrifted(want, a) ==
  FirstReason(<<
    Reason(~a.attached, "BootVolumeMismatch"),
    Reason(want.spec.boot.enc # None /\ want.spec.boot.enc # a.enc, "PvEncryptionInTransitionMismatch")>>)

BootVolumeDrifted(want, b) ==
  LET cfg == want.spec.boot IN
  FirstReason(<<
    Reason(cfg.size # None /\ b.size < cfg.size, "BootVolumeSizeMismatch"),
    Reason(cfg.kms # None /\ b.kms # cfg.kms, "kmsKeyMismatch"),
    Reason(cfg.vpus # None /\ b.vpus # cfg.vpus, "VpusPerGbMismatch")>>)

\* AreStaticFieldsDrifted, both hashes being of one version.
AreStaticFieldsDrifted == claim.hash # class.hash

-----------------------------------------------------------------------------
(* IsDrifted: the pass *)

\* The attachments are listed in the order they were made.
FirstOf(S) ==
  LET order == <<Primary>> \o Secondaries
  IN  {order[n] : n \in {m \in DOMAIN order : order[m] \in S /\ \A l \in 1..(m - 1) : order[l] \notin S}}

\* The key the pass reads next, if it needs one.
NextReads(p) ==
  CASE p.stage = "inst" -> {"inst"} \ {k \in Keys : p.got[k] # None}
    [] p.stage = "net"  ->
         IF p.got["vatt"] = None THEN {"vatt"}
         ELSE IF FoundPrimary(p) # {} THEN {}
         ELSE FirstOf({v \in DOMAIN p.got["vatt"] :
                        p.got["vatt"][v] = p.want.net.primary.subnet /\ p.got[v] = None})
    [] p.stage = "sec"  -> FirstOf({v \in DOMAIN p.got["vatt"] : p.got[v] = None})
    [] p.stage = "boot" ->
         IF p.got["batt"] = None THEN {"batt"}
         ELSE IF AttachmentDrifted(p.want, p.got["batt"]) # "" \/ p.got["boot"] # None THEN {}
         ELSE {"boot"}
    [] OTHER -> {}

Reasons(p) ==
  CASE p.stage = "inst" -> {IsInstanceDrifted(p.want, p.got["inst"])}
    [] p.stage = "net"  -> {PrimaryDrifted(p)}
    [] p.stage = "sec"  -> SecondaryReasons(p)
    [] p.stage = "boot" -> IF p.got["boot"] = None
                           THEN {AttachmentDrifted(p.want, p.got["batt"])}
                           ELSE {BootVolumeDrifted(p.want, p.got["boot"])}

\* The pass returns: a reason, "" for no drift, or "unknown" for an error.
Finish(reason, clean, skipped) ==
  /\ pass' = NoPass
  /\ verdict' = IF clean THEN [reason |-> reason, skipped |-> skipped] ELSE NoVerdict

\* The first part of IsDrifted, before it looks at the instance: the class must be
\* ready, the type offered, an image found, the reservation still configured, the
\* hash the same.  `fail` are the look-ups OCI does not answer: of an image, of the
\* shapes it runs on, of a listing of images, of the reservations.
BeginDrift(fail) ==
  LET spec == class.spec
      look == LaunchLook(spec, fail)
      image == ImageFor(spec, claim.type, look)
      skipped == image # ImageFor(spec, claim.type, LaunchLook(spec, {}))
      res == {claim.res} \cap spec.res
      early == IF ~class.ready \/ ListInstanceTypes(spec) = {} THEN "unknown"
               ELSE IF claim.type \notin ListInstanceTypes(spec) THEN "ShapeNotFound"
               ELSE IF image = {} THEN "unknown"
               ELSE IF claim.res # None /\ spec.res # {} /\ <<"res", None>> \in fail THEN "unknown"
               ELSE IF claim.res # None /\ res = {} THEN "CapacityReservationMismatch"
               ELSE IF AreStaticFieldsDrifted THEN "NodeClassStaticFieldDrift"
               ELSE ""
  IN
  /\ pass.stage = "idle" /\ claim # None
  /\ Faults(Cardinality(fail))
  /\ IF class.ready /\ claim.type \in ListInstanceTypes(spec)
     THEN imgs' = RememberShapes(spec, claim.type, look)
     ELSE fail = {} /\ UNCHANGED imgs
  /\ IF early # "" THEN Finish(early, TRUE, skipped)
     ELSE /\ pass' = [NoPass EXCEPT
                !.stage = "inst", !.clean = TRUE, !.skipped = skipped,
                !.want = [spec |-> spec, net |-> class.net, cpgs |-> class.cpgs,
                          it |-> TypeInfo[claim.type], image |-> CHOOSE i \in image : TRUE,
                          res |-> res, skip |-> ~claim.init]]
          /\ verdict' = NoVerdict
  /\ UNCHANGED <<class, claim, npn, oci, cache, worldVars, other, events, straddled>>

\* A cached read that hits.
ReadHit ==
  /\ pass.load = None /\ ~pass.real
  /\ \E k \in NextReads(pass) :
       /\ cache[k] # None
       /\ pass' = [pass EXCEPT !.got[k] = cache[k]]
  /\ verdict' = NoVerdict
  /\ UNCHANGED <<class, claim, npn, oci, cache, worldVars, imgs, other, events, faults, straddled>>

\* A read OCI answers: every read that confirms, and a cached read that misses.
ReadAnswered ==
  /\ pass.load = None
  /\ \E k \in NextReads(pass) :
       /\ pass.real \/ cache[k] = None
       /\ oci[k] # None
       /\ pass' = [pass EXCEPT !.load = [key |-> k, val |-> oci[k]]]
  /\ verdict' = NoVerdict
  /\ UNCHANGED <<class, claim, npn, oci, cache, worldVars, imgs, other, events, faults, straddled>>

\* The answer is stored and used.
ReadStored ==
  /\ pass.load # None
  /\ cache' = StoreValue(cache, pass.load.key, pass.load.val, pass.real)
  /\ pass' = [pass EXCEPT !.load = None, !.got[pass.load.key] = pass.load.val]
  /\ verdict' = NoVerdict
  /\ UNCHANGED <<class, claim, npn, oci, worldVars, imgs, other, events, faults, straddled>>

\* OCI does not know the resource, or the call fails: the pass ends with an error.
\* An instance that is not found is evicted.
ReadFails ==
  /\ pass.load = None
  /\ \E k \in NextReads(pass) :
       /\ pass.real \/ cache[k] = None
       /\ \/ oci[k] = None
             /\ cache' = (IF k = "inst" THEN EvictInstance(cache) ELSE cache)
             /\ UNCHANGED faults
          \/ Faults(1) /\ UNCHANGED cache
  /\ Finish("unknown", pass.clean, pass.skipped)
  /\ UNCHANGED <<class, claim, npn, oci, worldVars, imgs, other, events, straddled>>

\* The stage that follows one that found nothing.
Advance(p) ==
  LET toSec == p.stage = "net" /\ ~p.want.skip /\ p.want.net.secondary # <<>>
      next  == IF p.stage = "inst" THEN "net" ELSE IF toSec THEN "sec" ELSE "boot"
  IN  [p EXCEPT !.stage = next,
                !.real  = toSec /\ @,
                !.got   = [k \in Keys |-> IF toSec /\ k = "vatt" THEN @[k] ELSE None]]

\* Mutant: the confirmation is given what the caches held.
ConfirmFromCache(p) == [p EXCEPT !.real = TRUE]

\* What a confirming call reads again: the whole stage, from the attachments on.
Confirm(p) ==
  [p EXCEPT !.real = TRUE, !.stage = IF @ = "sec" THEN "net" ELSE @, !.got = Empty]

\* A stage has all it needs: it finds nothing, or a difference in the caches, which
\* OCI must confirm, or a confirmed difference.
Judge ==
  /\ pass.stage # "idle" /\ pass.load = None /\ NextReads(pass) = {}
  /\ \E reason \in Reasons(pass) :
       IF reason # "" /\ pass.real THEN Finish(reason, pass.clean, pass.skipped)
       ELSE IF reason = "" /\ pass.stage = "boot" THEN Finish("", pass.clean, pass.skipped)
       ELSE /\ pass' = IF reason # "" THEN Confirm(pass) ELSE Advance(pass)
            /\ verdict' = NoVerdict
  /\ UNCHANGED <<class, claim, npn, oci, cache, worldVars, imgs, other, events, faults, straddled>>

-----------------------------------------------------------------------------
(* The class, the instance and OCI around the pass *)

\* Whatever changes what the pass compares: a running pass is no longer clean, and
\* the last verdict is about the past.
Disturb ==
  /\ verdict' = NoVerdict
  /\ pass' = [pass EXCEPT !.clean = FALSE]

Event == events < MaxEvents /\ events' = events + 1

\* A user edits the spec: the status is no longer of this generation.
EditSpec ==
  /\ Event
  /\ \E e \in Edits : e[1] = class.spec /\ class' = [class EXCEPT !.spec = e[2], !.ready = FALSE]
  /\ Disturb
  /\ UNCHANGED <<claim, npn, oci, cache, worldVars, imgs, other, faults, straddled>>

\* The class controller: after an edit or a failure, or on a resync.  Nobody reads the
\* status of a class that is not ready.
ReconcileClass ==
  /\ class' = IF Resolves(class.spec) THEN ReadyClass(class.spec)
              ELSE [class EXCEPT !.ready = FALSE]
  /\ imgs' = RememberImages(class.spec, LaunchLook(class.spec, {}))
  /\ class' # class \/ imgs' # imgs
  /\ IF class' = class THEN verdict' = NoVerdict /\ UNCHANGED pass ELSE Disturb
  /\ UNCHANGED <<claim, npn, oci, cache, worldVars, other, events, faults, straddled>>

\* Create: the class is ready, the network is resolved anew, and the launch asks
\* for the first instance type that has an image.  It returns when the work request
\* succeeds, or, `slow`, when the launch timeout passes first, before the VNIC and
\* the boot volume are attached.
Launch(type, fail, slow) ==
  LET spec  == class.spec
      look  == LaunchLook(spec, fail)
      r     == IF spec.res = {} THEN None ELSE CHOOSE x \in spec.res : TRUE
      g     == IF class.cpgs = {} THEN None ELSE CHOOSE x \in class.cpgs : TRUE
      net   == CHOOSE n \in NetworkNow(spec) : TRUE
      vnic  == BuildVnic(net.primary, TRUE)
      boot  == BuildBootVolume(spec)
  IN
  /\ claim = None /\ class.ready
  /\ type \in ListInstanceTypes(spec)
  /\ NetworkNow(spec) # {}
  /\ Faults(Cardinality(fail) + IF slow THEN 1 ELSE 0)
  /\ \E image \in ImageFor(spec, type, look) :
       LET inst == BuildInstance(spec, TypeInfo[type], image, r, g) IN
       /\ oci' = [Empty EXCEPT
            !["inst"]  = inst,
            !["boot"]  = boot,
            ![Primary] = vnic,
            !["vatt"]  = IF slow THEN NoVnics ELSE [v \in {Primary} |-> vnic.subnet],
            !["batt"]  = [attached |-> ~slow, enc |-> boot.enc]]
       /\ cache' = [Empty EXCEPT !["inst"] = inst]
  /\ imgs' = RememberShapes(spec, type, look)
  /\ claim' = [hash |-> KarpenterHash(StaticFields(spec)), type |-> type, res |-> r,
                init |-> FALSE, fields |-> StaticFields(spec)]
  /\ npn' = constructSecondaryVnicsNpnSpec(net)
  /\ verdict' = NoVerdict
  /\ UNCHANGED <<class, worldVars, pass, other, events, straddled>>

Running == oci["inst"] # None /\ oci["inst"].state = "running"

\* The launch goes on after the timeout.
AttachPrimary ==
  /\ Running /\ ~oci["batt"].attached
  /\ oci' = [oci EXCEPT !["vatt"] = [v \in {Primary} |-> oci[Primary].subnet],
                         !["batt"].attached = TRUE]
  /\ Disturb
  /\ UNCHANGED <<class, claim, npn, cache, worldVars, imgs, other, events, faults, straddled>>

\* The NPN controller attaches the VNICs the NativePodNetwork asks for, in order.
AttachSecondary ==
  LET n == Cardinality(DOMAIN oci["vatt"]) IN
  /\ Running /\ oci["batt"].attached /\ n <= Len(npn)
  /\ LET vnic == npn[n]
         v    == Secondaries[n]
     IN  oci' = [oci EXCEPT
           ![v] = vnic,
           !["vatt"] = [x \in DOMAIN @ \cup {v} |-> IF x = v THEN vnic.subnet ELSE @[x]]]
  /\ Disturb
  /\ UNCHANGED <<class, claim, npn, cache, worldVars, imgs, other, events, faults, straddled>>

\* The node becomes Initialized, which it never does without its pod network.
BecomeInitialized ==
  /\ Running /\ ~claim.init
  /\ Cardinality(DOMAIN oci["vatt"]) = Len(npn) + 1
  /\ claim' = [claim EXCEPT !.init = TRUE]
  /\ Disturb
  /\ UNCHANGED <<class, npn, oci, cache, worldVars, imgs, other, events, faults, straddled>>

\* Somebody resizes the instance, or adds or removes a group of its primary VNIC,
\* in OCI.
ChangeOutside ==
  /\ Event /\ Running
  /\ \/ /\ TypeInfo[claim.type].flex
        /\ \E t \in Types : oci' = [oci EXCEPT !["inst"].size = TypeInfo[t].size]
     \/ \E g \in Nsgs : oci' = [oci EXCEPT ![Primary].nsgs = (@ \cup {g.id}) \ (@ \cap {g.id})]
  /\ oci' # oci
  /\ outside' = TRUE
  /\ Disturb
  /\ UNCHANGED <<class, claim, npn, cache, catalog, untagged, imgs, other, faults, straddled>>

\* A group loses its tags, or gets them back.
Retag ==
  /\ Event
  /\ \E g \in Nsgs :
       /\ g.tags # {}
       /\ untagged' = (untagged \cup {g.id}) \ (untagged \cap {g.id})
  /\ Disturb
  /\ UNCHANGED <<class, claim, npn, oci, cache, catalog, outside, imgs, other, faults, straddled>>

\* An image is published.  Nobody sees it before the listings that lack it expire,
\* so it counts as published when they do.
PublishImage ==
  /\ Event
  /\ \E i \in Ids \ imgs.pub :
       imgs' = [imgs EXCEPT !.pub = @ \cup {i}, !.list = [f \in DOMAIN @ |-> None]]
  /\ Disturb
  /\ UNCHANGED <<class, claim, npn, oci, cache, worldVars, other, faults, straddled>>

\* An entry of the image provider's caches expires.
ExpireImages ==
  /\ Event
  /\ \/ \E f \in DOMAIN imgs.list : imgs' = [imgs EXCEPT !.list[f] = None]
     \/ \E i \in imgs.have : imgs' = [imgs EXCEPT !.have = @ \ {i}]
     \/ \E i \in imgs.shapes : imgs' = [imgs EXCEPT !.shapes = @ \ {i}]
  /\ imgs' # imgs
  /\ Disturb
  /\ UNCHANGED <<class, claim, npn, oci, cache, worldVars, other, faults, straddled>>

\* The refreshed catalogue has lost a type, or has found it again.
RefreshCatalog ==
  /\ Event
  /\ \E t \in Types : catalog' = (catalog \cup {t}) \ (catalog \cap {t})
  /\ Disturb
  /\ UNCHANGED <<class, claim, npn, oci, cache, untagged, outside, imgs, other, faults, straddled>>

\* The instance is terminated, its attachments and parts go, and after a while OCI
\* forgets it.
Terminate ==
  /\ Event /\ Running
  /\ oci' = [Empty EXCEPT !["inst"] = [oci["inst"] EXCEPT !.state = "terminated"],
                          !["vatt"] = NoVnics, !["batt"] = [oci["batt"] EXCEPT !.attached = FALSE]]
  /\ Disturb
  /\ UNCHANGED <<class, claim, npn, cache, worldVars, imgs, other, faults, straddled>>

Purge ==
  /\ oci["inst"] # None /\ ~Running
  /\ oci' = Empty
  /\ Disturb
  /\ UNCHANGED <<class, claim, npn, cache, worldVars, imgs, other, events, faults, straddled>>

-----------------------------------------------------------------------------
(* The other users of the caches *)

Evicted == straddled' = (straddled \/ (Straddles /\ cache' # cache))

\* GetInstance, from Get and from the poll of DeleteInstance: an answer, then a
\* refresh of the cache, then an eviction if the instance is terminated.
GetAnswered ==
  /\ claim # None /\ other = None /\ oci["inst"] # None
  /\ other' = [seen |-> TRUE, val |-> oci["inst"]]
  /\ verdict' = NoVerdict
  /\ UNCHANGED <<class, claim, npn, oci, cache, worldVars, imgs, pass, events, faults, straddled>>

\* An instance GetInstance or TerminateInstance does not find is evicted.
GetNotFound ==
  /\ claim # None /\ other = None /\ oci["inst"] = None
  /\ cache' = EvictInstance(cache) /\ cache' # cache
  /\ Evicted
  /\ verdict' = NoVerdict
  /\ UNCHANGED <<class, claim, npn, oci, worldVars, imgs, pass, other, events, faults>>

\* ListInstances lists the compartments the classes name now, without the terminated
\* instances.
ListAnswered ==
  /\ claim # None /\ other = None
  /\ other' = [val  |-> oci["inst"],
               seen |-> Running /\ oci["inst"].comp = GetInstanceCompartment(class.spec)]
  /\ verdict' = NoVerdict
  /\ UNCHANGED <<class, claim, npn, oci, cache, worldVars, imgs, pass, events, faults, straddled>>

\* What was answered is cached; an instance that was terminated, or that no
\* compartment listed, is evicted.
OtherStored ==
  /\ other # None
  /\ cache' = IF other.seen THEN StoreValue(cache, "inst", other.val, TRUE) ELSE EvictInstance(cache)
  /\ IF cache'["inst"] = None THEN Evicted ELSE UNCHANGED straddled
  /\ other' = None
  /\ verdict' = NoVerdict
  /\ UNCHANGED <<class, claim, npn, oci, worldVars, imgs, pass, events, faults>>

\* A later page of the listing fails: the instances of the earlier pages are cached
\* as in OtherStored, but nothing is evicted.
ListFails ==
  /\ other # None /\ ~other.seen
  /\ Faults(1)
  /\ other' = None
  /\ verdict' = NoVerdict
  /\ UNCHANGED <<class, claim, npn, oci, cache, worldVars, imgs, pass, events, straddled>>

-----------------------------------------------------------------------------

ImageLookUps == ({"image", "shapes"} \X Ids) \cup {<<"list", None>>}
LookUps == ImageLookUps \cup {<<"res", None>>}

Init ==
  /\ untagged = {} /\ outside = FALSE /\ catalog = Types
  /\ imgs = [pub |-> Published, have |-> {}, shapes |-> {},
             list |-> [f \in {s.image.filter : s \in Specs} \ {None} |-> None]]
  /\ \E s \in InitialSpecs : Resolves(s) /\ class = ReadyClass(s)
  /\ claim = None /\ npn = <<>> /\ oci = Empty /\ cache = Empty
  /\ pass = NoPass /\ verdict = NoVerdict
  /\ other = None
  /\ events = 0 /\ faults = 0 /\ straddled = FALSE

PassStep == ReadHit \/ ReadAnswered \/ ReadStored \/ ReadFails \/ Judge

Next ==
  \/ \E f \in {{}} \cup {{l} : l \in LookUps} : BeginDrift(f)
  \/ PassStep
  \/ EditSpec \/ ReconcileClass
  \/ \E t \in Types, f \in {{}} \cup {{l} : l \in ImageLookUps}, slow \in BOOLEAN : Launch(t, f, slow)
  \/ AttachPrimary \/ AttachSecondary \/ BecomeInitialized
  \/ ChangeOutside \/ Retag \/ PublishImage \/ ExpireImages \/ RefreshCatalog
  \/ Terminate \/ Purge
  \/ GetAnswered \/ GetNotFound \/ ListAnswered \/ OtherStored \/ ListFails

Spec == Init /\ [][Next]_vars

\* A call that is answered returns, and Karpenter lists the instances periodically.
FairSpec ==
  /\ Spec
  /\ WF_vars(PassStep)
  /\ WF_vars(ListAnswered \/ OtherStored)

-----------------------------------------------------------------------------
(* Properties *)

\* The attached secondary VNICs are, one for one, VNICs that Fit the desired ones.
SecondariesFit(desired, Fit(_, _)) ==
  LET found == DOMAIN oci["vatt"] \ {Primary} IN
    \E f \in [DOMAIN desired -> found] :
      /\ Range(f) = found /\ IsInjective(f)
      /\ \A i \in DOMAIN desired : Fit(desired[i], oci[f[i]])

\* An instance launched from the class now would not be the one that runs.
ReplacementDiffers ==
  LET s == class.spec
      Same(r, vnic) == vnic = BuildVnic(r, FALSE)
      SomeOf(S) == IF S = {} THEN {None} ELSE S
  IN
  \/ ~Running
  \/ claim.type \notin ListInstanceTypes(s)
  \/ claim.fields # StaticFields(s)
  \/ ~\E i \in ImageFor(s, claim.type, LaunchLook(s, {})), r \in SomeOf(s.res), g \in SomeOf(class.cpgs) :
        oci["inst"] = BuildInstance(s, TypeInfo[claim.type], i, r, g)
  \/ oci["boot"] # BuildBootVolume(s)
  \/ ~\E net \in NetworkNow(s) :
        /\ oci[Primary] = BuildVnic(net.primary, TRUE)
        /\ claim.init => SecondariesFit(net.secondary, Same)

\* The cases in which IsDrifted reports an instance a replacement would equal:
\* status.network is older than the resolution a launch makes; the instance was
\* returned at the launch timeout, with nothing attached yet; a desired secondary
\* VNIC may take the one VNIC that fits another; and an image dropped because OCI
\* did not answer for its base (verdict.skipped).
StaleNetworkStatus == class.net \notin NetworkNow(class.spec)

StillProvisioning == Running /\ ~oci["batt"].attached

AmbiguousSecondaries ==
  \E i, j \in DOMAIN class.net.secondary :
    LET a == class.net.secondary[i]
        b == class.net.secondary[j]
    IN  a.subnet = b.subnet /\ a.nsgs \subseteq b.nsgs /\ a.nsgs # b.nsgs

\* IsDrifted reports drift only of an instance that a replacement would differ from,
\* whatever the caches held when the pass began: otherwise Karpenter replaces a node
\* by its equal, again and again.
DriftMeansReplacementDiffers ==
  verdict.reason \notin {"none", "", "unknown"} =>
    \/ ReplacementDiffers
    \/ StaleNetworkStatus \/ StillProvisioning \/ AmbiguousSecondaries \/ verdict.skipped

\* The spec's static fields are those of the launch.  The hash does not tell the order
\* of the secondary VNICs, nor how many there are that are equal.
StaticFieldsHold ==
  LET old == claim.fields
      new == StaticFields(class.spec)
      Twins(f) == \E i, j \in DOMAIN f.secondary : i # j /\ f.secondary[i] = f.secondary[j]
  IN  /\ old.plain = new.plain /\ old.comp = new.comp
      /\ Range(old.secondary) = Range(new.secondary) \/ Twins(old) \/ Twins(new)

\* Everything the class asks for is so.  A value the spec no longer sets is not
\* asked for, nor is the absence of a group.  That the secondary VNICs are fewer than
\* those of the launch shows only in the attachments, which may have been cached before
\* all were attached.
RequestHolds ==
  LET s == class.spec
      i == oci["inst"]
      Set(wanted, actual) == \A f \in DOMAIN wanted \ {"size"} : wanted[f] \in {None, actual[f]}
  IN
  /\ claim.type \in ListInstanceTypes(s) /\ StaticFieldsHold
  /\ i.comp = GetInstanceCompartment(s)
  /\ {i.image} = ImageFor(s, claim.type, LaunchLook(s, {}))
  /\ IF claim.res = None THEN i.res = None ELSE i.res \in s.res
  /\ IF class.cpgs = {} THEN i.cpg = None ELSE i.cpg \in class.cpgs
  /\ Set(s.launch, i.launch)
  /\ Set(s.boot, oci["boot"]) /\ (s.boot.size # None => oci["boot"].size >= s.boot.size)
  /\ Fits(class.net.primary, oci[Primary])
  /\ claim.init /\ Len(claim.fields.secondary) = Len(s.secondary) =>
       SecondariesFit(class.net.secondary, Fits)

\* When IsDrifted finds no drift, everything the class asks for is so, although the
\* pass may have read nothing but the caches; changes made in OCI outside Karpenter
\* are excepted.
NoDriftMeansRequestHolds ==
  verdict.reason = "" /\ ~verdict.skipped /\ ~outside /\ Running => RequestHolds

\* A cached VNIC or boot volume belongs to cached attachments, so that the eviction
\* callbacks of NewDriftCaches reach it; unless the attachments were evicted between
\* the read that named it and the write that cached it.
ChildrenBelong ==
  ~straddled =>
    /\ \A v \in Vnics : cache[v] # None => cache["vatt"] # None /\ v \in DOMAIN cache["vatt"]
    /\ cache["boot"] # None => cache["batt"] # None /\ cache["batt"].attached

\* The image ResolveImageForShapeCached names is the one a launch would use, whichever
\* of its own look-ups OCI would fail to answer.
CachedNamesLaunchImage ==
  LET s == class.spec IN
  \A t \in s.types :
    LET named == ImageFor(s, t, CachedLook(s)) IN
      named # {} => \A fail \in {{}, ImageLookUps} : named = ImageFor(s, t, LaunchLook(s, fail))

\* Once OCI has forgotten an instance the caches forget it, and stay empty, though
\* answers given earlier may still be stored; unless children were left behind.
GoneForgotten ==
  (claim # None /\ oci["inst"] = None) ~> [](cache = Empty \/ straddled)

=============================================================================
