----------------------------- MODULE Resolution -----------------------------
(***************************************************************************)
(* What an OCINodeClass means in OCI: the subnets, network security groups *)
(* and placement groups its selectors name, the image a shape boots from,  *)
(* the secondary VNICs of a NativePodNetwork, the instance a launch builds *)
(* and the hash of the fields that are compared by hash only.              *)
(*                                                                         *)
(* pkg/providers/network, image, npn, clusterplacementgroup, pkg/utils and *)
(* the request-building half of pkg/providers/instance.  Look-ups that can *)
(* fail return the set of their results: one result, or none for an error. *)
(* A configuration has an `id` or a `sel` (selector), None when absent.    *)
(***************************************************************************)
EXTENDS Integers, Sequences, FiniteSets, FiniteSetsExt, SequencesExt

CONSTANTS
  None,
  Home,        \* the cluster's compartment
  VcnHome,     \* the compartment of the cluster's VCN
  PreBaked,    \* the compartment of the OKE images
  Platform,    \* the compartment every image listing includes
  IpFamilies,  \* a subset of {"IPv4", "IPv6"}
  NpnCluster,  \* pods get their addresses from secondary VNICs
  OciDefault,  \* stands for the value OCI gives an option the launch left out
  Subnets, Groups, Clusters, KmsKeys, Compartments, Reservations
               \* the subnets, cluster placement groups, compute clusters, KMS
               \* keys, compartments and capacity reservations OCI has

ASSUME ResolutionAssumption ==
  /\ IpFamilies \subseteq {"IPv4", "IPv6"} /\ IpFamilies # {}
  /\ NpnCluster \in BOOLEAN
  /\ \A g \in Groups : g.id # None

OrElse(x, default) == IF x = None THEN default ELSE x

-----------------------------------------------------------------------------
(* Selectors and the network *)

\* A resource is listed in one compartment, by display name if one is given, and
\* must carry every tag of the selector.
Matches(sel, r, home) ==
  /\ r.comp = OrElse(sel.comp, home)
  /\ sel.name \in {None, r.name}
  /\ sel.tags \subseteq r.tags

\* resolveSubnet: one subnet, by id or by a selector only it matches.
ResolveSubnet(c) ==
  LET found == IF c.id # None
               THEN {s \in Subnets : s.id = c.id}
               ELSE {s \in Subnets : Matches(c.sel, s, VcnHome)}
  IN  IF Cardinality(found) = 1 /\ None \in {c.id, c.sel} THEN found ELSE {}

\* resolveNsgs: an id must exist; a selector may match any number of groups.
ResolveNsgs(cs, nsgs) ==
  LET Found(c) == IF c.id # None
                  THEN {g \in nsgs : g.id = c.id}
                  ELSE {g \in nsgs : Matches(c.sel, g, VcnHome)}
  IN  IF \A c \in cs : None \in {c.id, c.sel} /\ (c.id # None => Found(c) # {})
      THEN {UNION {Found(c) : c \in cs}}
      ELSE {}

ServesFamilies(subnet) ==
  /\ "IPv4" \in IpFamilies => subnet.v4 > 0
  /\ "IPv6" \in IpFamilies => subnet.v6 > 0

\* resolveSubnetAndNsgConfig: the subnet and its groups, of one VCN.
ResolveVnic(v, nsgs) ==
  UNION {UNION {IF (\A g \in gs : g.vcn = s.vcn) /\ ServesFamilies(s)
                THEN {[subnet |-> s, nsgs |-> {g.id : g \in gs}]}
                ELSE {} : gs \in ResolveNsgs(v.nsgs, nsgs)}
         : s \in ResolveSubnet(v.subnet)}

SingleStackV6 == IpFamilies = {"IPv6"}

IpCount(v) == OrElse(v.ipCount, IF SingleStackV6 THEN 256 ELSE 32)

validateSecondaryVnicIpCounts(vs) ==
  /\ \A i \in DOMAIN vs : LET n == IpCount(vs[i]) IN
       /\ n \in {2 ^ k : k \in 0..8}
       /\ SingleStackV6 => n \in {1, 16, 256}
  /\ MapThenSumSet(LAMBDA i : IpCount(vs[i]), DOMAIN vs) <= 256

\* A subnet of a single CIDR block gives few addresses.
validateSecondaryVnicIpCountsAgainstCidrs(v, subnet) ==
  IF "IPv6" \in IpFamilies /\ v.v6
  THEN subnet.v6 = 1 => IpCount(v) <= 16
  ELSE subnet.v4 = 1 => IpCount(v) <= 32

Status(r) == [subnet |-> r.subnet.id, nsgs |-> r.nsgs]

\* ResolveNetworkConfig, as toNodeClassNetwork stores it in status.network.
ResolveNetworkConfig(spec, nsgs) ==
  LET primary == ResolveVnic(spec.primary, nsgs)
      n       == Len(spec.secondary)
      second  == [i \in 1..n |-> ResolveVnic(spec.secondary[i], nsgs)]
      ok      == /\ \E r \in primary : r.subnet.ad = None
                 /\ IF NpnCluster THEN n > 0 ELSE n = 0
                 /\ validateSecondaryVnicIpCounts(spec.secondary)
                 /\ \A i \in 1..n : \E r \in second[i] :
                      validateSecondaryVnicIpCountsAgainstCidrs(spec.secondary[i], r.subnet)
  IN  IF ok
      THEN {[primary   |-> Status(CHOOSE r \in primary : TRUE),
             secondary |-> [i \in 1..n |-> Status(CHOOSE r \in second[i] : TRUE)]]}
      ELSE {}

\* ResolveClusterPlacementGroups: by id, or the ones a selector matches.  The
\* listing passes on the groups whose state is Deleted and skips the others.
ResolveClusterPlacementGroups(cs) ==
  LET Found(c) == IF c.id # None
                  THEN {g \in Groups : g.id = c.id}
                  ELSE {g \in Groups : g.deleted /\ Matches(c.sel, g, Home)}
  IN  IF \A c \in cs : None \in {c.id, c.sel} /\ (c.id # None => Found(c) # {})
      THEN {UNION {Found(c) : c \in cs}}
      ELSE {}

\* ResolveComputeCluster: by id, or the only active one the selector matches.
ResolveComputeCluster(c) ==
  LET found == IF c.id # None
               THEN {k \in Clusters : k.id = c.id}
               ELSE {k \in Clusters : k.active /\ Matches(c.sel, k, Home)}
  IN  IF Cardinality(found) = 1 /\ None \in {c.id, c.sel} THEN found ELSE {}

ResolveKmsKeyConfig(key) == key \in KmsKeys

ResolveCompartment(comp) == comp \in Compartments

\* The reconciler of the placement groups also refuses two in one domain.
PlacementGroupsReady(cs) ==
  cs # {} => \E gs \in ResolveClusterPlacementGroups(cs) :
               \A g, h \in gs : g.ad = h.ad => g = h

\* The other optional parts of a class are ready when absent or resolved.
ComputeClusterReady(c) == c # None => ResolveComputeCluster(c) # {}

KmsKeyReady(key) == key # None => ResolveKmsKeyConfig(key)

CapacityReservationsReady(ids) == ids \subseteq Reservations

-----------------------------------------------------------------------------
(* Images.  `look` says which answers a resolution can have: list, the images   *)
(* a filter lists (None if it has no listing), have, the images it can read by  *)
(* id, shapes, the images whose shapes it can list; strict is cachedOnly.       *)

\* listAndFilterImages; ListImages always adds the platform's own images.
ListedImages(images, c) ==
  LET f == c.filter
      comp == IF c.type = "Platform" THEN None
              ELSE IF c.type = "OKEImage" THEN OrElse(f.comp, PreBaked) ELSE f.comp
  IN  {i \in images : i.comp \in {comp, Platform} /\ i.os = f.os /\ f.tags \subseteq i.tags}

ImageById(images, id) == CHOOSE x \in images : x.id = id

\* extractKubeletVersionFromPreBakedImage: the tag of the image or of the nearest
\* ancestor that has one, when the images in `have` can be read.
KubeletVersions(images, have) ==
  LET Of[x \in images] ==
        IF x.k8s # None THEN [st |-> "ok", minor |-> x.k8s]
        ELSE IF x.base = None THEN [st |-> "untagged", minor |-> 0]
        ELSE IF x.base \notin have THEN [st |-> "unread", minor |-> 0]
        ELSE Of[ImageById(images, x.base)]
  IN  Of

\* kubeletVersionCompatibleScore, for versions of one major: negative if the
\* kubelet is newer than the cluster or more than three minors (two before 1.25)
\* older.
CompatibleScore(cluster, klet) ==
  LET diff == cluster - klet
  IN  IF diff < 0 \/ diff > 3 \/ (klet < 25 /\ diff > 2) THEN -1 ELSE diff

IsPreBaked(c, found) ==
  IF c.id # None THEN \E i \in found : i.comp = PreBaked ELSE c.type = "OKEImage"

\* By version skew, then the newest first.
ByScore(S, score) ==
  SetToSortSeq(S, LAMBDA x, y : score[x] < score[y] \/ (score[x] = score[y] /\ x.made > y.made))

\* Mutant: cachedOnly drops an image whose base is not cached.
FilterAndSortLenient(found, c, images, look, cluster) ==
  LET klet  == KubeletVersions(images, look.have)
      score == [i \in found |-> CompatibleScore(cluster, klet[i].minor)]
      fit   == {i \in found : klet[i].st = "ok" /\ score[i] >= 0}
  IN  IF fit = {} THEN {} ELSE {ByScore(fit, score)}

\* filterAndSortImages: newest first, then, for OKE images, the compatible ones by
\* version skew.  A base image that cannot be read stops a strict resolution and
\* silently drops its descendants from any other.
FilterAndSort(found, c, images, look, cluster) ==
  LET klet  == KubeletVersions(images, look.have)
      score == [i \in found |-> CompatibleScore(cluster, klet[i].minor)]
      fit   == {i \in found : klet[i].st = "ok" /\ score[i] >= 0}
  IN  IF found = {} THEN {}
      ELSE IF ~IsPreBaked(c, found) THEN {ByScore(found, [i \in found |-> 0])}
      ELSE IF cluster = None \/ (look.strict /\ \E i \in found : klet[i].st = "unread") THEN {}
      ELSE {ByScore(fit, score)}

ImagesFound(c, images, look) ==
  IF c.id # None THEN {i \in images : i.id = c.id /\ i.id \in look.have} ELSE OrElse(look.list, {})

\* resolveImages.
ResolveImages(c, images, look, cluster) ==
  {s \in FilterAndSort(ImagesFound(c, images, look), c, images, look, cluster) : s # <<>>}

\* resolveImageForShape: the first image that runs on the shape; a list of shapes
\* that cannot be read before it is found is an error.
ResolveImageForShape(c, shape, images, look, cluster) ==
  UNION {LET runs == {n \in DOMAIN s : shape \in s[n].shapes}
             first == Min(runs)
         IN  IF runs # {} /\ \A n \in 1..first : s[n].id \in look.shapes
             THEN {s[first].id}
             ELSE {}
         : s \in ResolveImages(c, images, look, cluster)}

\* The images a resolution reads by id, and the ones whose shapes it lists.
ImagesRead(c, images, look) ==
  LET found == ImagesFound(c, images, look)
      Bases[x \in images] ==
        IF x.k8s # None \/ x.base \notin look.have THEN {}
        ELSE {x.base} \cup Bases[ImageById(images, x.base)]
      bases == IF IsPreBaked(c, found) THEN UNION {Bases[i] : i \in found} ELSE {}
  IN  look.have \cap ({c.id} \cup bases)

ShapesRead(c, shape, images, look, cluster) ==
  look.shapes \cap
  UNION {{s[n].id : n \in {m \in DOMAIN s : \A l \in 1..(m - 1) :
                             s[l].id \in look.shapes /\ shape \notin s[l].shapes}}
         : s \in ResolveImages(c, images, look, cluster)}

-----------------------------------------------------------------------------
(* Launch and hash *)

GetInstanceCompartment(spec) == OrElse(spec.comp, Home)

\* BuildLaunchOptions and the boot volume details leave out what the spec does not
\* set; OCI fills it in.
BuildLaunchOptions(lo) == [f \in DOMAIN lo |-> OrElse(lo[f], OciDefault)]

\* The instance LaunchInstance asks for, as OCI then reports it.
BuildInstance(spec, it, image, res, cpg) ==
  [state |-> "running", comp |-> GetInstanceCompartment(spec), shape |-> it.shape,
   size |-> it.size, image |-> image, res |-> res, cpg |-> cpg,
   launch |-> BuildLaunchOptions(spec.launch)]

\* Encryption in transit is off unless asked for; the smallest boot volume OCI
\* makes is 50 GB.
BuildBootVolume(spec) ==
  [BuildLaunchOptions(spec.boot) EXCEPT
     !.size = OrElse(spec.boot.size, 50), !.enc = OrElse(spec.boot.enc, FALSE)]

\* buildCreateVnicDetails: a VNIC on the resolved subnet with the resolved groups.
BuildVnic(r, isPrimary) == [subnet |-> r.subnet, nsgs |-> r.nsgs, primary |-> isPrimary]

\* The secondary VNICs a NativePodNetwork asks for.
constructSecondaryVnicsNpnSpec(net) ==
  [i \in DOMAIN net.secondary |-> BuildVnic(net.secondary[i], FALSE)]

\* The fields of the spec that only the hash compares.
StaticFields(spec) ==
  [plain     |-> spec.static,
   comp      |-> spec.comp,
   secondary |-> [i \in DOMAIN spec.secondary |->
                    [ipCount |-> spec.secondary[i].ipCount, v6 |-> spec.secondary[i].v6]]]

\* KarpenterHash with SlicesAsSets: the hashes of a slice's elements are combined
\* by exclusive or, so an element that occurs an even number of times is lost.
KarpenterHash(f) ==
  LET odd(e) == Cardinality({i \in DOMAIN f.secondary : f.secondary[i] = e}) % 2 = 1
  IN  [plain |-> f.plain, comp |-> f.comp, secondary |-> {e \in Range(f.secondary) : odd(e)}]

=============================================================================
