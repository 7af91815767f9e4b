---------------------------- MODULE InstanceTypes ---------------------------
(***************************************************************************)
(* pkg/providers/instancetype: how a compute shape and an OCINodeClass     *)
(* become instance types with a capacity, an overhead and offerings.       *)
(*                                                                         *)
(* Operators only; Launch gives them a state.  s is a shape as ListShapes  *)
(* returns it, k an OCINodeClass, p the provider's state: p.ads (shape to  *)
(* availability domains), p.price, p.preemptible, p.cluster and p.oneVcpu  *)
(* (the shape metadata file), p.minor (the cluster's version) and          *)
(* p.measured (the memory found on nodes, see CapacityDiscovery).          *)
(*                                                                         *)
(* Units: OCPUs are whole numbers.  The memory a shape or configuration    *)
(* declares is in thousandths of a GB, what is reserved of it in hundred-  *)
(* thousandths, a capacity in whole MiB, as the code has it.  Reserved CPU *)
(* is in millicores.  u.gb is the price of a thousandth of a GB, u.ocpu    *)
(* and u.disk are in the same unit, and u.ocpu is a multiple of 8: the     *)
(* discounts of burstable baselines are whole.                             *)
(***************************************************************************)
EXTENDS Integers, FiniteSets, Sequences, FiniteSetsExt, Functions

CONSTANT None

Least(a, b) == IF a <= b THEN a ELSE b
Most(a, b)  == IF a >= b THEN a ELSE b
Given(x, d) == IF x # None THEN x ELSE d

-----------------------------------------------------------------------------
(* Flexible shapes *)

\* The OCPU share of a burstable baseline is 1/Factor: 1, 2 or 8.
Factor(cfg) == Given(cfg.baseline, 1)

\* The class's configurations, else the global ones; only the first of several
\* before Kubernetes 1.31 or while the version is not known.
ShapeConfigs(p, k) ==
  LET all == IF k.configs # <<>> THEN k.configs ELSE p.configs
  IN  IF Len(all) > 1 /\ (p.minor = None \/ p.minor < 31) THEN <<all[1]>> ELSE all

Fits(s, cfg) ==
  /\ cfg.ocpu # None
  /\ cfg.ocpu \in s.ocpuMin..s.ocpuMax
  /\ Factor(cfg) # 1 => Factor(cfg) \in s.baselines
  /\ cfg.gbs # None => cfg.gbs \in s.gbsMin..s.gbsMax

\* listInstanceTypesForFlexShape, and the single type of a fixed shape.
TypesOfShape(p, k, s) ==
  IF ~s.flexible THEN {[shape |-> s, ocpu |-> None, gbs |-> None, baseline |-> None]}
  ELSE {[shape |-> s, ocpu |-> cfg.ocpu, baseline |-> Factor(cfg),
         gbs |-> Given(cfg.gbs, (cfg.ocpu * s.gbsPerOcpu) \div Factor(cfg))] :
          cfg \in {c \in Range(ShapeConfigs(p, k)) : Fits(s, c)}}

Ocpu(t)      == Given(t.ocpu, t.shape.ocpus)
Gbs(t)       == Given(t.gbs, t.shape.gbs)
Burstable(t) == t.baseline \notin {None, 1}

\* The cache key and the capacity reservation know a type by these three.
ConfigOf(t) == <<t.shape.name, t.ocpu, t.gbs>>

\* The name of a type has its memory in whole GBs, a half rounded to the even one.
WholeGbs(gbs) ==
  LET up == (gbs + 500) \div 1000
  IN  IF gbs % 1000 = 500 /\ up % 2 = 1 THEN up - 1 ELSE up

NameOf(t) == IF ~t.shape.flexible THEN <<t.shape.name>>
             ELSE <<t.shape.name, t.ocpu, WholeGbs(t.gbs), t.baseline>>

-----------------------------------------------------------------------------
(* Platform configuration *)

\* resolvePlatformBoolean: the request wins over the advertised default.
Effective(s, k, f) == Given(k.platform[f], s.platform[f].default)

\* evaluatePlatformConfigCapabilities: every value asked for is an allowed one
\* (percentageOfCoresEnabled: within the bounds).
Capable(s, k) == \A f \in DOMAIN k.platform :
                    k.platform[f] # None => k.platform[f] \in s.platform[f].allowed

\* platformShieldedCompatible: bare metal has no measured boot; on a VM it and the
\* TPM go together where both are known.
Shielded(s, k) ==
  LET tpm  == Effective(s, k, "tpm")
      boot == Effective(s, k, "measuredBoot")
  IN  IF s.bm THEN boot # TRUE ELSE None \in {tpm, boot} \/ tpm = boot

Encrypted(s, k) == k.platform # <<>> /\ s.platform # None /\ Effective(s, k, "encryption") = TRUE

\* evaluatePlatformConfig.  An empty request is <<>>.
PlatformCompatible(s, k) ==
  \/ k.platform = <<>>
  \/ /\ s.platform # None
     /\ Capable(s, k)
     /\ Shielded(s, k)
     /\ Encrypted(s, k) =>
          TRUE \notin {Effective(s, k, f) : f \in {"secureBoot", "tpm", "measuredBoot"}}

-----------------------------------------------------------------------------
(* Capacity and overhead *)

\* Mutant of AdjustedVcpu: the platform configuration is not applied.
AdjustedVcpuIgnored(s, k, vcpu) == vcpu

\* adjustVCPUForPlatformConfig: the share of cores that is enabled (per socket,
\* rounded down, on the two-socket Intel platforms; else rounded up), and one
\* thread per core without multi-threading.  Only Arm shapes are in p.oneVcpu, so
\* that vcpu is a multiple of the threads.
AdjustedVcpu(s, k, vcpu) ==
  LET threads == IF s.arm THEN 1 ELSE 2
      cores   == vcpu \div threads
      percent == Effective(s, k, "percent")
      enabled == IF percent = None THEN cores
                 ELSE IF s.sockets = 2
                      THEN 2 * Most(1, (cores * percent) \div 200)
                      ELSE (cores * percent + 99) \div 100
      smt     == Effective(s, k, "smt")
  IN  IF percent = None /\ smt = None THEN vcpu
      ELSE enabled * (IF ~s.arm /\ smt = FALSE THEN 1 ELSE threads)

Vcpu(p, k, t) ==
  LET s == t.shape
      base == IF s.name \in p.oneVcpu THEN Ocpu(t) ELSE 2 * Ocpu(t)
  IN  IF k.platform # <<>> /\ PlatformCompatible(s, k) THEN AdjustedVcpu(s, k, base) ELSE base

\* Mutant of MemoryMiB: the overhead is cut to whole MiB, not rounded up.
MemoryMiBCut(t) ==
  LET declared == (1024 * Gbs(t)) \div 1000
  IN  IF t.shape.bm THEN declared ELSE Most(1, declared - (600 + (19 * Gbs(t)) \div 1000))

\* memoryCapacityMiB with the default VM overhead of 600 MiB and 19 MiB per GB: the
\* declared memory is cut to whole MiB, the overhead is rounded up to them.
MemoryMiB(t) ==
  LET declared == (1024 * Gbs(t)) \div 1000
      overhead == 600 + (19 * Gbs(t) + 999) \div 1000
  IN  IF t.shape.bm THEN declared ELSE Most(1, declared - overhead)

\* decorateInstanceType: what was measured on a node of that name wins.
MemoryCapacity(p, t) ==
  LET own == {x \in p.measured : x.name = NameOf(t)}
  IN  IF own = {} THEN MemoryMiB(t) ELSE (CHOOSE x \in own : TRUE).mib

\* kubeReservedResources.
KubeReservedCpu(vcpu) ==
  IF vcpu \in 1..5 THEN <<60, 72, 80, 85, 90>>[vcpu]
                   ELSE (900 + (vcpu - 5) * 25) \div 10

\* Mutant of KubeReservedMemory: the last band starts where 128 GB would be at 7%.
KubeReservedMemoryGap(gbs) ==
  IF gbs <= 16000 THEN 260000 - 10 * (16000 - gbs) ELSE
  IF gbs <= 128000 THEN 6 * (gbs - 16000) + 260000 ELSE 2 * (gbs - 128000) + 896000

KubeReservedMemory(gbs) ==
  CASE gbs <= 4000                    -> 25 * gbs
    [] 4000 < gbs /\ gbs <= 8000      -> 20 * (gbs - 4000) + 100000
    [] 8000 < gbs /\ gbs <= 16000     -> 10 * (gbs - 8000) + 180000
    [] 16000 < gbs /\ gbs <= 128000   -> 6 * (gbs - 16000) + 260000
    [] gbs > 128000                   -> 2 * (gbs - 128000) + 932000

\* parseEvictionSignal: a share of the capacity rounded up (100% disables it) or
\* an amount; and evictionThreshold, the larger of the hard and the soft one.
Signal(capacity, v) ==
  CASE v = None -> 0
    [] v # None /\ "percent" \in DOMAIN v ->
         IF v.percent = 100 THEN 0 ELSE (capacity * v.percent + 99) \div 100
    [] v # None /\ "amount" \in DOMAIN v -> v.amount

EvictionThreshold(t, k) ==
  Most(Signal(100 * Gbs(t), k.evictHard), Signal(100 * Gbs(t), k.evictSoft))

\* setOverhead: what the kubelet does not give to pods, by the declared memory (the
\* 100 MiB of systemReserved rounded up).
Overhead(t, k) == Given(k.kubeReserved, KubeReservedMemory(Gbs(t)))
                    + Given(k.systemReserved, 9766) + EvictionThreshold(t, k)

\* GetDefaultMaxPods, GetKubeletMaxPods and pods.
DefaultIpCount(families) == IF families = {"IPv6"} THEN 256 ELSE 32

Addresses(families, vnics) ==
  MapThenSumSet(LAMBDA i : Given(vnics[i].ipCount, DefaultIpCount(families)), DOMAIN vnics)

Pods(p, k, t) ==
  LET addresses == IF k.vnics = <<>> THEN 110 ELSE Addresses(p.families, k.vnics)
      kubelet   == IF k.maxPods \in {None, 0} THEN addresses ELSE Least(addresses, k.maxPods)
  IN  IF k.podsPerCore \in {None, 0} THEN kubelet
      ELSE Least(k.podsPerCore * Vcpu(p, k, t), kubelet)

\* getMaxVnicAttachmentsForShape, the primary one included.
MaxVnics(t) ==
  LET s == t.shape
  IN  IF ~s.flexible \/ s.vnicOptions = None THEN s.vnics
      ELSE IF Ocpu(t) <= s.ocpuMin THEN s.vnicOptions.min
      ELSE Least(s.vnicOptions.max,
                 s.vnicOptions.min + (Ocpu(t) - s.ocpuMin) * s.vnicOptions.perOcpu)

\* What the scheduler may use: millicores, memory (a MiB is 3125/32 hundred-thousandths
\* of a GB) and pods.
Allocatable(p, k, t) ==
  [cpu    |-> 1000 * Vcpu(p, k, t) - KubeReservedCpu(Vcpu(p, k, t)) - 100,
   memory |-> (3125 * MemoryCapacity(p, t)) \div 32 - Overhead(t, k),
   pods   |-> Pods(p, k, t)]

-----------------------------------------------------------------------------
(* Offerings: [ad, cap, price, res], with res the reservation's label or None *)

\* A metadata entry for the shape's name, else for a prefix of it.  Where several
\* prefixes match, map order picks one; the entries of the shipped file never do.
UnitPrice(p, s) ==
  LET names == IF s.name \in DOMAIN p.price THEN {s.name} ELSE DOMAIN p.price \cap s.prefixes
  IN  IF names = {} THEN None ELSE p.price[CHOOSE n \in names : TRUE]

\* calculatePrices: a GPU shape costs by the GPU.
Price(p, t) ==
  LET u == UnitPrice(p, t.shape)
  IN  IF t.shape.gpus > 0 THEN u.ocpu * t.shape.gpus
      ELSE (u.ocpu * Ocpu(t)) \div Factor(t) + u.gb * Gbs(t) + u.disk * t.shape.disks

Preemptible(p, s) == p.preemptible \cap ({s.name} \union s.prefixes) # {}

\* decorateInstanceType: what makes every offering of the type unavailable.
Usable(p, k, t) == /\ ~t.shape.free
                   /\ UnitPrice(p, t.shape) # None
                   /\ k.vnics # <<>> => t.shape.vnics # None /\ Len(k.vnics) < MaxVnics(t)

\* getPlacementRestrictFunc: a compute cluster wins over placement groups.
Restricts(p, k, s, ad) ==
  IF k.cluster # None THEN s.name \in p.cluster /\ ad = k.cluster.ad
  ELSE k.groups \notin {None, {}} => ad \in {g.ad : g \in k.groups}

\* AvailabilityForShape of one reservation: the reserved and the used count for
\* each fault domain, "" for the whole domain.  used is what the reservation
\* provider answers.  A fixed shape matches whatever configuration it has.
Entries(r, t) ==
  {e \in r.entries : /\ e.shape = t.shape.name
                     /\ t.shape.flexible => <<e.ocpu, e.gbs>> = <<t.ocpu, t.gbs>>}

AvailabilityForShape(r, t, used) ==
  [fd \in {Given(e.fd, "") : e \in Entries(r, t)} |->
     LET es == {e \in Entries(r, t) : Given(e.fd, "") = fd}
     IN  [total |-> MapThenSumSet(LAMBDA e : e.total, es),
          used  |-> MapThenSumSet(LAMBDA e : used[r.id, e], es)]]

OnDemand(p, k, t) ==
  {[ad |-> ad, cap |-> "on-demand", price |-> Price(p, t), res |-> None] :
     ad \in {a \in p.ads[t.shape.name] : Restricts(p, k, t.shape, a)}}

\* Half the price.  The placement restriction is not consulted.
Spot(p, t) ==
  {[ad |-> ad, cap |-> "spot", price |-> Price(p, t) \div 2, res |-> None] :
     ad \in p.ads[t.shape.name]}

\* makeReservedOffering.  The availabilities above carry no fault domain, and the
\* offerings neither.
Reserved(p, k, t, used) ==
  {[ad |-> r.ad, cap |-> "reserved", price |-> Price(p, t), res |-> r.id] :
     r \in {q \in k.reservations :
              LET av == AvailabilityForShape(q, t, used)
              IN  \E fd \in DOMAIN av : av[fd].total > av[fd].used}}

\* The key of the unavailable-offerings cache.
OfferingKey(t, ad, cap, comp) == <<ConfigOf(t), ad, cap, comp>>

\* Mutant of IsUnavailable: tenancy-wide entries are not looked up.
IsUnavailableHere(marks, k, t, o) ==
  o.cap # "reserved" /\ OfferingKey(t, o.ad, o.cap, k.comp) \in marks

IsUnavailable(marks, k, t, o) ==
  /\ o.cap # "reserved"
  /\ \E comp \in {"", k.comp} : OfferingKey(t, o.ad, o.cap, comp) \in marks

\* setOfferings, the available ones.
Offerings(p, k, t, taints, marks, used) ==
  LET reservable == \E r \in k.reservations : Entries(r, t) # {}
      made == OnDemand(p, k, t)
                \union (IF Preemptible(p, t.shape) /\ ~Burstable(t) /\ ~reservable
                            /\ "preemptible" \in taints THEN Spot(p, t) ELSE {})
                \union Reserved(p, k, t, used)
  IN  IF ~Usable(p, k, t) \/ ~PlatformCompatible(t.shape, k) THEN {}
      ELSE {o \in made : /\ ~IsUnavailable(marks, k, t, o)
                         /\ Encrypted(t.shape, k) => o.cap = "on-demand"}

\* ListInstanceTypes: GPU shapes only for claims that tolerate them.
ListInstanceTypes(p, k, shapes, taints) ==
  UNION {TypesOfShape(p, k, s) :
           s \in {x \in shapes : p.ads[x.name] # {} /\ (x.gpus > 0 => "gpu" \in taints)}}
=============================================================================
