------------------------------ MODULE MCLaunch ------------------------------
(* Launch on small instances. *)
EXTENDS Launch, TLC

CONSTANTS c1, c2

MCClaims == {c1, c2}
MCAds    == {"ad1", "ad2"}

Boolean == [allowed |-> BOOLEAN, default |-> None]
NoField == [allowed |-> {}, default |-> None]

Fixed == [name |-> "VM.v", prefixes |-> {"VM"}, flexible |-> FALSE, bm |-> FALSE, arm |-> FALSE,
          free |-> FALSE, gpus |-> 0, disks |-> 0, ocpus |-> 2, gbs |-> 16000, vnics |-> 2,
          vnicOptions |-> None, platform |-> None, sockets |-> 1]

Flex == [Fixed EXCEPT !.name = "VM.f", !.flexible = TRUE, !.ocpus = 1, !.gbs = 6000,
                      !.vnicOptions = [min |-> 2, max |-> 4, perOcpu |-> 1]]
          @@ [ocpuMin |-> 1, ocpuMax |-> 4, gbsMin |-> 1000, gbsMax |-> 64000,
              gbsPerOcpu |-> 6000, baselines |-> {2, 8}]

Metal == [Fixed EXCEPT !.name = "BM.h", !.prefixes = {"BM"}, !.bm = TRUE, !.ocpus = 6, !.gbs = 192000,
                       !.disks = 1, !.sockets = 2,
                       !.platform = [secureBoot |-> Boolean, tpm |-> Boolean,
                                     measuredBoot |-> Boolean, encryption |-> Boolean,
                                     smt |-> [allowed |-> BOOLEAN, default |-> TRUE],
                                     percent |-> [allowed |-> 25..100, default |-> None]]]

\* One socket: the share of its five cores is rounded up.
Metal1 == [Metal EXCEPT !.name = "BM.e", !.ocpus = 5, !.gbs = 128000, !.sockets = 1]

Gpu == [Fixed EXCEPT !.name = "VM.g", !.gpus = 1]

MCShapes == {Fixed, Flex, Metal, Metal1, Gpu}

File == [price |-> [n \in {"VM", "BM.h"} |-> [ocpu |-> 8000, gb |-> 2, disk |-> 2000]],
         preemptible |-> {"VM.v"}, cluster |-> {"BM.h"}, oneVcpu |-> {}]
File2 == [File EXCEPT !.price = [n \in {"VM.v", "VM"} |-> [ocpu |-> 16000, gb |-> 2, disk |-> 2000]],
                      !.preemptible = {"VM.g"}]

Plain == [comp |-> "a", configs |-> <<>>, platform |-> <<>>, vnics |-> <<>>, maxPods |-> None,
          podsPerCore |-> None, evictHard |-> None, evictSoft |-> None, kubeReserved |-> None,
          systemReserved |-> None, cluster |-> None, groups |-> None, reservations |-> {}]

Ask(class) == [class |-> class, zones |-> MCAds, caps |-> {"on-demand"}, fd |-> None,
               reservation |-> None, taints |-> {}, requests |-> [cpu |-> 1000]]

SpotToo(class) == [Ask(class) EXCEPT !.caps = {"on-demand", "spot"}, !.taints = {"preemptible"}]

Both(page)  == [ad \in MCAds |-> <<page>>]

Warm == [want |-> [c \in MCClaims |-> None], gate |-> TRUE, ttl |-> TRUE, files |-> {File},
         catalogs |-> <<Both({"VM.v"})>>, warm |-> TRUE, refreshes |-> 0, minor |-> 31,
         nodes |-> {}, blockable |-> {}, maxFaults |-> 0, maxChanges |-> 1]

Wants(w1, w2) == (c1 :> w1) @@ (c2 :> w2)

\* Spot falls back to on-demand and to the other domain; two compartments.
SpotFallback ==
  LET in1(k) == [SpotToo(k) EXCEPT !.zones = {"ad1"}]
  IN  {[Warm EXCEPT !.want = Wants(in1(Plain), in1([Plain EXCEPT !.comp = "b"])),
                    !.blockable = {<<"capacity", "VM.v", "ad1", "spot">>,
                                   <<"quota", "VM.v", "a">>}],
       [Warm EXCEPT !.want = Wants(SpotToo(Plain), None), !.ttl = FALSE, !.maxFaults = 1,
                    !.maxChanges = 2,
                    !.blockable = {<<"capacity", "VM.v", "ad1", "spot">>,
                                   <<"capacity", "VM.v", "ad2", "spot">>}],
       [Warm EXCEPT !.want = Wants(SpotToo(Plain), None), !.gate = FALSE, !.maxFaults = 1,
                    !.blockable = {<<"capacity", "VM.v", "ad1", "spot">>,
                                   <<"quota", "VM.v", "a">>}]}

\* Two configurations of one flexible shape, one with a fraction of a GB; what was
\* measured decides whether a claim fits the cheaper one; a service limit; a fault domain.
TwoConfigs ==
  LET Cfg(o, g, b) == [ocpu |-> o, gbs |-> g, baseline |-> b]
      k == [Plain EXCEPT !.configs = <<Cfg(2, 16300, 2), Cfg(4, None, None), Cfg(9, 1000, 1)>>,
                         !.vnics = <<[ipCount |-> None], [ipCount |-> 16]>>, !.podsPerCore = 10,
                         !.evictHard = [percent |-> 5], !.evictSoft = [amount |-> 30000]]
      big == [Ask(k) EXCEPT !.requests = [memory |-> 1200000]]
      inFd == [Ask(k) EXCEPT !.fd = "fd1", !.zones = {"ad1"}, !.requests = [pods |-> 48]]
  IN  {[Warm EXCEPT !.want = Wants(w, inFd), !.catalogs = <<Both({"VM.f"})>>, !.minor = m,
                    !.nodes = {[name |-> <<"VM.f", 2, 16, 2>>, gbs |-> 16300, mib |-> 16000],
                               [name |-> <<"VM.f", 2, 16, 2>>, gbs |-> 16400, mib |-> 16700]},
                    !.blockable = {<<"capacity", "VM.f", "ad1", "on-demand">>,
                                   <<"limit", "VM.f">>}] :
         <<w, m>> \in {<<[big EXCEPT !.zones = {"ad1"}], 31>>, <<Ask(k), 30>>}}

\* A compute cluster beside a class without one; a platform configuration.
InCluster ==
  LET Field == {"secureBoot", "tpm", "measuredBoot", "encryption", "smt", "percent"}
      k == [Plain EXCEPT !.cluster = [id |-> "cc", ad |-> "ad1"],
                         !.platform = [f \in Field |-> CASE f = "smt" -> FALSE
                                                         [] f = "percent" -> 50
                                                         [] OTHER -> None]]
  IN  {[Warm EXCEPT !.want = Wants(Ask(k), Ask(Plain)),
                    !.catalogs = <<Both({"BM.h", "BM.e", "VM.v"})>>,
                    !.blockable = {<<"capacity", "BM.h", "ad1", "cc">>,
                                   <<"capacity", "BM.h", "ad1", "on-demand">>,
                                   <<"capacity", "VM.v", "ad1", "on-demand">>}]}

\* A reservation of a whole domain, and placement groups.
Reserving ==
  LET r == [id |-> "r", ad |-> "ad1",
            entries |-> {[shape |-> "VM.v", ocpu |-> None, gbs |-> None, fd |-> None, total |-> 1]}]
      k == [Plain EXCEPT !.reservations = {r}]
      g == [Plain EXCEPT !.groups = {[id |-> "g1", ad |-> "ad1"], [id |-> "g2", ad |-> "ad1"]}]
  IN  {[Warm EXCEPT !.want = Wants([Ask(k) EXCEPT !.caps = {"reserved", "on-demand"}], Ask(g)),
                    !.blockable = {<<"capacity", "VM.v", "ad1", "r">>,
                                   <<"capacity", "VM.v", "ad1", "g1">>,
                                   <<"capacity", "VM.v", "ad1", "on-demand">>}]}

\* The catalogue is built while a claim waits: pages, two versions, two files.
Cold ==
  {[Warm EXCEPT !.want = Wants([SpotToo(Plain) EXCEPT !.taints = {"preemptible", "gpu"}], None),
                !.warm = FALSE, !.refreshes = 2, !.maxFaults = 1, !.files = {File, File2},
                !.catalogs = <<Both({"VM.v"}), [ad1 |-> <<{"VM.v"}, {"VM.g"}>>, ad2 |-> <<{"VM.v"}>>]>>,
                !.blockable = {}],
   [Warm EXCEPT !.want = Wants(Ask(Plain), None), !.warm = FALSE, !.refreshes = 2, !.maxFaults = 1,
                !.catalogs = <<[ad1 |-> <<{"VM.v"}, {"VM.g"}>>, ad2 |-> <<{"VM.f"}, {"VM.v"}>>]>>]}

MCScenarios == SpotFallback \union TwoConfigs \union InCluster \union Reserving \union Cold

\* A reservation of a fault domain, and a claim that core gives it.
FdScenarios ==
  LET r == [id |-> "r", ad |-> "ad1",
            entries |-> {[shape |-> "VM.v", ocpu |-> None, gbs |-> None, fd |-> "fd1", total |-> 1]}]
  IN  {[Warm EXCEPT !.want = Wants([Ask([Plain EXCEPT !.reservations = {r}])
                                      EXCEPT !.caps = {"reserved"}, !.reservation = "r"], None)]}

MCGlobalConfigs == <<>>
MCFamilies == {"IPv4"}
=============================================================================
