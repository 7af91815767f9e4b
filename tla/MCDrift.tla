------------------------------ MODULE MCDrift -------------------------------
(* An instance with two secondary VNICs, three images and a few edits.          *)
EXTENDS Drift

TagSel(t)  == [comp |-> None, name |-> None, tags |-> t]
NameSel(n) == [comp |-> None, name |-> n, tags |-> {}]
ById(i)    == [id |-> i, sel |-> None]
BySel(s)   == [id |-> None, sel |-> s]

MCSubnets ==
  {[id |-> "nodes", comp |-> "vcn", name |-> "nodes", tags |-> {}, vcn |-> "v", ad |-> None, v4 |-> 2, v6 |-> 0],
   [id |-> "pods", comp |-> "vcn", name |-> "pods", tags |-> {}, vcn |-> "v", ad |-> None, v4 |-> 1, v6 |-> 0],
   [id |-> "ad", comp |-> "vcn", name |-> "ad", tags |-> {}, vcn |-> "v", ad |-> "ad1", v4 |-> 1, v6 |-> 0]}
MCNsgs ==
  {[id |-> "n1", comp |-> "vcn", name |-> "n1", tags |-> {"t"}, vcn |-> "v"],
   [id |-> "n2", comp |-> "vcn", name |-> "n2", tags |-> {}, vcn |-> "v"]}
MCGroups ==
  {[id |-> "g1", comp |-> "home", name |-> "g1", tags |-> {}, ad |-> "ad1", deleted |-> FALSE],
   [id |-> "g2", comp |-> "home", name |-> "g2", tags |-> {}, ad |-> "ad1", deleted |-> FALSE]}
MCClusters == {[id |-> "c1", comp |-> "home", name |-> "c1", tags |-> {}, active |-> TRUE]}
MCImages ==
  {[id |-> "oke", comp |-> "oke", os |-> "ol", tags |-> {}, made |-> 1, k8s |-> 30, base |-> None, shapes |-> {"flex"}],
   [id |-> "own", comp |-> "oke", os |-> "ol", tags |-> {}, made |-> 2, k8s |-> None, base |-> "oke", shapes |-> {"flex"}],
   [id |-> "new", comp |-> "oke", os |-> "ol", tags |-> {}, made |-> 3, k8s |-> 30, base |-> None, shapes |-> {"flex"}]}
MCTypeInfo ==
  "flex.1" :> [shape |-> "flex", size |-> 1, flex |-> TRUE] @@
  "flex.2" :> [shape |-> "flex", size |-> 2, flex |-> TRUE]
MCSecondaries == <<"v1", "v2">>
MCFamilies == {"IPv4"}

Filter == [comp |-> None, os |-> "ol", tags |-> {}]

Pod(nsgs, n) == [subnet |-> BySel(NameSel("pods")), nsgs |-> {ById(g) : g \in nsgs}, ipCount |-> n, v6 |-> FALSE]

Base ==
  [comp |-> None, types |-> {"flex.1"},
   image |-> [id |-> None, filter |-> Filter, type |-> "OKEImage"],
   launch |-> [firmware |-> "uefi"], res |-> {"r1"}, cpgs |-> {ById("g1")}, cc |-> BySel(NameSel("c1")),
   primary |-> [subnet |-> ById("nodes"), nsgs |-> {BySel(TagSel({"t"}))}, ipCount |-> None, v6 |-> FALSE],
   secondary |-> <<Pod({}, None)>>,
   boot |-> [enc |-> TRUE, size |-> 100, kms |-> "k1", vpus |-> 20],
   static |-> 1]

\* Two secondary VNICs, one of which fits both; nothing optional is set.
Pair ==
  [Base EXCEPT !.launch = [firmware |-> None], !.res = {}, !.cpgs = {}, !.cc = None,
               !.boot = [enc |-> None, size |-> None, kms |-> None, vpus |-> None],
               !.secondary = <<Pod({}, 16), Pod({"n2"}, 16)>>]

BaseEdits ==
  {[Base EXCEPT !.comp = "other"],
   [Base EXCEPT !.static = 2],
   [Base EXCEPT !.types = {"flex.2"}],
   [Base EXCEPT !.image = [id |-> "oke", filter |-> None, type |-> "OKEImage"]],
   [Base EXCEPT !.res = {}, !.cpgs = {}],
   [Base EXCEPT !.cpgs = {ById("g1"), ById("g2")}],
   [Base EXCEPT !.launch.firmware = "bios"],
   [Base EXCEPT !.primary.nsgs = {ById("n2")}],
   [Base EXCEPT !.primary.subnet = ById("ad")],
   [Base EXCEPT !.boot.vpus = 30]}
PairEdits == {[Pair EXCEPT !.secondary = <<Pod({}, 32), Pod({"n2"}, 32)>>]}

MCInitialSpecs == {Base, Pair}
MCSpecs == MCInitialSpecs \cup BaseEdits \cup PairEdits
MCEdits == ({Base} \X BaseEdits) \cup ({Pair} \X PairEdits)

=============================================================================
