--------------------------- MODULE PlacementProofs ---------------------------
(***************************************************************************)
(* Proofs about the placement view, for any numbers of NodeClaims,         *)
(* instances, domains, proposals and restarts.                             *)
(***************************************************************************)
EXTENDS Placement, FiniteSetTheorems, TLAPS

\* What a Create call and a List call hold: a chosen proposal from then on until the
\* launch is over, its stand-in in the view; a request from the sending on, of its
\* own, for the proposal's domain; and only instances that exist are entered.
Holdings ==
  /\ \A c \in Claims : pc[c] \in {"placing", "launching"} =>
       chosen[c] \in Proposals /\ view[c] = AdOf[chosen[c]]
  /\ \A c \in Claims : pc[c] = "launching" =>
       got[c] \in Instances /\ state[got[c]] # "unused" /\ ad[got[c]] = AdOf[chosen[c]]
  /\ \A c \in Claims : pc[c] = "placed" => got[c] \in Instances /\ state[got[c]] \in {"live", "gone"}
  /\ \A c \in Claims : pc[c] \notin {"launching", "placed", "done"} => got[c] = None
  /\ \A c, e \in Claims : pc[c] = "launching" /\ pc[e] = "launching" /\ got[c] = got[e] => c = e
  /\ \A i \in Instances : i \in fetched \/ view[i] # None => state[i] \in {"live", "gone"}
  /\ \A i \in Instances : state[i] # "unused" => ad[i] \in Ads

\* A request that OCI may still accept has a call that waits for it, or is lost.
SentOwned ==
  \A i \in Instances : state[i] = "sent" => i \in lost \/ \E c \in Claims : Launching(c, i)

\* Create is not admitted before the warm-up, so nothing is launched during it.
WarmUpAlone ==
  /\ listing = "warmUp" => ~initialized
  /\ ~initialized => \A c \in Claims : pc[c] \in {"idle", "done"}

\* A deletion is over only for an instance that has ended and that no Create call
\* has in hand.
OverMeansEnded ==
  \A i \in over : state[i] = "gone" /\ Settled(i)

\* A warm-up List has seen every live instance: it has entered it or will, but for a
\* launch of before the restart that OCI accepts meanwhile.
WarmUpCovers ==
  listing = "warmUp" => \A i \in Instances : Live(i) => view[i] # None \/ i \in fetched \/ i \in lost

\* The inductive invariant.
IInv ==
  /\ TypeOK /\ Holdings /\ SentOwned /\ WarmUpAlone /\ OverMeansEnded
  /\ StandInsAreInFlight /\ ForgottenForGood
  /\ WarmUpCovers /\ ViewCoversLiveInstances

-----------------------------------------------------------------------------
\* A process that has just started has an empty view and nothing under way.
LEMMA InitIInv == Init => IInv
<1> SUFFICES ASSUME Init PROVE IInv
  OBVIOUS
<1> USE PlacementAssumption DEF Init
<1>1. TypeOK
  <2>1. crashes \in 0..MaxCrashes
    OBVIOUS
  <2>2. /\ view \in [Ids -> Ads \cup {None}]
        /\ chosen \in [Claims -> Proposals \cup {None}]
        /\ got \in [Claims -> Instances \cup {None}]
        /\ ad \in [Instances -> Ads \cup {None}]
    OBVIOUS
  <2>3. /\ eligible \in [Claims -> SUBSET Proposals]
        /\ proposals \in [Claims -> SUBSET Proposals]
    OBVIOUS
  <2>4. /\ pc \in [Claims -> {"idle", "decorate", "propose", "placing", "launching", "placed", "done", "panic"}]
        /\ state \in [Instances -> {"unused", "sent", "live", "gone"}]
    OBVIOUS
  <2> QED BY <2>1, <2>2, <2>3, <2>4 DEF TypeOK
<1>2. Holdings /\ SentOwned /\ WarmUpAlone /\ OverMeansEnded
  BY DEF Holdings, SentOwned, WarmUpAlone, OverMeansEnded, Ids
<1>3. StandInsAreInFlight /\ ForgottenForGood /\ WarmUpCovers /\ ViewCoversLiveInstances
  BY DEF StandInsAreInFlight, ForgottenForGood, WarmUpCovers, ViewCoversLiveInstances, Live, Ids
<1> QED BY <1>1, <1>2, <1>3 DEF IInv

\* There are finitely many requests, so the miscounted ones can be counted.
LEMMA MiscountedFinite == IsFiniteSet(Miscounted) /\ Cardinality(Miscounted) \in Nat
<1>1. Miscounted \subseteq Instances
  BY DEF Miscounted
<1> QED BY <1>1, PlacementAssumption, FS_Subset, FS_CardinalityType

\* Every action keeps the types; Entered is given a domain because what is entered
\* is a chosen proposal's domain or that of an instance that exists.
LEMMA TypeStep == ASSUME TypeOK, Holdings, [Next]_vars PROVE TypeOK'
<1> USE PlacementAssumption
<1>1. ASSUME NEW c \in Claims, Create(c) PROVE TypeOK'
  <2>1. CASE ResolveOfferings(c) BY <2>1 DEF ResolveOfferings, TypeOK, ociVars, listVars, procVars, history
  <2>2. CASE Decorate(c) BY <2>2 DEF Decorate, TypeOK, ociVars, listVars, procVars, history
  <2>3. CASE DecorateFails(c) BY <2>3 DEF DecorateFails, TypeOK, ociVars, listVars, procVars, history
  <2>4. CASE Propose(c) BY <2>4, MiscountedFinite DEF Propose, TypeOK, ociVars, listVars, procVars, Entered, Larger, Ids
  <2>5. CASE ProposeNil(c) BY <2>5 DEF ProposeNil, TypeOK, ociVars, listVars, procVars, history
  <2>6. CASE Recovered(c) BY <2>6 DEF Recovered, TypeOK, ociVars, listVars, procVars, history
  <2>7. CASE PlaceFails(c) BY <2>7 DEF PlaceFails, Forgotten, TypeOK, ociVars, listVars, procVars, Ids
  <2>8. CASE Placed(c)
    BY <2>8 DEF Placed, Forgotten, TypeOK, Holdings, ociVars, listVars, procVars, history, Ids
  <2>9. CASE InstanceFound(c) BY <2>9 DEF InstanceFound, TypeOK, Holdings, ociVars, listVars, procVars, history, Entered, Ids
  <2>10. CASE \E i \in Instances : Send(c, i)
    BY <2>10 DEF Send, TypeOK, Holdings, listVars, procVars, history
  <2> QED BY <1>1, <2>1, <2>2, <2>3, <2>4, <2>5, <2>6, <2>7, <2>8, <2>9, <2>10 DEF Create
<1>12. ASSUME NEW i \in Instances, Accepted(i) PROVE TypeOK'
  BY <1>12 DEF Accepted, TypeOK, createVars, listVars, procVars, history
<1>2. ASSUME NEW i \in Instances, Ends(i) PROVE TypeOK'
  BY <1>2 DEF Ends, TypeOK, createVars, listVars, procVars
<1>3. ASSUME NEW i \in Instances, InstanceForget(i) PROVE TypeOK'
  BY <1>3 DEF InstanceForget, TypeOK, createVars, ociVars, listVars, procVars, Ids
<1>4. ASSUME NEW i \in Instances, DeletedUnforgotten(i) PROVE TypeOK'
  BY <1>4 DEF DeletedUnforgotten, TypeOK, createVars, ociVars, listVars, procVars
<1>5. ASSUME NEW i \in Instances, ListEnters(i) PROVE TypeOK'
  BY <1>5 DEF ListEnters, TypeOK, Holdings, createVars, ociVars, procVars, Entered, Ids
<1>6. CASE ListFetches BY <1>6 DEF ListFetches, TypeOK, createVars, ociVars, procVars, history
<1>7. CASE ListReturns BY <1>7 DEF ListReturns, ListEnded, TypeOK, createVars, ociVars, history
<1>8. CASE ListFails BY <1>8 DEF ListFails, ListEnded, TypeOK, createVars, ociVars, procVars, history
<1>9. ASSUME NEW p \in Proposals, OfferingChanges(p) PROVE TypeOK'
  BY <1>9 DEF OfferingChanges, TypeOK, createVars, listVars, procVars
<1>10. CASE Crash
  <2>1. view' \in [Ids -> Ads \cup {None}]
    BY <1>10 DEF Crash
  <2>2. /\ pc' \in [Claims -> {"idle", "decorate", "propose", "placing", "launching", "placed", "done", "panic"}]
        /\ got' \in [Claims -> Instances \cup {None}]
    BY <1>10 DEF Crash, TypeOK
  <2>3. /\ eligible' \in [Claims -> SUBSET Proposals]
        /\ proposals' \in [Claims -> SUBSET Proposals]
        /\ chosen' \in [Claims -> Proposals \cup {None}]
    BY <1>10 DEF Crash
  <2>4. crashes' \in 0..MaxCrashes
    BY <1>10 DEF Crash, TypeOK
  <2>5. /\ listing' = None /\ fetched' = {} /\ initialized' = FALSE /\ disturbed' = TRUE
        /\ lost' \in SUBSET Instances
        /\ UNCHANGED <<state, ad, open, over, leaked, blur>>
    BY <1>10 DEF Crash, TypeOK, ociVars
  <2> QED BY <2>1, <2>2, <2>3, <2>4, <2>5 DEF TypeOK
<1>11. CASE UNCHANGED vars BY <1>11 DEF vars, TypeOK, createVars, ociVars, listVars, procVars, history
<1> QED BY <1>1, <1>2, <1>3, <1>4, <1>5, <1>6, <1>7, <1>8, <1>9, <1>10, <1>11, <1>12 DEF Next

\* The inductive invariant without the types.
Rest == Holdings /\ SentOwned /\ WarmUpAlone /\ OverMeansEnded /\ StandInsAreInFlight /\ ForgottenForGood
        /\ WarmUpCovers /\ ViewCoversLiveInstances

\* No step of a Create call breaks it: Send puts the request in the call's hand with
\* the stand-in in the view, PlaceFails and Placed take the stand-in out, PlaceFails
\* gives the request up as lost, InstanceFound enters the instance.
LEMMA CreateStep == ASSUME IInv, NEW c \in Claims, Create(c) PROVE Rest'
<1> USE PlacementAssumption
<1> USE DEF IInv, TypeOK, Rest, Holdings, SentOwned, WarmUpAlone, OverMeansEnded, StandInsAreInFlight,
    ForgottenForGood, WarmUpCovers, ViewCoversLiveInstances, Live, Launching, InWindow, Settled, Ids,
    ociVars, listVars, procVars, history
<1>1. CASE ResolveOfferings(c) BY <1>1 DEF ResolveOfferings
<1>2. CASE Decorate(c) BY <1>2 DEF Decorate
<1>3. CASE DecorateFails(c) BY <1>3 DEF DecorateFails
<1>4. CASE Propose(c) BY <1>4 DEF Propose, Entered
<1>5. CASE ProposeNil(c) BY <1>5 DEF ProposeNil
<1>6. CASE Recovered(c) BY <1>6 DEF Recovered
<1>7. CASE PlaceFails(c)
  <2> USE <1>7 DEF PlaceFails, Forgotten
  <2>1. Holdings'
    <3>1. \A e \in Claims : e # c => pc'[e] = pc[e] /\ chosen'[e] = chosen[e] /\ got'[e] = got[e] /\ view'[e] = view[e]
      OBVIOUS
    <3>2. pc'[c] \in {"idle", "propose"} /\ got'[c] = None
      OBVIOUS
    <3>3. \A i \in Instances : got[c] # i => state'[i] = state[i] /\ ad'[i] = ad[i]
      OBVIOUS
    <3>4. \A i \in Instances : (state'[i] = state[i] /\ ad'[i] = ad[i]) \/ (state[i] = "sent" /\ state'[i] = "unused")
      OBVIOUS
    <3>5. \A e \in Claims : e # c /\ pc[e] = "launching" => got[e] # got[c]
      OBVIOUS
    <3>6. UNCHANGED fetched /\ \A i \in Instances : view'[i] = view[i]
      OBVIOUS
    <3> HIDE <1>7 DEF PlaceFails, Forgotten
    <3>7. \A e \in Claims : pc'[e] \in {"placing", "launching"} =>
            chosen'[e] \in Proposals /\ view'[e] = AdOf[chosen'[e]]
      BY <3>1, <3>2
    <3>8. \A e \in Claims : pc'[e] = "launching" =>
            got'[e] \in Instances /\ state'[got'[e]] # "unused" /\ ad'[got'[e]] = AdOf[chosen'[e]]
      BY <3>1, <3>2, <3>3, <3>5
    <3>9. \A e \in Claims : pc'[e] = "placed" => got'[e] \in Instances /\ state'[got'[e]] \in {"live", "gone"}
      BY <3>1, <3>2, <3>4
    <3>10. /\ \A e \in Claims : pc'[e] \notin {"launching", "placed", "done"} => got'[e] = None
           /\ \A e, f \in Claims : pc'[e] = "launching" /\ pc'[f] = "launching" /\ got'[e] = got'[f] => e = f
      BY <3>1, <3>2
    <3>11. /\ \A i \in Instances : i \in fetched' \/ view'[i] # None => state'[i] \in {"live", "gone"}
           /\ \A i \in Instances : state'[i] # "unused" => ad'[i] \in Ads
      BY <3>4, <3>6
    <3> QED BY <3>7, <3>8, <3>9, <3>10, <3>11
  <2>2. SentOwned'
    OBVIOUS
  <2>3. WarmUpAlone' /\ OverMeansEnded'
    OBVIOUS
  <2>4. StandInsAreInFlight' /\ ForgottenForGood'
    OBVIOUS
  <2>5. WarmUpCovers' /\ ViewCoversLiveInstances'
    OBVIOUS
  <2> QED BY <2>1, <2>2, <2>3, <2>4, <2>5
<1>8. CASE Placed(c) BY <1>8 DEF Placed, Forgotten
<1>9. CASE InstanceFound(c) BY <1>9 DEF InstanceFound, Entered
<1>10. CASE \E i \in Instances : Send(c, i) BY <1>10 DEF Send
<1> QED BY <1>1, <1>2, <1>3, <1>4, <1>5, <1>6, <1>7, <1>8, <1>9, <1>10 DEF Create

\* Neither does a step of Delete, List, OCI or a restart.
LEMMA OtherStep ==
  ASSUME IInv, [Next]_vars, ~ \E c \in Claims : Create(c) PROVE Rest'
<1> USE PlacementAssumption
<1> USE DEF IInv, TypeOK, Rest, Holdings, SentOwned, WarmUpAlone, OverMeansEnded, StandInsAreInFlight,
    ForgottenForGood, WarmUpCovers, ViewCoversLiveInstances, Live, Launching, InWindow, Settled, Ids,
    createVars, ociVars, listVars, procVars, history
<1>1. ASSUME NEW i \in Instances, Accepted(i) PROVE Rest'
  BY <1>1 DEF Accepted
<1>2. ASSUME NEW i \in Instances, Ends(i) PROVE Rest'
  BY <1>2 DEF Ends
<1>3. ASSUME NEW i \in Instances, InstanceForget(i) PROVE Rest'
  BY <1>3 DEF InstanceForget
<1>4. ASSUME NEW i \in Instances, DeletedUnforgotten(i) PROVE Rest'
  BY <1>4 DEF DeletedUnforgotten
<1>5. ASSUME NEW i \in Instances, ListEnters(i) PROVE Rest'
  BY <1>5 DEF ListEnters, Entered
<1>6. CASE ListFetches BY <1>6 DEF ListFetches
<1>7. CASE ListReturns BY <1>7 DEF ListReturns, ListEnded
<1>8. CASE ListFails BY <1>8 DEF ListFails, ListEnded
<1>9. ASSUME NEW p \in Proposals, OfferingChanges(p) PROVE Rest'
  BY <1>9 DEF OfferingChanges
<1>10. CASE Crash
  <2>1. /\ \A c \in Claims : pc'[c] \in {"idle", "done"}
        /\ \A c \in Claims : view'[c] = None
        /\ \A i \in Instances : view'[i] = None
        /\ \A c \in Claims : got'[c] # None => pc'[c] = "done"
    BY <1>10 DEF Crash
  <2>2. /\ listing' = None /\ fetched' = {} /\ ~initialized'
        /\ UNCHANGED <<state, ad, over>>
    BY <1>10 DEF Crash
  <2>6. SentOwned'
    BY <2>2, <1>10 DEF Crash
  <2>3. Holdings' /\ WarmUpAlone' /\ WarmUpCovers' /\ ViewCoversLiveInstances'
    BY <2>1, <2>2
  <2>4. OverMeansEnded'
    BY <2>1, <2>2
  <2>5. StandInsAreInFlight' /\ ForgottenForGood'
    BY <2>1, <2>2
  <2> QED BY <2>3, <2>4, <2>5, <2>6
<1>11. CASE UNCHANGED vars BY <1>11 DEF vars
<1> QED BY <1>1, <1>2, <1>3, <1>4, <1>5, <1>6, <1>7, <1>8, <1>9, <1>10, <1>11 DEF Next

\* Every step keeps the inductive invariant.
LEMMA NextIInv == IInv /\ [Next]_vars => IInv'
<1> SUFFICES ASSUME IInv, [Next]_vars PROVE IInv'
  OBVIOUS
<1>1. TypeOK'
  BY TypeStep DEF IInv
<1>2. Rest'
  BY CreateStep, OtherStep
<1> QED BY <1>1, <1>2 DEF IInv, Rest

\* The state stays well typed.
THEOREM TypeCorrect == Spec => []TypeOK
  BY InitIInv, NextIInv, PTL DEF Spec, IInv

\* adFdSummary.forget runs on every way out of placeFunc, so a stand-in is in the
\* view only while its launch is in flight.
THEOREM StandInsForgotten == Spec => []StandInsAreInFlight
  BY InitIInv, NextIInv, PTL DEF Spec, IInv

\* After the warm-up the view misses no live instance but those of a Create call
\* under way and the launches whose call failed or died after it had sent them: the
\* warm-up's List sees every other instance because Create is not admitted while it
\* runs, and a request is lost only when its call is over.
THEOREM ViewCovers == Spec => []ViewCoversLiveInstances
  BY InitIInv, NextIInv, PTL DEF Spec, IInv

\* An instance whose deletion is over stays forgotten, unless its last Delete never
\* forgot it or a List entered it after it had ended.
THEOREM StaysForgotten == Spec => []ForgottenForGood
  BY InitIInv, NextIInv, PTL DEF Spec, IInv

-----------------------------------------------------------------------------
(* Spreading *)

\* Until something fails or goes away, every Create call chooses among all proposals,
\* no launch is lost, and each entry of the view is where the instance is.
ViewExact ==
  /\ open = Proposals /\ lost = {}
  /\ \A c \in Claims :
       /\ pc[c] = "decorate" => eligible[c] = Proposals
       /\ pc[c] = "propose" => proposals[c] = Proposals
  /\ \A i \in Instances :
       /\ state[i] # "gone"
       /\ view[i] # None => Live(i) /\ view[i] = ad[i]

SpreadInv == ~disturbed => ViewExact /\ SpreadEvenly

\* There is an offering in every domain.
AllOffered == \A a \in Ads : \E p \in Proposals : AdOf[p] = a

\* Nothing is in a domain at first.
LEMMA InitSpread == Init => SpreadInv
<1> SUFFICES ASSUME Init PROVE SpreadInv
  OBVIOUS
<1>1. ViewExact
  BY DEF Init, ViewExact, Ids
<1>2. \A a \in Ads : InDomain(a) = {}
  BY DEF Init, InDomain, Live
<1>3. SpreadEvenly
  BY <1>2, FS_EmptySet DEF Init, SpreadEvenly
<1> QED BY <1>1, <1>3 DEF SpreadInv

\* As long as nothing has disturbed it, the view stays exact.
LEMMA ExactStep ==
  ASSUME IInv, SpreadInv, [Next]_vars, ~disturbed' PROVE ViewExact' /\ ~disturbed
<1> USE PlacementAssumption
<1>0. ~disturbed /\ ViewExact
  <2>1. disturbed => disturbed'
    BY DEF Next, Create, ResolveOfferings, Decorate, DecorateFails, Propose, ProposeNil, Recovered, PlaceFails,
           Placed, Send, Accepted, InstanceFound, Ends, InstanceForget, DeletedUnforgotten, ListEnters,
           ListFetches, ListReturns, ListFails, OfferingChanges, Crash, vars, history
  <2> QED BY <2>1 DEF SpreadInv
<1> USE DEF IInv, TypeOK, Holdings, StandInsAreInFlight, ViewExact, Live, Ids, createVars, ociVars, listVars,
    procVars, history
<1>1. ASSUME NEW c \in Claims, Create(c) PROVE ViewExact'
  <2>1. CASE ResolveOfferings(c) BY <1>0, <2>1 DEF ResolveOfferings
  <2>2. CASE Decorate(c) BY <1>0, <2>2 DEF Decorate
  <2>3. CASE DecorateFails(c) BY <1>0, <2>3 DEF DecorateFails
  <2>4. CASE Propose(c) BY <1>0, <2>4 DEF Propose, Entered
  <2>5. CASE ProposeNil(c) BY <1>0, <2>5 DEF ProposeNil
  <2>6. CASE Recovered(c) BY <1>0, <2>6 DEF Recovered
  <2>7. CASE PlaceFails(c) BY <2>7 DEF PlaceFails
  <2>8. CASE Placed(c) BY <1>0, <2>8 DEF Placed, Forgotten
  <2>9. CASE InstanceFound(c) BY <1>0, <2>9 DEF InstanceFound, Entered
  <2>10. CASE \E i \in Instances : Send(c, i) BY <1>0, <2>10 DEF Send
  <2> QED BY <1>1, <2>1, <2>2, <2>3, <2>4, <2>5, <2>6, <2>7, <2>8, <2>9, <2>10 DEF Create
<1>7. ASSUME NEW i \in Instances, Accepted(i) PROVE ViewExact'
  BY <1>0, <1>7 DEF Accepted
<1>2. ASSUME NEW i \in Instances, ListEnters(i) PROVE ViewExact'
  BY <1>0, <1>2 DEF ListEnters, Entered
<1>3. CASE ListFetches \/ ListReturns \/ ListFails
  BY <1>0, <1>3 DEF ListFetches, ListReturns, ListFails, ListEnded
<1>4. CASE UNCHANGED vars
  BY <1>0, <1>4 DEF vars
<1>5. ASSUME NEW i \in Instances, Ends(i) \/ InstanceForget(i) \/ DeletedUnforgotten(i) PROVE FALSE
  BY <1>0, <1>5 DEF Ends, InstanceForget, DeletedUnforgotten
<1>6. ~Crash /\ \A p \in Proposals : ~OfferingChanges(p)
  BY DEF Crash, OfferingChanges
<1> QED BY <1>0, <1>1, <1>2, <1>3, <1>4, <1>5, <1>6, <1>7 DEF Next

\* What a domain holds is finite, and so is what the view has in it.
LEMMA Domains ==
  ASSUME NEW a
  PROVE  /\ IsFiniteSet(InDomain(a)) /\ Cardinality(InDomain(a)) \in Nat
         /\ IsFiniteSet({x \in Ids : view[x] = a}) /\ Count(a) \in Nat
<1>1. IsFiniteSet(Claims \cup Instances)
  BY PlacementAssumption, FS_Union
<1>2. InDomain(a) \subseteq Claims \cup Instances /\ {x \in Ids : view[x] = a} \subseteq Claims \cup Instances
  BY DEF InDomain, Ids
<1> QED BY <1>1, <1>2, FS_Subset, FS_CardinalityType DEF Count

\* A set that two others cover has at most as many elements as they have.
LEMMA CoverCardinality ==
  ASSUME NEW R, NEW S, NEW T, IsFiniteSet(S), IsFiniteSet(T), R \subseteq S \cup T
  PROVE  Cardinality(R) <= Cardinality(S) + Cardinality(T)
<1>1. IsFiniteSet(S \cup T) /\ Cardinality(S \cup T) = Cardinality(S) + Cardinality(T) - Cardinality(S \cap T)
  BY FS_Union
<1>2. Cardinality(S \cap T) \in Nat
  BY FS_Intersection, FS_CardinalityType
<1>3. Cardinality(R) <= Cardinality(S \cup T) /\ Cardinality(R) \in Nat
  BY <1>1, FS_Subset, FS_CardinalityType
<1> QED BY <1>1, <1>2, <1>3, FS_CardinalityType

\* The miscounted instances of a domain.
MiscountedIn(a) == {i \in Miscounted : ad[i] = a}

\* The view counts what a domain holds, up to the miscounted instances of the domain.
LEMMA CountNear ==
  ASSUME IInv, ViewExact, initialized, NEW a \in Ads
  PROVE  /\ Count(a) <= Cardinality(InDomain(a)) + Cardinality(MiscountedIn(a))
         /\ Cardinality(InDomain(a)) <= Count(a) + Cardinality(MiscountedIn(a))
<1> USE PlacementAssumption
<1>0. IsFiniteSet(MiscountedIn(a))
  <2>1. MiscountedIn(a) \subseteq Instances
    BY DEF MiscountedIn, Miscounted
  <2> QED BY <2>1, FS_Subset
<1>1. ASSUME NEW c \in Claims PROVE view[c] = a <=> pc[c] \in {"placing", "launching"} /\ AdOf[chosen[c]] = a
  BY DEF IInv, StandInsAreInFlight, Holdings
<1>2. ASSUME NEW i \in Instances, view[i] = a PROVE i \in InDomain(a) \/ i \in MiscountedIn(a)
  BY <1>2 DEF ViewExact, InDomain, MiscountedIn, Miscounted
<1>3. ASSUME NEW i \in Instances, i \in InDomain(a) PROVE view[i] = a \/ i \in MiscountedIn(a)
  BY <1>3 DEF IInv, ViewCoversLiveInstances, ViewExact, InDomain, MiscountedIn, Miscounted, Live
<1>4. {x \in Ids : view[x] = a} \subseteq InDomain(a) \cup MiscountedIn(a)
  BY <1>1, <1>2 DEF Ids, InDomain
<1>5. InDomain(a) \subseteq {x \in Ids : view[x] = a} \cup MiscountedIn(a)
  BY <1>1, <1>3 DEF Ids, InDomain
<1> QED BY <1>0, <1>4, <1>5, Domains, CoverCardinality DEF Count

\* No instance is miscounted in two domains.
LEMMA MiscountedApart ==
  ASSUME NEW a, NEW b, a # b
  PROVE  /\ Cardinality(MiscountedIn(a)) \in Nat /\ Cardinality(MiscountedIn(b)) \in Nat
         /\ Cardinality(MiscountedIn(a)) + Cardinality(MiscountedIn(b)) <= Cardinality(Miscounted)
<1>1. /\ MiscountedIn(a) \subseteq Miscounted /\ MiscountedIn(b) \subseteq Miscounted
      /\ MiscountedIn(a) \cap MiscountedIn(b) = {}
  BY DEF MiscountedIn
<1>2. IsFiniteSet(MiscountedIn(a)) /\ IsFiniteSet(MiscountedIn(b))
  BY <1>1, MiscountedFinite, FS_Subset
<1>3. Cardinality(MiscountedIn(a) \cup MiscountedIn(b))
        = Cardinality(MiscountedIn(a)) + Cardinality(MiscountedIn(b))
  <2>1. Cardinality(MiscountedIn(a) \cap MiscountedIn(b)) = 0
    BY <1>1, FS_EmptySet
  <2>2. Cardinality(MiscountedIn(a)) \in Nat /\ Cardinality(MiscountedIn(b)) \in Nat
    BY <1>2, FS_CardinalityType
  <2>3. Cardinality(MiscountedIn(a) \cup MiscountedIn(b))
          = Cardinality(MiscountedIn(a)) + Cardinality(MiscountedIn(b)) - Cardinality(MiscountedIn(a) \cap MiscountedIn(b))
    BY <1>2, FS_Union
  <2> QED BY <2>1, <2>2, <2>3
<1>4. Cardinality(MiscountedIn(a) \cup MiscountedIn(b)) <= Cardinality(Miscounted)
  BY <1>1, MiscountedFinite, FS_Subset
<1> QED BY <1>2, <1>3, <1>4, FS_CardinalityType

\* A stand-in goes to a domain where the view counts the fewest, and an instance takes
\* the place of its stand-in.
LEMMA EvenStep ==
  ASSUME IInv, SpreadInv, AllOffered, [Next]_vars, ~disturbed' PROVE SpreadEvenly'
<1> USE PlacementAssumption
<1>0. ~disturbed /\ ViewExact /\ SpreadEvenly /\ blur \in Nat
  BY ExactStep DEF SpreadInv, IInv, TypeOK
<1>1. CASE UNCHANGED blur /\ \A a \in Ads : Cardinality(InDomain(a)') = Cardinality(InDomain(a))
  BY <1>0, <1>1 DEF SpreadEvenly
<1>2. ASSUME NEW c \in Claims, Propose(c) PROVE SpreadEvenly'
  <2>1. initialized
    BY <1>2 DEF Propose, IInv, WarmUpAlone
  <2>2. PICK p \in Proposals : /\ \A q \in Proposals : Count(AdOf[p]) <= Count(AdOf[q])
                                /\ chosen' = [chosen EXCEPT ![c] = p]
    BY <1>0, <1>2 DEF Propose, ViewExact
  <2> DEFINE d == AdOf[p]
             m == Cardinality(Miscounted)
  <2>3. d \in Ads /\ \A b \in Ads : Cardinality(InDomain(d)) <= Cardinality(InDomain(b)) + m
    <3>1. d \in Ads /\ \A b \in Ads : Count(d) <= Count(b)
      BY <2>2 DEF AllOffered
    <3>2. ASSUME NEW b \in Ads, b # d PROVE Cardinality(InDomain(d)) <= Cardinality(InDomain(b)) + m
      <4>1. /\ Cardinality(InDomain(d)) <= Count(d) + Cardinality(MiscountedIn(d))
            /\ Count(b) <= Cardinality(InDomain(b)) + Cardinality(MiscountedIn(b))
        BY <1>0, <2>1, <3>1, CountNear
      <4>2. /\ Cardinality(MiscountedIn(d)) \in Nat /\ Cardinality(MiscountedIn(b)) \in Nat /\ m \in Nat
            /\ Cardinality(MiscountedIn(d)) + Cardinality(MiscountedIn(b)) <= m
        BY <3>2, MiscountedApart, MiscountedFinite
      <4>3. /\ Cardinality(InDomain(d)) \in Nat /\ Cardinality(InDomain(b)) \in Nat
            /\ Count(d) \in Nat /\ Count(b) \in Nat
        BY Domains
      <4> HIDE DEF m, d
      <4> QED BY <3>1, <4>1, <4>2, <4>3
    <3>3. Cardinality(InDomain(d)) \in Nat /\ m \in Nat
      BY Domains, MiscountedFinite
    <3> HIDE DEF m, d
    <3>4. ASSUME NEW b \in Ads PROVE Cardinality(InDomain(d)) <= Cardinality(InDomain(b)) + m
      BY <3>2, <3>3
    <3> QED BY <3>1, <3>4
  <2>4. /\ UNCHANGED <<state, ad, got>> /\ pc[c] = "propose" /\ pc'[c] = "placing" /\ chosen'[c] = p
        /\ \A e \in Claims : e # c => pc'[e] = pc[e] /\ chosen'[e] = chosen[e]
    BY <1>2, <2>2 DEF Propose, IInv, TypeOK, ociVars
  <2>5. InDomain(d)' = InDomain(d) \cup {c} /\ c \notin InDomain(d)
    BY <2>4 DEF InDomain, Live, Launching
  <2>6. \A a \in Ads : a # d => InDomain(a)' = InDomain(a)
    BY <2>4 DEF InDomain, Live, Launching
  <2>7. Cardinality(InDomain(d)') = Cardinality(InDomain(d)) + 1
    BY <2>5, Domains, FS_AddElement
  <2>8. blur' \in Nat /\ blur <= blur' /\ m <= blur' /\ m \in Nat
    BY <1>0, <1>2, MiscountedFinite DEF Propose, Larger
  <2>9. \A a \in Ads : Cardinality(InDomain(a)) \in Nat
    BY Domains
  <2>10. \A a, b \in Ads : Cardinality(InDomain(a)) <= Cardinality(InDomain(b)) + 1 + blur
    BY <1>0 DEF SpreadEvenly
  <2>11. ASSUME NEW a \in Ads, NEW b \in Ads
         PROVE  Cardinality(InDomain(a)') <= Cardinality(InDomain(b)') + 1 + blur'
    <3> HIDE DEF m, d
    <3>1. /\ Cardinality(InDomain(a)') = Cardinality(InDomain(a)) + (IF a = d THEN 1 ELSE 0)
          /\ Cardinality(InDomain(b)') = Cardinality(InDomain(b)) + (IF b = d THEN 1 ELSE 0)
      BY <2>6, <2>7, <2>9
    <3>2. Cardinality(InDomain(d)) <= Cardinality(InDomain(b)) + m
      BY <2>3
    <3> QED BY <1>0, <2>8, <2>9, <2>10, <3>1, <3>2
  <2> QED BY <2>11 DEF SpreadEvenly
<1>3. ASSUME NEW c \in Claims, Placed(c)
      PROVE  \A a \in Ads : Cardinality(InDomain(a)') = Cardinality(InDomain(a))
  <2>0. PICK i \in Instances, d \in Ads : i = got[c] /\ d = AdOf[chosen[c]]
    BY <1>3 DEF Placed, IInv, Holdings
  <2>1. /\ pc[c] = "launching" /\ pc'[c] = "placed" /\ i \in Instances /\ Live(i) /\ ad[i] = d /\ d \in Ads
        /\ \A e \in Claims : e # c => pc'[e] = pc[e] /\ chosen'[e] = chosen[e] /\ ~Launching(e, i)
        /\ UNCHANGED <<state, ad, got>> /\ got[c] = i /\ AdOf[chosen[c]] = d
    BY <1>0, <1>3, <2>0 DEF Placed, Forgotten, IInv, TypeOK, Holdings, ViewExact, Live, Launching, ociVars
  <2>7. \A e \in Claims, j \in Instances : Launching(e, j)' <=> Launching(e, j) /\ e # c
    BY <2>1 DEF Launching
  <2>8. \A j \in Instances : Launching(c, j) <=> j = i
    BY <2>1 DEF Launching
  <2>2. InDomain(d)' = (InDomain(d) \ {c}) \cup {i} /\ c \in InDomain(d) /\ i \notin InDomain(d) \ {c}
    <3>1. c \in InDomain(d)
      BY <2>1 DEF InDomain
    <3>2. i \notin InDomain(d)
      BY <2>1, <2>8 DEF InDomain
    <3>3. \A e \in Claims : e \in InDomain(d)' <=> e \in InDomain(d) /\ e # c
      BY <2>1 DEF InDomain
    <3>4. \A j \in Instances : j \in InDomain(d)' <=> j \in InDomain(d) \/ j = i
      BY <2>1, <2>7, <2>8 DEF InDomain, Live
    <3>5. InDomain(d) \subseteq Claims \cup Instances /\ InDomain(d)' \subseteq Claims \cup Instances
      BY DEF InDomain
    <3>6. i \notin Claims /\ c \notin Instances
      BY <2>1
    <3> QED BY <2>1, <3>1, <3>2, <3>3, <3>4, <3>5, <3>6
  <2>3. \A a \in Ads : a # d => InDomain(a)' = InDomain(a)
    BY <2>1, <2>7, <2>8 DEF InDomain, Live
  <2>4. /\ Cardinality(InDomain(d) \ {c}) = Cardinality(InDomain(d)) - 1
        /\ IsFiniteSet(InDomain(d) \ {c})
    BY <2>2, Domains, FS_RemoveElement
  <2>5. Cardinality((InDomain(d) \ {c}) \cup {i}) = Cardinality(InDomain(d) \ {c}) + 1
    BY <2>2, <2>4, FS_AddElement
  <2>6. Cardinality(InDomain(d)') = Cardinality(InDomain(d))
    <3>1. Cardinality(InDomain(d)') = Cardinality((InDomain(d) \ {c}) \cup {i})
      BY <2>2
    <3>2. Cardinality(InDomain(d)) \in Nat
      BY Domains
    <3> QED BY <2>4, <2>5, <3>1, <3>2
  <2> QED BY <2>3, <2>6
<1>4. ASSUME NEW c \in Claims, NEW i \in Instances, Send(c, i)
      PROVE  \A a \in Ads : InDomain(a)' = InDomain(a)
  <2>1. /\ pc[c] = "placing" /\ pc'[c] = "launching" /\ got'[c] = i /\ ~Live(i) /\ ~Live(i)' /\ UNCHANGED chosen
        /\ \A e \in Claims : e # c => pc'[e] = pc[e] /\ got'[e] = got[e]
        /\ \A j \in Instances : j # i => state'[j] = state[j] /\ ad'[j] = ad[j]
    BY <1>4 DEF Send, IInv, TypeOK, Live
  <2> QED BY <2>1 DEF InDomain, Live, Launching
<1>5. ASSUME NEW i \in Instances, Accepted(i)
      PROVE  \A a \in Ads : InDomain(a)' = InDomain(a)
  <2>1. PICK c \in Claims : Launching(c, i)
    BY <1>0, <1>5 DEF Accepted, IInv, SentOwned, ViewExact
  <2>2. /\ UNCHANGED <<pc, got, chosen, ad>>
        /\ \A j \in Instances : j # i => state'[j] = state[j]
    BY <1>5 DEF Accepted, IInv, TypeOK, createVars
  <2> QED BY <1>5, <2>1, <2>2 DEF Accepted, InDomain, Live, Launching
<1>6. ASSUME UNCHANGED <<state, ad, chosen>>,
             \A c \in Claims : /\ (pc'[c] \in {"placing", "launching"}) = (pc[c] \in {"placing", "launching"})
                               /\ \A i \in Instances : Launching(c, i)' = Launching(c, i)
      PROVE  \A a \in Ads : InDomain(a)' = InDomain(a)
  BY <1>6 DEF InDomain, Live
<1>7. ASSUME NEW c \in Claims, Create(c) PROVE SpreadEvenly'
  <2>1. CASE ResolveOfferings(c) \/ Decorate(c) \/ DecorateFails(c) \/ ProposeNil(c) \/ Recovered(c) \/ InstanceFound(c)
    <3>1. /\ UNCHANGED <<state, ad, chosen, blur>>
          /\ \A e \in Claims : /\ (pc'[e] \in {"placing", "launching"}) = (pc[e] \in {"placing", "launching"})
                              /\ \A i \in Instances : Launching(e, i)' = Launching(e, i)
      BY <2>1 DEF ResolveOfferings, Decorate, DecorateFails, ProposeNil, Recovered, InstanceFound, Launching,
                  ociVars, history, IInv, TypeOK
    <3> QED BY <1>1, <1>6, <3>1
  <2>2. ~PlaceFails(c)
    BY DEF PlaceFails
  <2>3. CASE Placed(c) BY <1>1, <1>3, <2>3 DEF Placed, history
  <2>4. CASE \E i \in Instances : Send(c, i) BY <1>1, <1>4, <2>4 DEF Send, history
  <2> QED BY <1>2, <1>7, <2>1, <2>2, <2>3, <2>4 DEF Create
<1>8. CASE ListFetches \/ ListReturns \/ ListFails \/ UNCHANGED vars \/ \E i \in Instances : ListEnters(i)
  <2>1. UNCHANGED <<pc, got, state, ad, chosen, blur>>
    BY <1>8 DEF ListFetches, ListReturns, ListFails, ListEnters, vars, createVars, ociVars, history
  <2> QED BY <1>1, <1>6, <2>1 DEF Launching
<1>9. CASE \E i \in Instances : Accepted(i)
  BY <1>1, <1>5, <1>9 DEF Accepted, history
<1>10. ASSUME NEW i \in Instances, Ends(i) \/ InstanceForget(i) \/ DeletedUnforgotten(i) PROVE FALSE
  BY <1>0, <1>10 DEF Ends, InstanceForget, DeletedUnforgotten, ViewExact
<1>11. ~Crash /\ \A p \in Proposals : ~OfferingChanges(p)
  BY DEF Crash, OfferingChanges
<1> QED BY <1>7, <1>8, <1>9, <1>10, <1>11 DEF Next

\* With an offering in every domain, concurrent Create calls spread evenly
\* (adFdSummary.Propose), up to what the view miscounted when a proposal was made,
\* until something fails or goes away.
THEOREM Spread == AllOffered /\ Spec => []SpreadEvenly
<1>1. ASSUME AllOffered PROVE IInv /\ SpreadInv /\ [Next]_vars => (IInv /\ SpreadInv)'
  BY <1>1, NextIInv, ExactStep, EvenStep DEF SpreadInv
<1>2. IInv /\ SpreadInv => SpreadEvenly
  BY DEF SpreadInv, SpreadEvenly
<1>3. ASSUME AllOffered PROVE Spec => []SpreadEvenly
  BY <1>1, <1>2, <1>3, InitIInv, InitSpread, PTL DEF Spec
<1> QED BY <1>3

=============================================================================
