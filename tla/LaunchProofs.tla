---------------------------- MODULE LaunchProofs ----------------------------
(***************************************************************************)
(* Proofs about Create and the catalogue, for any claims, shapes, domains, *)
(* classes and metadata files, and any number of failures and refreshes.   *)
(***************************************************************************)
EXTENDS Launch, TLAPS

\* f is a function of the claims.
OfClaims(f) == f = [c \in Claims |-> f[c]]

KeyOf(f) == <<f.config, f.ad, f.cap, f.comp>>

-----------------------------------------------------------------------------
(* The inductive invariant *)

\* The provider's state is that of the scenario.
CatalogKnown ==
  /\ scenario \in Scenarios
  /\ minor \in {scenario.minor, None}
  /\ measured \subseteq scenario.nodes
  /\ meta.price = <<>> \/ \E f \in scenario.files : meta.price = f.price
  /\ meta.oneVcpu = {} \/ \E f \in scenario.files : meta.oneVcpu = f.oneVcpu

ClaimFunctions ==
  /\ OfClaims(pc) /\ OfClaims(todo) /\ OfClaims(props) /\ OfClaims(cur) /\ OfClaims(launched)
  /\ OfClaims(offered) /\ OfClaims(seen) /\ OfClaims(tried) /\ OfClaims(skip)

\* An entry of the cache stands for a failure, and with a time to live a failure
\* that is remembered has its entry.
MarksMatch ==
  /\ \A m \in marks : \E f \in failures : KeyOf(f) = m
  /\ scenario.ttl => \A f \in failures : KeyOf(f) \in marks

\* An offering as setOfferings makes it, compatible with the claim and free of the
\* failures remembered when it was listed.
OfferSound(c, t, o) ==
  /\ o.cap \in {"on-demand", "spot", "reserved"}
  /\ o.res # None <=> o.cap = "reserved"
  /\ o.cap = "spot" => ~Burstable(t) /\ "spot" \in Want(c).caps
  /\ PlainClass(Class(c)) => o.res = None
  /\ scenario.ttl /\ o.cap # "reserved" =>
       \A f \in seen[c] : ~Concerns(f, Class(c), t, o.ad, o.cap)

\* A candidate: listed offerings of one type at one price, all of them spot or none.
CandidateSound(c, x) ==
  /\ x.price \in Int
  /\ \A o \in x.offers : OfferSound(c, x.type, o) /\ o.price = x.price /\ <<x.type, o>> \in offered[c]
  /\ \A o1, o2 \in x.offers : o1.cap = "spot" => o2.cap = "spot"

\* An offering that Create listed has been tried, or is in a candidate to come, or
\* has a proposal of the present candidate.
Pending(c, x) ==
  \/ \E cand \in todo[c] : \E o \in cand.offers : x = <<cand.type, o>>
  \/ /\ pc[c] = "launching"
     /\ \E o \in cur[c].offers : /\ x = <<cur[c].type, o>>
                                 /\ \E pr \in props[c] : pr.ad = o.ad /\ pr.res = o.res

ClaimInv(c) ==
  /\ \A x \in todo[c] : CandidateSound(c, x)
  /\ pc[c] = "launching" =>
       /\ CandidateSound(c, cur[c])
       /\ \A x \in todo[c] : cur[c].price <= x.price
       /\ \A pr \in props[c] : \E o \in cur[c].offers : pr.ad = o.ad /\ pr.res = o.res
  /\ PlainClass(Class(c)) /\ pc[c] \in {"placing", "launching"} =>
       \A x \in offered[c] : x \in tried[c] \/ Pending(c, x)
  /\ PlainClass(Class(c)) =>
       /\ pc[c] = "insufficient" => offered[c] \subseteq tried[c]
       /\ pc[c] = "launched" =>
            {x \in offered[c] : x[2].price < launched[c].price} \subseteq tried[c]
  /\ pc[c] = "launched" =>
       \E x \in offered[c] : /\ x[1] = launched[c].type
                             /\ \A f \in {"ad", "cap", "price", "res"} : x[2][f] = launched[c][f]

\* A refresh that OCI's catalogue has not overtaken and that has sent no stale token
\* holds every page of the domains it has left behind, the pages before the next one
\* of the present domain, and nothing of the domains to come.
Refreshing ==
  [ad : Ads, left : SUBSET Ads, got : [Names -> SUBSET Ads], token : (Nat \ {0}) \cup {None},
   stale : BOOLEAN, version : Nat]

Holds(l, n, ad) ==
  \E i \in DOMAIN scenario.catalogs[version][ad] :
    n \in scenario.catalogs[version][ad][i] /\ (ad = l.ad => i < PageOf(l))

RefreshSound ==
  /\ version \in DOMAIN scenario.catalogs
  /\ lister # None =>
       /\ lister \in Refreshing /\ lister.version <= version /\ lister.ad \notin lister.left
       /\ ~lister.stale /\ lister.version = version =>
            \A n \in Names, ad \in Ads :
              ad \in lister.got[n] <=> ad \notin lister.left /\ Holds(lister, n, ad)

IInv ==
  /\ CatalogKnown /\ ClaimFunctions /\ MarksMatch /\ RefreshSound
  /\ \A c \in Active : ClaimInv(c)

-----------------------------------------------------------------------------
(* What Create lists *)

\* Assigning to one claim of a function.
LEMMA OneClaim ==
  ASSUME NEW f, OfClaims(f), NEW c \in Claims, NEW e
  PROVE  /\ OfClaims([f EXCEPT ![c] = e])
         /\ [f EXCEPT ![c] = e][c] = e
         /\ \A d \in Claims : d # c => [f EXCEPT ![c] = e][d] = f[d]
  BY DEF OfClaims

\* A type that Create lists costs something if it can be offered at all.
LEMMA PricePositive ==
  ASSUME CatalogKnown, NEW c \in Active, NEW t \in Types(c), Usable(P, Class(c), t)
  PROVE  Price(P, t) \in Nat \ {0}
  <1>1. PICK s \in Shapes : t \in TypesOfShape(P, Class(c), s)
    BY DEF Types, ListInstanceTypes
  <1>2. t.shape = s
    BY <1>1 DEF TypesOfShape
  <1>3. TypesOfShape(P, Class(c), s) = TypesOfShape([minor |-> minor, configs |-> GlobalConfigs], Class(c), s)
    BY DEF TypesOfShape, ShapeConfigs, P
  <1>4. UnitPrice(P, s) # None
    BY <1>2 DEF Usable
  <1>5. PICK f \in scenario.files : meta.price = f.price
    <2>1. meta.price # <<>>
      BY <1>4 DEF UnitPrice, P
    <2> QED BY <2>1 DEF CatalogKnown
  <1>6. UnitPrice([price |-> f.price], s) = UnitPrice(P, s)
    BY <1>5 DEF UnitPrice, P
  <1>7. Price([price |-> f.price], t) = Price(P, t)
    BY <1>2, <1>6 DEF Price
  <1>8. Price([price |-> f.price], t) \in Nat \ {0}
    <2>1. scenario \in Scenarios /\ c \in Claims /\ scenario.want[c] # None /\ minor \in {scenario.minor, None}
      BY DEF CatalogKnown, Active
    <2>2. t \in TypesOfShape([minor |-> minor, configs |-> GlobalConfigs], scenario.want[c].class, s)
      BY <1>1, <1>3 DEF Class, Want
    <2>3. UnitPrice([price |-> f.price], s) # None
      BY <1>4, <1>6
    <2> QED BY <2>1, <2>2, <2>3, OfferAssumption
  <1> QED BY <1>7, <1>8

\* What setOfferings makes available.
LEMMA OfferingFacts ==
  ASSUME CatalogKnown, MarksMatch, NEW c \in Active, NEW t \in Types(c), NEW o \in OffersOf(c, t)
  PROVE  /\ o.cap \in {"on-demand", "spot", "reserved"}
         /\ o.res # None <=> o.cap = "reserved"
         /\ o.cap = "spot" => ~Burstable(t) /\ "spot" \in Want(c).caps
         /\ PlainClass(Class(c)) => o.res = None
         /\ scenario.ttl /\ o.cap # "reserved" =>
              \A f \in failures : ~Concerns(f, Class(c), t, o.ad, o.cap)
         /\ o.price \in Int
         /\ Price(P, t) \in Nat \ {0}
         /\ o.price = IF o.cap = "spot" THEN Price(P, t) \div 2 ELSE Price(P, t)
  <1> DEFINE k == Class(c)
             made == OnDemand(P, k, t) \union Spot(P, t) \union Reserved(P, k, t, used)
  <1>1. Compatible(Want(c), o) /\ o \in Offerings(P, k, t, Want(c).taints, marks, used)
    BY DEF OffersOf
  <1>2. /\ Usable(P, k, t) /\ ~IsUnavailable(marks, k, t, o) /\ o \in made
        /\ o \in Spot(P, t) =>
             ~Burstable(t) \/ o \in OnDemand(P, k, t) \/ o \in Reserved(P, k, t, used)
    BY <1>1 DEF Offerings
  <1>3. Price(P, t) \in Nat \ {0}
    BY <1>2, PricePositive
  <1>4. /\ o.cap \in {"on-demand", "spot", "reserved"}
        /\ o.res # None <=> o.cap = "reserved"
        /\ o.cap = "spot" => ~Burstable(t)
        /\ PlainClass(k) => o.res = None
        /\ o.price = IF o.cap = "spot" THEN Price(P, t) \div 2 ELSE Price(P, t)
    <2>1. CASE o \in OnDemand(P, k, t)
      <3>1. o.cap = "on-demand" /\ o.res = None /\ o.price = Price(P, t)
        BY <2>1 DEF OnDemand
      <3> QED BY <3>1
    <2>2. CASE o \in Reserved(P, k, t, used)
      <3>1. PICK r \in k.reservations : o.cap = "reserved" /\ o.res = r.id /\ o.price = Price(P, t)
        BY <2>2 DEF Reserved
      <3>2. r.id # None
        BY <3>1, OfferAssumption DEF CatalogKnown, Active, Class, Want
      <3> QED BY <3>1, <3>2 DEF PlainClass
    <2>3. CASE o \in Spot(P, t) /\ o \notin OnDemand(P, k, t) /\ o \notin Reserved(P, k, t, used)
      <3>1. o.cap = "spot" /\ o.res = None /\ o.price = Price(P, t) \div 2
        BY <2>3 DEF Spot
      <3> QED BY <1>2, <2>3, <3>1
    <2> QED BY <1>2, <2>1, <2>2, <2>3
  <1>5. o.cap \in Want(c).caps
    BY <1>1 DEF Compatible
  <1>6. ASSUME scenario.ttl, o.cap # "reserved", NEW f \in failures, Concerns(f, k, t, o.ad, o.cap)
        PROVE  FALSE
    <2>1. KeyOf(f) \in marks
      BY <1>6 DEF MarksMatch
    <2>2. KeyOf(f) = OfferingKey(t, o.ad, o.cap, f.comp) /\ f.comp \in {"", k.comp}
      BY <1>6 DEF Concerns, KeyOf, OfferingKey
    <2> QED BY <1>2, <1>6, <2>1, <2>2 DEF IsUnavailable
  <1>7. o.price \in Int
    BY <1>3, <1>4
  <1> QED BY <1>3, <1>4, <1>5, <1>6, <1>7

\* A candidate that Create lists: offerings of one type at one price, so all of them
\* spot or none.
LEMMA CandidateFacts ==
  ASSUME CatalogKnown, MarksMatch, NEW c \in Active, NEW x \in Candidates(c)
  PROVE  /\ x.price \in Int
         /\ \A o \in x.offers : o \in OffersOf(c, x.type) /\ o.price = x.price
         /\ x.type \in Types(c)
         /\ \A o1, o2 \in x.offers : o1.cap = "spot" => o2.cap = "spot"
  <1>1. PICK t \in Types(c) : \E p \in {o.price : o \in OffersOf(c, t)} :
                 x = [type |-> t, price |-> p, offers |-> {o \in OffersOf(c, t) : o.price = p}]
    BY DEF Candidates
  <1>2. PICK z \in OffersOf(c, t) :
                 x = [type |-> t, price |-> z.price, offers |-> {o \in OffersOf(c, t) : o.price = z.price}]
    BY <1>1
  <1>3. x.type = t /\ x.price = z.price /\ x.offers = {o \in OffersOf(c, t) : o.price = z.price}
    BY <1>2
  <1>4. x.price \in Int
    BY <1>2, <1>3, OfferingFacts
  <1>5. ASSUME NEW o1 \in x.offers, NEW o2 \in x.offers, o1.cap = "spot"
        PROVE  o2.cap = "spot"
    <2> DEFINE pr == Price(P, t)
    <2>1. o1 \in OffersOf(c, t) /\ o2 \in OffersOf(c, t) /\ o1.price = o2.price
      BY <1>3
    <2>2. pr \in Nat \ {0} /\ o1.price = pr \div 2 /\ (o2.cap # "spot" => o2.price = pr)
      BY <1>5, <2>1, OfferingFacts
    <2> HIDE DEF pr
    <2>3. pr \div 2 # pr
      BY <2>2
    <2> QED BY <2>1, <2>2, <2>3
  <1> QED BY <1>3, <1>4, <1>5

\* The capacity type that decideCapacityType requests is that of every offering of
\* the candidate.
LEMMA CapacityTypeFacts ==
  ASSUME NEW c \in Active, NEW x, CandidateSound(c, x), NEW o \in x.offers
  PROVE  CapacityType(c, x) = IF o.cap = "spot" THEN "spot" ELSE "on-demand"
  BY DEF CapacityType, CandidateSound, OfferSound

\* A proposal stands for an offering of the candidate; and where nothing restricts
\* the placement, every offering has one.
LEMMA ProposalFacts ==
  ASSUME NEW c \in Active, NEW x
  PROVE  /\ \A pr \in Proposals(c, x) : \E o \in x.offers : pr.ad = o.ad /\ pr.res = o.res
         /\ PlainClass(Class(c)) =>
              \A o \in x.offers : o.res = None =>
                \E pr \in Proposals(c, x) : pr.ad = o.ad /\ pr.res = o.res
  <1>1. ASSUME NEW pr \in Proposals(c, x)
        PROVE  \E o \in x.offers : pr.ad = o.ad /\ pr.res = o.res
    <2>1. PICK o \in x.offers : pr \in Decorate(c, x.type, o)
      BY DEF Proposals
    <2>2. pr.ad = o.ad /\ pr.res = o.res
      BY <2>1 DEF Decorate, ProposalFor
    <2> QED BY <2>2
  <1>2. ASSUME PlainClass(Class(c)), NEW o \in x.offers, o.res = None
        PROVE  \E pr \in Proposals(c, x) : pr.ad = o.ad /\ pr.res = o.res
    <2>1. ProposalFor(c, o) \in Decorate(c, x.type, o)
      BY <1>2 DEF Decorate, PlainClass
    <2> QED BY <1>2, <2>1 DEF Proposals, ProposalFor
  <1> QED BY <1>1, <1>2

-----------------------------------------------------------------------------
(* The steps of Create *)

\* What is listed for a claim stays sound while its list, and the failures it was
\* made from, stay.
LEMMA CandidateStays ==
  ASSUME NEW c \in Active, NEW x, CandidateSound(c, x), scenario' = scenario,
         offered'[c] = offered[c], seen'[c] = seen[c]
  PROVE  CandidateSound(c, x)'
  BY DEF CandidateSound, OfferSound, Class, Want, PlainClass, Concerns

\* A claim that a step does not touch.
LEMMA OtherClaim ==
  ASSUME NEW c \in Active, ClaimInv(c), scenario' = scenario,
         pc'[c] = pc[c], todo'[c] = todo[c], props'[c] = props[c], cur'[c] = cur[c],
         launched'[c] = launched[c], offered'[c] = offered[c], seen'[c] = seen[c], tried'[c] = tried[c]
  PROVE  ClaimInv(c)'
  <1>1. \A x : CandidateSound(c, x) => CandidateSound(c, x)'
    BY CandidateStays
  <1>2. \A x : Pending(c, x) => Pending(c, x)'
    BY DEF Pending
  <1>3. PlainClass(Class(c))' <=> PlainClass(Class(c))
    BY DEF PlainClass, Class, Want
  <1> QED BY <1>1, <1>2, <1>3 DEF ClaimInv

\* resolveInstanceTypes and orderInstanceTypesByPrice.
LEMMA StartStep ==
  ASSUME IInv, NEW c \in Active, CreateStarts(c)
  PROVE  ClaimInv(c)'
  <1>0. c \in Claims /\ scenario' = scenario
    BY DEF Active, CreateStarts
  <1>1. /\ todo'[c] = Candidates(c) /\ seen'[c] = failures /\ tried'[c] = {}
        /\ offered'[c] = UNION {{<<x.type, o>> : o \in x.offers} : x \in Candidates(c)}
        /\ pc'[c] \in {"createError", "insufficient", "placing"}
        /\ pc'[c] = "insufficient" => Candidates(c) = {}
    <2>1. /\ todo'[c] = Candidates(c) /\ seen'[c] = failures /\ tried'[c] = {}
          /\ offered'[c] = UNION {{<<x.type, o>> : o \in x.offers} : x \in Candidates(c)}
          /\ pc'[c] = CASE Types(c) = {} -> "createError"
                        [] Types(c) # {} /\ Candidates(c) = {} -> "insufficient"
                        [] Candidates(c) # {} -> "placing"
      <3> DEFINE listed == UNION {{<<x.type, o>> : o \in x.offers} : x \in Candidates(c)}
                 result == CASE Types(c) = {} -> "createError"
                             [] Types(c) # {} /\ Candidates(c) = {} -> "insufficient"
                             [] Candidates(c) # {} -> "placing"
      <3>1. /\ todo' = [todo EXCEPT ![c] = Candidates(c)] /\ seen' = [seen EXCEPT ![c] = failures]
            /\ tried' = [tried EXCEPT ![c] = {}] /\ offered' = [offered EXCEPT ![c] = listed]
            /\ pc' = [pc EXCEPT ![c] = result]
        BY DEF CreateStarts
      <3>2. OfClaims(todo) /\ OfClaims(seen) /\ OfClaims(tried) /\ OfClaims(offered) /\ OfClaims(pc)
        BY DEF IInv, ClaimFunctions
      <3> HIDE DEF listed, result
      <3>3. todo'[c] = Candidates(c)
        BY <1>0, <3>1, <3>2, OneClaim
      <3>4. seen'[c] = failures /\ tried'[c] = {}
        BY <1>0, <3>1, <3>2 DEF OfClaims
      <3>5. offered'[c] = listed
        BY <1>0, <3>1, <3>2, OneClaim
      <3>6. pc'[c] = result
        BY <1>0, <3>1, <3>2, OneClaim
      <3> QED BY <3>3, <3>4, <3>5, <3>6 DEF listed, result
    <2>2. Types(c) = {} => Candidates(c) = {}
      BY DEF Candidates
    <2> QED BY <2>1, <2>2
  <1>2. ASSUME NEW x \in Candidates(c) PROVE CandidateSound(c, x)'
    <2>1. /\ x.price \in Int
          /\ \A o \in x.offers : o \in OffersOf(c, x.type) /\ o.price = x.price
          /\ x.type \in Types(c)
          /\ \A o1, o2 \in x.offers : o1.cap = "spot" => o2.cap = "spot"
      BY CandidateFacts DEF IInv
    <2>2. ASSUME NEW o \in x.offers PROVE OfferSound(c, x.type, o)'
      <3>1. /\ o.cap \in {"on-demand", "spot", "reserved"}
            /\ o.res # None <=> o.cap = "reserved"
            /\ o.cap = "spot" => ~Burstable(x.type) /\ "spot" \in Want(c).caps
            /\ PlainClass(Class(c)) => o.res = None
            /\ scenario.ttl /\ o.cap # "reserved" =>
                 \A f \in failures : ~Concerns(f, Class(c), x.type, o.ad, o.cap)
        BY <2>1, OfferingFacts DEF IInv
      <3> QED BY <1>0, <1>1, <3>1 DEF OfferSound, Class, Want, PlainClass, Concerns
    <2>3. ASSUME NEW o \in x.offers PROVE <<x.type, o>> \in offered'[c]
      BY <1>1
    <2> QED BY <2>1, <2>2, <2>3 DEF CandidateSound
  <1>3. ASSUME NEW x \in offered'[c] PROVE Pending(c, x)'
    <2>1. \E cand \in Candidates(c) : \E o \in cand.offers : x = <<cand.type, o>>
      BY <1>1
    <2> QED BY <1>1, <2>1 DEF Pending
  <1>4. Candidates(c) = {} => offered'[c] = {}
    BY <1>1
  <1> QED BY <1>1, <1>2, <1>3, <1>4 DEF ClaimInv

\* The next candidate becomes proposals.
LEMMA PlaceStep ==
  ASSUME IInv, NEW c \in Active, PlaceInstance(c)
  PROVE  ClaimInv(c)'
  <1>0. c \in Claims /\ scenario' = scenario /\ ClaimInv(c) /\ pc[c] = "placing"
    BY DEF Active, PlaceInstance, IInv
  <1>1. PICK cand \in Cheapest(todo[c]) :
               /\ todo' = [todo EXCEPT ![c] = @ \ {cand}]
               /\ cur' = [cur EXCEPT ![c] = cand]
               /\ props' = [props EXCEPT ![c] = Proposals(c, cand)]
               /\ pc' = [pc EXCEPT ![c] = IF Proposals(c, cand) = {} THEN "panicked" ELSE "launching"]
    BY DEF PlaceInstance
  <1>2. /\ todo'[c] = todo[c] \ {cand} /\ cur'[c] = cand /\ props'[c] = Proposals(c, cand)
        /\ pc'[c] \in {"panicked", "launching"}
        /\ offered'[c] = offered[c] /\ seen'[c] = seen[c] /\ tried'[c] = tried[c]
    <2>1. UNCHANGED <<offered, seen, tried>>
      BY DEF PlaceInstance
    <2>2. OfClaims(todo) /\ OfClaims(cur) /\ OfClaims(props) /\ OfClaims(pc)
      BY DEF IInv, ClaimFunctions
    <2>3. pc'[c] = IF Proposals(c, cand) = {} THEN "panicked" ELSE "launching"
      BY <1>0, <1>1, <2>2, OneClaim
    <2>4. todo'[c] = todo[c] \ {cand} /\ cur'[c] = cand /\ props'[c] = Proposals(c, cand)
      BY <1>0, <1>1, <2>2, OneClaim
    <2> QED BY <2>1, <2>3, <2>4
  <1>3. cand \in todo[c] /\ \A x \in todo[c] : cand.price <= x.price
    BY DEF Cheapest
  <1>4. \A x \in todo[c] : CandidateSound(c, x) /\ CandidateSound(c, x)'
    BY <1>0, <1>2, CandidateStays DEF ClaimInv
  <1>5. \A pr \in Proposals(c, cand) : \E o \in cand.offers : pr.ad = o.ad /\ pr.res = o.res
    BY ProposalFacts
  <1>6. ASSUME PlainClass(Class(c)), pc'[c] = "launching", NEW x \in offered[c], x \notin tried[c]
        PROVE  Pending(c, x)'
    <2>1. PICK y \in todo[c] : \E o \in y.offers : x = <<y.type, o>>
      BY <1>0, <1>6 DEF ClaimInv, Pending
    <2>2. PICK o \in y.offers : x = <<y.type, o>>
      BY <2>1
    <2>3. CASE y # cand
      BY <1>2, <2>1, <2>3 DEF Pending
    <2>4. CASE y = cand
      <3>1. o.res = None
        BY <1>3, <1>4, <1>6, <2>2, <2>4 DEF CandidateSound, OfferSound
      <3>2. \E pr \in Proposals(c, cand) : pr.ad = o.ad /\ pr.res = o.res
        BY <1>6, <2>2, <2>4, <3>1, ProposalFacts
      <3> QED BY <1>2, <1>6, <2>2, <2>4, <3>2 DEF Pending
    <2> QED BY <2>3, <2>4
  <1>7. PlainClass(Class(c))' <=> PlainClass(Class(c))
    BY <1>0 DEF PlainClass, Class, Want
  <1> QED BY <1>2, <1>3, <1>4, <1>5, <1>6, <1>7 DEF ClaimInv

\* A candidate is passed over.
LEMMA ImageStep ==
  ASSUME IInv, NEW c \in Active, ImageFails(c)
  PROVE  ClaimInv(c)'
  <1>0. c \in Claims /\ scenario' = scenario /\ ClaimInv(c) /\ pc[c] = "placing" /\ pc'[c] = "placing"
    BY DEF Active, ImageFails, IInv
  <1>1. PICK cand \in Cheapest(todo[c]) :
               /\ todo' = [todo EXCEPT ![c] = @ \ {cand}]
               /\ tried' = [tried EXCEPT ![c] = @ \union {<<cand.type, o>> : o \in cand.offers}]
    BY DEF ImageFails
  <1>2. /\ todo'[c] = todo[c] \ {cand}
        /\ tried'[c] = tried[c] \union {<<cand.type, o>> : o \in cand.offers}
        /\ offered'[c] = offered[c] /\ seen'[c] = seen[c]
    BY <1>0, <1>1, OneClaim DEF IInv, ClaimFunctions, ImageFails
  <1>3. \A x \in todo[c] : CandidateSound(c, x)'
    BY <1>0, <1>2, CandidateStays DEF ClaimInv
  <1>4. ASSUME NEW x \in offered[c], x \in tried[c] \/ Pending(c, x)
        PROVE  x \in tried'[c] \/ Pending(c, x)'
    BY <1>0, <1>2, <1>4 DEF Pending
  <1>5. PlainClass(Class(c))' <=> PlainClass(Class(c))
    BY <1>0 DEF PlainClass, Class, Want
  <1> QED BY <1>0, <1>2, <1>3, <1>4, <1>5 DEF ClaimInv

\* The instance is launched, from an offering of the present candidate.
LEMMA LaunchStep ==
  ASSUME IInv, NEW c \in Active, LaunchSucceeds(c)
  PROVE  ClaimInv(c)'
  <1> DEFINE cap == CapacityType(c, cur[c])
  <1>0. c \in Claims /\ scenario' = scenario /\ ClaimInv(c) /\ pc[c] = "launching"
    BY DEF Active, LaunchSucceeds, IInv
  <1>1. PICK pr \in props[c] :
               launched' = [launched EXCEPT ![c] =
                 [type |-> cur[c].type, price |-> cur[c].price, ad |-> pr.ad, res |-> pr.res,
                  cap |-> IF cap = "spot" THEN "spot"
                          ELSE IF pr.res # None THEN "reserved" ELSE cap]]
    BY DEF LaunchSucceeds
  <1>2. /\ launched'[c] = [type |-> cur[c].type, price |-> cur[c].price, ad |-> pr.ad, res |-> pr.res,
                           cap |-> IF cap = "spot" THEN "spot"
                                   ELSE IF pr.res # None THEN "reserved" ELSE cap]
        /\ pc'[c] = "launched"
    <2>1. OfClaims(launched) /\ OfClaims(pc) /\ pc' = [pc EXCEPT ![c] = "launched"]
      BY DEF IInv, ClaimFunctions, LaunchSucceeds
    <2> HIDE DEF cap
    <2> QED BY <1>0, <1>1, <2>1, OneClaim
  <1>3. UNCHANGED <<todo, offered, seen, tried>>
    BY DEF LaunchSucceeds
  <1>4. CandidateSound(c, cur[c]) /\ \A x \in todo[c] : CandidateSound(c, x) /\ CandidateSound(c, x)'
    BY <1>0, <1>3, CandidateStays DEF ClaimInv
  <1>5. PICK o \in cur[c].offers : pr.ad = o.ad /\ pr.res = o.res
    BY <1>0 DEF ClaimInv
  <1>6. /\ launched'[c].type = cur[c].type /\ launched'[c].price = o.price /\ launched'[c].ad = o.ad
        /\ launched'[c].res = o.res /\ launched'[c].cap = o.cap
    <2>1. cap = IF o.cap = "spot" THEN "spot" ELSE "on-demand"
      BY <1>4, CapacityTypeFacts
    <2>2. /\ o.cap \in {"on-demand", "spot", "reserved"} /\ (o.res # None <=> o.cap = "reserved")
          /\ o.price = cur[c].price
      BY <1>4 DEF CandidateSound, OfferSound
    <2> HIDE DEF cap
    <2>3. launched'[c].cap = IF cap = "spot" THEN "spot" ELSE IF pr.res # None THEN "reserved" ELSE cap
      BY <1>2
    <2> QED BY <1>2, <1>5, <2>1, <2>2, <2>3
  <1>7. \E x \in offered'[c] : /\ x[1] = launched'[c].type
                               /\ \A f \in {"ad", "cap", "price", "res"} : x[2][f] = launched'[c][f]
    <2>1. <<cur[c].type, o>> \in offered'[c]
      BY <1>3, <1>4 DEF CandidateSound
    <2> QED BY <1>6, <2>1
  <1>8. ASSUME PlainClass(Class(c)), NEW x \in offered[c], x \notin tried[c], x[2].price < launched'[c].price
        PROVE  FALSE
    <2>1. x \in tried[c] \/ Pending(c, x)
      BY <1>0, <1>8 DEF ClaimInv
    <2>2. \/ \E y \in todo[c] : \E z \in y.offers : x = <<y.type, z>>
          \/ \E z \in cur[c].offers : x = <<cur[c].type, z>>
      BY <1>8, <2>1 DEF Pending
    <2>3. cur[c].price \in Int /\ launched'[c].price = cur[c].price
      BY <1>2, <1>4 DEF CandidateSound
    <2>4. CASE \E y \in todo[c] : \E z \in y.offers : x = <<y.type, z>>
      <3>1. PICK y \in todo[c] : \E z \in y.offers : x = <<y.type, z>>
        BY <2>4
      <3>2. x[2].price = y.price /\ y.price \in Int
        BY <1>4, <3>1 DEF CandidateSound
      <3>3. cur[c].price <= y.price
        BY <1>0 DEF ClaimInv
      <3> QED BY <1>8, <2>3, <3>2, <3>3
    <2>5. CASE \E z \in cur[c].offers : x = <<cur[c].type, z>>
      <3>1. x[2].price = cur[c].price
        BY <1>4, <2>5 DEF CandidateSound
      <3> QED BY <1>8, <2>3, <3>1
    <2> QED BY <2>2, <2>4, <2>5
  <1>9. PlainClass(Class(c))' <=> PlainClass(Class(c))
    BY <1>0 DEF PlainClass, Class, Want
  <1> QED BY <1>2, <1>3, <1>4, <1>7, <1>8, <1>9 DEF ClaimInv

\* A proposal fails: the next one, the next candidate, or an error.
LEMMA FailStep ==
  ASSUME IInv, NEW c \in Active, LaunchFails(c)
  PROVE  ClaimInv(c)'
  <1>0. c \in Claims /\ scenario' = scenario /\ ClaimInv(c) /\ pc[c] = "launching"
    BY DEF Active, LaunchFails, IInv
  <1>1. PICK pr \in props[c] : \E err :
               /\ tried' = [tried EXCEPT ![c] = @ \union OffersFor(c, pr)]
               /\ props' = [props EXCEPT ![c] = @ \ {pr}]
               /\ pc' = [pc EXCEPT ![c] = CASE props[c] # {pr} -> "launching"
                                            [] props[c] = {pr} /\ IsSkippableLaunchError(err) -> "placing"
                                            [] OTHER -> "createError"]
    BY DEF LaunchFails
  <1>2. /\ tried'[c] = tried[c] \union OffersFor(c, pr)
        /\ props'[c] = props[c] \ {pr}
        /\ pc'[c] \in {"launching", "placing", "createError"}
        /\ pc'[c] = "placing" => props'[c] = {}
    <2>1. PICK err :
               /\ tried' = [tried EXCEPT ![c] = @ \union OffersFor(c, pr)]
               /\ props' = [props EXCEPT ![c] = @ \ {pr}]
               /\ pc' = [pc EXCEPT ![c] = CASE props[c] # {pr} -> "launching"
                                            [] props[c] = {pr} /\ IsSkippableLaunchError(err) -> "placing"
                                            [] OTHER -> "createError"]
      BY <1>1
    <2>2. OfClaims(tried) /\ OfClaims(props) /\ OfClaims(pc)
      BY DEF IInv, ClaimFunctions
    <2>3. pc'[c] = CASE props[c] # {pr} -> "launching"
                     [] props[c] = {pr} /\ IsSkippableLaunchError(err) -> "placing"
                     [] OTHER -> "createError"
      BY <1>0, <2>1, <2>2, OneClaim
    <2>4. tried'[c] = tried[c] \union OffersFor(c, pr) /\ props'[c] = props[c] \ {pr}
      BY <1>0, <2>1, <2>2, OneClaim
    <2> QED BY <2>3, <2>4
  <1>3. UNCHANGED <<todo, cur, offered, seen, launched>>
    BY DEF LaunchFails
  <1>4. /\ CandidateSound(c, cur[c]) /\ CandidateSound(c, cur[c])'
        /\ \A x \in todo[c] : CandidateSound(c, x)'
    BY <1>0, <1>3, CandidateStays DEF ClaimInv
  <1>5. ASSUME NEW x \in offered[c], x \in tried[c] \/ Pending(c, x), pc'[c] \in {"launching", "placing"}
        PROVE  x \in tried'[c] \/ Pending(c, x)'
    <2>1. CASE x \in tried[c]
      BY <1>2, <2>1
    <2>2. CASE \E cand \in todo[c] : \E o \in cand.offers : x = <<cand.type, o>>
      BY <1>3, <2>2 DEF Pending
    <2>3. CASE \E o \in cur[c].offers : /\ x = <<cur[c].type, o>>
                                        /\ \E q \in props[c] : q.ad = o.ad /\ q.res = o.res
      <3>1. PICK o \in cur[c].offers : /\ x = <<cur[c].type, o>>
                                       /\ \E q \in props[c] : q.ad = o.ad /\ q.res = o.res
        BY <2>3
      <3>2. PICK q \in props[c] : q.ad = o.ad /\ q.res = o.res
        BY <3>1
      <3>3. CASE q = pr
        BY <1>2, <3>1, <3>2, <3>3 DEF OffersFor
      <3>4. CASE q # pr
        <4>1. q \in props'[c] /\ pc'[c] = "launching"
          BY <1>2, <1>5, <3>2, <3>4
        <4> QED BY <1>3, <3>1, <3>2, <4>1 DEF Pending
      <3> QED BY <3>3, <3>4
    <2> QED BY <1>5, <2>1, <2>2, <2>3 DEF Pending
  <1>6. PlainClass(Class(c))' <=> PlainClass(Class(c))
    BY <1>0 DEF PlainClass, Class, Want
  <1>7. /\ \A x \in todo[c] : cur[c].price <= x.price
        /\ \A q \in props[c] : \E o \in cur[c].offers : q.ad = o.ad /\ q.res = o.res
    BY <1>0 DEF ClaimInv
  <1>8. PlainClass(Class(c)) => \A x \in offered[c] : x \in tried[c] \/ Pending(c, x)
    BY <1>0 DEF ClaimInv
  <1> QED BY <1>2, <1>3, <1>4, <1>5, <1>6, <1>7, <1>8 DEF ClaimInv

\* Create returns, or is called again.
LEMMA ReturnStep ==
  ASSUME IInv, NEW c \in Active, CreateFails(c) \/ TypesExhausted(c) \/ CoreRetries(c)
  PROVE  ClaimInv(c)'
  <1>0. /\ c \in Claims /\ scenario' = scenario /\ ClaimInv(c)
        /\ OfClaims(pc) /\ OfClaims(todo)
    BY DEF Active, CreateFails, TypesExhausted, CoreRetries, IInv, ClaimFunctions
  <1>1. CASE CoreRetries(c)
    <2>1. todo'[c] = {} /\ pc'[c] = "idle"
      BY <1>0, <1>1, OneClaim DEF CoreRetries
    <2> QED BY <2>1 DEF ClaimInv
  <1>2. CASE CreateFails(c) \/ TypesExhausted(c)
    <2>1. UNCHANGED <<todo, offered, seen, tried, launched>>
      BY <1>2 DEF CreateFails, TypesExhausted
    <2>2. \A x \in todo[c] : CandidateSound(c, x)'
      BY <1>0, <2>1, CandidateStays DEF ClaimInv
    <2>3. /\ pc'[c] \in {"createError", "insufficient"}
          /\ pc'[c] = "insufficient" => pc[c] = "placing" /\ todo[c] = {}
      <3>1. CASE CreateFails(c)
        BY <1>0, <3>1, OneClaim DEF CreateFails
      <3>2. CASE TypesExhausted(c)
        BY <1>0, <3>2, OneClaim DEF TypesExhausted
      <3> QED BY <1>2, <3>1, <3>2
    <2>4. PlainClass(Class(c))' <=> PlainClass(Class(c))
      BY <1>0 DEF PlainClass, Class, Want
    <2>5. PlainClass(Class(c)) /\ pc[c] = "placing" /\ todo[c] = {} => offered[c] \subseteq tried[c]
      BY <1>0 DEF ClaimInv, Pending
    <2> QED BY <2>1, <2>2, <2>3, <2>4, <2>5 DEF ClaimInv
  <1> QED BY <1>1, <1>2

-----------------------------------------------------------------------------
(* The steps of the catalogue *)

\* The catalogue of the scenario: pages of names for each domain.
LEMMA Pages ==
  ASSUME scenario \in Scenarios, version \in DOMAIN scenario.catalogs, NEW ad \in Ads
  PROVE  /\ version \in 1..Len(scenario.catalogs) /\ Len(scenario.catalogs) \in Nat
         /\ Len(scenario.catalogs[version][ad]) \in Nat
         /\ DOMAIN scenario.catalogs[version][ad] = 1..Len(scenario.catalogs[version][ad])
  <1>1. scenario.catalogs \in Seq([Ads -> Seq(SUBSET Names)])
    BY CatalogAssumption DEF Names
  <1>2. /\ DOMAIN scenario.catalogs = 1..Len(scenario.catalogs) /\ Len(scenario.catalogs) \in Nat
        /\ scenario.catalogs[version] \in [Ads -> Seq(SUBSET Names)]
    BY <1>1
  <1>3. scenario.catalogs[version][ad] \in Seq(SUBSET Names)
    BY <1>2
  <1> QED BY <1>2, <1>3

\* What the next page adds.
LEMMA NextPage ==
  ASSUME scenario \in Scenarios, RefreshSound, lister # None, ~lister.stale, lister.version = version,
         PageOf(lister) \in DOMAIN scenario.catalogs[version][lister.ad],
         NEW n \in Names, NEW ad \in Ads
  PROVE  ad \in Listed(lister)[n] <=>
           /\ ad \notin lister.left
           /\ \E i \in DOMAIN scenario.catalogs[version][ad] :
                n \in scenario.catalogs[version][ad][i] /\ (ad = lister.ad => i < PageOf(lister) + 1)
  <1> DEFINE pg == PageOf(lister)
  <1>1. lister \in Refreshing /\ lister.ad \notin lister.left /\ lister.ad \in Ads
    BY DEF RefreshSound, Refreshing
  <1>2. ad \in lister.got[n] <=> ad \notin lister.left /\ Holds(lister, n, ad)
    BY DEF RefreshSound
  <1>3. ad \in Listed(lister)[n] <=>
           ad \in lister.got[n] \/ (ad = lister.ad /\ n \in scenario.catalogs[version][ad][pg])
    BY <1>1 DEF Listed
  <1>4. CASE ad # lister.ad
    BY <1>2, <1>3, <1>4 DEF Holds
  <1>5. CASE ad = lister.ad
    <2>1. DOMAIN scenario.catalogs[version][ad] \subseteq Int /\ pg \in DOMAIN scenario.catalogs[version][ad]
      BY <1>5, Pages DEF RefreshSound
    <2>2. \A i \in DOMAIN scenario.catalogs[version][ad] : i < pg + 1 <=> i < pg \/ i = pg
      BY <2>1
    <2>3. ad \in Listed(lister)[n] <=> Holds(lister, n, ad) \/ n \in scenario.catalogs[version][ad][pg]
      BY <1>1, <1>2, <1>3, <1>5
    <2> HIDE DEF pg
    <2>4. Holds(lister, n, ad) <=>
            \E i \in DOMAIN scenario.catalogs[version][ad] :
              n \in scenario.catalogs[version][ad][i] /\ i < pg
      BY <1>5 DEF Holds, pg
    <2>5. ad \in Listed(lister)[n] <=>
            \E i \in DOMAIN scenario.catalogs[version][ad] :
              n \in scenario.catalogs[version][ad][i] /\ i < pg + 1
      BY <2>1, <2>2, <2>3, <2>4
    <2> QED BY <1>1, <1>5, <2>5 DEF pg
  <1> QED BY <1>4, <1>5

\* One step of a refresh, or of OCI's catalogue.
LEMMA RefreshStep ==
  ASSUME IInv, [Next]_vars
  PROVE  RefreshSound'
  <1>0. scenario \in Scenarios /\ RefreshSound
    BY DEF IInv, CatalogKnown
  <1>1. CASE RefreshShapesStarts
    <2>1. PICK ad \in Ads :
            lister' = [ad |-> ad, left |-> Ads \ {ad}, got |-> [n \in Names |-> {}],
                       token |-> None, stale |-> FALSE, version |-> version]
      BY <1>1 DEF RefreshShapesStarts
    <2>2. version \in Nat /\ UNCHANGED <<version, scenario>>
      BY <1>0, <1>1, <2>1, Pages DEF RefreshSound, RefreshShapesStarts
    <2>3. lister' \in Refreshing /\ lister'.version <= version
      BY <2>1, <2>2 DEF Refreshing
    <2>4. PageOf(lister') = 1
      BY <2>1 DEF PageOf, Given
    <2>5. ASSUME NEW n \in Names, NEW d \in Ads, d \notin lister'.left, Holds(lister, n, d)'
          PROVE  FALSE
      <3>1. d = ad
        BY <2>1, <2>5
      <3>2. DOMAIN scenario.catalogs[version][ad] = 1..Len(scenario.catalogs[version][ad])
        BY <1>0, Pages DEF RefreshSound
      <3>3. PICK i \in DOMAIN scenario.catalogs[version][ad] : i < 1
        BY <2>1, <2>2, <2>4, <2>5, <3>1 DEF Holds
      <3> QED BY <3>2, <3>3
    <2>6. \A n \in Names : lister'.got[n] = {}
      BY <2>1
    <2>7. lister'.ad \notin lister'.left
      BY <2>1
    <2> QED BY <1>0, <2>2, <2>3, <2>5, <2>6, <2>7 DEF RefreshSound
  <1>2. CASE RefreshShapesPage
    <2> DEFINE pg == PageOf(lister)
    <2>1. /\ lister # None /\ lister \in Refreshing /\ UNCHANGED <<version, scenario>>
          /\ lister' = [lister EXCEPT !.got = Listed(lister), !.token = pg + 1]
          /\ pg < Len(scenario.catalogs[version][lister.ad])
      BY <1>0, <1>2 DEF RefreshShapesPage, RefreshSound
    <2>2. pg \in Nat \ {0} /\ pg + 1 # None /\ pg + 1 \in Nat \ {0}
      BY <2>1, NoneAssumption DEF Refreshing, PageOf, Given
    <2>3. Listed(lister) \in [Names -> SUBSET Ads]
      BY <2>1 DEF Listed, Refreshing
    <2> HIDE DEF pg
    <2>4. /\ lister' \in Refreshing /\ lister'.ad = lister.ad /\ lister'.left = lister.left
          /\ lister'.version = lister.version /\ lister'.stale = lister.stale
          /\ lister'.got = Listed(lister) /\ lister'.token = pg + 1
      BY <2>1, <2>2, <2>3 DEF Refreshing
    <2>5. PageOf(lister') = pg + 1
      BY <2>2, <2>4 DEF PageOf, Given
    <2>6. pg \in DOMAIN scenario.catalogs[version][lister.ad]
      <3>1. lister.ad \in Ads
        BY <2>1 DEF Refreshing
      <3> QED BY <1>0, <2>1, <2>2, <3>1, Pages DEF RefreshSound
    <2>7. ASSUME ~lister.stale, lister.version = version, NEW n \in Names, NEW ad \in Ads
          PROVE  ad \in lister'.got[n] <=> ad \notin lister'.left /\ Holds(lister, n, ad)'
      <3>1. Holds(lister, n, ad)' <=>
              \E i \in DOMAIN scenario.catalogs[version][ad] :
                n \in scenario.catalogs[version][ad][i] /\ (ad = lister.ad => i < pg + 1)
        BY <2>1, <2>4, <2>5 DEF Holds
      <3> QED BY <1>0, <2>1, <2>4, <2>6, <2>7, <3>1, NextPage DEF pg
    <2> QED BY <1>0, <2>1, <2>4, <2>7 DEF RefreshSound
  <1>3. CASE RefreshShapesLastPage
    <2> DEFINE pg == PageOf(lister)
    <2>1. /\ lister # None /\ lister \in Refreshing /\ UNCHANGED <<version, scenario>>
          /\ pg = Len(scenario.catalogs[version][lister.ad])
      BY <1>0, <1>3 DEF RefreshShapesLastPage, RefreshSound
    <2>2. CASE lister' = None
      BY <1>0, <2>1, <2>2 DEF RefreshSound
    <2>3. CASE lister.left # {}
      <3>1. PICK ad \in lister.left :
              lister' = [lister EXCEPT !.got = Listed(lister), !.ad = ad, !.left = @ \ {ad},
                                       !.stale = @ \/ lister.token # None]
        BY <1>3, <2>3 DEF RefreshShapesLastPage
      <3>2. Listed(lister) \in [Names -> SUBSET Ads] /\ ad \in Ads /\ lister.ad \in Ads /\ ad # lister.ad
        BY <1>0, <2>1, <3>1 DEF Listed, Refreshing, RefreshSound
      <3>3. /\ lister' \in Refreshing /\ lister'.ad = ad /\ lister'.left = lister.left \ {ad}
            /\ lister'.version = lister.version /\ lister'.stale = (lister.stale \/ lister.token # None)
            /\ lister'.got = Listed(lister) /\ lister'.token = lister.token
        BY <2>1, <3>1, <3>2 DEF Refreshing
      <3>4. pg \in Nat \ {0}
        BY <2>1 DEF Refreshing, PageOf, Given
      <3>5. /\ DOMAIN scenario.catalogs[version][lister.ad] = 1..pg
            /\ DOMAIN scenario.catalogs[version][ad] \subseteq Nat \ {0}
        BY <1>0, <2>1, <3>2, Pages DEF RefreshSound
      <3> HIDE DEF pg
      <3>6. pg \in DOMAIN scenario.catalogs[version][lister.ad]
        BY <3>4, <3>5
      <3>7. ASSUME ~lister'.stale, lister.version = version, NEW n \in Names, NEW d \in Ads
            PROVE  d \in lister'.got[n] <=> d \notin lister'.left /\ Holds(lister, n, d)'
        <4>1. ~lister.stale /\ PageOf(lister') = 1
          BY <3>3, <3>7 DEF PageOf, Given
        <4>2. d \in lister'.got[n] <=>
                /\ d \notin lister.left
                /\ \E i \in DOMAIN scenario.catalogs[version][d] :
                     n \in scenario.catalogs[version][d][i] /\ (d = lister.ad => i < pg + 1)
          BY <1>0, <2>1, <3>3, <3>6, <3>7, <4>1, NextPage DEF pg
        <4>3. Holds(lister, n, d)' <=>
                \E i \in DOMAIN scenario.catalogs[version][d] :
                  n \in scenario.catalogs[version][d][i] /\ (d = ad => i < 1)
          BY <2>1, <3>3, <4>1 DEF Holds
        <4>4. CASE d = ad
          <5>1. ~Holds(lister, n, d)'
            BY <3>5, <4>3, <4>4
          <5> QED BY <3>1, <4>2, <4>4, <5>1
        <4>5. CASE d # ad
          <5>1. \A i \in DOMAIN scenario.catalogs[version][lister.ad] : i < pg + 1
            BY <3>4, <3>5
          <5> QED BY <3>3, <4>2, <4>3, <4>5, <5>1
        <4> QED BY <4>4, <4>5
      <3> QED BY <1>0, <2>1, <3>3, <3>7 DEF RefreshSound
    <2> QED BY <1>3, <2>2, <2>3 DEF RefreshShapesLastPage
  <1>4. CASE RefreshShapesFails
    BY <1>0, <1>4 DEF RefreshShapesFails, RefreshSound
  <1>5. CASE CatalogChanges
    <2>1. version' = version + 1 /\ version < Len(scenario.catalogs) /\ UNCHANGED <<lister, scenario>>
      BY <1>5 DEF CatalogChanges
    <2>2. scenario.catalogs \in Seq([Ads -> Seq(SUBSET Names)])
      BY <1>0, CatalogAssumption DEF Names
    <2>3. version \in Nat /\ version' \in DOMAIN scenario.catalogs
      BY <1>0, <2>1, <2>2 DEF RefreshSound
    <2>4. lister # None => /\ lister \in Refreshing /\ lister.ad \notin lister.left
                           /\ lister.version <= version' /\ lister.version # version'
      BY <1>0, <2>1, <2>3 DEF RefreshSound, Refreshing
    <2> QED BY <2>1, <2>3, <2>4 DEF RefreshSound
  <1>6. CASE UNCHANGED <<version, lister, scenario>>
    BY <1>0, <1>6 DEF RefreshSound, Holds
  <1> QED
    BY <1>1, <1>2, <1>3, <1>4, <1>5, <1>6
       DEF Next, Refresh, vars, catalogVars, NodeMeasured, MeasurementExpires, ReloadConfigFile,
           RefreshClusterVersion, SupplyChanges,
           ReservationTaken, Create, CreateStarts, PlaceInstance, LaunchSucceeds, LaunchFails,
           TypesExhausted, CreateFails, ImageFails, CoreRetries, MarkExpires, Done

\* The scenario stays, and the metadata is that of a file.
LEMMA CatalogStep ==
  ASSUME IInv, [Next]_vars
  PROVE  CatalogKnown' /\ scenario' = scenario
  <1>0. CatalogKnown
    BY DEF IInv
  <1>1. CASE ReloadConfigFile
    <2>1. PICK f \in scenario.files : meta' = [f EXCEPT !.preemptible = meta.preemptible \union @]
      BY <1>1 DEF ReloadConfigFile
    <2>2. DOMAIN f = {"price", "preemptible", "cluster", "oneVcpu"}
      BY <1>0, MetadataAssumption DEF CatalogKnown
    <2>3. meta'.price = f.price /\ meta'.oneVcpu = f.oneVcpu
      BY <2>1, <2>2
    <2> QED BY <1>0, <1>1, <2>3 DEF CatalogKnown, ReloadConfigFile
  <1>2. CASE RefreshClusterVersion
    BY <1>0, <1>2 DEF RefreshClusterVersion, CatalogKnown
  <1>3. CASE UNCHANGED <<scenario, meta, minor, measured>>
    BY <1>0, <1>3 DEF CatalogKnown
  <1>4. CASE NodeMeasured
    BY <1>0, <1>4 DEF NodeMeasured, CatalogKnown
  <1>5. CASE MeasurementExpires
    BY <1>0, <1>5 DEF MeasurementExpires, CatalogKnown
  <1>6. scenario' = scenario
    BY <1>1, <1>2, <1>3
       DEF Next, Refresh, vars, catalogVars, SupplyChanges, RefreshShapesStarts, RefreshShapesPage,
           RefreshShapesLastPage, RefreshShapesFails, CatalogChanges,
           ReservationTaken, Create, CreateStarts, PlaceInstance, LaunchSucceeds, LaunchFails,
           TypesExhausted, CreateFails, ImageFails, CoreRetries, MarkExpires, Done,
           ReloadConfigFile, RefreshClusterVersion, NodeMeasured, MeasurementExpires
  <1> QED
    BY <1>1, <1>2, <1>3, <1>4, <1>5, <1>6
       DEF Next, Refresh, vars, catalogVars, SupplyChanges, RefreshShapesStarts, RefreshShapesPage,
           RefreshShapesLastPage, RefreshShapesFails, CatalogChanges,
           ReservationTaken, Create, CreateStarts, PlaceInstance, LaunchSucceeds, LaunchFails,
           TypesExhausted, CreateFails, ImageFails, CoreRetries, MarkExpires, Done

-----------------------------------------------------------------------------
(* The steps of the cache *)

\* markUnavailableOffering enters the key under which the failure is looked up, and
\* an entry that expires takes its failures with it.
LEMMA MarksStep ==
  ASSUME IInv, [Next]_vars
  PROVE  MarksMatch'
  <1>0. MarksMatch /\ scenario' = scenario
    BY CatalogStep DEF IInv
  <1>1. ASSUME NEW c \in Claims, LaunchFails(c) PROVE MarksMatch'
    <2> DEFINE t == cur[c].type
               cap == CapacityType(c, cur[c])
    <2>0. PICK pr \in props[c] : \E err :
            /\ marks' = marks \union (IF scenario.ttl THEN MarkOf(c, t, pr, cap, err) ELSE {})
            /\ failures' = IF Scoped(pr) \/ ~IsSkippableLaunchError(err) THEN failures
                  ELSE failures \union
                    {[config |-> ConfigOf(t), ad |-> pr.ad, cap |-> cap, err |-> err,
                      comp |-> IF err = "quota" THEN Class(c).comp ELSE ""]}
      BY <1>1 DEF LaunchFails
    <2>1. PICK err :
            /\ marks' = marks \union (IF scenario.ttl THEN MarkOf(c, t, pr, cap, err) ELSE {})
            /\ failures' = IF Scoped(pr) \/ ~IsSkippableLaunchError(err) THEN failures
                  ELSE failures \union
                    {[config |-> ConfigOf(t), ad |-> pr.ad, cap |-> cap, err |-> err,
                      comp |-> IF err = "quota" THEN Class(c).comp ELSE ""]}
      BY <2>0
    <2> DEFINE new == [config |-> ConfigOf(t), ad |-> pr.ad, cap |-> cap, err |-> err,
                       comp |-> IF err = "quota" THEN Class(c).comp ELSE ""]
    <2>2. KeyOf(new) = OfferingKey(t, pr.ad, cap, IF err = "quota" THEN Class(c).comp ELSE "")
      BY DEF KeyOf, OfferingKey
    <2> HIDE DEF t, cap
    <2>3. CASE Scoped(pr) \/ ~IsSkippableLaunchError(err)
      <3>1. marks' = marks /\ failures' = failures
        BY <2>1, <2>3 DEF MarkOf
      <3> QED BY <1>0, <3>1 DEF MarksMatch
    <2>4. CASE ~Scoped(pr) /\ IsSkippableLaunchError(err)
      <3>1. failures' = failures \union {new}
        BY <2>1, <2>4
      <3>2. MarkOf(c, t, pr, cap, err) = {KeyOf(new)}
        BY <2>2, <2>4 DEF MarkOf
      <3>3. marks' = marks \union (IF scenario.ttl THEN {KeyOf(new)} ELSE {})
        BY <2>1, <3>2
      <3> HIDE DEF new
      <3> QED BY <1>0, <3>1, <3>3 DEF MarksMatch
    <2> QED BY <2>3, <2>4
  <1>2. ASSUME NEW m \in marks, MarkExpires(m) PROVE MarksMatch'
    <2>1. marks' = marks \ {m} /\ failures' = {f \in failures : KeyOf(f) # m}
      BY <1>2 DEF MarkExpires, KeyOf
    <2> QED BY <1>0, <2>1 DEF MarksMatch
  <1>3. CASE UNCHANGED <<marks, failures>>
    BY <1>0, <1>3 DEF MarksMatch
  <1> QED
    BY <1>1, <1>2, <1>3
       DEF Next, Refresh, vars, catalogVars, SupplyChanges, RefreshShapesStarts, RefreshShapesPage,
           RefreshShapesLastPage, RefreshShapesFails, CatalogChanges, NodeMeasured, MeasurementExpires,
           ReloadConfigFile,
           RefreshClusterVersion, ReservationTaken, Create, CreateStarts, PlaceInstance,
           LaunchSucceeds, TypesExhausted, CreateFails, ImageFails, CoreRetries, Done

-----------------------------------------------------------------------------
(* All claims together *)

\* g is f, but for one claim.
ButFor(f, g, c) == g = f \/ \E e : g = [f EXCEPT ![c] = e]

\* Such a step leaves the other claims alone.
LEMMA ButForOne ==
  ASSUME NEW f, OfClaims(f), NEW c \in Claims, NEW g, ButFor(f, g, c)
  PROVE  OfClaims(g) /\ \A d \in Claims : d # c => g[d] = f[d]
  <1>1. CASE g = f
    BY <1>1
  <1>2. CASE \E e : g = [f EXCEPT ![c] = e]
    <2>1. PICK e : g = [f EXCEPT ![c] = e]
      BY <1>2
    <2> QED BY <2>1 DEF OfClaims
  <1> QED BY <1>1, <1>2 DEF ButFor

\* A step of Create writes the functions of the claims at its own claim.
LEMMA CreateWrites ==
  ASSUME NEW c \in Claims, Create(c) \/ CreateFails(c) \/ ImageFails(c) \/ CoreRetries(c)
  PROVE  /\ ButFor(pc, pc', c) /\ ButFor(todo, todo', c) /\ ButFor(props, props', c)
         /\ ButFor(cur, cur', c) /\ ButFor(launched, launched', c) /\ ButFor(offered, offered', c)
         /\ ButFor(seen, seen', c) /\ ButFor(tried, tried', c) /\ ButFor(skip, skip', c)
  <1> USE DEF ButFor
  <1>1. CASE CreateStarts(c)
    BY <1>1, Zenon DEF CreateStarts
  <1>2. CASE PlaceInstance(c)
    BY <1>2, Zenon DEF PlaceInstance
  <1>3. CASE LaunchSucceeds(c)
    BY <1>3, Zenon DEF LaunchSucceeds
  <1>4. CASE LaunchFails(c)
    BY <1>4, Zenon DEF LaunchFails
  <1>5. CASE TypesExhausted(c) \/ CreateFails(c)
    BY <1>5, Zenon DEF TypesExhausted, CreateFails
  <1>6. CASE ImageFails(c)
    BY <1>6, Zenon DEF ImageFails
  <1>7. CASE CoreRetries(c)
    BY <1>7, Zenon DEF CoreRetries
  <1> HIDE DEF ButFor
  <1> QED BY <1>1, <1>2, <1>3, <1>4, <1>5, <1>6, <1>7 DEF Create

\* Every step keeps every claim's part.
LEMMA ClaimsStep ==
  ASSUME IInv, [Next]_vars
  PROVE  ClaimFunctions' /\ \A c \in Active' : ClaimInv(c)'
  <1>0. scenario' = scenario /\ Active' = Active /\ Active \subseteq Claims /\ ClaimFunctions
    BY CatalogStep DEF Active, IInv
  <1>1. ASSUME NEW c \in Claims, Create(c) \/ CreateFails(c) \/ ImageFails(c) \/ CoreRetries(c)
        PROVE  ClaimFunctions' /\ \A d \in Active' : ClaimInv(d)'
    <2>1. /\ ClaimFunctions'
          /\ \A d \in Claims : d # c =>
               /\ pc'[d] = pc[d] /\ todo'[d] = todo[d] /\ props'[d] = props[d] /\ cur'[d] = cur[d]
               /\ launched'[d] = launched[d] /\ offered'[d] = offered[d] /\ seen'[d] = seen[d]
               /\ tried'[d] = tried[d]
      BY <1>0, <1>1, CreateWrites, ButForOne DEF ClaimFunctions
    <2>2. c \in Active => ClaimInv(c)'
      BY <1>1, StartStep, PlaceStep, LaunchStep, FailStep, ReturnStep, ImageStep DEF Create
    <2>3. ASSUME NEW d \in Active, d # c PROVE ClaimInv(d)'
      BY <1>0, <2>1, <2>3, OtherClaim DEF IInv
    <2> QED BY <1>0, <2>1, <2>2, <2>3
  <1>2. CASE UNCHANGED createVars
    <2>1. ClaimFunctions'
      BY <1>0, <1>2 DEF ClaimFunctions, OfClaims, createVars
    <2>2. ASSUME NEW d \in Active PROVE ClaimInv(d)'
      BY <1>0, <1>2, OtherClaim DEF createVars, IInv
    <2> QED BY <1>0, <2>1, <2>2
  <1> QED
    BY <1>1, <1>2
       DEF Next, Refresh, vars, catalogVars, SupplyChanges, RefreshShapesStarts, RefreshShapesPage,
           RefreshShapesLastPage, RefreshShapesFails, CatalogChanges, NodeMeasured, MeasurementExpires,
           ReloadConfigFile,
           RefreshClusterVersion, ReservationTaken, MarkExpires, Done

-----------------------------------------------------------------------------
(* The theorems *)

\* The initial states satisfy the invariant.
LEMMA InitIInv == Init => IInv
  <1> SUFFICES ASSUME Init PROVE IInv
    OBVIOUS
  <1>1. CatalogKnown
    BY DEF Init, CatalogKnown, NoMeta
  <1>2. ClaimFunctions
    BY DEF Init, ClaimFunctions, OfClaims
  <1>3. MarksMatch
    BY DEF Init, MarksMatch
  <1>4. RefreshSound
    <2>1. scenario.catalogs # <<>> /\ scenario.catalogs \in Seq([Ads -> Seq(SUBSET Names)])
      BY CatalogAssumption DEF Init, Names
    <2>2. 1 \in DOMAIN scenario.catalogs
      BY <2>1
    <2> QED BY <2>2 DEF Init, RefreshSound
  <1>5. \A c \in Active : ClaimInv(c)
    BY DEF Init, Active, ClaimInv
  <1> QED BY <1>1, <1>2, <1>3, <1>4, <1>5 DEF IInv

\* Every step preserves it.
LEMMA NextIInv == IInv /\ [Next]_vars => IInv'
  BY CatalogStep, ClaimsStep, MarksStep, RefreshStep DEF IInv

\* So it holds in every reachable state.
LEMMA IInvHolds == Spec => []IInv
  BY InitIInv, NextIInv, PTL DEF Spec

\* MarkUnavailable and IsUnavailable agree on the key: the cache suppresses an
\* offering only where that very offering failed for want of capacity, and by a quota
\* only in the compartment whose quota it was.
THEOREM SuppressedWhereItFailed == Spec => []SuppressedOnlyWhereItFailed
  <1>1. IInv => SuppressedOnlyWhereItFailed
    <2> SUFFICES ASSUME IInv, NEW c \in Active, NEW t \in Types(c), NEW ad \in Ads,
                        NEW cap \in {"spot", "on-demand"},
                        IsUnavailable(marks, Class(c), t, [ad |-> ad, cap |-> cap])
                 PROVE  \E f \in failures : Concerns(f, Class(c), t, ad, cap)
      BY DEF SuppressedOnlyWhereItFailed
    <2>1. PICK comp \in {"", Class(c).comp} : OfferingKey(t, ad, cap, comp) \in marks
      BY DEF IsUnavailable
    <2>2. PICK f \in failures : KeyOf(f) = OfferingKey(t, ad, cap, comp)
      BY <2>1 DEF IInv, MarksMatch
    <2> QED BY <2>1, <2>2 DEF KeyOf, OfferingKey, Concerns
  <1> QED BY <1>1, IInvHolds, PTL

\* A Create call does not launch again what had failed, and was remembered, when it
\* listed the offerings.
THEOREM FailuresRoutedAround == Spec => []RoutedAround
  <1>1. IInv => RoutedAround
    <2> SUFFICES ASSUME IInv, NEW c \in Active, scenario.ttl, pc[c] = "launching",
                        NEW pr \in props[c], pr.res = None, NEW f \in seen[c],
                        Concerns(f, Class(c), cur[c].type, pr.ad, CapacityType(c, cur[c]))
                 PROVE  FALSE
      BY DEF RoutedAround
    <2>1. CandidateSound(c, cur[c]) /\ \E o \in cur[c].offers : pr.ad = o.ad /\ pr.res = o.res
      BY DEF IInv, ClaimInv
    <2>2. PICK o \in cur[c].offers : pr.ad = o.ad /\ pr.res = o.res
      BY <2>1
    <2>3. OfferSound(c, cur[c].type, o)
      BY <2>1 DEF CandidateSound
    <2>4. o.cap # "reserved" /\ CapacityType(c, cur[c]) = o.cap
      BY <2>1, <2>2, <2>3, CapacityTypeFacts DEF OfferSound
    <2> QED BY <2>2, <2>3, <2>4 DEF OfferSound
  <1> QED BY <1>1, IInvHolds, PTL

\* Create gives a claim up, or launches it at a price, only after it has tried every
\* offering it listed, or every cheaper one.
THEOREM EveryOfferTried == Spec => []NothingSkipped
  <1>1. IInv => NothingSkipped
    BY DEF IInv, ClaimInv, NothingSkipped
  <1> QED BY <1>1, IInvHolds, PTL

\* The launched instance has the type, zone, capacity type, reservation and price of
\* one offering that was listed.
THEOREM LaunchIsAnOffer == Spec => []LaunchedAsOffered
  <1>1. IInv => LaunchedAsOffered
    BY DEF IInv, ClaimInv, LaunchedAsOffered
  <1> QED BY <1>1, IInvHolds, PTL

\* refreshShapes installs the whole catalogue of OCI, whatever pages it comes in, if
\* OCI's shapes stay and no token of another domain is sent.
THEOREM CatalogComplete == Spec => CatalogMatchesOci
  <1>1. ASSUME IInv, [Next]_vars, lister # None, shapeAdMap' # shapeAdMap, ~lister.stale,
               lister.version = version
        PROVE  shapeAdMap' = Complete(version)
    <2>1. RefreshShapesLastPage /\ lister.left = {}
      BY <1>1 DEF Next, Refresh, vars, catalogVars, SupplyChanges, RefreshShapesStarts, RefreshShapesPage,
           RefreshShapesLastPage, RefreshShapesFails, CatalogChanges, NodeMeasured, MeasurementExpires,
           ReloadConfigFile,
           RefreshClusterVersion, ReservationTaken, Create, CreateStarts, PlaceInstance, LaunchFails,
           LaunchSucceeds, TypesExhausted, CreateFails, ImageFails, CoreRetries, MarkExpires, Done
    <2>2. /\ shapeAdMap' = Listed(lister)
          /\ PageOf(lister) = Len(scenario.catalogs[version][lister.ad])
      BY <2>1 DEF RefreshShapesLastPage
    <2>3. scenario \in Scenarios /\ RefreshSound /\ lister \in Refreshing /\ lister.ad \in Ads
      BY <1>1 DEF IInv, CatalogKnown, RefreshSound, Refreshing
    <2>4. PageOf(lister) \in Nat \ {0}
      BY <2>3 DEF Refreshing, PageOf, Given
    <2>5. DOMAIN scenario.catalogs[version][lister.ad] = 1..PageOf(lister)
      BY <2>2, <2>3, Pages DEF RefreshSound
    <2>6. PageOf(lister) \in DOMAIN scenario.catalogs[version][lister.ad]
      BY <2>4, <2>5
    <2>7. ASSUME NEW n \in Names, NEW ad \in Ads
          PROVE  ad \in Listed(lister)[n] <=> ad \in Complete(version)[n]
      <3>1. \A i \in DOMAIN scenario.catalogs[version][lister.ad] : i < PageOf(lister) + 1
        BY <2>4, <2>5
      <3>2. ad \in Listed(lister)[n] <=>
              \E i \in DOMAIN scenario.catalogs[version][ad] :
                n \in scenario.catalogs[version][ad][i] /\ (ad = lister.ad => i < PageOf(lister) + 1)
        BY <1>1, <2>1, <2>3, <2>6, NextPage
      <3> QED BY <3>1, <3>2 DEF Complete
    <2>8. \A n \in Names : Listed(lister)[n] \subseteq Ads
      BY <2>3 DEF Listed, Refreshing
    <2>9. \A n \in Names : Listed(lister)[n] = Complete(version)[n]
      BY <2>7, <2>8 DEF Complete
    <2> QED BY <2>2, <2>9 DEF Listed, Complete
  <1>2. IInv /\ [Next]_vars =>
          [lister # None /\ shapeAdMap' # shapeAdMap /\ ~lister.stale /\ lister.version = version
             => shapeAdMap' = Complete(version)]_vars
    BY <1>1
  <1> QED BY <1>2, IInvHolds, PTL DEF Spec, CatalogMatchesOci

-----------------------------------------------------------------------------
(* Sizes *)

\* The bands of the reserved memory join.
LEMMA BandsJoin ==
  ASSUME NEW g \in Nat
  PROVE  KubeReservedMemory(g) = MarginalReserve(g)
  <1>1. CASE g <= 4000
    BY <1>1 DEF KubeReservedMemory, MarginalReserve, Least
  <1>2. CASE 4000 < g /\ g <= 8000
    <2>1. KubeReservedMemory(g) = 20 * (g - 4000) + 100000
      BY <1>2 DEF KubeReservedMemory
    <2> QED BY <1>2, <2>1 DEF MarginalReserve, Least
  <1>3. CASE 8000 < g /\ g <= 16000
    <2>1. KubeReservedMemory(g) = 10 * (g - 8000) + 180000
      BY <1>3 DEF KubeReservedMemory
    <2> QED BY <1>3, <2>1 DEF MarginalReserve, Least
  <1>4. CASE 16000 < g /\ g <= 128000
    <2>1. KubeReservedMemory(g) = 6 * (g - 16000) + 260000
      BY <1>4 DEF KubeReservedMemory
    <2> QED BY <1>4, <2>1 DEF MarginalReserve, Least
  <1>5. CASE g > 128000
    <2>1. KubeReservedMemory(g) = 2 * (g - 128000) + 932000
      BY <1>5 DEF KubeReservedMemory
    <2> QED BY <1>5, <2>1 DEF MarginalReserve, Least
  <1> QED BY <1>1, <1>2, <1>3, <1>4, <1>5

\* More memory, no smaller reserve.
LEMMA ReserveGrows ==
  ASSUME NEW g \in Nat, NEW h \in Nat, g <= h
  PROVE  KubeReservedMemory(g) <= KubeReservedMemory(h)
  <1>1. MarginalReserve(g) <= MarginalReserve(h)
    BY DEF MarginalReserve, Least
  <1> QED BY <1>1, BandsJoin

\* A share of some cores: rounded up, or rounded down on each of two sockets but for one
\* core there.
LEMMA SomeCores ==
  ASSUME NEW cores \in Nat \ {0}, NEW percent \in 1..100
  PROVE  /\ \E e \in 1..cores : /\ e = (cores * percent + 99) \div 100
                                /\ percent * cores <= 100 * e
                                /\ 100 * (e - 1) < percent * cores
         /\ cores >= 2 => \E m \in Nat \ {0} : /\ m = Most(1, (cores * percent) \div 200)
                                               /\ 2 * m <= cores
                                               /\ percent * cores < 200 * m + 200
                                               /\ m = 1 \/ 200 * m <= percent * cores
  <1>1. PICK x \in Nat : x = cores * percent
    OBVIOUS
  <1>2. cores <= x /\ x <= 100 * cores /\ percent * cores = x
    BY <1>1
  <1>3. LET e == (x + 99) \div 100
        IN  e \in 1..cores /\ x <= 100 * e /\ 100 * (e - 1) < x
    BY <1>2
  <1>4. cores >= 2 => LET m == Most(1, x \div 200)
                      IN  /\ m \in Nat \ {0} /\ 2 * m <= cores
                          /\ x < 200 * m + 200 /\ (m = 1 \/ 200 * m <= x)
    BY <1>2 DEF Most
  <1> QED BY <1>1, <1>2, <1>3, <1>4

\* An instance type has OCPUs and memory.
LEMMA TypeSizes ==
  ASSUME NEW c \in Active, NEW t \in Types(c)
  PROVE  /\ t.shape \in Shapes
         /\ Ocpu(t) \in Nat \ {0} /\ Gbs(t) \in Nat \ {0}
         /\ t.shape.sockets = 2 => Ocpu(t) >= 2
  <1>1. PICK s \in Shapes : t \in TypesOfShape(P, Class(c), s)
    BY DEF Types, ListInstanceTypes
  <1>2. CASE ~s.flexible
    BY <1>1, <1>2, SizeAssumption DEF TypesOfShape, Ocpu, Gbs, Given
  <1>3. CASE s.flexible
    <2>1. PICK cfg : /\ Fits(s, cfg)
                     /\ t = [shape |-> s, ocpu |-> cfg.ocpu, baseline |-> Factor(cfg),
                              gbs |-> Given(cfg.gbs, (cfg.ocpu * s.gbsPerOcpu) \div Factor(cfg))]
      BY <1>1, <1>3 DEF TypesOfShape
    <2>2. /\ {s.ocpuMin, s.gbsMin, s.gbsPerOcpu} \subseteq Nat \ {0}
          /\ {s.ocpuMax, s.gbsMax} \subseteq Nat /\ s.sockets # 2 /\ s.gbsPerOcpu % 8 = 0
      BY <1>3, SizeAssumption
    <2>3. cfg.ocpu \in Nat \ {0} /\ (cfg.gbs # None => cfg.gbs \in Nat \ {0})
      BY <2>1, <2>2 DEF Fits
    <2>4. Factor(cfg) \in {1, 2, 8} /\ Factor(cfg) <= s.gbsPerOcpu
      <3>1. Factor(cfg) \in {1, 2, 8}
        BY <1>3, <2>1, SizeAssumption DEF Fits
      <3>2. s.gbsPerOcpu >= 8
        BY <2>2
      <3> QED BY <2>2, <3>1, <3>2
    <2>5. (cfg.ocpu * s.gbsPerOcpu) \div Factor(cfg) \in Nat \ {0}
      <3>1. PICK x \in Nat : x = cfg.ocpu * s.gbsPerOcpu
        BY <2>2, <2>3
      <3>2. x >= s.gbsPerOcpu
        BY <2>2, <2>3, <3>1
      <3>3. x >= Factor(cfg)
        BY <2>2, <2>4, <3>2
      <3>4. x \div Factor(cfg) \in Nat \ {0}
        BY <2>4, <3>3
      <3> QED BY <3>1, <3>4
    <2>6. Given(cfg.gbs, (cfg.ocpu * s.gbsPerOcpu) \div Factor(cfg)) \in Nat \ {0}
      BY <2>3, <2>5 DEF Given
    <2>7. t.ocpu \in Nat \ {0} /\ t.gbs \in Nat \ {0} /\ t.shape = s
      BY <2>1, <2>3, <2>6
    <2> QED BY <2>2, <2>7, NoneAssumption DEF Ocpu, Gbs, Given
  <1> QED BY <1>2, <1>3

\* The share of the cores that a compatible shape is launched with is a percentage.
LEMMA PercentAllowed ==
  ASSUME NEW s \in Shapes, NEW k \in Classes, k.platform # <<>>, PlatformCompatible(s, k)
  PROVE  Effective(s, k, "percent") \in 1..100 \cup {None}
<1> DEFINE f == s.platform["percent"]
           asked == k.platform["percent"]
<1>1. s.platform # None /\ Capable(s, k)
  BY DEF PlatformCompatible
<1>2. "percent" \in DOMAIN k.platform
  <2>1. {"percent", "smt"} \subseteq DOMAIN k.platform
    BY SizeAssumption
  <2> QED BY <2>1
<1>3. f.allowed \cup {f.default} \subseteq 1..100 \cup {None}
  BY <1>1, PercentAssumption
<1>4. asked # None => asked \in f.allowed
  BY <1>1, <1>2 DEF Capable
<1>5. Effective(s, k, "percent") = Given(asked, f.default)
  BY DEF Effective
<1> HIDE DEF f, asked
<1> QED BY <1>3, <1>4, <1>5 DEF Given

\* The platform configuration leaves the cores it says.
LEMMA CoresLeft ==
  ASSUME CatalogKnown, NEW c \in Active, NEW t \in Types(c)
  PROVE  CoresSound(c, t)
  <1> DEFINE s == t.shape
             k == Class(c)
             n == Ocpu(t)
             on == k.platform # <<>> /\ PlatformCompatible(s, k)
             asked(f) == IF on THEN Effective(s, k, f) ELSE None
             per == asked("percent")
             percent == Given(per, 100)
             smt == asked("smt")
             threads == IF s.arm \/ smt = FALSE THEN 1 ELSE 2
             most == IF s.arm THEN 1 ELSE 2
             cores == IF s.arm /\ s.name \notin meta.oneVcpu THEN 2 * n ELSE n
             base == IF s.name \in P.oneVcpu THEN n ELSE 2 * n
             enabled == IF per = None THEN cores
                        ELSE IF s.sockets = 2 THEN 2 * Most(1, (cores * per) \div 200)
                        ELSE (cores * per + 99) \div 100
  <1>1. /\ s \in Shapes /\ n \in Nat \ {0} /\ (s.sockets = 2 => n >= 2)
    BY TypeSizes
  <1>2. k \in Classes
    BY DEF Class, Want, Active, Classes, CatalogKnown
  <1>3. s.name \in meta.oneVcpu => s.arm
    BY <1>1, SizeAssumption DEF CatalogKnown
  <1>4. per \in 1..100 \cup {None}
    <2>1. CASE on
      <3>1. per = Effective(s, k, "percent")
        BY <2>1
      <3> QED
        <4> HIDE DEF s, k, per
        <4> QED BY <1>1, <1>2, <2>1, <3>1, PercentAllowed
    <2> QED BY <2>1
  <1>5. /\ cores \in Nat \ {0} /\ (s.sockets = 2 => cores >= 2)
        /\ base = most * cores /\ base \div most = cores
    BY <1>1, <1>3 DEF P
  <1>6. Vcpu(P, k, t) = threads * enabled
    <2>1. enabled \in Int
      <3> HIDE DEF per, cores, s
      <3>1. CASE per = None
        BY <1>5, <3>1
      <3>2. CASE per \in 1..100 /\ per # None
        <4>1. PICK x \in Int : x = cores * per
          BY <1>5, <3>2
        <4> QED BY <3>2, <4>1 DEF Most
      <3> QED BY <1>4, <3>1, <3>2
    <2>2. CASE ~on \/ (per = None /\ smt = None)
      <3>1. Vcpu(P, k, t) = base
        BY <2>2 DEF Vcpu, AdjustedVcpu
      <3>2. per = None /\ threads = most
        BY <2>2, NoneAssumption
      <3>3. enabled = cores
        BY <3>2
      <3> HIDE DEF base, threads, most, enabled, cores
      <3> QED BY <1>5, <3>1, <3>2, <3>3
    <2>3. CASE on /\ ~(per = None /\ smt = None)
      <3>1. Vcpu(P, k, t) = AdjustedVcpu(s, k, base)
        BY <2>3 DEF Vcpu
      <3>2. per = Effective(s, k, "percent") /\ smt = Effective(s, k, "smt")
        BY <2>3
      <3>3. threads = IF ~s.arm /\ smt = FALSE THEN 1 ELSE most
        OBVIOUS
      <3>4. AdjustedVcpu(s, k, base) = enabled * threads
        <4> HIDE DEF base, per, smt, s, k
        <4> QED BY <1>5, <2>3, <3>2, <3>3 DEF AdjustedVcpu, enabled
      <3>5. threads \in Int
        OBVIOUS
      <3> HIDE DEF enabled, threads
      <3> QED BY <2>1, <3>1, <3>4, <3>5
    <2> QED BY <2>2, <2>3
  <1>7. /\ enabled \in 1..cores
        /\ s.sockets # 2 => /\ percent * cores <= 100 * enabled
                            /\ 100 * (enabled - 1) < percent * cores
        /\ s.sockets = 2 => /\ percent * cores < 100 * (enabled + 2)
                            /\ enabled = 2 \/ 100 * enabled <= percent * cores
    <2> HIDE DEF per, cores, s
    <2>1. CASE per = None
      <3>1. percent = 100 /\ enabled = cores
        BY <2>1 DEF Given
      <3> HIDE DEF percent, enabled
      <3> QED BY <1>5, <3>1
    <2>2. CASE per \in 1..100 /\ per # None
      <3>1. percent = per
        BY <2>2 DEF Given
      <3>2. CASE s.sockets = 2
        <4>1. cores >= 2
          BY <1>5, <3>2
        <4>2. PICK m \in Nat \ {0} : /\ m = Most(1, (cores * per) \div 200)
                                     /\ 2 * m <= cores
                                     /\ per * cores < 200 * m + 200
                                     /\ m = 1 \/ 200 * m <= per * cores
          BY <1>5, <2>2, <4>1, SomeCores
        <4>3. enabled = 2 * m
          BY <2>2, <3>2, <4>2
        <4> HIDE DEF enabled, percent
        <4> QED BY <3>1, <3>2, <4>2, <4>3
      <3>3. CASE s.sockets # 2
        <4>1. enabled = (cores * per + 99) \div 100
          BY <2>2, <3>3
        <4>2. PICK e \in 1..cores : /\ e = (cores * per + 99) \div 100
                                   /\ per * cores <= 100 * e
                                   /\ 100 * (e - 1) < per * cores
          BY <1>5, <2>2, SomeCores
        <4> HIDE DEF enabled, percent
        <4> QED BY <3>1, <3>3, <4>1, <4>2
      <3> QED BY <3>2, <3>3
    <2> QED BY <1>4, <2>1, <2>2
  <1>8. CoresSound(c, t) <=>
          \E e \in 1..cores :
            /\ Vcpu(P, k, t) = threads * e
            /\ s.sockets # 2 => percent * cores <= 100 * e /\ 100 * (e - 1) < percent * cores
            /\ s.sockets = 2 => /\ percent * cores < 100 * (e + 2)
                                /\ e = 2 \/ 100 * e <= percent * cores
    BY DEF CoresSound
  <1> HIDE DEF enabled, threads, percent, cores, s, k
  <1> QED BY <1>6, <1>7, <1>8

\* The memory a type is taken to have is within what it declares.
LEMMA MemoryWithin ==
  ASSUME CatalogKnown, NEW c \in Active, NEW t \in Types(c)
  PROVE  /\ MemorySound(t)
         /\ MemoryCapacity(P, t) \in Nat
         /\ NoNamesake(t) => 1000 * MemoryCapacity(P, t) <= 1024 * Gbs(t)
  <1> DEFINE g == Gbs(t)
             declared == (1024 * g) \div 1000
             overhead == 600 + (19 * g + 999) \div 1000
             own == {x \in measured : x.name = NameOf(t)}
  <1>1. g \in Nat \ {0}
    BY TypeSizes
  <1>2. MemoryMiB(t) = IF t.shape.bm THEN declared ELSE Most(1, declared - overhead)
    BY DEF MemoryMiB
  <1> HIDE DEF g
  <1>3. /\ declared \in Nat /\ 1000 * declared <= 1024 * g
        /\ overhead \in Nat /\ 600000 + 19 * g <= 1000 * overhead
    BY <1>1
  <1> HIDE DEF declared, overhead
  <1>4. MemoryMiB(t) \in Nat /\ 1000 * MemoryMiB(t) <= 1024 * g
    BY <1>1, <1>2, <1>3 DEF Most
  <1>5. ~t.shape.bm /\ MemoryMiB(t) > 1 => 1000 * MemoryMiB(t) + (600000 + 19 * g) <= 1024 * g
    BY <1>1, <1>2, <1>3 DEF Most
  <1>6. /\ MemoryCapacity(P, t) \in Nat
        /\ NoNamesake(t) => 1000 * MemoryCapacity(P, t) <= 1024 * g
    <2>1. CASE own = {}
      BY <1>4, <2>1 DEF MemoryCapacity, P
    <2>2. CASE own # {}
      <3>1. PICK x \in own : MemoryCapacity(P, t) = x.mib
        BY <2>2 DEF MemoryCapacity, P
      <3>2. x \in measured /\ x.name = NameOf(t)
        BY <3>1
      <3>3. {x.gbs, x.mib} \subseteq Nat /\ 1000 * x.mib <= 1024 * x.gbs
        BY <3>2, SizeAssumption DEF CatalogKnown
      <3>4. NoNamesake(t) => x.gbs <= g
        BY <3>2 DEF NoNamesake, g
      <3> QED BY <1>1, <3>1, <3>3, <3>4
    <2> QED BY <2>1, <2>2
  <1> QED BY <1>5, <1>6 DEF MemorySound, g

\* The sizes the scheduler relies on (memoryCapacityMiB, the measurement that overrides
\* it, kubeReservedResources, adjustVCPUForPlatformConfig) are sound for every shape,
\* class, configuration and measurement, fractions of a GB included.
THEOREM SizesAreSound == Spec => []SizesSound
  <1>1. ASSUME IInv PROVE SizesSound
    <2> SUFFICES ASSUME NEW c \in Active, NEW t \in Types(c)
                 PROVE  MemorySound(t) /\ ReserveSound(t) /\ CoresSound(c, t)
      BY DEF SizesSound
    <2>1. CatalogKnown
      BY <1>1 DEF IInv
    <2>2. Gbs(t) \in Nat
      BY TypeSizes
    <2>3. /\ MemorySound(t) /\ MemoryCapacity(P, t) \in Nat
          /\ NoNamesake(t) => 1000 * MemoryCapacity(P, t) <= 1024 * Gbs(t)
      BY <2>1, MemoryWithin
    <2>4. ReserveSound(t)
      <3>1. (1000 * MemoryCapacity(P, t)) \div 1024 \in Nat
        BY <2>3
      <3>2. NoNamesake(t) => (1000 * MemoryCapacity(P, t)) \div 1024 <= Gbs(t)
        BY <2>2, <2>3
      <3> QED BY <2>2, <3>1, <3>2, BandsJoin, ReserveGrows DEF ReserveSound
    <2> QED BY <2>1, <2>3, <2>4, CoresLeft
  <1> QED BY <1>1, IInvHolds, PTL

=============================================================================
