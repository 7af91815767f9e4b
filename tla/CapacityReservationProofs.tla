--------------------- MODULE CapacityReservationProofs ----------------------
(***************************************************************************)
(* Proofs about the usage of a capacity reservation, for any number of     *)
(* resolvers, launches and Usage objects.                                  *)
(***************************************************************************)
EXTENDS CapacityReservation, FiniteSetTheorems, TLAPS

-----------------------------------------------------------------------------
(* The inductive invariant *)

Occupying == {l \in Launches : phase[l] \in {"consuming", "marked"}}

\* OCI counts the launches that occupy a place; the clock counts the marks; a launch
\* is marked once, and released once.
CountsRight ==
  /\ used = Cardinality(Occupying)
  /\ clock = Cardinality(MarkedSince(0)) + Cardinality(ReleasedSince(0))
  /\ \A l \in Launches :
       /\ markedAt[l] <= clock /\ releasedAt[l] <= clock
       /\ phase[l] \in {"new", "consuming"} => markedAt[l] = 0
       /\ phase[l] # "released" => releasedAt[l] = 0
       /\ target[l] # None => phase[l] \in {"consuming", "freed"}

\* A resolver has a record in hand where it needs one, and no record is of the
\* future.
RecordsPast ==
  /\ capRes # None => capRes.time <= clock
  /\ sel # None => sel.time <= clock
  /\ \A r \in Resolvers : rec[r] # None => rec[r].time <= clock
  /\ \A r \in Resolvers : pc[r] \in {"hit", "answered", "reset", "keep", "adjust"} => rec[r] \in Record

\* A filter is being resolved by one caller at most, and only while its list is not
\* cached; a list that is being made is of a filter.
Loading(r) == path[r] = "filter" /\ pc[r] \in {"get", "hit", "answered", "reset", "keep"}

OneLoader ==
  /\ \A r \in Resolvers : Loading(r) => sel = None
  /\ \A r, q \in Resolvers : Loading(r) /\ Loading(q) => r = q
  /\ \A r \in Resolvers : pc[r] = "keep" => path[r] = "filter"

\* The marks made since t are the ones the present Usage object counts.
Counted(t) ==
  IF usageMap = None THEN MarkedSince(t) = {} /\ ReleasedSince(t) = {}
  ELSE /\ count[usageMap] = Cardinality(MarkedSince(t)) - Cardinality(ReleasedSince(t))
       /\ \A l \in Launches :
            /\ markedAt[l] > t => markedAt[l] <= lastCommit[usageMap]
            /\ releasedAt[l] > t => releasedAt[l] <= lastCommit[usageMap]

\* A load is between its answer and the reset of the usage: nothing has been marked
\* since, so that the reset loses no mark made after the load.
Resetting == \E r \in Resolvers : pc[r] = "reset"

AllCounted ==
  ~raced =>
    /\ \A r \in Resolvers : pc[r] = "reset" => rec[r].time = clock
    /\ capRes # None => IF Resetting THEN capRes.time = clock ELSE Counted(capRes.time)
    /\ sel # None => Counted(sel.time)
    /\ \A r \in Resolvers : path[r] = "filter" =>
         /\ pc[r] = "hit" => Counted(rec[r].time) \/ (Resetting /\ rec[r].time = clock)
         /\ pc[r] = "keep" => Counted(rec[r].time)

IInv == TypeOK /\ CountsRight /\ RecordsPast /\ OneLoader /\ AllCounted

-----------------------------------------------------------------------------
(* Counting *)

\* Sets of launches are finite.
LEMMA LaunchSets ==
  ASSUME NEW S \in SUBSET Launches
  PROVE  /\ IsFiniteSet(S) /\ Cardinality(S) \in Nat /\ Cardinality(Launches) \in Nat
         /\ Cardinality(S) <= Cardinality(Launches)
  BY ReservationAssumption, FS_Subset, FS_CardinalityType

\* One launch more.
LEMMA OneMore ==
  ASSUME NEW S \in SUBSET Launches, NEW l \in Launches, l \notin S
  PROVE  Cardinality(S \cup {l}) = Cardinality(S) + 1
  BY LaunchSets, FS_AddElement

\* And one less.
LEMMA OneLess ==
  ASSUME NEW S \in SUBSET Launches, NEW l \in S
  PROVE  Cardinality(S \ {l}) = Cardinality(S) - 1
  BY LaunchSets, FS_RemoveElement

\* Times are natural numbers.
LEMMA Times == Time \subseteq Nat /\ 0 \in Time
  <1>1. Cardinality(Launches) \in Nat
    BY LaunchSets
  <1> QED BY <1>1 DEF Time

\* A mark, seen from an earlier point in time.
LEMMA Marked ==
  ASSUME IInv, NEW l \in Launches, Adjust(l), NEW t \in Nat, t <= clock
  PROVE  \/ /\ phase[l] = "consuming"
            /\ MarkedSince(t)' = MarkedSince(t) \cup {l} /\ l \notin MarkedSince(t)
            /\ ReleasedSince(t)' = ReleasedSince(t)
         \/ /\ phase[l] = "freed"
            /\ ReleasedSince(t)' = ReleasedSince(t) \cup {l} /\ l \notin ReleasedSince(t)
            /\ MarkedSince(t)' = MarkedSince(t)
  <1>1. /\ clock \in Nat /\ clock' = clock + 1 /\ clock + 1 > t
        /\ markedAt \in [Launches -> Time] /\ releasedAt \in [Launches -> Time]
    BY Times DEF IInv, TypeOK, Adjust
  <1>2. CASE phase[l] = "consuming"
    <2>1. markedAt[l] = 0 /\ markedAt' = [markedAt EXCEPT ![l] = clock + 1] /\ UNCHANGED releasedAt
      BY <1>1, <1>2 DEF Adjust, IInv, CountsRight
    <2>2. ~(markedAt[l] > t) /\ markedAt'[l] > t /\ \A m \in Launches : m # l => markedAt'[m] = markedAt[m]
      BY <1>1, <2>1
    <2> QED BY <1>2, <2>1, <2>2 DEF MarkedSince, ReleasedSince
  <1>3. CASE phase[l] = "freed"
    <2>1. releasedAt[l] = 0 /\ releasedAt' = [releasedAt EXCEPT ![l] = clock + 1] /\ UNCHANGED markedAt
      BY <1>1, <1>3 DEF Adjust, IInv, CountsRight
    <2>2. ~(releasedAt[l] > t) /\ releasedAt'[l] > t /\ \A m \in Launches : m # l => releasedAt'[m] = releasedAt[m]
      BY <1>1, <2>1
    <2> QED BY <1>3, <2>1, <2>2 DEF MarkedSince, ReleasedSince
  <1> QED BY <1>2, <1>3 DEF Adjust

\* The counts go on being right, and the clock stays within its bound.
LEMMA CountStep ==
  ASSUME IInv, [Next]_vars
  PROVE  CountsRight' /\ clock' \in Time /\ used' \in 0..Total
  <1>0. /\ TypeOK /\ CountsRight /\ clock \in Nat /\ Total \in Nat
    BY Times, ReservationAssumption DEF IInv, TypeOK
  <1>1. ASSUME NEW l \in Launches, Consume(l)
        PROVE  CountsRight' /\ clock' \in Time /\ used' \in 0..Total
    <2>1. phase'[l] = "consuming" /\ \A m \in Launches : m # l => phase'[m] = phase[m]
      BY <1>0, <1>1 DEF Consume, TypeOK
    <2>2. Occupying' = Occupying \cup {l} /\ l \notin Occupying /\ Occupying \subseteq Launches
      BY <1>1, <2>1 DEF Occupying, Consume
    <2>3. used' = Cardinality(Occupying')
      BY <1>0, <1>1, <2>2, OneMore DEF Consume, CountsRight
    <2>4. used' \in 0..Total
      BY <1>0, <1>1 DEF Consume, TypeOK
    <2>5. UNCHANGED <<markedAt, releasedAt, clock, target>>
      BY <1>1 DEF Consume, markVars
    <2>6. clock' = Cardinality(MarkedSince(0)') + Cardinality(ReleasedSince(0)')
      BY <1>0, <2>5 DEF CountsRight, MarkedSince, ReleasedSince
    <2>7. ASSUME NEW m \in Launches
          PROVE  /\ markedAt'[m] <= clock' /\ releasedAt'[m] <= clock'
                 /\ phase'[m] \in {"new", "consuming"} => markedAt'[m] = 0
                 /\ phase'[m] # "released" => releasedAt'[m] = 0
                 /\ target'[m] # None => phase'[m] \in {"consuming", "freed"}
      BY <1>0, <1>1, <2>1, <2>5 DEF CountsRight, Consume
    <2> QED BY <1>0, <2>3, <2>4, <2>5, <2>6, <2>7 DEF CountsRight, TypeOK
  <1>2. ASSUME NEW l \in Launches, Free(l)
        PROVE  CountsRight' /\ clock' \in Time /\ used' \in 0..Total
    <2>1. phase'[l] = "freed" /\ \A m \in Launches : m # l => phase'[m] = phase[m]
      BY <1>0, <1>2 DEF Free, TypeOK
    <2>2. Occupying' = Occupying \ {l} /\ l \in Occupying /\ Occupying \subseteq Launches
      BY <1>2, <2>1 DEF Occupying, Free
    <2>3. used' = Cardinality(Occupying')
      BY <1>0, <1>2, <2>2, OneLess DEF Free, CountsRight
    <2>4. used' \in 0..Total
      <3>1. Cardinality(Occupying') \in Nat
        BY <2>2, LaunchSets
      <3> QED BY <1>0, <1>2, <2>3, <3>1 DEF Free, TypeOK
    <2>5. UNCHANGED <<markedAt, releasedAt, clock, target>>
      BY <1>2 DEF Free, markVars
    <2>6. clock' = Cardinality(MarkedSince(0)') + Cardinality(ReleasedSince(0)')
      BY <1>0, <2>5 DEF CountsRight, MarkedSince, ReleasedSince
    <2>7. ASSUME NEW m \in Launches
          PROVE  /\ markedAt'[m] <= clock' /\ releasedAt'[m] <= clock'
                 /\ phase'[m] \in {"new", "consuming"} => markedAt'[m] = 0
                 /\ phase'[m] # "released" => releasedAt'[m] = 0
                 /\ target'[m] # None => phase'[m] \in {"consuming", "freed"}
      BY <1>0, <1>2, <2>1, <2>5 DEF CountsRight, Free
    <2> QED BY <1>0, <2>3, <2>4, <2>5, <2>6, <2>7 DEF CountsRight, TypeOK
  <1>3. ASSUME NEW l \in Launches, GetOrCreateUsage(l)
        PROVE  CountsRight' /\ clock' \in Time /\ used' \in 0..Total
    <2>1. UNCHANGED <<used, phase, markedAt, releasedAt, clock>> /\ phase[l] \in {"consuming", "freed"}
      BY <1>3 DEF GetOrCreateUsage, ociVars
    <2>2. \A m \in Launches : m # l => target'[m] = target[m]
      BY <1>0, <1>3 DEF GetOrCreateUsage, TypeOK
    <2>3. Occupying' = Occupying /\ MarkedSince(0)' = MarkedSince(0) /\ ReleasedSince(0)' = ReleasedSince(0)
      BY <2>1 DEF Occupying, MarkedSince, ReleasedSince
    <2> QED BY <1>0, <2>1, <2>2, <2>3 DEF CountsRight, TypeOK
  <1>4. ASSUME NEW l \in Launches, Adjust(l)
        PROVE  CountsRight' /\ clock' \in Time /\ used' \in 0..Total
    <2>1. clock' = clock + 1 /\ used' = used /\ target'[l] = None
          /\ \A m \in Launches : m # l => target'[m] = target[m] /\ phase'[m] = phase[m]
      BY <1>0, <1>4 DEF Adjust, TypeOK
    <2>2. Occupying' = Occupying
      <3>1. CASE phase[l] = "consuming"
        <4>1. phase'[l] = "marked"
          BY <1>0, <1>4, <3>1 DEF Adjust, TypeOK
        <4> QED BY <2>1, <3>1, <4>1 DEF Occupying
      <3>2. CASE phase[l] = "freed"
        <4>1. phase'[l] = "released"
          BY <1>0, <1>4, <3>2 DEF Adjust, TypeOK
        <4> QED BY <2>1, <3>2, <4>1 DEF Occupying
      <3> QED BY <1>4, <3>1, <3>2 DEF Adjust
    <2>3. clock' = Cardinality(MarkedSince(0)') + Cardinality(ReleasedSince(0)')
      <3> DEFINE M == MarkedSince(0)
                 R == ReleasedSince(0)
      <3>1. M \in SUBSET Launches /\ R \in SUBSET Launches
        BY DEF MarkedSince, ReleasedSince
      <3>2. \/ M' = M \cup {l} /\ l \notin M /\ R' = R
            \/ R' = R \cup {l} /\ l \notin R /\ M' = M
        BY <1>0, <1>4, Marked
      <3>3. clock = Cardinality(M) + Cardinality(R) /\ Cardinality(M) \in Nat /\ Cardinality(R) \in Nat
        BY <1>0, <3>1, LaunchSets DEF CountsRight
      <3> HIDE DEF M, R
      <3>4. \/ Cardinality(M') = Cardinality(M) + 1 /\ R' = R
            \/ Cardinality(R') = Cardinality(R) + 1 /\ M' = M
        BY <3>1, <3>2, OneMore
      <3>5. clock' = Cardinality(M') + Cardinality(R')
        BY <2>1, <3>3, <3>4
      <3> QED BY <3>5 DEF M, R
    <2>4. clock' \in Time
      <3>1. MarkedSince(0)' \in SUBSET Launches /\ ReleasedSince(0)' \in SUBSET Launches
        BY DEF MarkedSince, ReleasedSince
      <3>2. /\ Cardinality(MarkedSince(0)') <= Cardinality(Launches)
            /\ Cardinality(ReleasedSince(0)') <= Cardinality(Launches)
            /\ Cardinality(MarkedSince(0)') \in Nat /\ Cardinality(ReleasedSince(0)') \in Nat
            /\ Cardinality(Launches) \in Nat
        BY <3>1, LaunchSets
      <3> QED BY <2>3, <3>2 DEF Time
    <2>5. ASSUME NEW m \in Launches
          PROVE  /\ markedAt'[m] <= clock' /\ releasedAt'[m] <= clock'
                 /\ phase'[m] \in {"new", "consuming"} => markedAt'[m] = 0
                 /\ phase'[m] # "released" => releasedAt'[m] = 0
                 /\ target'[m] # None => phase'[m] \in {"consuming", "freed"}
      <3>1. markedAt[m] \in Nat /\ releasedAt[m] \in Nat
        BY <1>0, Times DEF TypeOK
      <3>2. CASE m # l
        <4>1. markedAt'[m] = markedAt[m] /\ releasedAt'[m] = releasedAt[m]
          BY <1>0, <1>4, <3>2 DEF Adjust, TypeOK
        <4> QED BY <1>0, <2>1, <3>1, <3>2, <4>1 DEF CountsRight
      <3>3. CASE m = l /\ phase[l] = "consuming"
        <4>1. markedAt'[l] = clock' /\ releasedAt'[l] = releasedAt[l] /\ phase'[l] = "marked"
          BY <1>0, <1>4, <3>3 DEF Adjust, TypeOK
        <4> QED BY <1>0, <2>1, <3>1, <3>3, <4>1 DEF CountsRight
      <3>4. CASE m = l /\ phase[l] = "freed"
        <4>1. releasedAt'[l] = clock' /\ markedAt'[l] = markedAt[l] /\ phase'[l] = "released"
          BY <1>0, <1>4, <3>4 DEF Adjust, TypeOK
        <4> QED BY <1>0, <2>1, <3>1, <3>4, <4>1 DEF CountsRight
      <3> QED BY <1>4, <3>2, <3>3, <3>4 DEF Adjust
    <2> QED BY <1>0, <2>1, <2>2, <2>3, <2>4, <2>5 DEF CountsRight, TypeOK
  <1>5. CASE UNCHANGED <<used, phase, markedAt, releasedAt, clock, target>>
    <2>1. Occupying' = Occupying /\ MarkedSince(0)' = MarkedSince(0) /\ ReleasedSince(0)' = ReleasedSince(0)
      BY <1>5 DEF Occupying, MarkedSince, ReleasedSince
    <2> QED BY <1>0, <1>5, <2>1 DEF CountsRight, TypeOK
  <1> QED
    BY <1>1, <1>2, <1>3, <1>4, <1>5
       DEF Next, vars, ociVars, markVars, Resolve, ResolveById, SelectorHit, SelectorMiss, GetCached,
           GetAnswered, GetStored, ResetUsage, KeepSelection, ResolveReturns, ExpireCapRes, ExpireSelection

-----------------------------------------------------------------------------
(* The other parts of the invariant *)

\* What OCI counts, and when, makes a record.
LEMMA RecordOf ==
  ASSUME TypeOK
  PROVE  /\ [used |-> used, time |-> clock] \in Record
         /\ \A x \in Record : [x EXCEPT !.time = clock] \in Record
         /\ \A x \in Record : x.time \in Nat /\ x # None
  BY Times, NoneAssumption DEF TypeOK, Record

\* A step keeps the types.
LEMMA TypeStep ==
  ASSUME IInv, [Next]_vars
  PROVE  TypeOK'
  <1>0. TypeOK /\ CountsRight /\ RecordsPast
    BY DEF IInv
  <1>1. clock' \in Time /\ used' \in 0..Total
    BY CountStep
  <1>2. ASSUME NEW l \in Launches, Consume(l)
        PROVE  TypeOK'
    BY <1>0, <1>1, <1>2 DEF TypeOK, Phase, Consume, markVars, cacheVars, usageVars, resolveVars
  <1>3. ASSUME NEW l \in Launches, Free(l)
        PROVE  TypeOK'
    BY <1>0, <1>1, <1>3 DEF TypeOK, Phase, Free, markVars, cacheVars, usageVars, resolveVars
  <1>4. ASSUME NEW l \in Launches, GetOrCreateUsage(l)
        PROVE  TypeOK'
    BY <1>0, <1>1, <1>4 DEF TypeOK, Phase, GetOrCreateUsage, ociVars, cacheVars, usageVars, resolveVars
  <1>5. ASSUME NEW l \in Launches, Adjust(l)
        PROVE  TypeOK'
    <2>1. target[l] \in Usages /\ count[target[l]] \in Int
      BY <1>0, <1>5 DEF TypeOK, Adjust
    <2>2. count' \in [Usages -> Int]
      BY <1>0, <1>5, <2>1 DEF TypeOK, Adjust
    <2>3. phase' \in [Launches -> Phase] /\ lastCommit' \in [Usages -> Time] /\ target' \in [Launches -> Usages \cup {None}]
      BY <1>0, <1>1, <1>5, <2>1 DEF TypeOK, Adjust, Phase
    <2>4. markedAt' \in [Launches -> Time] /\ releasedAt' \in [Launches -> Time]
      BY <1>0, <1>1, <1>5 DEF TypeOK, Adjust
    <2>5. raced' \in BOOLEAN
      BY <1>0, <1>5, Zenon DEF TypeOK, Adjust
    <2> QED BY <1>0, <1>1, <1>5, <2>2, <2>3, <2>4, <2>5 DEF TypeOK, Adjust, cacheVars, resolveVars
  <1>6. ASSUME NEW r \in Resolvers, Resolve(r)
        PROVE  TypeOK'
    <2>1. CASE GetAnswered(r)
      BY <1>0, <1>1, <2>1, RecordOf DEF TypeOK, GetAnswered, ociVars, markVars, cacheVars, usageVars
    <2>2. CASE GetStored(r)
      <3>1. rec[r] \in Record
        BY <1>0, <2>2 DEF RecordsPast, GetStored
      <3>2. rec' \in [Resolvers -> Record \cup {None}] /\ rec'[r] \in Record
        BY <1>0, <2>2, <3>1, RecordOf DEF TypeOK, GetStored
      <3> QED BY <1>0, <1>1, <2>2, <3>2 DEF TypeOK, GetStored, ociVars, markVars, usageVars
    <2>3. CASE ResetUsage(r)
      <3>1. raced' \in BOOLEAN
        BY <1>0, <2>3, Zenon DEF TypeOK, ResetUsage
      <3> QED BY <1>0, <1>1, <2>3, <3>1 DEF TypeOK, ResetUsage, ociVars, markVars, cacheVars
    <2>4. CASE ResolveById(r) \/ SelectorHit(r) \/ SelectorMiss(r)
      BY <1>0, <1>1, <2>4 DEF TypeOK, ResolveById, SelectorHit, SelectorMiss, ociVars, markVars, cacheVars, usageVars
    <2>5. CASE GetCached(r) \/ KeepSelection(r) \/ ResolveReturns(r)
      BY <1>0, <1>1, <2>5 DEF TypeOK, GetCached, KeepSelection, ResolveReturns, ociVars, markVars, cacheVars, usageVars
    <2> QED BY <1>6, <2>1, <2>2, <2>3, <2>4, <2>5 DEF Resolve
  <1>7. CASE ExpireCapRes \/ ExpireSelection \/ UNCHANGED vars
    BY <1>0, <1>1, <1>7 DEF TypeOK, ExpireCapRes, ExpireSelection, vars, ociVars, markVars, cacheVars, usageVars, resolveVars
  <1> QED BY <1>2, <1>3, <1>4, <1>5, <1>6, <1>7 DEF Next

\* A step keeps records in the past and in the hands of those who need them.
LEMMA PastStep ==
  ASSUME IInv, [Next]_vars
  PROVE  RecordsPast'
  <1>0. TypeOK /\ RecordsPast /\ clock \in Nat
    BY Times DEF IInv, TypeOK
  <1>1. ASSUME NEW x \in Record, x.time <= clock
        PROVE  x.time <= clock + 1
    BY <1>0, <1>1, RecordOf
  <1>2. CASE UNCHANGED <<capRes, sel, pc, rec>> /\ clock' \in {clock, clock + 1}
    BY <1>0, <1>1, <1>2 DEF RecordsPast, TypeOK
  <1>3. ASSUME NEW r \in Resolvers, Resolve(r)
        PROVE  RecordsPast'
    <2>0. clock' = clock
      BY <1>3 DEF Resolve, ResolveById, SelectorHit, SelectorMiss, GetCached,
           GetAnswered, GetStored, ResetUsage, KeepSelection, ResolveReturns, markVars
    <2>1. CASE GetAnswered(r)
      BY <1>0, <2>0, <2>1, RecordOf DEF RecordsPast, TypeOK, GetAnswered, cacheVars
    <2>2. CASE GetStored(r)
      <3>1. rec[r] \in Record
        BY <1>0, <2>2 DEF RecordsPast, GetStored
      <3>2. rec'[r] \in Record /\ rec'[r].time = clock /\ \A q \in Resolvers : q # r => rec'[q] = rec[q]
        <4>1. rec'[r] = [rec[r] EXCEPT !.time = clock] /\ \A q \in Resolvers : q # r => rec'[q] = rec[q]
          BY <1>0, <2>2 DEF TypeOK, GetStored
        <4> QED BY <1>0, <3>1, <4>1, RecordOf DEF Record
      <3> QED BY <1>0, <2>0, <2>2, <3>2 DEF RecordsPast, TypeOK, GetStored
    <2>3. CASE ResetUsage(r)
      BY <1>0, <2>0, <2>3 DEF RecordsPast, TypeOK, ResetUsage, cacheVars
    <2>4. CASE ResolveById(r) \/ SelectorMiss(r) \/ ResolveReturns(r)
      BY <1>0, <2>0, <2>4 DEF RecordsPast, TypeOK, ResolveById, SelectorMiss, ResolveReturns, cacheVars
    <2>5. CASE GetCached(r) \/ KeepSelection(r) \/ SelectorHit(r)
      BY <1>0, <2>0, <2>5 DEF RecordsPast, TypeOK, GetCached, KeepSelection, SelectorHit, cacheVars
    <2> QED BY <1>3, <2>1, <2>2, <2>3, <2>4, <2>5 DEF Resolve
  <1>4. CASE ExpireCapRes \/ ExpireSelection
    BY <1>0, <1>4 DEF RecordsPast, ExpireCapRes, ExpireSelection, markVars, resolveVars
  <1> QED
    BY <1>2, <1>3, <1>4
       DEF Next, Consume, Free, GetOrCreateUsage, Adjust, vars, markVars, cacheVars, resolveVars

\* A step keeps to one loader of the filter.
LEMMA LoaderStep ==
  ASSUME IInv, [Next]_vars
  PROVE  OneLoader'
  <1>0. TypeOK /\ OneLoader
    BY DEF IInv
  <1>1. CASE UNCHANGED <<pc, path>> /\ (sel' = sel \/ sel' = None)
    BY <1>0, <1>1 DEF OneLoader, Loading
  <1>2. ASSUME NEW r \in Resolvers, Resolve(r)
        PROVE  OneLoader'
    <2>1. CASE ResolveById(r) \/ SelectorHit(r)
      BY <1>0, <2>1 DEF OneLoader, Loading, TypeOK, ResolveById, SelectorHit, cacheVars
    <2>2. CASE SelectorMiss(r)
      <3>1. /\ sel' = None /\ \A q \in Resolvers : ~Loading(q)
            /\ \A q \in Resolvers : q # r => pc'[q] = pc[q] /\ path'[q] = path[q]
            /\ pc'[r] = "get"
        BY <1>0, <2>2 DEF Loading, TypeOK, SelectorMiss, cacheVars
      <3> QED BY <1>0, <3>1 DEF OneLoader, Loading
    <2>3. CASE GetCached(r) \/ GetAnswered(r) \/ GetStored(r) \/ ResetUsage(r)
      <3>1. sel' = sel /\ path' = path /\ \A q \in Resolvers : q # r => pc'[q] = pc[q]
        BY <1>0, <2>3 DEF TypeOK, GetCached, GetAnswered, GetStored, ResetUsage, cacheVars
      <3>2. pc[r] \in {"get", "hit", "answered", "reset"} /\ (pc'[r] = "keep" => path[r] = "filter")
        BY <1>0, <2>3 DEF TypeOK, GetCached, GetAnswered, GetStored, ResetUsage
      <3>3. \A q \in Resolvers : Loading(q)' => Loading(q)
        BY <3>1, <3>2 DEF Loading
      <3> QED BY <1>0, <3>1, <3>2, <3>3 DEF OneLoader
    <2>4. CASE KeepSelection(r)
      <3>1. Loading(r) /\ path' = path /\ \A q \in Resolvers : q # r => pc'[q] = pc[q]
        BY <1>0, <2>4 DEF OneLoader, Loading, TypeOK, KeepSelection
      <3>2. pc'[r] = "adjust"
        BY <1>0, <2>4 DEF TypeOK, KeepSelection
      <3>3. \A q \in Resolvers : ~Loading(q)'
        BY <1>0, <3>1, <3>2 DEF OneLoader, Loading
      <3>4. \A q \in Resolvers : pc'[q] = "keep" => path'[q] = "filter"
        BY <1>0, <3>1, <3>2 DEF OneLoader
      <3> QED BY <3>3, <3>4 DEF OneLoader
    <2>5. CASE ResolveReturns(r)
      BY <1>0, <2>5 DEF OneLoader, Loading, TypeOK, ResolveReturns, cacheVars
    <2> QED BY <1>2, <2>1, <2>2, <2>3, <2>4, <2>5 DEF Resolve
  <1> QED
    BY <1>1, <1>2
       DEF Next, Consume, Free, GetOrCreateUsage, Adjust, ExpireCapRes, ExpireSelection, vars, cacheVars, resolveVars

-----------------------------------------------------------------------------
(* What the Usage object counts *)

\* A step that leaves the usage and the marks alone changes nothing in the count.
LEMMA CountedSame ==
  ASSUME UNCHANGED <<usageMap, count, lastCommit, markedAt, releasedAt>>, NEW t
  PROVE  Counted(t)' <=> Counted(t)
  BY DEF Counted, MarkedSince, ReleasedSince

\* Nothing has been marked since now.
LEMMA NoneSinceNow ==
  ASSUME IInv
  PROVE  MarkedSince(clock) = {} /\ ReleasedSince(clock) = {}
  <1>1. clock \in Nat /\ \A l \in Launches : markedAt[l] \in Nat /\ releasedAt[l] \in Nat
    BY Times DEF IInv, TypeOK
  <1>2. \A l \in Launches : ~(markedAt[l] > clock) /\ ~(releasedAt[l] > clock)
    BY <1>1 DEF IInv, CountsRight
  <1> QED BY <1>2 DEF MarkedSince, ReleasedSince

\* A reset that takes no mark away leaves what was counted counted, and what was
\* loaded just now needs no count.
LEMMA CountedReset ==
  ASSUME IInv, NEW r \in Resolvers, ResetUsage(r), NEW t,
         (usageMap = None /\ Counted(t)) \/ t = clock
  PROVE  Counted(t)'
  <1>1. usageMap' = None /\ UNCHANGED <<markedAt, releasedAt>>
    BY DEF ResetUsage, markVars
  <1>2. MarkedSince(t) = {} /\ ReleasedSince(t) = {}
    BY NoneSinceNow DEF Counted
  <1> QED BY <1>1, <1>2 DEF Counted, MarkedSince, ReleasedSince

\* A mark that goes to the present Usage object is counted by it.
LEMMA CountedAdjust ==
  ASSUME IInv, NEW l \in Launches, Adjust(l), usageMap = target[l],
         NEW t \in Nat, t <= clock, Counted(t)
  PROVE  Counted(t)'
  <1> DEFINE M == MarkedSince(t)
             R == ReleasedSince(t)
             u == target[l]
  <1>1. /\ TypeOK /\ CountsRight /\ u \in Usages /\ usageMap = u /\ usageMap' = u /\ u # None
        /\ clock \in Nat /\ clock' = clock + 1
        /\ count[u] \in Int /\ lastCommit[u] \in Nat
    BY Times DEF IInv, TypeOK, Adjust
  <1>2. lastCommit'[u] = clock'
    BY <1>1 DEF TypeOK, Adjust
  <1>3. M \in SUBSET Launches /\ R \in SUBSET Launches
    BY DEF MarkedSince, ReleasedSince
  <1>4. /\ Cardinality(M) \in Nat /\ Cardinality(R) \in Nat
        /\ count[u] = Cardinality(M) - Cardinality(R)
    BY <1>1, <1>3, LaunchSets DEF Counted
  <1>5. count'[u] = Cardinality(M') - Cardinality(R')
    <2>1. CASE phase[l] = "consuming"
      <3>1. M' = M \cup {l} /\ l \notin M /\ R' = R
        BY <2>1, Marked
      <3>2. Cardinality(M') = Cardinality(M) + 1
        BY <1>3, <3>1, OneMore
      <3>3. count'[u] = count[u] + 1
        BY <1>1, <2>1 DEF TypeOK, Adjust
      <3> HIDE DEF M, R, u
      <3> QED BY <1>4, <3>1, <3>2, <3>3
    <2>2. CASE phase[l] = "freed"
      <3>1. R' = R \cup {l} /\ l \notin R /\ M' = M
        BY <2>2, Marked
      <3>2. Cardinality(R') = Cardinality(R) + 1
        BY <1>3, <3>1, OneMore
      <3>3. count'[u] = count[u] - 1
        BY <1>1, <2>2 DEF TypeOK, Adjust
      <3> HIDE DEF M, R, u
      <3> QED BY <1>4, <3>1, <3>2, <3>3
    <2> QED BY <2>1, <2>2 DEF Adjust
  <1>6. \A m \in Launches : markedAt'[m] <= clock' /\ releasedAt'[m] <= clock'
    <2>1. CountsRight'
      BY CountStep DEF Next
    <2> QED BY <2>1 DEF CountsRight
  <1> QED BY <1>1, <1>2, <1>5, <1>6 DEF Counted

\* A new Usage object counts what was counted without one: nothing.
LEMMA CountedCreate ==
  ASSUME IInv, NEW l \in Launches, GetOrCreateUsage(l), NEW t, Counted(t)
  PROVE  Counted(t)'
  <1>1. CASE usageMap # None
    <2>1. UNCHANGED <<usageMap, count, lastCommit, markedAt, releasedAt>>
      BY <1>1 DEF GetOrCreateUsage, usageVars
    <2> QED BY <2>1, CountedSame
  <1>2. CASE usageMap = None
    <2>1. UNCHANGED <<markedAt, releasedAt>> /\ MarkedSince(t) = {} /\ ReleasedSince(t) = {}
      BY <1>2 DEF GetOrCreateUsage, Counted
    <2>2. MarkedSince(t)' = {} /\ ReleasedSince(t)' = {}
      BY <2>1 DEF MarkedSince, ReleasedSince
    <2>3. usageMap' # None /\ count'[usageMap'] = 0
      BY <1>2, ReservationAssumption DEF GetOrCreateUsage, IInv, TypeOK
    <2>4. Cardinality({}) = 0
      BY FS_EmptySet
    <2>5. \A m \in Launches : ~(markedAt'[m] > t) /\ ~(releasedAt'[m] > t)
      BY <2>2 DEF MarkedSince, ReleasedSince
    <2> QED BY <2>2, <2>3, <2>4, <2>5 DEF Counted
  <1> QED BY <1>1, <1>2

\* A step keeps everything that is cached, or about to be, counted.
LEMMA AllCountedStep ==
  ASSUME IInv, [Next]_vars
  PROVE  AllCounted'
  <1>0. /\ TypeOK /\ CountsRight /\ RecordsPast /\ OneLoader /\ AllCounted
        /\ clock \in Nat
    BY Times DEF IInv, TypeOK
  <1>1. ASSUME NEW l \in Launches, Adjust(l)
        PROVE  AllCounted'
    <2> SUFFICES ASSUME ~raced' PROVE AllCounted'
      BY DEF AllCounted
    <2>1. /\ ~raced /\ usageMap = target[l] /\ ~Resetting
          /\ UNCHANGED <<capRes, sel, pc, path, rec>>
      BY <1>1 DEF Adjust, Resetting, cacheVars, resolveVars
    <2>2. ASSUME NEW x \in Record, x.time <= clock, Counted(x.time)
          PROVE  Counted(x.time)'
      BY <1>0, <1>1, <2>1, <2>2, CountedAdjust, RecordOf
    <2>3. ~Resetting' /\ \A r \in Resolvers : pc'[r] # "reset"
      BY <2>1 DEF Resetting
    <2>4. capRes # None => Counted(capRes.time)'
      BY <1>0, <2>1, <2>2 DEF AllCounted, RecordsPast, TypeOK
    <2>5. sel # None => Counted(sel.time)'
      BY <1>0, <2>1, <2>2 DEF AllCounted, RecordsPast, TypeOK
    <2>6. ASSUME NEW r \in Resolvers, path[r] = "filter", pc[r] \in {"hit", "keep"}
          PROVE  Counted(rec[r].time)'
      <3>1. rec[r] \in Record /\ rec[r].time <= clock
        BY <1>0, <2>6, RecordOf DEF RecordsPast
      <3>2. Counted(rec[r].time)
        BY <1>0, <2>1, <2>6 DEF AllCounted
      <3> QED BY <2>1, <2>2, <3>1, <3>2
    <2> QED
      BY <2>1, <2>3, <2>4, <2>5, <2>6 DEF AllCounted, Counted, MarkedSince, ReleasedSince
  <1>2. ASSUME NEW l \in Launches, GetOrCreateUsage(l)
        PROVE  AllCounted'
    <2>1. UNCHANGED <<capRes, sel, pc, path, rec, raced, clock>>
      BY <1>2 DEF GetOrCreateUsage, cacheVars, resolveVars
    <2>2. ASSUME NEW t, Counted(t)
          PROVE  Counted(t)'
      BY <1>2, <2>2, CountedCreate
    <2>3. Resetting' = Resetting
      BY <2>1 DEF Resetting
    <2>4. Counted(capRes.time) => Counted(capRes.time)'
      BY <2>1, <2>2
    <2>5. Counted(sel.time) => Counted(sel.time)'
      BY <2>1, <2>2
    <2>6. ASSUME NEW r \in Resolvers, Counted(rec[r].time)
          PROVE  Counted(rec[r].time)'
      BY <2>1, <2>2, <2>6
    <2> QED BY <1>0, <2>1, <2>3, <2>4, <2>5, <2>6 DEF AllCounted
  <1>3. ASSUME NEW r \in Resolvers, ResetUsage(r)
        PROVE  AllCounted'
    <2> SUFFICES ASSUME ~raced' PROVE AllCounted'
      BY DEF AllCounted
    <2>1. /\ ~raced /\ UNCHANGED <<capRes, sel, path, rec, clock>>
          /\ \A q \in Resolvers : q # r => pc'[q] = pc[q]
          /\ pc'[r] = IF path[r] = "filter" THEN "keep" ELSE "adjust"
          /\ pc[r] \in {"hit", "reset"}
          /\ usageMap # None => pc[r] = "reset" /\ path[r] = "filter"
      BY <1>0, <1>3 DEF ResetUsage, TypeOK, cacheVars, markVars
    <2>2. ASSUME NEW t, (usageMap = None /\ Counted(t)) \/ t = clock
          PROVE  Counted(t)'
      BY <1>3, <2>2, CountedReset
    <2>3. Resetting' => Resetting
      BY <2>1 DEF Resetting
    <2>4. capRes # None => Counted(capRes.time)' /\ (Resetting' => capRes.time = clock)
      <3>1. usageMap # None => Resetting
        BY <2>1 DEF Resetting
      <3>2. capRes # None => (usageMap = None /\ Counted(capRes.time)) \/ capRes.time = clock
        BY <1>0, <2>1, <3>1 DEF AllCounted
      <3> QED BY <1>0, <2>1, <2>2, <2>3, <3>2 DEF AllCounted
    <2>5. sel # None => Counted(sel.time)'
      <3>1. sel # None => usageMap = None /\ Counted(sel.time)
        BY <1>0, <2>1 DEF AllCounted, OneLoader, Loading
      <3> QED BY <2>1, <2>2, <3>1
    <2>6. ASSUME NEW q \in Resolvers, path[q] = "filter", pc'[q] \in {"hit", "keep"}
          PROVE  Counted(rec[q].time)'
      <3>1. pc[q] \in {"hit", "reset", "keep"}
        BY <2>1, <2>6
      <3>2. usageMap # None => q = r
        BY <1>0, <2>1, <2>6, <3>1 DEF OneLoader, Loading
      <3>3. (usageMap = None /\ Counted(rec[q].time)) \/ rec[q].time = clock
        BY <1>0, <2>1, <2>6, <3>1, <3>2 DEF AllCounted
      <3> QED BY <2>1, <2>2, <3>3
    <2>7. \A q \in Resolvers : pc'[q] = "reset" => rec[q].time = clock
      BY <1>0, <2>1 DEF AllCounted
    <2> QED BY <2>1, <2>4, <2>5, <2>6, <2>7 DEF AllCounted
  <1>4. ASSUME UNCHANGED <<usageMap, count, lastCommit, markedAt, releasedAt, clock, raced>>,
               \/ UNCHANGED <<pc, path, rec>> /\ capRes' \in {capRes, None} /\ sel' \in {sel, None}
               \/ \E r \in Resolvers : Resolve(r) /\ ~ResetUsage(r)
        PROVE  AllCounted'
    <2> SUFFICES ASSUME ~raced, ~raced' PROVE AllCounted'
      BY <1>4 DEF AllCounted
    <2>1. ASSUME NEW t
          PROVE  Counted(t)' <=> Counted(t)
      BY <1>4, CountedSame
    <2>2. CASE UNCHANGED <<pc, path, rec>> /\ capRes' \in {capRes, None} /\ sel' \in {sel, None}
      <3>1. Resetting' = Resetting
        BY <2>2 DEF Resetting
      <3>2. capRes' = capRes => (Counted(capRes.time)' <=> Counted(capRes.time))
        BY <2>1
      <3>3. sel' = sel => (Counted(sel.time)' <=> Counted(sel.time))
        BY <2>1
      <3>4. ASSUME NEW r \in Resolvers
            PROVE  Counted(rec[r].time)' <=> Counted(rec[r].time)
        BY <2>1, <2>2
      <3> QED BY <1>0, <1>4, <2>2, <3>1, <3>2, <3>3, <3>4 DEF AllCounted
    <2>3. ASSUME NEW r \in Resolvers, Resolve(r), ~ResetUsage(r)
          PROVE  AllCounted'
      <3>0. capRes' = capRes \/ GetStored(r)
        BY <2>3 DEF Resolve, ResolveById, SelectorHit, SelectorMiss, GetCached, GetAnswered, KeepSelection,
                    ResolveReturns, cacheVars
      <3>1. sel' = sel \/ KeepSelection(r)
        BY <2>3 DEF Resolve, ResolveById, SelectorHit, SelectorMiss, GetCached, GetAnswered, GetStored,
                    ResolveReturns, cacheVars
      <3>2. /\ \A q \in Resolvers : q # r => pc'[q] = pc[q] /\ path'[q] = path[q] /\ rec'[q] = rec[q]
            /\ pc[r] # "reset" /\ pc'[r] # "keep"
            /\ pc'[r] = "reset" => GetStored(r)
            /\ pc'[r] = "hit" => GetCached(r)
        BY <1>0, <2>3 DEF TypeOK, Resolve, ResolveById, SelectorHit, SelectorMiss, GetCached, GetAnswered,
                    GetStored, KeepSelection, ResolveReturns
      <3>3. Resetting' = (Resetting \/ GetStored(r))
        <4>1. GetStored(r) => pc'[r] = "reset"
          BY <1>0 DEF GetStored, TypeOK
        <4> QED BY <3>2, <4>1, Zenon DEF Resetting
      <3>4. GetStored(r) => capRes'.time = clock /\ rec'[r].time = clock
        <4>1. GetStored(r) => rec[r] \in Record
          BY <1>0 DEF GetStored, RecordsPast
        <4>2. GetStored(r) => rec'[r] = [rec[r] EXCEPT !.time = clock] /\ capRes' = rec'[r]
          BY <1>0 DEF GetStored, TypeOK
        <4> QED BY <4>1, <4>2 DEF Record
      <3>5. capRes' # None => IF Resetting' THEN capRes'.time = clock ELSE Counted(capRes.time)'
        <4>1. CASE GetStored(r)
          BY <3>3, <3>4, <4>1
        <4>2. CASE capRes' = capRes /\ ~GetStored(r)
          <5>1. Counted(capRes.time)' <=> Counted(capRes.time)
            BY <2>1, <4>2
          <5> QED BY <1>0, <3>3, <4>2, <5>1 DEF AllCounted
        <4> QED BY <3>0, <4>1, <4>2
      <3>6. sel' # None => Counted(sel.time)'
        <4>1. CASE KeepSelection(r)
          <5>1. sel' = rec[r] /\ Counted(rec[r].time)
            BY <1>0, <4>1 DEF KeepSelection, AllCounted, OneLoader
          <5> QED BY <2>1, <5>1
        <4>2. CASE sel' = sel
          BY <1>0, <2>1, <4>2 DEF AllCounted
        <4> QED BY <3>1, <4>1, <4>2
      <3>7. ASSUME NEW q \in Resolvers, path'[q] = "filter"
            PROVE  /\ pc'[q] = "hit" => Counted(rec[q].time)' \/ (Resetting' /\ rec'[q].time = clock)
                   /\ pc'[q] = "keep" => Counted(rec[q].time)'
        <4>1. CASE q = r
          <5> SUFFICES ASSUME GetCached(r)
                       PROVE  Counted(rec[r].time)' \/ (Resetting' /\ rec'[r].time = clock)
            BY <3>2, <4>1
          <5>1. rec'[r] = capRes /\ capRes # None
            BY <1>0 DEF GetCached, TypeOK
          <5>2. Counted(capRes.time) \/ (Resetting /\ capRes.time = clock)
            BY <1>0, <5>1 DEF AllCounted
          <5> QED BY <2>1, <3>3, <5>1, <5>2
        <4>2. CASE q # r
          <5>1. pc'[q] = pc[q] /\ path'[q] = path[q] /\ rec'[q] = rec[q]
            BY <3>2, <4>2
          <5>2. Counted(rec[q].time)' <=> Counted(rec[q].time)
            BY <2>1, <5>1
          <5> QED BY <1>0, <3>3, <3>7, <5>1, <5>2 DEF AllCounted
        <4> QED BY <4>1, <4>2
      <3>8. \A q \in Resolvers : pc'[q] = "reset" => rec'[q].time = clock
        BY <1>0, <3>2, <3>4 DEF AllCounted
      <3> QED BY <1>4, <3>5, <3>6, <3>7, <3>8 DEF AllCounted
    <2> QED BY <1>4, <2>2, <2>3
  <1> QED
    <2>1. CASE \E r \in Resolvers : Resolve(r) /\ ~ResetUsage(r)
      <3>1. UNCHANGED <<usageMap, count, lastCommit, markedAt, releasedAt, clock, raced>>
        BY <2>1 DEF Resolve, ResolveById, SelectorHit, SelectorMiss, GetCached, GetAnswered, GetStored,
                    KeepSelection, ResolveReturns, usageVars, markVars
      <3> QED BY <1>4, <2>1, <3>1
    <2>2. CASE \E l \in Launches : Consume(l) \/ Free(l)
      BY <1>4, <2>2 DEF Consume, Free, markVars, cacheVars, usageVars, resolveVars
    <2>3. CASE ExpireCapRes \/ ExpireSelection \/ UNCHANGED vars
      BY <1>4, <2>3 DEF ExpireCapRes, ExpireSelection, vars, markVars, cacheVars, usageVars, resolveVars
    <2> QED BY <1>1, <1>2, <1>3, <2>1, <2>2, <2>3 DEF Next

-----------------------------------------------------------------------------
(* The theorems *)

\* The invariant holds in the initial state.
LEMMA InitIInv ==
  ASSUME Init
  PROVE  IInv
  <1>1. Occupying = {} /\ MarkedSince(0) = {} /\ ReleasedSince(0) = {} /\ Cardinality({}) = 0
    BY FS_EmptySet DEF Init, Occupying, MarkedSince, ReleasedSince
  <1>2. TypeOK
    <2>1. 0 \in Time /\ 0 \in Int /\ 0 \in 0..Total
      BY Times, ReservationAssumption
    <2> QED BY <2>1 DEF Init, TypeOK, Phase
  <1>3. CountsRight
    BY <1>1 DEF Init, CountsRight
  <1>4. RecordsPast /\ OneLoader /\ AllCounted
    BY DEF Init, RecordsPast, OneLoader, Loading, AllCounted
  <1> QED BY <1>2, <1>3, <1>4 DEF IInv

\* A step keeps the invariant.
LEMMA NextIInv ==
  ASSUME IInv, [Next]_vars
  PROVE  IInv'
  BY TypeStep, CountStep, PastStep, LoaderStep, AllCountedStep DEF IInv

\* The invariant holds in every reachable state.
LEMMA IInvHolds == Spec => []IInv
  BY InitIInv, NextIInv, PTL DEF Spec

\* Every variable keeps its type: OCI never counts more than the reservation has, and
\* no counter passes twice the number of launches.
THEOREM TypeCorrect == Spec => []TypeOK
  <1>1. IInv => TypeOK
    BY DEF IInv
  <1> QED BY <1>1, IInvHolds, PTL

\* A filter config's answer never reports less use than its record and the marks made
\* since (Resolved, from adjustCapacityAgainstUsage), unless one of the named races
\* has happened.
THEOREM UsageCounted == Spec => []MarkedUsageCountedUnlessRaced
  <1>1. ASSUME IInv PROVE MarkedUsageCountedUnlessRaced
    <2> SUFFICES ASSUME ~raced, NEW r \in Resolvers, pc[r] = "adjust", rec[r] = sel
                 PROVE  Resolved(r) >= Known(r)
      BY DEF MarkedUsageCountedUnlessRaced
    <2> DEFINE t == rec[r].time
               m == Cardinality(MarkedSince(t))
               n == Cardinality(ReleasedSince(t))
    <2>1. rec[r] \in Record /\ sel # None
      BY <1>1, RecordOf DEF IInv, RecordsPast
    <2>2. Counted(t)
      BY <1>1, <2>1 DEF IInv, AllCounted
    <2>3. t \in Nat /\ rec[r].used \in 0..Total /\ Total \in Nat
      BY <1>1, <2>1, RecordOf, ReservationAssumption DEF IInv, Record
    <2>4. m \in Nat /\ n \in Nat
      BY LaunchSets DEF MarkedSince, ReleasedSince
    <2>5. Known(r) = Least(Total, rec[r].used + m - n)
      BY DEF Known
    <2>6. CASE usageMap # None /\ t < lastCommit[usageMap]
      <3>1. count[usageMap] = m - n
        BY <2>2, <2>6 DEF Counted
      <3>2. Resolved(r) = Least(Total, rec[r].used + (m - n))
        BY <2>6, <3>1 DEF Resolved
      <3> HIDE DEF m, n, t
      <3> QED BY <2>3, <2>4, <2>5, <3>2 DEF Least
    <2>7. CASE ~(usageMap # None /\ t < lastCommit[usageMap])
      <3>1. MarkedSince(t) = {} /\ ReleasedSince(t) = {}
        <4>1. CASE usageMap = None
          BY <2>2, <4>1 DEF Counted
        <4>2. CASE usageMap # None
          <5>1. lastCommit[usageMap] \in Nat /\ \A l \in Launches : markedAt[l] \in Nat /\ releasedAt[l] \in Nat
            BY <1>1, <4>2, Times DEF IInv, TypeOK
          <5>2. \A l \in Launches : ~(markedAt[l] > t) /\ ~(releasedAt[l] > t)
            <6> HIDE DEF t
            <6> QED BY <2>2, <2>3, <2>7, <4>2, <5>1 DEF Counted
          <5> QED BY <5>2 DEF MarkedSince, ReleasedSince
        <4> QED BY <4>1, <4>2
      <3>2. m = 0 /\ n = 0
        BY <3>1, FS_EmptySet
      <3>3. Resolved(r) = rec[r].used
        BY <2>7 DEF Resolved
      <3> HIDE DEF m, n, t
      <3> QED BY <2>3, <2>5, <3>2, <3>3 DEF Least
    <2> QED BY <2>6, <2>7
  <1> QED BY <1>1, IInvHolds, PTL
=============================================================================
