---------------------------- MODULE DriftProofs -----------------------------
(***************************************************************************)
(* Proofs about drift detection: the caches keep each child under the      *)
(* parent it was read from (CachedChildrenBelong), a pass that finds no    *)
(* drift vouches for the request (NoDriftIsSound), one that reports drift  *)
(* would not be contradicted by a replacement (DriftIsReal), and the image *)
(* the cached resolution names is the launch's (CachedImageIsLaunchImage). *)
(*                                                                         *)
(* Each is an invariant of Spec, proved from an inductive one:             *)
(*   Shape      what the variables are                                     *)
(*   LaunchInv  the instance is what LaunchInstance asked for, up to the   *)
(*              VNICs not yet attached                                     *)
(*   CacheInv   the caches and the reads in flight                         *)
(*   ClassInv   a ready class's status resolves its spec                   *)
(*   FreshInv, GotInv, WantInv, StageInv                                   *)
(*              what a clean pass has read, compares with and established  *)
(*   RealInv    what it reads to confirm a difference                      *)
(***************************************************************************)
EXTENDS Drift, FiniteSetTheorems, WellFoundedInduction, TLAPS

-----------------------------------------------------------------------------
(* Lemmas on the operators *)

\* Every set of naturals has a least element.
LEMMA LeastNatural ==
  ASSUME NEW T \in SUBSET Nat, T # {}
  PROVE  \E x \in T : \A y \in T : x <= y
<1> DEFINE R == {ss \in Nat \X Nat : ss[1] < ss[2]}
<1>1. IsWellFoundedOn(R, Nat)
  BY NatLessThanWellFounded DEF OpToRel
<1>2. \E x \in T : \A y \in T : <<y, x>> \notin R
  <2> HIDE DEF R
  <2> QED BY <1>1, WFMin
<1>3. ASSUME NEW x \in T, NEW y \in T, <<y, x>> \notin R PROVE x <= y
  BY <1>3
<1> QED BY <1>2, <1>3

\* Min of a set of naturals is its least element.
LEMMA MinLeast ==
  ASSUME NEW T \in SUBSET Nat, T # {}
  PROVE  Min(T) \in T /\ \A y \in T : Min(T) <= y
BY LeastNatural DEF Min

\* FirstReason gives no reason just when no comparison gives one.
LEMMA NoReason ==
  ASSUME NEW r, NEW n \in Nat, DOMAIN r = 1..n
  PROVE  FirstReason(r) = "" <=> \A i \in DOMAIN r : r[i] = ""
<1> DEFINE S == {i \in DOMAIN r : r[i] # ""}
<1>1. CASE S = {}
  BY <1>1 DEF FirstReason
<1>2. CASE S # {}
  <2>1. S \subseteq DOMAIN r
    OBVIOUS
  <2>4. \A i \in DOMAIN r : i \in Nat
    OBVIOUS
  <2>2. Min(S) \in S
    <3> HIDE DEF S
    <3> QED BY <1>2, <2>1, <2>4, MinLeast
  <2>3. FirstReason(r) = r[Min(S)]
    BY <1>2 DEF FirstReason
  <2> QED BY <2>2, <2>3
<1> QED BY <1>1, <1>2

\* The two comparisons of the instance checks give no reason just when both pass.
LEMMA NoReason2 ==
  ASSUME NEW a, NEW b
  PROVE  FirstReason(<<a, b>>) = "" <=> a = "" /\ b = ""
<1> DEFINE r == <<a, b>>
<1>1. DOMAIN r = 1..2 /\ r[1] = a /\ r[2] = b
  OBVIOUS
<1> HIDE DEF r
<1>2. FirstReason(r) = "" <=> \A i \in DOMAIN r : r[i] = ""
  BY <1>1, NoReason
<1>3. (\A i \in DOMAIN r : r[i] = "") <=> a = "" /\ b = ""
  <2>1. 1 \in DOMAIN r /\ 2 \in DOMAIN r
    BY <1>1
  <2>2. \A i \in DOMAIN r : i = 1 \/ i = 2
    BY <1>1
  <2> QED BY <1>1, <2>1, <2>2
<1>4. FirstReason(r) = "" <=> a = "" /\ b = ""
  BY <1>2, <1>3
<1> QED BY <1>4 DEF r

\* The three comparisons of the network and boot volume checks give no reason just
\* when all pass.
LEMMA NoReason3 ==
  ASSUME NEW a, NEW b, NEW c
  PROVE  FirstReason(<<a, b, c>>) = "" <=> a = "" /\ b = "" /\ c = ""
<1> DEFINE r == <<a, b, c>>
<1>1. DOMAIN r = 1..3 /\ r[1] = a /\ r[2] = b /\ r[3] = c
  OBVIOUS
<1> HIDE DEF r
<1>2. FirstReason(r) = "" <=> \A i \in DOMAIN r : r[i] = ""
  BY <1>1, NoReason
<1>3. (\A i \in DOMAIN r : r[i] = "") <=> a = "" /\ b = "" /\ c = ""
  <2>1. 1 \in DOMAIN r /\ 2 \in DOMAIN r /\ 3 \in DOMAIN r
    BY <1>1
  <2>2. \A i \in DOMAIN r : i = 1 \/ i = 2 \/ i = 3
    BY <1>1
  <2> QED BY <1>1, <2>1, <2>2
<1>4. FirstReason(r) = "" <=> a = "" /\ b = "" /\ c = ""
  BY <1>2, <1>3
<1> QED BY <1>4 DEF r

\* What the instance stage compares.
LEMMA InstanceReasons ==
  ASSUME NEW want, NEW i
  PROVE  IsInstanceDrifted(want, i) = "" <=>
           /\ i.comp = GetInstanceCompartment(want.spec)
           /\ ~(want.it.flex /\ IsInstanceDriftedFromInstanceType(i, want.it))
           /\ i.image = want.image
           /\ ~CapacityReservationMismatch(want, i)
           /\ ~ClusterPlacementGroupMismatch(want, i)
           /\ ~isLaunchOptionMismatch(want.spec.launch, i.launch)
<1> DEFINE r1 == Reason(i.comp # GetInstanceCompartment(want.spec), "instanceCompartmentMismatch")
           r2 == Reason(want.it.flex /\ IsInstanceDriftedFromInstanceType(i, want.it), "shapeMismatch")
           r3 == Reason(i.image # want.image, "imageMismatch")
           r4 == Reason(CapacityReservationMismatch(want, i), "CapacityReservationMismatch")
           r5 == Reason(ClusterPlacementGroupMismatch(want, i), "ClusterPlacementGroupMismatch")
           r6 == Reason(isLaunchOptionMismatch(want.spec.launch, i.launch), "LaunchOptionMismatch")
<1>1. r1 = "" <=> i.comp = GetInstanceCompartment(want.spec)
  BY DEF Reason
<1>2. r2 = "" <=> ~(want.it.flex /\ IsInstanceDriftedFromInstanceType(i, want.it))
  BY DEF Reason
<1>3. r3 = "" <=> i.image = want.image
  BY DEF Reason
<1>4. r4 = "" <=> ~CapacityReservationMismatch(want, i)
  BY DEF Reason
<1>5. r5 = "" <=> ~ClusterPlacementGroupMismatch(want, i)
  BY DEF Reason
<1>6. r6 = "" <=> ~isLaunchOptionMismatch(want.spec.launch, i.launch)
  BY DEF Reason
<1>7. IsInstanceDrifted(want, i) = FirstReason(<<r1, r2, r3, r4, r5, r6>>)
  BY DEF IsInstanceDrifted
<1> HIDE DEF r1, r2, r3, r4, r5, r6
<1>8. FirstReason(<<r1, r2, r3, r4, r5, r6>>) = "" <=> r1 = "" /\ r2 = "" /\ r3 = "" /\ r4 = "" /\ r5 = "" /\ r6 = ""
  <2> DEFINE r == <<r1, r2, r3, r4, r5, r6>>
  <2>1. DOMAIN r = 1..6 /\ r[1] = r1 /\ r[2] = r2 /\ r[3] = r3 /\ r[4] = r4 /\ r[5] = r5 /\ r[6] = r6
    OBVIOUS
  <2> HIDE DEF r
  <2>2. FirstReason(r) = "" <=> \A x \in DOMAIN r : r[x] = ""
    BY <2>1, NoReason
  <2>3. (\A x \in DOMAIN r : r[x] = "") <=> r1 = "" /\ r2 = "" /\ r3 = "" /\ r4 = "" /\ r5 = "" /\ r6 = ""
    <3>1. 1 \in DOMAIN r /\ 2 \in DOMAIN r /\ 3 \in DOMAIN r /\ 4 \in DOMAIN r /\ 5 \in DOMAIN r /\ 6 \in DOMAIN r
      BY <2>1
    <3>2. \A x \in DOMAIN r : x = 1 \/ x = 2 \/ x = 3 \/ x = 4 \/ x = 5 \/ x = 6
      BY <2>1
    <3> QED BY <2>1, <3>1, <3>2
  <2>4. FirstReason(r) = "" <=> r1 = "" /\ r2 = "" /\ r3 = "" /\ r4 = "" /\ r5 = "" /\ r6 = ""
    BY <2>2, <2>3
  <2> QED BY <2>4 DEF r
<1> QED BY <1>1, <1>2, <1>3, <1>4, <1>5, <1>6, <1>7, <1>8

\* What the network stage compares of the primary VNIC.
LEMMA PrimaryReasons ==
  ASSUME NEW p
  PROVE  PrimaryDrifted(p) = "" <=>
           /\ FoundPrimary(p) # {}
           /\ \A v \in FoundPrimary(p) : isVnicNsgIdsMatch(p.want.net.primary, p.got[v])
<1> DEFINE r1 == Reason(FoundPrimary(p) = {}, "PrimaryVnicMismatch")
           r2 == Reason(\E v \in FoundPrimary(p) : ~isVnicNsgIdsMatch(p.want.net.primary, p.got[v]), "PrimaryVnicNsgIdsMismatch")
<1>1. r1 = "" <=> FoundPrimary(p) # {}
  BY DEF Reason
<1>2. r2 = "" <=> \A v \in FoundPrimary(p) : isVnicNsgIdsMatch(p.want.net.primary, p.got[v])
  BY DEF Reason
<1>3. PrimaryDrifted(p) = FirstReason(<<r1, r2>>)
  BY DEF PrimaryDrifted
<1> HIDE DEF r1, r2
<1>4. FirstReason(<<r1, r2>>) = "" <=> r1 = "" /\ r2 = ""
  BY NoReason2
<1> QED BY <1>1, <1>2, <1>3, <1>4

\* What the boot stage compares of the attachment.
LEMMA AttachmentReasons ==
  ASSUME NEW want, NEW a
  PROVE  AttachmentDrifted(want, a) = "" <=>
           /\ a.attached
           /\ want.spec.boot.enc = None \/ want.spec.boot.enc = a.enc
<1> DEFINE r1 == Reason(~a.attached, "BootVolumeMismatch")
           r2 == Reason(want.spec.boot.enc # None /\ want.spec.boot.enc # a.enc, "PvEncryptionInTransitionMismatch")
<1>1. r1 = "" <=> a.attached
  BY DEF Reason
<1>2. r2 = "" <=> want.spec.boot.enc = None \/ want.spec.boot.enc = a.enc
  BY DEF Reason
<1>3. AttachmentDrifted(want, a) = FirstReason(<<r1, r2>>)
  BY DEF AttachmentDrifted
<1> HIDE DEF r1, r2
<1>4. FirstReason(<<r1, r2>>) = "" <=> r1 = "" /\ r2 = ""
  BY NoReason2
<1> QED BY <1>1, <1>2, <1>3, <1>4

\* What the boot stage compares of the volume.
LEMMA BootReasons ==
  ASSUME NEW want, NEW b
  PROVE  BootVolumeDrifted(want, b) = "" <=>
           /\ ~(want.spec.boot.size # None /\ b.size < want.spec.boot.size)
           /\ want.spec.boot.kms = None \/ b.kms = want.spec.boot.kms
           /\ want.spec.boot.vpus = None \/ b.vpus = want.spec.boot.vpus
<1> DEFINE r1 == Reason(want.spec.boot.size # None /\ b.size < want.spec.boot.size, "BootVolumeSizeMismatch")
           r2 == Reason(want.spec.boot.kms # None /\ b.kms # want.spec.boot.kms, "kmsKeyMismatch")
           r3 == Reason(want.spec.boot.vpus # None /\ b.vpus # want.spec.boot.vpus, "VpusPerGbMismatch")
<1>1. r1 = "" <=> ~(want.spec.boot.size # None /\ b.size < want.spec.boot.size)
  BY DEF Reason
<1>2. r2 = "" <=> want.spec.boot.kms = None \/ b.kms = want.spec.boot.kms
  BY DEF Reason
<1>3. r3 = "" <=> want.spec.boot.vpus = None \/ b.vpus = want.spec.boot.vpus
  BY DEF Reason
<1>4. BootVolumeDrifted(want, b) = FirstReason(<<r1, r2, r3>>)
  BY DEF BootVolumeDrifted
<1> HIDE DEF r1, r2, r3
<1>5. FirstReason(<<r1, r2, r3>>) = "" <=> r1 = "" /\ r2 = "" /\ r3 = ""
  BY NoReason3
<1> QED BY <1>1, <1>2, <1>3, <1>4, <1>5

-----------------------------------------------------------------------------
(* The state *)

\* f is a map over the keys of the caches.
OnKeys(f) == f = [k \in Keys |-> f[k]]

Stages  == {"idle", "inst", "net", "sec", "boot"}
Filters == {s.image.filter : s \in Specs} \ {None}

\* The records the variables hold.
ClassShape ==
  /\ class = [spec |-> class.spec, ready |-> class.ready, net |-> class.net,
              cpgs |-> class.cpgs, hash |-> class.hash]
  /\ class.spec \in Specs /\ class.ready \in BOOLEAN

ClaimShape ==
  /\ claim \in Claims \cup {None}
  /\ claim = None => pass = NoPass /\ other = None /\ oci = Empty /\ cache = Empty

ImgsShape ==
  /\ imgs = [pub |-> imgs.pub, have |-> imgs.have, shapes |-> imgs.shapes, list |-> imgs.list]
  /\ imgs.pub \subseteq Ids /\ imgs.have \subseteq Ids /\ imgs.shapes \subseteq Ids
  /\ imgs.list \in [Filters -> {None} \cup SUBSET Ids]

PassShape ==
  /\ pass = [stage |-> pass.stage, real |-> pass.real, want |-> pass.want, got |-> pass.got,
             load |-> pass.load, clean |-> pass.clean, skipped |-> pass.skipped]
  /\ pass.stage \in Stages
  /\ pass.real \in BOOLEAN /\ pass.clean \in BOOLEAN /\ pass.skipped \in BOOLEAN
  /\ OnKeys(pass.got)
  /\ pass.load # None => pass.load = [key |-> pass.load.key, val |-> pass.load.val]
  /\ pass.stage = "idle" => pass = NoPass

OtherShape == other # None => other = [seen |-> other.seen, val |-> other.val]

HistoryShape ==
  /\ verdict = [reason |-> verdict.reason, skipped |-> verdict.skipped]
  /\ outside \in BOOLEAN /\ straddled \in BOOLEAN

\* What the variables are.
Shape ==
  /\ ClassShape /\ ClaimShape /\ ImgsShape /\ PassShape /\ OtherShape /\ HistoryShape
  /\ OnKeys(oci) /\ OnKeys(cache)

\* Steps that leave the pass alone except that it is no longer clean, or leave it
\* altogether.
Quiet == pass' = pass \/ pass' = [pass EXCEPT !.clean = FALSE]

\* The steps of the environment and of the other users of the caches.
World == EditSpec \/ ReconcileClass \/ AttachPrimary \/ AttachSecondary \/ BecomeInitialized
           \/ ChangeOutside \/ Retag \/ PublishImage \/ ExpireImages \/ RefreshCatalog
           \/ Terminate \/ Purge
Users == GetAnswered \/ GetNotFound \/ ListAnswered \/ OtherStored \/ ListFails

\* The steps, by what they may change.
LEMMA StepKinds ==
  ASSUME [Next]_vars
  PROVE  \/ \E f : BeginDrift(f)
         \/ ReadHit \/ ReadAnswered \/ ReadStored \/ ReadFails \/ Judge
         \/ World \/ Users
         \/ \E t \in Types : \E f : \E slow \in BOOLEAN : Launch(t, f, slow)
         \/ UNCHANGED vars
BY Zenon DEF Next, PassStep, World, Users

\* What the steps leave alone.
LEMMA BeginDriftFrame ==
  ASSUME NEW f, BeginDrift(f)
  PROVE  UNCHANGED <<class, claim, npn, oci, cache, worldVars, other, events, straddled>>
BY Zenon DEF BeginDrift

\* A step of the drift pass touches only the pass, its verdict and the caches.
LEMMA PassFrame ==
  ASSUME ReadHit \/ ReadAnswered \/ ReadStored \/ ReadFails \/ Judge
  PROVE  UNCHANGED <<class, claim, npn, oci, worldVars, imgs, other, events, straddled>>
BY Zenon DEF ReadHit, ReadAnswered, ReadStored, ReadFails, Judge

\* A launch leaves the class, the world and a running pass alone, and no verdict stands
\* after it.
LEMMA LaunchFrame ==
  ASSUME NEW t, NEW f, NEW slow, Launch(t, f, slow)
  PROVE  UNCHANGED <<class, worldVars, pass, other, events, straddled>> /\ verdict' = NoVerdict
BY Zenon DEF Launch

\* A step of the world can only make a running pass unclean, and no verdict stands
\* after it.
LEMMA WorldFrame ==
  ASSUME World
  PROVE  Quiet /\ verdict' = NoVerdict /\ UNCHANGED <<cache, other, straddled>>
BY Zenon DEF World, Quiet, Disturb, EditSpec, ReconcileClass, AttachPrimary, AttachSecondary,
  BecomeInitialized, ChangeOutside, Retag, PublishImage, ExpireImages, RefreshCatalog,
  Terminate, Purge

\* Get and List touch only the caches and their own read, and no verdict stands after
\* them.
LEMMA UsersFrame ==
  ASSUME Users
  PROVE  verdict' = NoVerdict /\ UNCHANGED <<class, claim, npn, oci, worldVars, imgs, pass, events>>
BY Zenon DEF Users, GetAnswered, GetNotFound, ListAnswered, OtherStored, ListFails

\* Only an edit and the class controller write the OCINodeClass.
LEMMA ClassKept ==
  ASSUME [Next]_vars
  PROVE  class' = class \/ EditSpec \/ ReconcileClass
<1>1. ASSUME World PROVE class' = class \/ EditSpec \/ ReconcileClass
  BY <1>1, Zenon DEF World, AttachPrimary, AttachSecondary, BecomeInitialized, ChangeOutside,
    Retag, PublishImage, ExpireImages, RefreshCatalog, Terminate, Purge
<1> QED
  BY <1>1, StepKinds, BeginDriftFrame, PassFrame, LaunchFrame, UsersFrame, Zenon DEF vars

\* Only the launch and the claim's own progress write the NodeClaim.
LEMMA ClaimKept ==
  ASSUME [Next]_vars
  PROVE  \/ claim' = claim \/ BecomeInitialized
         \/ \E t \in Types : \E f : \E slow \in BOOLEAN : Launch(t, f, slow)
<1>1. ASSUME World PROVE claim' = claim \/ BecomeInitialized
  BY <1>1, Zenon DEF World, EditSpec, ReconcileClass, AttachPrimary, AttachSecondary, ChangeOutside,
    Retag, PublishImage, ExpireImages, RefreshCatalog, Terminate, Purge
<1> QED
  BY <1>1, StepKinds, BeginDriftFrame, PassFrame, UsersFrame, Zenon DEF vars

\* What OCI has of the instance changes only through OCI, the launch and outsiders.
LEMMA OciKept ==
  ASSUME [Next]_vars
  PROVE  \/ oci' = oci \/ AttachPrimary \/ AttachSecondary \/ ChangeOutside \/ Terminate \/ Purge
         \/ \E t \in Types : \E f : \E slow \in BOOLEAN : Launch(t, f, slow)
<1>1. ASSUME World
      PROVE  oci' = oci \/ AttachPrimary \/ AttachSecondary \/ ChangeOutside \/ Terminate \/ Purge
  BY <1>1, Zenon DEF World, EditSpec, ReconcileClass, BecomeInitialized,
    Retag, PublishImage, ExpireImages, RefreshCatalog
<1> QED
  BY <1>1, StepKinds, BeginDriftFrame, PassFrame, UsersFrame, Zenon DEF vars

\* The image caches change only where images are resolved, published or expired.
LEMMA ImgsKept ==
  ASSUME [Next]_vars
  PROVE  \/ imgs' = imgs \/ ReconcileClass \/ PublishImage \/ ExpireImages
         \/ \E f : BeginDrift(f)
         \/ \E t \in Types : \E f : \E slow \in BOOLEAN : Launch(t, f, slow)
<1>1. ASSUME World
      PROVE  imgs' = imgs \/ ReconcileClass \/ PublishImage \/ ExpireImages
  BY <1>1, Zenon DEF World, EditSpec, AttachPrimary, AttachSecondary, BecomeInitialized, ChangeOutside,
    Retag, RefreshCatalog, Terminate, Purge
<1> QED
  BY <1>1, StepKinds, PassFrame, UsersFrame, Zenon DEF vars

\* Every step keeps the shape of the OCINodeClass.
LEMMA ClassShapeKept ==
  ASSUME ClassShape, [Next]_vars
  PROVE  ClassShape'
<1>1. CASE class' = class
  BY <1>1 DEF ClassShape
<1>2. CASE EditSpec
  BY <1>2, DriftAssumption DEF ClassShape, EditSpec
<1>3. CASE ReconcileClass
  BY <1>3 DEF ClassShape, ReconcileClass, ReadyClass
<1> QED BY <1>1, <1>2, <1>3, ClassKept

\* What the image provider's caches remember are ids of images.
LEMMA Remembered ==
  ASSUME NEW spec \in Specs, NEW f, ImgsShape, NEW r,
         r = RememberImages(spec, LaunchLook(spec, f))
  PROVE  /\ r = [pub |-> imgs.pub, have |-> r.have, shapes |-> imgs.shapes, list |-> r.list]
         /\ r.have \subseteq Ids
         /\ r.list \in [Filters -> {None} \cup SUBSET Ids]
<1> DEFINE look == LaunchLook(spec, f)
<1>1. look.have \subseteq Ids
  BY DEF LaunchLook, ImgsShape
<1>2. look.list # None => look.list \subseteq Images /\ spec.image.filter \in Filters
  BY ImagesAssumption DEF LaunchLook, ListedImages, Filters
<1> HIDE DEF look
<1>3. look.list # None => {i.id : i \in look.list} \in SUBSET Ids
  BY <1>2 DEF Ids
<1> QED BY <1>1, <1>2, <1>3 DEF RememberImages, ImgsShape, ImagesRead, look

\* Every step keeps the shape of the image caches: a listing holds image ids.
LEMMA ImgsShapeKept ==
  ASSUME Shape, [Next]_vars
  PROVE  ImgsShape'
<1> USE DEF Shape
<1>0. class.spec \in Specs
  BY DEF ClassShape
<1>1. CASE imgs' = imgs
  BY <1>1 DEF ImgsShape
<1>2. CASE ReconcileClass
  <2>1. imgs' = RememberImages(class.spec, LaunchLook(class.spec, {}))
    BY <1>2 DEF ReconcileClass
  <2>2. /\ imgs' = [pub |-> imgs.pub, have |-> imgs'.have, shapes |-> imgs.shapes, list |-> imgs'.list]
        /\ imgs'.have \subseteq Ids
        /\ imgs'.list \in [Filters -> {None} \cup SUBSET Ids]
    BY <1>0, <2>1, Remembered
  <2>3. imgs'.pub = imgs.pub /\ imgs'.shapes = imgs.shapes
    BY <2>2
  <2>4. imgs' = [pub |-> imgs'.pub, have |-> imgs'.have, shapes |-> imgs'.shapes, list |-> imgs'.list]
    BY <2>2, <2>3
  <2>5. imgs'.have \subseteq Ids /\ imgs'.list \in [Filters -> {None} \cup SUBSET Ids]
    BY <2>2
  <2> QED BY <2>3, <2>4, <2>5 DEF ImgsShape
<1>3. CASE PublishImage
  <2>1. PICK i \in Ids : imgs' = [imgs EXCEPT !.pub = @ \cup {i}, !.list = [f \in DOMAIN @ |-> None]]
    BY <1>3 DEF PublishImage
  <2>2. [f \in DOMAIN imgs.list |-> None] \in [Filters -> {None} \cup SUBSET Ids]
    BY DEF ImgsShape
  <2> QED BY <2>1, <2>2 DEF ImgsShape
<1>4. CASE ExpireImages
  BY <1>4 DEF ImgsShape, ExpireImages
<1>5. ASSUME NEW t, NEW f, imgs' = RememberShapes(class.spec, t, LaunchLook(class.spec, f))
      PROVE  ImgsShape'
  <2> DEFINE r == RememberImages(class.spec, LaunchLook(class.spec, f))
             read == ShapesRead(class.spec.image, TypeInfo[t].shape, Images, LaunchLook(class.spec, f), Version)
  <2>1. imgs' = [r EXCEPT !.shapes = @ \cup read]
    BY <1>5 DEF RememberShapes
  <2>2. read \subseteq Ids
    <3>1. LaunchLook(class.spec, f).shapes \subseteq Ids
      BY DEF LaunchLook, ImgsShape
    <3>2. read \subseteq LaunchLook(class.spec, f).shapes
      BY Zenon DEF ShapesRead
    <3> QED BY <3>1, <3>2
  <2>3. /\ r = [pub |-> imgs.pub, have |-> r.have, shapes |-> imgs.shapes, list |-> r.list]
        /\ r.have \subseteq Ids
        /\ r.list \in [Filters -> {None} \cup SUBSET Ids]
    BY <1>0, Remembered
  <2> HIDE DEF r, read
  <2>4. imgs'.pub = imgs.pub /\ imgs'.have = r.have /\ imgs'.shapes = imgs.shapes \cup read /\ imgs'.list = r.list
    BY <2>1, <2>3
  <2>5. imgs' = [pub |-> imgs'.pub, have |-> imgs'.have, shapes |-> imgs'.shapes, list |-> imgs'.list]
    BY <2>1, <2>3
  <2> QED BY <2>2, <2>3, <2>4, <2>5 DEF ImgsShape
<1>6. ASSUME NEW f, BeginDrift(f) PROVE ImgsShape'
  <2>1. imgs' = imgs \/ imgs' = RememberShapes(class.spec, claim.type, LaunchLook(class.spec, f))
    BY <1>6, Zenon DEF BeginDrift
  <2> QED BY <1>1, <1>5, <2>1
<1>7. ASSUME NEW t, NEW f, NEW slow, Launch(t, f, slow) PROVE ImgsShape'
  <2>1. imgs' = RememberShapes(class.spec, t, LaunchLook(class.spec, f))
    BY <1>7, Zenon DEF Launch
  <2> QED BY <1>5, <2>1
<1> QED BY <1>1, <1>2, <1>3, <1>4, <1>6, <1>7, ImgsKept

\* A pass that is only disturbed keeps its shape.
LEMMA QuietPass ==
  ASSUME PassShape, Quiet
  PROVE  /\ PassShape'
         /\ pass'.stage = pass.stage /\ pass'.real = pass.real /\ pass'.want = pass.want
         /\ pass'.got = pass.got /\ pass'.load = pass.load /\ pass'.skipped = pass.skipped
         /\ pass'.clean => pass.clean /\ pass' = pass
         /\ pass = NoPass => pass' = NoPass
<1>1. pass = NoPass => pass' = NoPass
  BY DEF Quiet, NoPass
<1>2. /\ pass' = [stage |-> pass'.stage, real |-> pass'.real, want |-> pass'.want, got |-> pass'.got,
                  load |-> pass'.load, clean |-> pass'.clean, skipped |-> pass'.skipped]
      /\ pass'.stage = pass.stage /\ pass'.real = pass.real /\ pass'.want = pass.want
      /\ pass'.got = pass.got /\ pass'.load = pass.load /\ pass'.skipped = pass.skipped
      /\ pass'.clean \in BOOLEAN
      /\ pass'.clean => pass.clean /\ pass' = pass
  BY DEF Quiet, PassShape
<1> QED BY <1>1, <1>2 DEF PassShape, OnKeys

\* A VNIC's cache key is none of the other keys.
LEMMA VnicKeys ==
  /\ Vnics \subseteq Keys /\ {"inst", "vatt", "batt", "boot"} \subseteq Keys
  /\ \A v \in Vnics : v \notin {"inst", "vatt", "batt", "boot"}
BY KeysAssumption DEF Keys

\* The empty caches have the keys of the caches.
LEMMA EmptyOnKeys == OnKeys(Empty)
BY DEF OnKeys, Empty

\* An idle pass has the shape of a pass.
LEMMA NoPassShape ==
  ASSUME pass' = NoPass
  PROVE  PassShape'
BY EmptyOnKeys DEF PassShape, NoPass, Stages

\* Every step keeps the shape of the pass.
LEMMA PassShapeKept ==
  ASSUME Shape, [Next]_vars
  PROVE  PassShape'
<1>0. PassShape /\ OnKeys(cache)
  BY DEF Shape
<1>1. CASE Quiet
  BY <1>0, <1>1, QuietPass
<1>2. CASE pass' = NoPass
  BY <1>2, NoPassShape
<1>3. ASSUME NEW f, BeginDrift(f) PROVE PassShape'
  <2>1. ASSUME pass' # NoPass
        PROVE  \E want, skipped : /\ skipped \in BOOLEAN
                                  /\ pass' = [NoPass EXCEPT !.stage = "inst", !.clean = TRUE,
                                                            !.skipped = skipped, !.want = want]
    BY <1>3, <2>1, Zenon DEF BeginDrift, Finish
  <2> QED BY <1>2, <2>1, EmptyOnKeys DEF PassShape, NoPass, Stages
<1>4. CASE ReadHit
  <2>1. PICK k : pass' = [pass EXCEPT !.got[k] = cache[k]] /\ pass.stage # "idle"
    BY <1>4 DEF ReadHit, NextReads
  <2>2. OnKeys([pass.got EXCEPT ![k] = cache[k]])
    BY <1>0 DEF OnKeys, PassShape
  <2> QED BY <1>0, <2>1, <2>2 DEF PassShape
<1>5. CASE ReadAnswered
  <2>1. PICK k : pass' = [pass EXCEPT !.load = [key |-> k, val |-> oci[k]]] /\ pass.stage # "idle"
    BY <1>5 DEF ReadAnswered, NextReads
  <2> QED BY <1>0, <2>1 DEF PassShape
<1>6. CASE ReadStored
  <2>1. pass' = [pass EXCEPT !.load = None, !.got[pass.load.key] = pass.load.val]
    BY <1>6 DEF ReadStored
  <2>2. OnKeys([pass.got EXCEPT ![pass.load.key] = pass.load.val])
    BY <1>0 DEF OnKeys, PassShape
  <2>3. pass.stage # "idle"
    BY <1>6, <1>0 DEF ReadStored, PassShape, NoPass
  <2> QED BY <1>0, <2>1, <2>2, <2>3 DEF PassShape
<1>7. CASE ReadFails
  BY <1>2, <1>7, Zenon DEF ReadFails, Finish
<1>8. CASE Judge
  <2>1. pass' = NoPass \/ pass' = Confirm(pass) \/ pass' = Advance(pass)
    BY <1>8, Zenon DEF Judge, Finish
  <2>2. pass.stage # "idle" /\ pass.load = None
    BY <1>8, Zenon DEF Judge
  <2>3. CASE pass' = Confirm(pass)
    BY <1>0, <2>2, <2>3, EmptyOnKeys DEF PassShape, Confirm, Stages
  <2>4. CASE pass' = Advance(pass)
    <3> DEFINE toSec == pass.stage = "net" /\ ~pass.want.skip /\ pass.want.net.secondary # <<>>
               got == [k \in Keys |-> IF toSec /\ k = "vatt" THEN pass.got[k] ELSE None]
    <3>1. pass' = [pass EXCEPT !.stage = IF @ = "inst" THEN "net" ELSE IF toSec THEN "sec" ELSE "boot",
                               !.real = toSec /\ @, !.got = got]
      BY <2>4 DEF Advance
    <3>2. OnKeys(got)
      BY DEF OnKeys
    <3>3. toSec \in BOOLEAN
      OBVIOUS
    <3> HIDE DEF toSec, got
    <3> QED BY <1>0, <2>2, <3>1, <3>2, <3>3 DEF PassShape, Stages
  <2> QED BY <1>2, <2>1, <2>3, <2>4
<1>9. World => Quiet
  BY WorldFrame
<1>10. Users \/ UNCHANGED vars => Quiet
  BY UsersFrame DEF Quiet, vars
<1>11. ASSUME NEW t, NEW f, NEW slow, Launch(t, f, slow) PROVE Quiet
  BY <1>11, LaunchFrame DEF Quiet
<1> QED
  BY <1>1, <1>3, <1>4, <1>5, <1>6, <1>7, <1>8, <1>9, <1>10, <1>11, StepKinds

\* Evictions only ever remove entries.
LEMMA Evictions ==
  ASSUME NEW c, OnKeys(c)
  PROVE  /\ OnKeys(EvictVatt(c)) /\ OnKeys(EvictBatt(c)) /\ OnKeys(EvictInstance(c))
         /\ \A k \in Keys : /\ EvictVatt(c)[k] \in {None, c[k]}
                            /\ EvictBatt(c)[k] \in {None, c[k]}
                            /\ EvictInstance(c)[k] \in {None, c[k]}
<1>1. ASSUME NEW d, OnKeys(d)
      PROVE  OnKeys(EvictVatt(d)) /\ \A k \in Keys : EvictVatt(d)[k] \in {None, d[k]}
  BY <1>1 DEF OnKeys, EvictVatt
<1>2. ASSUME NEW d, OnKeys(d)
      PROVE  OnKeys(EvictBatt(d)) /\ \A k \in Keys : EvictBatt(d)[k] \in {None, d[k]}
  BY <1>2 DEF OnKeys, EvictBatt
<1> DEFINE d == [c EXCEPT !["inst"] = None]
<1>3. OnKeys(d) /\ \A k \in Keys : d[k] \in {None, c[k]}
  BY DEF OnKeys
<1> HIDE DEF d
<1>4. OnKeys(EvictVatt(d)) /\ \A k \in Keys : EvictVatt(d)[k] \in {None, d[k]}
  BY <1>1, <1>3
<1>5. OnKeys(EvictBatt(EvictVatt(d))) /\ \A k \in Keys : EvictBatt(EvictVatt(d))[k] \in {None, EvictVatt(d)[k]}
  BY <1>2, <1>4
<1>6. EvictInstance(c) = EvictBatt(EvictVatt(d))
  BY DEF EvictInstance, d
<1>7. OnKeys(EvictInstance(c)) /\ \A k \in Keys : EvictInstance(c)[k] \in {None, c[k]}
  BY <1>3, <1>4, <1>5, <1>6
<1> QED BY <1>1, <1>2, <1>7

\* Storing an answer keeps the keys of the caches.
LEMMA StoredOnKeys ==
  ASSUME NEW c, OnKeys(c), NEW k, NEW v, NEW real
  PROVE  OnKeys(StoreValue(c, k, v, real))
<1> DEFINE old == IF real /\ k = "vatt" THEN EvictVatt(c)
                  ELSE IF real /\ k = "batt" THEN EvictBatt(c) ELSE c
           new == [old EXCEPT ![k] = v]
<1>1. OnKeys(old)
  BY Evictions
<1> HIDE DEF old
<1>2. OnKeys(new)
  BY <1>1 DEF OnKeys
<1> HIDE DEF new
<1>3. OnKeys(EvictInstance(new))
  BY <1>2, Evictions
<1>4. StoreValue(c, k, v, real) \in {new, EvictInstance(new)}
  BY DEF StoreValue, new, old
<1> QED BY <1>2, <1>3, <1>4

\* Every step keeps the keys of the caches.
LEMMA CacheOnKeys ==
  ASSUME Shape, [Next]_vars
  PROVE  OnKeys(cache')
<1>0. OnKeys(cache)
  BY DEF Shape
<1>1. CASE cache' = cache
  BY <1>0, <1>1
<1>2. CASE ReadStored
  <2>1. cache' = StoreValue(cache, pass.load.key, pass.load.val, pass.real)
    BY <1>2 DEF ReadStored
  <2> QED BY <1>0, <2>1, StoredOnKeys
<1>3. CASE ReadFails
  <2>1. cache' = EvictInstance(cache) \/ cache' = cache
    BY <1>3, Zenon DEF ReadFails
  <2> QED BY <1>0, <2>1, Evictions
<1>4. CASE ReadHit \/ ReadAnswered \/ Judge
  BY <1>1, <1>4, Zenon DEF ReadHit, ReadAnswered, Judge
<1>5. CASE Users
  <2>1. \/ cache' = cache \/ cache' = EvictInstance(cache)
        \/ cache' = StoreValue(cache, "inst", other.val, TRUE)
    BY <1>5, Zenon DEF Users, GetAnswered, GetNotFound, ListAnswered, OtherStored, ListFails
  <2> QED BY <1>0, <2>1, Evictions, StoredOnKeys
<1>6. ASSUME NEW t, NEW f, NEW slow, Launch(t, f, slow) PROVE OnKeys(cache')
  <2>1. PICK inst : cache' = [Empty EXCEPT !["inst"] = inst]
    BY <1>6, Zenon DEF Launch
  <2> QED BY <2>1 DEF OnKeys, Empty
<1> QED
  BY <1>1, <1>2, <1>3, <1>4, <1>5, <1>6, StepKinds, BeginDriftFrame, WorldFrame, Zenon DEF vars

\* OCI's view of an instance just launched.
LaunchNet(spec)   == CHOOSE n \in NetworkNow(spec) : TRUE
LaunchRes(spec)   == IF spec.res = {} THEN None ELSE CHOOSE x \in spec.res : TRUE
LaunchGroup(cpgs) == IF cpgs = {} THEN None ELSE CHOOSE x \in cpgs : TRUE

\* What OCI has of the instance right after the launch.
Launched(inst, spec, slow) ==
  [Empty EXCEPT
     !["inst"]  = inst,
     !["boot"]  = BuildBootVolume(spec),
     ![Primary] = BuildVnic(LaunchNet(spec).primary, TRUE),
     !["vatt"]  = IF slow THEN NoVnics
                  ELSE [v \in {Primary} |-> BuildVnic(LaunchNet(spec).primary, TRUE).subnet],
     !["batt"]  = [attached |-> ~slow, enc |-> BuildBootVolume(spec).enc]]

\* What LaunchInstance has found out and built when it sends the launch.
LEMMA LaunchParts ==
  ASSUME NEW t, NEW f, NEW slow, Launch(t, f, slow)
  PROVE  /\ claim = None /\ class.ready /\ t \in ListInstanceTypes(class.spec)
         /\ NetworkNow(class.spec) # {}
         /\ \E image \in ImageFor(class.spec, t, LaunchLook(class.spec, f)) : \E inst :
              /\ inst = BuildInstance(class.spec, TypeInfo[t], image, LaunchRes(class.spec),
                                      LaunchGroup(class.cpgs))
              /\ oci' = Launched(inst, class.spec, slow)
              /\ cache' = [Empty EXCEPT !["inst"] = inst]
         /\ npn' = constructSecondaryVnicsNpnSpec(LaunchNet(class.spec))
BY Zenon DEF Launch, Launched, LaunchNet, LaunchRes, LaunchGroup

\* Every step keeps the keys of what OCI has.
LEMMA OciOnKeys ==
  ASSUME Shape, [Next]_vars
  PROVE  OnKeys(oci')
<1>0. OnKeys(oci)
  BY DEF Shape
<1>1. CASE oci' = oci
  BY <1>0, <1>1
<1>2. CASE AttachPrimary
  BY <1>0, <1>2 DEF OnKeys, AttachPrimary
<1>3. CASE AttachSecondary
  BY <1>0, <1>3 DEF OnKeys, AttachSecondary
<1>4. CASE ChangeOutside
  BY <1>0, <1>4 DEF OnKeys, ChangeOutside
<1>5. CASE Terminate
  BY <1>5 DEF OnKeys, Terminate, Empty
<1>6. CASE Purge
  BY <1>6 DEF OnKeys, Purge, Empty
<1>7. ASSUME NEW t, NEW f, NEW slow, Launch(t, f, slow) PROVE OnKeys(oci')
  <2>1. PICK inst : oci' = Launched(inst, class.spec, slow)
    BY <1>7, LaunchParts
  <2> QED BY <2>1 DEF OnKeys, Empty, Launched
<1> QED BY <1>1, <1>2, <1>3, <1>4, <1>5, <1>6, <1>7, OciKept

\* The claim of a launch.
LEMMA LaunchClaim ==
  ASSUME Shape, NEW t \in Types, NEW f, NEW slow, Launch(t, f, slow)
  PROVE  claim' \in Claims
<1>1. class.spec \in Specs
  BY DEF Shape, ClassShape
<1> DEFINE r == IF class.spec.res = {} THEN None ELSE CHOOSE x \in class.spec.res : TRUE
<1>2. claim' = [hash |-> KarpenterHash(StaticFields(class.spec)), type |-> t, res |-> r,
                init |-> FALSE, fields |-> StaticFields(class.spec)]
  BY Zenon DEF Launch
<1>3. r \in {None} \cup UNION {s.res : s \in Specs}
  BY <1>1
<1>4. /\ KarpenterHash(StaticFields(class.spec)) \in {KarpenterHash(StaticFields(s)) : s \in Specs}
      /\ StaticFields(class.spec) \in {StaticFields(s) : s \in Specs}
  BY <1>1
<1> HIDE DEF r
<1> QED BY <1>2, <1>3, <1>4 DEF Claims

\* Every step keeps the shape of the NodeClaim.
LEMMA ClaimShapeKept ==
  ASSUME Shape, [Next]_vars
  PROVE  ClaimShape'
<1>0. ClaimShape /\ PassShape
  BY DEF Shape
<1>1. CASE claim' = claim /\ claim # None
  BY <1>0, <1>1 DEF ClaimShape
<1>2. CASE claim' = claim /\ claim = None
  <2>1. pass = NoPass /\ other = None /\ oci = Empty /\ cache = Empty
    BY <1>0, <1>2 DEF ClaimShape
  <2>2. pass.stage = "idle" /\ pass.load = None
    BY <2>1 DEF NoPass
  <2>3. NextReads(pass) = {}
    BY <2>2 DEF NextReads
  <2>4. ~ReadHit /\ ~ReadAnswered /\ ~ReadStored /\ ~ReadFails /\ ~Judge
    BY <2>2, <2>3, Zenon DEF ReadHit, ReadAnswered, ReadStored, ReadFails, Judge
  <2>5. ~Users
    BY <1>2, <2>1, Zenon DEF Users, GetAnswered, GetNotFound, ListAnswered, OtherStored, ListFails
  <2>6. oci["inst"] = None
    BY <2>1 DEF Empty, Keys
  <2>7. ASSUME World PROVE oci' = oci
    BY <2>6, <2>7, Zenon DEF World, EditSpec, ReconcileClass, BecomeInitialized, Retag, PublishImage,
      ExpireImages, RefreshCatalog, AttachPrimary, AttachSecondary, ChangeOutside, Terminate,
      Purge, Running
  <2>8. ASSUME World PROVE pass' = NoPass /\ cache' = cache /\ other' = other
    BY <1>0, <2>1, <2>8, WorldFrame, QuietPass
  <2>9. ASSUME NEW f, BeginDrift(f) PROVE FALSE
    BY <1>2, <2>9, Zenon DEF BeginDrift
  <2>10. ASSUME NEW t \in Types, NEW f, NEW slow, Launch(t, f, slow) PROVE FALSE
    BY <1>2, <2>10, LaunchClaim, KeysAssumption
  <2>11. pass' = NoPass /\ other' = None /\ oci' = Empty /\ cache' = Empty
    BY <2>1, <2>4, <2>5, <2>7, <2>8, <2>9, <2>10, StepKinds DEF vars
  <2> QED BY <1>2, <2>11 DEF ClaimShape
<1>3. CASE BecomeInitialized
  <2>1. oci["inst"] # None /\ claim' = [claim EXCEPT !.init = TRUE]
    BY <1>3, Zenon DEF BecomeInitialized, Running
  <2>2. claim \in Claims
    BY <1>0, <2>1 DEF ClaimShape, Empty, Keys
  <2>3. claim' \in Claims
    BY <2>1, <2>2 DEF Claims
  <2> QED BY <2>3, KeysAssumption DEF ClaimShape
<1>4. ASSUME NEW t \in Types, NEW f, NEW slow, Launch(t, f, slow) PROVE ClaimShape'
  BY <1>4, LaunchClaim, KeysAssumption DEF ClaimShape
<1> QED BY <1>1, <1>2, <1>3, <1>4, ClaimKept

\* Every step keeps the shape of the other reader and of the history variables.
LEMMA HistoryShapeKept ==
  ASSUME Shape, [Next]_vars
  PROVE  OtherShape' /\ HistoryShape'
<1>0. OtherShape /\ HistoryShape
  BY DEF Shape
<1>1. OtherShape'
  <2>1. other' = other \/ other' = None \/ \E seen, val : other' = [seen |-> seen, val |-> val]
    <3>1. ASSUME Users PROVE other' = other \/ other' = None \/ \E seen, val : other' = [seen |-> seen, val |-> val]
      BY <3>1 DEF Users, GetAnswered, GetNotFound, ListAnswered, OtherStored, ListFails
    <3> QED BY <3>1, StepKinds, BeginDriftFrame, PassFrame, LaunchFrame, WorldFrame, Zenon DEF vars
  <2> QED BY <1>0, <2>1 DEF OtherShape
<1>2. verdict' = [reason |-> verdict'.reason, skipped |-> verdict'.skipped]
  <2>1. verdict' = verdict \/ \E reason, skipped : verdict' = [reason |-> reason, skipped |-> skipped]
    <3>1. \E reason, skipped : NoVerdict = [reason |-> reason, skipped |-> skipped]
      BY Zenon DEF NoVerdict
    <3>2. ASSUME NEW r, NEW c, NEW s, Finish(r, c, s)
          PROVE  \E reason, skipped : verdict' = [reason |-> reason, skipped |-> skipped]
      BY <3>1, <3>2, Zenon DEF Finish
    <3>3. ASSUME NEW f, BeginDrift(f)
          PROVE  \E reason, skipped : verdict' = [reason |-> reason, skipped |-> skipped]
      <4>1. verdict' = NoVerdict \/ \E r, c, s : Finish(r, c, s)
        BY <3>3, Zenon DEF BeginDrift
      <4> QED BY <3>1, <3>2, <4>1, Zenon
    <3>4. ASSUME ReadHit \/ ReadAnswered \/ ReadStored \/ ReadFails \/ Judge
          PROVE  \E reason, skipped : verdict' = [reason |-> reason, skipped |-> skipped]
      <4>1. verdict' = NoVerdict \/ \E r, c, s : Finish(r, c, s)
        BY <3>4, Zenon DEF ReadHit, ReadAnswered, ReadStored, ReadFails, Judge
      <4> QED BY <3>1, <3>2, <4>1, Zenon
    <3> QED BY <3>1, <3>3, <3>4, StepKinds, LaunchFrame, WorldFrame, UsersFrame, Zenon DEF vars
  <2> QED BY <1>0, <2>1 DEF HistoryShape
<1>3. outside' \in BOOLEAN
  <2>1. outside' = outside \/ outside' = TRUE
    <3>1. ASSUME World PROVE outside' = outside \/ outside' = TRUE
      BY <3>1, Zenon DEF World, worldVars, EditSpec, ReconcileClass, AttachPrimary, AttachSecondary,
        BecomeInitialized, ChangeOutside, Retag, PublishImage, ExpireImages, RefreshCatalog,
        Terminate, Purge
    <3> QED BY <3>1, StepKinds, BeginDriftFrame, PassFrame, LaunchFrame, UsersFrame, Zenon DEF vars, worldVars
  <2> QED BY <1>0, <2>1 DEF HistoryShape
<1>4. straddled' \in BOOLEAN
  <2>1. straddled' = straddled \/ straddled' = TRUE \/ Evicted
    <3>1. ASSUME Users PROVE straddled' = straddled \/ Evicted
      BY <3>1, Zenon DEF Users, GetAnswered, GetNotFound, ListAnswered, OtherStored, ListFails
    <3> QED BY <3>1, StepKinds, BeginDriftFrame, PassFrame, LaunchFrame, WorldFrame, Zenon DEF vars
  <2> QED BY <1>0, <2>1 DEF HistoryShape, Evicted
<1> QED BY <1>1, <1>2, <1>3, <1>4 DEF HistoryShape

\* The initial states have the shape.
LEMMA ShapeInit ==
  ASSUME Init
  PROVE  Shape
<1>1. ClassShape
  BY DriftAssumption DEF Init, ClassShape, ReadyClass
<1>2. ImgsShape
  BY ImagesAssumption DEF Init, ImgsShape, Filters
<1>3. PassShape
  BY EmptyOnKeys DEF Init, PassShape, NoPass, Stages
<1>4. ClaimShape /\ OtherShape /\ HistoryShape
  BY DEF Init, ClaimShape, OtherShape, HistoryShape, NoVerdict
<1>5. OnKeys(oci) /\ OnKeys(cache)
  BY EmptyOnKeys DEF Init
<1> QED BY <1>1, <1>2, <1>3, <1>4, <1>5 DEF Shape

\* Every step keeps the shape.
LEMMA ShapeKept ==
  ASSUME Shape, [Next]_vars
  PROVE  Shape'
<1>1. ClassShape
  BY DEF Shape
<1> QED
  BY <1>1, ClassShapeKept, ClaimShapeKept, ImgsShapeKept, PassShapeKept, HistoryShapeKept, CacheOnKeys,
    OciOnKeys DEF Shape, OnKeys
-----------------------------------------------------------------------------
(* The instance as OCI has it *)

\* The primary VNIC and the first m secondary ones.
UpTo(m) == {Primary} \cup {Secondaries[i] : i \in 1..m}

\* The claim and the NativePodNetwork are of one launch.
NpnInv ==
  /\ npn = <<>> \/ claim # None
  /\ claim # None =>
       /\ claim.hash = KarpenterHash(claim.fields)
       /\ DOMAIN npn = 1..Len(claim.fields.secondary)
       /\ DOMAIN claim.fields.secondary = 1..Len(claim.fields.secondary)
       /\ Len(claim.fields.secondary) \in 0..Len(Secondaries)
       /\ \A i \in DOMAIN npn : npn[i] = BuildVnic(npn[i], FALSE)

\* The primary VNIC is attached with the boot volume, the secondary ones after it and in
\* order, all of them before the node is initialized.
AttachedInv ==
  Running =>
    /\ oci["batt"] = [attached |-> oci["batt"].attached, enc |-> oci["boot"].enc]
    /\ oci["batt"].attached \in BOOLEAN
    /\ oci["vatt"] = [v \in DOMAIN oci["vatt"] |-> oci[v].subnet]
    /\ oci[Primary] = BuildVnic(oci[Primary], TRUE)
    /\ ~oci["batt"].attached => DOMAIN oci["vatt"] = {} /\ ~claim.init
    /\ oci["batt"].attached =>
         \E m \in 0..Len(claim.fields.secondary) :
           /\ DOMAIN oci["vatt"] = UpTo(m)
           /\ claim.init => m = Len(claim.fields.secondary)
    /\ \A v \in DOMAIN oci["vatt"] \ {Primary} : oci[v] = BuildVnic(oci[v], FALSE)
    /\ \A v \in Vnics \ {Primary} : v \notin DOMAIN oci["vatt"] => oci[v] = None
    /\ oci["boot"].size \in Nat
    /\ LET i == oci["inst"] IN
         i = [state |-> "running", comp |-> i.comp, shape |-> i.shape, size |-> i.size,
              image |-> i.image, res |-> claim.res, cpg |-> i.cpg, launch |-> i.launch]

\* Attachments name VNICs.
VnicsOf(x) == x # None => DOMAIN x \subseteq Vnics

\* The instance is what LaunchInstance asked for.
LaunchInv == NpnInv /\ AttachedInv /\ VnicsOf(oci["vatt"])

\* A function on 1..n is a sequence of length n.
LEMMA LenOf ==
  ASSUME NEW n \in Nat, NEW f, f = [i \in 1..n |-> f[i]]
  PROVE  Len(f) = n
OBVIOUS

\* The resolved network has the VNICs of the spec.
LEMMA NetworkShape ==
  ASSUME NEW spec \in Specs, NEW net \in NetworkNow(spec)
  PROVE  /\ NetworkNow(spec) = {net}
         /\ DOMAIN net.secondary = 1..Len(spec.secondary)
         /\ Len(net.secondary) = Len(spec.secondary)
         /\ Len(spec.secondary) \in 0..Len(Secondaries)
         /\ DOMAIN spec.secondary = 1..Len(spec.secondary)
<1>1. Len(spec.secondary) \in Nat /\ Len(spec.secondary) <= Len(Secondaries) /\ Len(Secondaries) \in Nat
        /\ DOMAIN spec.secondary = 1..Len(spec.secondary)
  BY SpecsAssumption, KeysAssumption
<1>2. NetworkNow(spec) = {net} /\ \E p, g : net = [primary |-> p, secondary |-> [i \in 1..Len(spec.secondary) |-> g[i]]]
  <2> DEFINE second == [i \in 1..Len(spec.secondary) |-> ResolveVnic(spec.secondary[i], NsgsNow)]
             p == Status(CHOOSE r \in ResolveVnic(spec.primary, NsgsNow) : TRUE)
             g == [i \in 1..Len(spec.secondary) |-> Status(CHOOSE r \in second[i] : TRUE)]
             n0 == [primary |-> p, secondary |-> g]
  <2>1. NetworkNow(spec) = {} \/ NetworkNow(spec) = {n0}
    BY Zenon DEF NetworkNow, ResolveNetworkConfig
  <2>2. net = n0 /\ NetworkNow(spec) = {net}
    BY <2>1
  <2>3. g = [i \in 1..Len(spec.secondary) |-> g[i]]
    OBVIOUS
  <2> HIDE DEF p, g
  <2> QED BY <2>2, <2>3
<1>3. PICK p, g : net = [primary |-> p, secondary |-> [i \in 1..Len(spec.secondary) |-> g[i]]]
  BY <1>2
<1>4. net.secondary = [i \in 1..Len(spec.secondary) |-> net.secondary[i]]
  BY <1>3
<1>5. Len(net.secondary) = Len(spec.secondary) /\ DOMAIN net.secondary = 1..Len(spec.secondary)
  BY <1>1, <1>4, LenOf
<1> QED BY <1>1, <1>2, <1>5

\* The hashed fields name each secondary VNIC of the spec once.
LEMMA FieldsShape ==
  ASSUME NEW spec \in Specs
  PROVE  LET s == StaticFields(spec).secondary IN
           /\ Len(s) = Len(spec.secondary) /\ DOMAIN s = 1..Len(spec.secondary)
           /\ Len(s) \in 0..Len(Secondaries)
<1> DEFINE s == StaticFields(spec).secondary
<1>1. Len(spec.secondary) \in 0..Len(Secondaries) /\ DOMAIN spec.secondary = 1..Len(spec.secondary)
  BY SpecsAssumption, KeysAssumption
<1>2. s = [i \in 1..Len(spec.secondary) |-> s[i]]
  BY <1>1 DEF StaticFields
<1> HIDE DEF s
<1>3. Len(s) = Len(spec.secondary) /\ DOMAIN s = 1..Len(spec.secondary)
  BY <1>1, <1>2, LenOf
<1> QED BY <1>1, <1>3 DEF s

\* As many VNICs are attached as were asked for, and the primary.
LEMMA UpToSize ==
  ASSUME NEW m \in 0..Len(Secondaries)
  PROVE  /\ UpTo(m) \subseteq Vnics /\ Primary \in UpTo(m)
         /\ IsFiniteSet(UpTo(m)) /\ Cardinality(UpTo(m)) = m + 1
<1> DEFINE S == {Secondaries[i] : i \in 1..m}
<1>1. Len(Secondaries) \in Nat /\ DOMAIN Secondaries = 1..Len(Secondaries) /\ m \in Nat
  BY KeysAssumption
<1>2. \A i \in 1..m : i \in DOMAIN Secondaries
  BY <1>1
<1>3. S \subseteq Range(Secondaries)
  BY <1>2 DEF Range
<1>4. \A i, j \in 1..m : Secondaries[i] = Secondaries[j] => i = j
  BY <1>2, KeysAssumption DEF IsInjective
<1>5. IsFiniteSet(S) /\ Cardinality(S) = m
  <2> DEFINE f == [i \in 1..m |-> Secondaries[i]]
  <2>1. f \in Bijection(1..m, S)
    BY <1>4 DEF Bijection, Injection, Surjection, IsInjective
  <2>2. IsFiniteSet(1..m) /\ Cardinality(1..m) = m
    BY <1>1, FS_Interval
  <2> HIDE DEF f, S
  <2>3. \E g : g \in Bijection(1..m, S)
    BY <2>1
  <2>4. ExistsBijection(1..m, S)
    BY <2>3 DEF ExistsBijection
  <2> QED BY <2>2, <2>4, FS_Bijection
<1>6. Primary \notin S
  BY <1>3, KeysAssumption
<1>7. UpTo(m) = S \cup {Primary}
  BY DEF UpTo
<1>8. S \subseteq Vnics /\ Primary \in Vnics
  BY <1>3 DEF Vnics
<1> HIDE DEF S
<1>9. IsFiniteSet(S \cup {Primary}) /\ Cardinality(S \cup {Primary}) = m + 1
  BY <1>5, <1>6, FS_AddElement
<1> QED BY <1>7, <1>8, <1>9

\* Only the launch writes the NativePodNetwork.
LEMMA NpnKept ==
  ASSUME [Next]_vars
  PROVE  npn' = npn \/ \E t \in Types : \E f : \E slow \in BOOLEAN : Launch(t, f, slow)
<1>1. ASSUME World PROVE npn' = npn
  BY <1>1, Zenon DEF World, EditSpec, ReconcileClass, AttachPrimary, AttachSecondary,
    BecomeInitialized, ChangeOutside, Retag, PublishImage, ExpireImages, RefreshCatalog,
    Terminate, Purge
<1> QED
  BY <1>1, StepKinds, BeginDriftFrame, PassFrame, UsersFrame, Zenon DEF vars

\* The boot volume has the parts the spec sets.
LEMMA BootShape ==
  ASSUME NEW spec \in Specs
  PROVE  LET b == BuildBootVolume(spec) IN
           /\ b.size \in Nat /\ (spec.boot.size # None => b.size = spec.boot.size)
           /\ spec.boot.enc # None => b.enc = spec.boot.enc
           /\ spec.boot.kms # None => b.kms = spec.boot.kms
           /\ spec.boot.vpus # None => b.vpus = spec.boot.vpus
BY SpecsAssumption DEF BuildBootVolume, BuildLaunchOptions, OrElse

\* The boot volume built from a spec has a natural size.
LEMMA BootSize ==
  ASSUME NEW spec \in Specs
  PROVE  BuildBootVolume(spec).size \in Nat
BY BootShape

\* What a launch leaves behind.
LEMMA LaunchLeaves ==
  ASSUME Shape, NEW t \in Types, NEW f, NEW slow \in BOOLEAN, Launch(t, f, slow)
  PROVE  LaunchInv' /\ class' = class /\ claim' # None
         /\ claim'.type = t /\ ~claim'.init /\ claim'.fields = StaticFields(class.spec)
         /\ claim'.res = LaunchRes(class.spec)
<1>0. class.spec \in Specs
  BY DEF Shape, ClassShape
<1> DEFINE net == LaunchNet(class.spec)
<1>1. net \in NetworkNow(class.spec)
  BY LaunchParts DEF LaunchNet
<1>2. /\ claim' = [hash |-> KarpenterHash(StaticFields(class.spec)), type |-> t, res |-> LaunchRes(class.spec),
                   init |-> FALSE, fields |-> StaticFields(class.spec)]
      /\ class' = class
  BY Zenon DEF Launch, LaunchRes
<1>3. PICK image, inst :
        /\ inst = BuildInstance(class.spec, TypeInfo[t], image, LaunchRes(class.spec), LaunchGroup(class.cpgs))
        /\ oci' = Launched(inst, class.spec, slow)
  BY LaunchParts
<1>4. npn' = constructSecondaryVnicsNpnSpec(net)
  BY LaunchParts
<1>5. claim' # None
  BY LaunchClaim, KeysAssumption
<1>6. NpnInv'
  <2>1. DOMAIN npn' = 1..Len(class.spec.secondary)
    BY <1>0, <1>1, <1>4, NetworkShape DEF constructSecondaryVnicsNpnSpec
  <2>2. \A i \in DOMAIN npn' : npn'[i] = BuildVnic(npn'[i], FALSE)
    BY <1>4 DEF constructSecondaryVnicsNpnSpec, BuildVnic
  <2>3. claim'.hash = KarpenterHash(claim'.fields) /\ claim'.fields = StaticFields(class.spec)
    BY <1>2
  <2> QED BY <1>0, <1>5, <2>1, <2>2, <2>3, FieldsShape DEF NpnInv
<1>7. /\ oci'["inst"] = inst /\ oci'["boot"] = BuildBootVolume(class.spec)
      /\ oci'[Primary] = BuildVnic(net.primary, TRUE)
      /\ oci'["vatt"] = IF slow THEN NoVnics ELSE [v \in {Primary} |-> BuildVnic(net.primary, TRUE).subnet]
      /\ oci'["batt"] = [attached |-> ~slow, enc |-> BuildBootVolume(class.spec).enc]
  BY <1>3, VnicKeys DEF Launched, Empty, Keys, Vnics
<1>8. inst = [state |-> "running", comp |-> inst.comp, shape |-> inst.shape, size |-> inst.size,
              image |-> inst.image, res |-> LaunchRes(class.spec), cpg |-> inst.cpg, launch |-> inst.launch]
  BY <1>3 DEF BuildInstance
<1>9. slow => DOMAIN oci'["vatt"] = {}
  BY <1>7 DEF NoVnics
<1>10. ~slow => DOMAIN oci'["vatt"] = {Primary}
  BY <1>7
<1>11. UpTo(0) = {Primary}
  BY DEF UpTo
<1>12. claim'.res = LaunchRes(class.spec) /\ claim'.fields = StaticFields(class.spec) /\ ~claim'.init /\ claim'.type = t
  BY <1>2
<1>13. AttachedInv'
  <2>1. oci'["batt"] = [attached |-> oci'["batt"].attached, enc |-> oci'["boot"].enc]
          /\ oci'["batt"].attached = ~slow
    BY <1>7
  <2>2. oci'["vatt"] = [v \in DOMAIN oci'["vatt"] |-> oci'[v].subnet]
    <3>1. CASE slow
      BY <1>7, <1>9, <3>1 DEF NoVnics
    <3>2. CASE ~slow
      BY <1>7, <1>10, <3>2
    <3> QED BY <3>1, <3>2
  <2>3. oci'[Primary] = BuildVnic(oci'[Primary], TRUE)
    BY <1>7 DEF BuildVnic
  <2>4. 0 \in 0..Len(claim'.fields.secondary)
    BY <1>0, <1>12, FieldsShape
  <2>5. \A v \in DOMAIN oci'["vatt"] : v = Primary
    BY <1>9, <1>10
  <2>6. \A v \in Vnics \ {Primary} : oci'[v] = None
    BY <1>3, VnicKeys DEF Launched, Empty
  <2>7. oci'["boot"].size \in Nat
    BY <1>0, <1>7, BootSize
  <2> QED BY <1>7, <1>8, <1>9, <1>10, <1>11, <1>12, <2>1, <2>2, <2>3, <2>4, <2>5, <2>6, <2>7 DEF AttachedInv
<1>14. VnicsOf(oci'["vatt"])
  BY <1>9, <1>10 DEF VnicsOf, Vnics
<1> QED BY <1>2, <1>5, <1>6, <1>12, <1>13, <1>14 DEF LaunchInv, VnicsOf\* The attached VNICs, when there are any.

\* The number of attachments of a running instance, when the first m secondary VNICs
\* are attached.
LEMMA AttachedSize ==
  ASSUME Shape, NpnInv, AttachedInv, Running, NEW m \in 0..Len(claim.fields.secondary),
         DOMAIN oci["vatt"] = UpTo(m)
  PROVE  /\ claim # None /\ Len(npn) = Len(claim.fields.secondary)
         /\ m \in 0..Len(Secondaries) /\ Len(Secondaries) \in Nat
         /\ Cardinality(DOMAIN oci["vatt"]) = m + 1
<1>1. claim # None
  BY DEF Shape, ClaimShape, Running, Empty, Keys
<1>2. Len(claim.fields.secondary) \in 0..Len(Secondaries) /\ Len(Secondaries) \in Nat
  BY <1>1, KeysAssumption DEF NpnInv
<1>3. Len(npn) = Len(claim.fields.secondary)
  BY <1>1, <1>2 DEF NpnInv
<1>4. m \in 0..Len(Secondaries)
  BY <1>2
<1> QED BY <1>1, <1>2, <1>3, <1>4, UpToSize

\* Every step keeps the NativePodNetwork in line with the claim.
LEMMA NpnInvKept ==
  ASSUME Shape, NpnInv, [Next]_vars
  PROVE  NpnInv'
<1>1. CASE claim' = claim /\ npn' = npn
  BY <1>1 DEF NpnInv
<1>2. CASE BecomeInitialized
  <2>1. claim' = [claim EXCEPT !.init = TRUE] /\ npn' = npn /\ oci["inst"] # None
    BY <1>2, Zenon DEF BecomeInitialized, Running
  <2>2. claim \in Claims /\ claim # None
    BY <2>1, KeysAssumption DEF Shape, ClaimShape, Empty, Keys
  <2>3. claim' # None /\ claim'.hash = claim.hash /\ claim'.fields = claim.fields
    <3>1. claim' \in Claims /\ claim'.hash = claim.hash /\ claim'.fields = claim.fields
      BY <2>1, <2>2 DEF Claims
    <3> QED BY <3>1, KeysAssumption
  <2> QED BY <2>1, <2>2, <2>3 DEF NpnInv
<1>3. ASSUME NEW t \in Types, NEW f, NEW slow \in BOOLEAN, Launch(t, f, slow) PROVE NpnInv'
  BY <1>3, LaunchLeaves DEF LaunchInv
<1>4. BecomeInitialized => npn' = npn
  BY Zenon DEF BecomeInitialized
<1> QED BY <1>1, <1>2, <1>3, <1>4, ClaimKept, NpnKept

\* The VNIC that is attached next is a new one.
LEMMA NextVnic ==
  ASSUME Shape, LaunchInv, AttachSecondary
  PROVE  LET n == Cardinality(DOMAIN oci["vatt"]) IN
           /\ n \in 1..Len(npn) /\ DOMAIN npn = 1..Len(npn)
           /\ Len(npn) = Len(claim.fields.secondary) /\ Len(npn) \in 0..Len(Secondaries)
           /\ Secondaries[n] \in Vnics \ {Primary} /\ Secondaries[n] \notin DOMAIN oci["vatt"]
           /\ DOMAIN oci["vatt"] = UpTo(n - 1) /\ UpTo(n - 1) \cup {Secondaries[n]} = UpTo(n)
           /\ ~claim.init
<1> DEFINE n == Cardinality(DOMAIN oci["vatt"])
           w == Secondaries[n]
<1>1. Running /\ oci["batt"].attached /\ n <= Len(npn)
  BY Zenon DEF AttachSecondary
<1>2. PICK m \in 0..Len(claim.fields.secondary) :
        DOMAIN oci["vatt"] = UpTo(m) /\ (claim.init => m = Len(claim.fields.secondary))
  BY <1>1 DEF LaunchInv, AttachedInv
<1>3. n = m + 1 /\ Len(npn) = Len(claim.fields.secondary) /\ m \in 0..Len(Secondaries) /\ Len(Secondaries) \in Nat
      /\ claim # None
  BY <1>1, <1>2, AttachedSize DEF LaunchInv
<1>4. Len(npn) \in 0..Len(Secondaries) /\ DOMAIN npn = 1..Len(npn)
  BY <1>3 DEF LaunchInv, NpnInv
<1> HIDE DEF n
<1>5. m \in Nat /\ n \in 1..Len(npn) /\ n \in DOMAIN Secondaries /\ n - 1 = m
  BY <1>1, <1>2, <1>3, <1>4, KeysAssumption
<1>6. w \in Range(Secondaries) /\ w # Primary /\ w \in Vnics
  BY <1>5, KeysAssumption DEF Range, Vnics
<1>7. UpTo(m) \cup {w} = UpTo(n)
  <2>1. 1..n = (1..m) \cup {n}
    BY <1>3, <1>5
  <2> QED BY <2>1 DEF UpTo
<1>8. w \notin UpTo(m)
  <2>1. \A i \in 1..m : i \in DOMAIN Secondaries /\ i # n
    BY <1>3, <1>5, KeysAssumption
  <2>2. \A i \in 1..m : Secondaries[i] # w
    BY <1>5, <2>1, KeysAssumption DEF IsInjective
  <2> QED BY <1>6, <2>2 DEF UpTo
<1>9. ~claim.init
  BY <1>1, <1>2, <1>3, <1>5
<1> QED BY <1>2, <1>3, <1>4, <1>5, <1>6, <1>7, <1>8, <1>9 DEF n

\* Every step keeps the attachments an initial part of the VNICs asked for.
LEMMA AttachedInvKept ==
  ASSUME Shape, LaunchInv, [Next]_vars
  PROVE  AttachedInv' /\ VnicsOf(oci'["vatt"])
<1> USE DEF LaunchInv
<1>0. OnKeys(oci) /\ Primary \in Keys /\ Primary \in Vnics /\ Primary \notin {"inst", "vatt", "batt", "boot"}
  BY VnicKeys DEF Shape, Vnics
<1>1. CASE oci' = oci /\ claim' = claim
  BY <1>1 DEF AttachedInv, Running
<1>2. CASE BecomeInitialized
  <2>1. claim' = [claim EXCEPT !.init = TRUE] /\ oci' = oci /\ Running
          /\ Cardinality(DOMAIN oci["vatt"]) = Len(npn) + 1
    BY <1>2, Zenon DEF BecomeInitialized
  <2>2. claim \in Claims /\ claim # None
    BY <2>1, KeysAssumption DEF Shape, ClaimShape, Empty, Keys, Running
  <2>3. claim'.init /\ claim'.res = claim.res /\ claim'.fields = claim.fields
    BY <2>1, <2>2 DEF Claims
  <2>4. Len(npn) = Len(claim.fields.secondary) /\ Len(npn) \in Nat
    BY <2>2 DEF NpnInv
  <2>5. oci["batt"].attached
    <3>1. ASSUME ~oci["batt"].attached PROVE FALSE
      <4>1. DOMAIN oci["vatt"] = {}
        BY <2>1, <3>1 DEF AttachedInv
      <4> QED BY <2>1, <2>4, <4>1, FS_EmptySet
    <3> QED BY <3>1
  <2>6. PICK m \in 0..Len(claim.fields.secondary) : DOMAIN oci["vatt"] = UpTo(m)
    BY <2>1, <2>5 DEF AttachedInv
  <2>7. m = Len(claim.fields.secondary)
    BY <2>1, <2>4, <2>6, AttachedSize
  <2> QED BY <2>1, <2>3, <2>5, <2>6, <2>7 DEF AttachedInv, Running
<1>3. ASSUME NEW t \in Types, NEW f, NEW slow \in BOOLEAN, Launch(t, f, slow)
      PROVE  AttachedInv' /\ VnicsOf(oci'["vatt"])
  BY <1>3, LaunchLeaves DEF VnicsOf
<1>4. CASE AttachPrimary
  <2>1. /\ Running /\ claim' = claim /\ ~oci["batt"].attached
        /\ oci' = [oci EXCEPT !["vatt"] = [v \in {Primary} |-> oci[Primary].subnet],
                              !["batt"].attached = TRUE]
    BY <1>4, Zenon DEF AttachPrimary
  <2>2. /\ oci'["vatt"] = [v \in {Primary} |-> oci[Primary].subnet]
        /\ oci'["batt"] = [oci["batt"] EXCEPT !.attached = TRUE]
        /\ \A k \in Keys \ {"vatt", "batt"} : oci'[k] = oci[k]
    BY <1>0, <2>1 DEF OnKeys, Keys
  <2>3. oci'["batt"] = [attached |-> TRUE, enc |-> oci["boot"].enc]
    <3>1. oci["batt"] = [attached |-> oci["batt"].attached, enc |-> oci["boot"].enc]
      BY <2>1 DEF AttachedInv
    <3>2. PICK x, e : e = oci["boot"].enc /\ oci["batt"] = [attached |-> x, enc |-> e]
      BY <3>1
    <3>3. ASSUME NEW y PROVE [[attached |-> x, enc |-> e] EXCEPT !.attached = y] = [attached |-> y, enc |-> e]
      OBVIOUS
    <3> QED BY <2>2, <3>2, <3>3
  <2>4. oci'["inst"] = oci["inst"] /\ oci'["boot"] = oci["boot"] /\ oci'[Primary] = oci[Primary]
    BY <1>0, <2>2 DEF Keys
  <2>5. UpTo(0) = {Primary} /\ 0 \in 0..Len(claim.fields.secondary)
    <3>1. claim # None
      BY <2>1 DEF Shape, ClaimShape, Running, Empty, Keys
    <3> QED BY <3>1, KeysAssumption DEF NpnInv, UpTo
  <2>6. DOMAIN oci'["vatt"] = {Primary} /\ oci'["vatt"][Primary] = oci[Primary].subnet
    BY <2>2
  <2>7. ~claim.init
    BY <2>1 DEF AttachedInv
  <2>8. oci'["vatt"] = [v \in DOMAIN oci'["vatt"] |-> oci'[v].subnet]
    BY <2>2, <2>4
  <2>9. /\ oci'["batt"] = [attached |-> oci'["batt"].attached, enc |-> oci'["boot"].enc]
        /\ oci'["batt"].attached = TRUE
    BY <2>3, <2>4
  <2>10. \A v \in DOMAIN oci'["vatt"] \ {Primary} : FALSE
    BY <2>6
  <2>12. \A v \in Vnics \ {Primary} : oci'[v] = None
    <3>1. DOMAIN oci["vatt"] = {}
      BY <2>1 DEF AttachedInv
    <3>2. \A v \in Vnics \ {Primary} : oci[v] = None
      BY <2>1, <3>1 DEF AttachedInv
    <3> QED BY <2>2, <3>2, VnicKeys
  <2>13. oci'["boot"].size \in Nat
    BY <2>1, <2>4 DEF AttachedInv
  <2>11. AttachedInv'
    BY <2>1, <2>4, <2>5, <2>6, <2>7, <2>8, <2>9, <2>10, <2>12, <2>13 DEF AttachedInv, Running
  <2> QED BY <1>0, <2>6, <2>11 DEF VnicsOf
<1>5. CASE AttachSecondary
  <2> DEFINE n == Cardinality(DOMAIN oci["vatt"])
             w == Secondaries[n]
  <2>1. /\ Running /\ claim' = claim /\ oci["batt"].attached /\ n <= Len(npn)
        /\ oci' = [oci EXCEPT
           ![w] = npn[n],
           !["vatt"] = [x \in DOMAIN @ \cup {w} |-> IF x = w THEN npn[n].subnet ELSE @[x]]]
    BY <1>5, Zenon DEF AttachSecondary
  <2> DEFINE m == n - 1
  <2>2. DOMAIN oci["vatt"] = UpTo(m) /\ UpTo(m) \cup {w} = UpTo(n) /\ w \notin UpTo(m)
    BY <1>5, NextVnic
  <2>3. /\ n \in 1..Len(npn) /\ DOMAIN npn = 1..Len(npn) /\ Len(npn) = Len(claim.fields.secondary)
        /\ Len(npn) \in 0..Len(Secondaries) /\ w \in Vnics \ {Primary} /\ ~claim.init
    BY <1>5, NextVnic
  <2>4. claim # None /\ Len(Secondaries) \in Nat
    BY <2>1, KeysAssumption DEF Shape, ClaimShape, Running, Empty, Keys
  <2> HIDE DEF n
  <2>5. m \in 0..Len(Secondaries) /\ n \in 0..Len(Secondaries)
    BY <2>3, <2>4
  <2>10. npn[n] = BuildVnic(npn[n], FALSE)
    BY <2>3, <2>4 DEF NpnInv
  <2> HIDE DEF w, m
  <2>11. w \in Keys /\ w \notin {"inst", "vatt", "batt", "boot"}
    BY <2>3, VnicKeys
  <2>12. /\ oci'["vatt"] = [x \in UpTo(m) \cup {w} |-> IF x = w THEN npn[n].subnet ELSE oci["vatt"][x]]
         /\ oci'[w] = npn[n]
         /\ \A k \in Keys \ {"vatt", w} : oci'[k] = oci[k]
    BY <1>0, <2>1, <2>2, <2>11 DEF OnKeys, Keys
  <2>13. oci'["inst"] = oci["inst"] /\ oci'["boot"] = oci["boot"] /\ oci'[Primary] = oci[Primary]
           /\ oci'["batt"] = oci["batt"]
    BY <1>0, <2>3, <2>11, <2>12 DEF Keys
  <2>14. DOMAIN oci'["vatt"] = UpTo(n) /\ n \in 0..Len(claim.fields.secondary)
    BY <2>2, <2>3, <2>12
  <2>15. \A x \in UpTo(m) : oci'[x] = oci[x] /\ oci["vatt"][x] = oci[x].subnet
    <3>1. UpTo(m) \subseteq Vnics
      BY <2>5, UpToSize
    <3>2. UpTo(m) \subseteq Keys \ {"vatt", w}
      BY <3>1, <2>2, VnicKeys
    <3>3. oci["vatt"] = [v \in DOMAIN oci["vatt"] |-> oci[v].subnet]
      BY <2>1 DEF AttachedInv
    <3> QED BY <2>2, <2>12, <3>2, <3>3
  <2>16. oci'["vatt"] = [v \in DOMAIN oci'["vatt"] |-> oci'[v].subnet]
    BY <2>12, <2>15
  <2>17. \A v \in DOMAIN oci'["vatt"] \ {Primary} : oci'[v] = BuildVnic(oci'[v], FALSE)
    <3>1. \A v \in UpTo(m) \ {Primary} : oci[v] = BuildVnic(oci[v], FALSE)
      BY <2>1, <2>2 DEF AttachedInv
    <3> QED BY <2>2, <2>10, <2>12, <2>14, <2>15, <3>1
  <2>18. UpTo(n) \subseteq Vnics
    BY <2>5, UpToSize
  <2>19. \A v \in Vnics \ {Primary} : v \notin DOMAIN oci'["vatt"] => oci'[v] = None
    <3>1. \A v \in Vnics \ {Primary} : v \notin UpTo(n) => v # w /\ v \notin UpTo(m)
      BY <2>2
    <3>2. \A v \in Vnics \ {Primary} : v \notin UpTo(m) => oci[v] = None
      BY <2>1, <2>2 DEF AttachedInv
    <3> QED BY <2>12, <2>14, <3>1, <3>2, VnicKeys
  <2> QED BY <2>1, <2>3, <2>13, <2>14, <2>16, <2>17, <2>18, <2>19 DEF AttachedInv, Running, VnicsOf
<1>6. CASE ChangeOutside
  <2>1. /\ Running /\ claim' = claim
        /\ \/ \E z : oci' = [oci EXCEPT !["inst"].size = z]
           \/ \E z : oci' = [oci EXCEPT ![Primary].nsgs = z]
    BY <1>6, Zenon DEF ChangeOutside
  <2>2. /\ oci["inst"] = [state |-> "running", comp |-> oci["inst"].comp, shape |-> oci["inst"].shape,
             size |-> oci["inst"].size, image |-> oci["inst"].image, res |-> claim.res,
             cpg |-> oci["inst"].cpg, launch |-> oci["inst"].launch]
        /\ oci[Primary] = [subnet |-> oci[Primary].subnet, nsgs |-> oci[Primary].nsgs, primary |-> TRUE]
    BY <2>1 DEF AttachedInv, BuildVnic
  <2>3. ASSUME NEW z, oci' = [oci EXCEPT !["inst"].size = z]
        PROVE  /\ oci'["inst"] = [state |-> "running", comp |-> oci'["inst"].comp, shape |-> oci'["inst"].shape,
                    size |-> oci'["inst"].size, image |-> oci'["inst"].image, res |-> claim.res,
                    cpg |-> oci'["inst"].cpg, launch |-> oci'["inst"].launch]
               /\ oci'[Primary] = oci[Primary]
               /\ \A k \in Keys \ {"inst", Primary} : oci'[k] = oci[k]
    <3>1. oci'["inst"] = [oci["inst"] EXCEPT !.size = z] /\ \A k \in Keys \ {"inst"} : oci'[k] = oci[k]
      BY <1>0, <2>3 DEF OnKeys, Keys
    <3> QED BY <1>0, <2>2, <3>1
  <2>4. ASSUME NEW z, oci' = [oci EXCEPT ![Primary].nsgs = z]
        PROVE  /\ oci'["inst"] = oci["inst"]
               /\ oci'[Primary] = [subnet |-> oci[Primary].subnet, nsgs |-> z, primary |-> TRUE]
               /\ \A k \in Keys \ {"inst", Primary} : oci'[k] = oci[k]
    <3>1. oci'[Primary] = [oci[Primary] EXCEPT !.nsgs = z] /\ \A k \in Keys \ {Primary} : oci'[k] = oci[k]
      BY <1>0, <2>4 DEF OnKeys
    <3>2. PICK a, b, c : a = oci[Primary].subnet /\ c = TRUE /\ oci[Primary] = [subnet |-> a, nsgs |-> b, primary |-> c]
      BY <2>2
    <3>3. [[subnet |-> a, nsgs |-> b, primary |-> c] EXCEPT !.nsgs = z] = [subnet |-> a, nsgs |-> z, primary |-> c]
      OBVIOUS
    <3>4. oci'[Primary] = [subnet |-> oci[Primary].subnet, nsgs |-> z, primary |-> TRUE]
      BY <3>1, <3>2, <3>3
    <3> QED BY <1>0, <3>1, <3>4 DEF Keys
  <2>5. /\ oci'["inst"] = [state |-> "running", comp |-> oci'["inst"].comp, shape |-> oci'["inst"].shape,
             size |-> oci'["inst"].size, image |-> oci'["inst"].image, res |-> claim.res,
             cpg |-> oci'["inst"].cpg, launch |-> oci'["inst"].launch]
        /\ oci'[Primary].subnet = oci[Primary].subnet
        /\ oci'[Primary] = BuildVnic(oci'[Primary], TRUE)
        /\ \A k \in Keys \ {"inst", Primary} : oci'[k] = oci[k]
    <3>1. ASSUME NEW z, oci' = [oci EXCEPT !["inst"].size = z] PROVE <2>5!1 /\ <2>5!2 /\ <2>5!3 /\ <2>5!4
      BY <2>2, <2>3, <3>1 DEF BuildVnic
    <3>2. ASSUME NEW z, oci' = [oci EXCEPT ![Primary].nsgs = z] PROVE <2>5!1 /\ <2>5!2 /\ <2>5!3 /\ <2>5!4
      BY <2>2, <2>4, <3>2 DEF BuildVnic
    <3> QED BY <2>1, <3>1, <3>2
  <2>6. oci'["vatt"] = oci["vatt"] /\ oci'["batt"] = oci["batt"] /\ oci'["boot"] = oci["boot"]
          /\ \A v \in DOMAIN oci["vatt"] : oci'[v].subnet = oci[v].subnet /\ (v # Primary => oci'[v] = oci[v])
    <3>1. Running /\ oci["vatt"] # None => DOMAIN oci["vatt"] \subseteq Keys \ {"inst"}
      BY VnicKeys DEF VnicsOf
    <3>2. DOMAIN oci["vatt"] \subseteq Keys \ {"inst"}
      <4>1. CASE oci["batt"].attached
        <5>1. PICK m \in 0..Len(claim.fields.secondary) : DOMAIN oci["vatt"] = UpTo(m)
          BY <2>1, <4>1 DEF AttachedInv
        <5> QED BY <2>1, <5>1, AttachedSize, UpToSize, VnicKeys
      <4>2. CASE ~oci["batt"].attached
        BY <2>1, <4>2 DEF AttachedInv
      <4> QED BY <4>1, <4>2
    <3> QED BY <1>0, <2>5, <3>2, VnicKeys
  <2>7. oci'["vatt"] = [v \in DOMAIN oci'["vatt"] |-> oci'[v].subnet]
    <3>1. oci["vatt"] = [v \in DOMAIN oci["vatt"] |-> oci[v].subnet]
      BY <2>1 DEF AttachedInv
    <3> QED BY <2>6, <3>1
  <2>8. \A v \in DOMAIN oci'["vatt"] \ {Primary} : oci'[v] = BuildVnic(oci'[v], FALSE)
    BY <2>1, <2>6 DEF AttachedInv
  <2>9. \A v \in Vnics \ {Primary} : oci'[v] = oci[v]
    BY <2>5, VnicKeys
  <2> QED BY <2>1, <2>5, <2>6, <2>7, <2>8, <2>9 DEF AttachedInv, VnicsOf
<1>7. CASE Terminate
  <2>1. Running /\ oci'["inst"] = [oci["inst"] EXCEPT !.state = "terminated"] /\ oci'["vatt"] = NoVnics
    BY <1>7, <1>0 DEF Terminate, Empty, Keys
  <2>2. oci'["inst"].state = "terminated"
    BY <2>1 DEF AttachedInv
  <2> QED BY <2>1, <2>2 DEF AttachedInv, Running, VnicsOf, NoVnics
<1>8. CASE Purge
  <2>1. oci'["inst"] = None /\ oci'["vatt"] = None
    BY <1>8 DEF Purge, Empty, Keys
  <2> QED BY <2>1 DEF AttachedInv, Running, VnicsOf
<1>9. AttachPrimary \/ AttachSecondary \/ ChangeOutside \/ Terminate \/ Purge => claim' = claim
  BY Zenon DEF AttachPrimary, AttachSecondary, ChangeOutside, Terminate, Purge
<1>10. BecomeInitialized => oci' = oci
  BY Zenon DEF BecomeInitialized
<1> QED
  BY <1>1, <1>2, <1>3, <1>4, <1>5, <1>6, <1>7, <1>8, <1>9, <1>10, OciKept, ClaimKept
-----------------------------------------------------------------------------
(* The caches: a child is cached under its parent *)

\* A cached child has its parent cached, and is one the parent names.
Belongs(c) ==
  /\ \A v \in Vnics : c[v] # None => c["vatt"] # None /\ v \in DOMAIN c["vatt"]
  /\ c["boot"] # None => c["batt"] # None /\ c["batt"].attached

\* The attachments a pass reads its children from are still cached.
ReadsHeld(c, p) ==
  /\ p.stage \in {"net", "sec"} /\ p.got["vatt"] # None => c["vatt"] = p.got["vatt"]
  /\ p.stage = "boot" /\ p.got["batt"] # None => c["batt"] = p.got["batt"]

\* An answer under way is to the pass's next read, and to attachments read through
\* the cache only while they are not cached.
LoadSound(c, p) ==
  p.load # None =>
    /\ p.load.key \in NextReads(p) /\ p.load.val # None
    /\ ~p.real /\ p.load.key \in {"vatt", "batt"} => c[p.load.key] = None

\* Attachments are of VNICs.
VattInv ==
  /\ VnicsOf(oci["vatt"]) /\ VnicsOf(cache["vatt"]) /\ VnicsOf(pass.got["vatt"])
  /\ pass.load # None /\ pass.load.key = "vatt" => VnicsOf(pass.load.val)

\* The caches, and what the reads in flight will store.
CacheInv ==
  /\ VattInv
  /\ pass.stage = "sec" => pass.got["vatt"] # None
  /\ LoadSound(cache, pass)
  /\ ~straddled => Belongs(cache) /\ ReadsHeld(cache, pass)

\* The VNICs a pass reads are VNICs, of those asked for.
LEMMA FirstOfIn ==
  ASSUME NEW S
  PROVE  FirstOf(S) \subseteq S \cap Vnics
<1> DEFINE order == <<Primary>> \o Secondaries
<1>1. ASSUME NEW m \in DOMAIN order PROVE order[m] \in Vnics
  <2>1. order \in Seq(Vnics)
    BY KeysAssumption DEF Vnics
  <2> HIDE DEF order
  <2> QED BY <1>1, <2>1
<1> QED BY <1>1 DEF FirstOf

\* What a pass reads next, stage by stage.
LEMMA NextReadKinds ==
  ASSUME NEW p, NEW k \in NextReads(p)
  PROVE  /\ k \in Keys /\ p.stage # "idle"
         /\ p.stage = "inst" <=> k = "inst"
         /\ k = "vatt" => p.stage = "net" /\ p.got["vatt"] = None
         /\ k = "batt" => p.stage = "boot" /\ p.got["batt"] = None
         /\ k = "boot" => p.stage = "boot" /\ p.got["batt"] # None /\ AttachmentDrifted(p.want, p.got["batt"]) = ""
                            /\ p.got["boot"] = None
         /\ k \in Vnics => p.stage \in {"net", "sec"} /\ k \in DOMAIN p.got["vatt"] /\ p.got[k] = None
         /\ k \in Vnics /\ p.stage = "net" => p.got["vatt"] # None
<1>1. CASE p.stage = "inst"
  BY <1>1, VnicKeys DEF NextReads
<1>2. CASE p.stage = "net"
  <2> DEFINE S == {v \in DOMAIN p.got["vatt"] : p.got["vatt"][v] = p.want.net.primary.subnet /\ p.got[v] = None}
  <2>1. (k = "vatt" /\ p.got["vatt"] = None) \/ (k \in FirstOf(S) /\ p.got["vatt"] # None)
    BY <1>2 DEF NextReads
  <2>2. k \in FirstOf(S) => k \in Vnics /\ k \in DOMAIN p.got["vatt"] /\ p.got[k] = None
    BY FirstOfIn
  <2> QED BY <1>2, <2>1, <2>2, VnicKeys
<1>3. CASE p.stage = "sec"
  <2> DEFINE S == {v \in DOMAIN p.got["vatt"] : p.got[v] = None}
  <2>1. k \in FirstOf(S)
    BY <1>3 DEF NextReads
  <2>2. k \in Vnics /\ k \in DOMAIN p.got["vatt"] /\ p.got[k] = None
    BY <2>1, FirstOfIn
  <2> QED BY <1>3, <2>2, VnicKeys
<1>4. CASE p.stage = "boot"
  <2>1. \/ k = "batt" /\ p.got["batt"] = None
        \/ k = "boot" /\ p.got["batt"] # None /\ AttachmentDrifted(p.want, p.got["batt"]) = ""
             /\ p.got["boot"] = None
    BY <1>4, Zenon DEF NextReads
  <2> QED BY <1>4, <2>1, VnicKeys
<1> QED BY <1>1, <1>2, <1>3, <1>4 DEF NextReads

\* An eviction leaves no orphan.
LEMMA EvictVattBelongs ==
  ASSUME NEW c, OnKeys(c), Belongs(c), VnicsOf(c["vatt"])
  PROVE  /\ Belongs(EvictVatt(c)) /\ EvictVatt(c)["vatt"] = None
         /\ \A v \in Vnics : EvictVatt(c)[v] = None
<1>1. CASE c["vatt"] = None
  BY <1>1 DEF EvictVatt, Belongs
<1>2. CASE c["vatt"] # None
  <2> DEFINE d == [k \in Keys |-> IF k = "vatt" \/ k \in DOMAIN c["vatt"] THEN None ELSE c[k]]
  <2>1. EvictVatt(c) = d
    BY <1>2 DEF EvictVatt
  <2>2. d["vatt"] = None /\ d["batt"] = c["batt"] /\ d["boot"] = c["boot"]
    BY <1>2, VnicKeys DEF VnicsOf
  <2>3. \A v \in Vnics : d[v] = None
    BY <1>2, VnicKeys DEF Belongs
  <2> HIDE DEF d
  <2> QED BY <2>1, <2>2, <2>3 DEF Belongs
<1> QED BY <1>1, <1>2

\* Evicting the boot attachment takes its volume with it and keeps every child under
\* its parent.
LEMMA EvictBattBelongs ==
  ASSUME NEW c, OnKeys(c), Belongs(c)
  PROVE  /\ Belongs(EvictBatt(c)) /\ EvictBatt(c)["batt"] = None /\ EvictBatt(c)["boot"] = None
<1>1. CASE c["batt"] = None
  BY <1>1 DEF EvictBatt, Belongs
<1>2. CASE c["batt"] # None
  <2> DEFINE d == [k \in Keys |-> IF k = "batt" \/ (k = "boot" /\ c["batt"].attached) THEN None ELSE c[k]]
  <2>1. EvictBatt(c) = d
    BY <1>2 DEF EvictBatt
  <2>2. d["batt"] = None /\ d["vatt"] = c["vatt"] /\ d["boot"] = None
    BY <1>2, VnicKeys DEF Belongs
  <2>3. \A v \in Vnics : d[v] = c[v]
    BY VnicKeys
  <2> HIDE DEF d
  <2> QED BY <2>1, <2>2, <2>3 DEF Belongs
<1> QED BY <1>1, <1>2

\* Evicting an instance keeps every child under its parent.
LEMMA EvictInstanceBelongs ==
  ASSUME NEW c, OnKeys(c), Belongs(c), VnicsOf(c["vatt"])
  PROVE  Belongs(EvictInstance(c))
<1> DEFINE d == [c EXCEPT !["inst"] = None]
<1>1. OnKeys(d) /\ \A k \in Keys \ {"inst"} : d[k] = c[k]
  BY DEF OnKeys
<1>2. Belongs(d) /\ VnicsOf(d["vatt"])
  BY <1>1, VnicKeys DEF Belongs, VnicsOf
<1> HIDE DEF d
<1>3. OnKeys(EvictVatt(d)) /\ Belongs(EvictVatt(d))
  BY <1>1, <1>2, Evictions, EvictVattBelongs
<1>4. Belongs(EvictBatt(EvictVatt(d)))
  BY <1>3, EvictBattBelongs
<1> QED BY <1>4 DEF EvictInstance, d

\* An eviction keeps the attachments that stay on VNICs.
LEMMA EvictedVnics ==
  ASSUME NEW c, OnKeys(c), VnicsOf(c["vatt"])
  PROVE  /\ VnicsOf(EvictVatt(c)["vatt"]) /\ VnicsOf(EvictBatt(c)["vatt"])
         /\ VnicsOf(EvictInstance(c)["vatt"])
BY Evictions, VnicKeys DEF VnicsOf

\* What storing an answer does to the caches.
StoreEffect(c, k, v, real, n) ==
  /\ VnicsOf(n["vatt"])
  /\ k \in Vnics \cup {"boot"} =>
       n[k] = v /\ \A x \in Keys \ {k} : n[x] = c[x]
  /\ k \in {"vatt", "batt"} => n[k] = v
  /\ k = "vatt" /\ real => \A x \in Keys \ {k} : n[x] = EvictVatt(c)[x]
  /\ k = "batt" /\ real => \A x \in Keys \ {k} : n[x] = EvictBatt(c)[x]
  /\ k \in {"vatt", "batt"} /\ ~real => \A x \in Keys \ {k} : n[x] = c[x]
  /\ k = "inst" => \/ n = EvictInstance([c EXCEPT ![k] = v])
                   \/ n = [c EXCEPT ![k] = v]

\* Storing an answer changes the caches as StoreEffect says.
LEMMA StoredIn ==
  ASSUME NEW c, OnKeys(c), NEW k \in Keys, NEW v, NEW real \in BOOLEAN,
         VnicsOf(c["vatt"]), k = "vatt" => VnicsOf(v)
  PROVE  StoreEffect(c, k, v, real, StoreValue(c, k, v, real))
<1> DEFINE n == StoreValue(c, k, v, real)
<1> USE DEF StoreEffect
<1>1. CASE k \in Vnics \cup {"boot"}
  <2>1. n = [c EXCEPT ![k] = v]
    BY <1>1, VnicKeys DEF StoreValue
  <2> QED BY <1>1, <2>1, VnicKeys DEF OnKeys
<1>2. CASE k = "inst"
  <2>1. n = EvictInstance([c EXCEPT ![k] = v]) \/ n = [c EXCEPT ![k] = v]
    BY <1>2 DEF StoreValue
  <2> DEFINE d == [c EXCEPT ![k] = v]
  <2>2. OnKeys(d) /\ d["vatt"] = c["vatt"]
    BY <1>2, VnicKeys DEF OnKeys
  <2> HIDE DEF d
  <2>3. VnicsOf(EvictInstance(d)["vatt"])
    BY <2>2, EvictedVnics
  <2>4. VnicsOf(n["vatt"])
    BY <2>1, <2>2, <2>3 DEF d
  <2> QED BY <1>2, <2>1, <2>4, VnicKeys
<1>3. CASE k = "vatt"
  <2>1. n = [(IF real THEN EvictVatt(c) ELSE c) EXCEPT ![k] = v]
    BY <1>3 DEF StoreValue
  <2>2. OnKeys(EvictVatt(c))
    BY Evictions
  <2> QED BY <1>3, <2>1, <2>2, VnicKeys DEF OnKeys
<1>4. CASE k = "batt"
  <2>1. n = [(IF real THEN EvictBatt(c) ELSE c) EXCEPT ![k] = v]
    BY <1>4 DEF StoreValue
  <2>2. OnKeys(EvictBatt(c)) /\ VnicsOf(EvictBatt(c)["vatt"])
    BY Evictions, EvictedVnics
  <2> QED BY <1>4, <2>1, <2>2, VnicKeys DEF OnKeys
<1> QED BY <1>1, <1>2, <1>3, <1>4 DEF Keys

\* The reads a pass makes next depend on its stage, on what it has and on what it
\* compares with.
LEMMA NextReadsSame ==
  ASSUME NEW p, NEW q, q.stage = p.stage, q.got = p.got, q.want = p.want
  PROVE  NextReads(q) = NextReads(p)
BY DEF NextReads, FoundPrimary

\* Fewer entries, and the pass as it was: an answer under way stays sound.
LEMMA FewerLoad ==
  ASSUME NEW c, NEW d, NEW p, LoadSound(c, p), \A k \in Keys \ {"inst"} : d[k] \in {None, c[k]}
  PROVE  LoadSound(d, p)
BY VnicKeys DEF LoadSound

\* A step that leaves the caches alone keeps their invariant.
LEMMA CacheInvQuiet ==
  ASSUME Shape, CacheInv, VnicsOf(oci'["vatt"]), Quiet, cache' = cache, straddled' = straddled
  PROVE  CacheInv'
<1>1. /\ pass'.stage = pass.stage /\ pass'.real = pass.real /\ pass'.want = pass.want
      /\ pass'.got = pass.got /\ pass'.load = pass.load
  BY QuietPass DEF Shape
<1>2. NextReads(pass') = NextReads(pass)
  BY <1>1, NextReadsSame
<1>3. VattInv'
  BY <1>1 DEF CacheInv, VattInv, VnicsOf
<1>4. LoadSound(cache', pass')
  BY <1>1, <1>2 DEF CacheInv, LoadSound
<1>5. ReadsHeld(cache, pass) => ReadsHeld(cache', pass')
  BY <1>1 DEF ReadsHeld
<1> QED BY <1>1, <1>3, <1>4, <1>5 DEF CacheInv, LoadSound, ReadsHeld, Belongs

\* A pass that has just begun, or has ended.
LEMMA CacheInvFresh ==
  ASSUME Shape, CacheInv, VnicsOf(oci'["vatt"]), VnicsOf(cache'["vatt"]), pass'.load = None,
         pass'.got = Empty, pass'.stage # "sec", straddled' = straddled,
         Belongs(cache) => Belongs(cache')
  PROVE  CacheInv'
<1>1. pass'.got["vatt"] = None /\ pass'.got["batt"] = None
  BY VnicKeys DEF Empty
<1>2. VattInv'
  BY <1>1 DEF CacheInv, VattInv, VnicsOf
<1>3. LoadSound(cache', pass') /\ ReadsHeld(cache', pass')
  BY <1>1 DEF LoadSound, ReadsHeld
<1> QED BY <1>2, <1>3 DEF CacheInv, LoadSound, ReadsHeld, Belongs

\* Storing the pass's answer keeps the invariant of the caches.
LEMMA CacheInvStored ==
  ASSUME Shape, CacheInv, ReadStored
  PROVE  CacheInv'
<1> DEFINE k == pass.load.key
           v == pass.load.val
<1>1. /\ pass.load # None /\ cache' = StoreValue(cache, k, v, pass.real)
      /\ pass' = [pass EXCEPT !.load = None, !.got[k] = v]
      /\ UNCHANGED <<oci, straddled>>
  BY Zenon DEF ReadStored
<1>2. k \in NextReads(pass) /\ (~pass.real /\ k \in {"vatt", "batt"} => cache[k] = None)
  BY <1>1 DEF CacheInv, LoadSound
<1>3. /\ k \in Keys /\ pass.stage # "idle"
      /\ pass.stage = "inst" <=> k = "inst"
      /\ k = "vatt" => pass.stage = "net" /\ pass.got["vatt"] = None
      /\ k = "batt" => pass.stage = "boot" /\ pass.got["batt"] = None
      /\ k = "boot" => pass.stage = "boot" /\ pass.got["batt"] # None
                         /\ AttachmentDrifted(pass.want, pass.got["batt"]) = ""
      /\ k \in Vnics => pass.stage \in {"net", "sec"} /\ k \in DOMAIN pass.got["vatt"]
  BY <1>2, NextReadKinds
<1>4. /\ pass'.stage = pass.stage /\ pass'.load = None /\ pass'.real = pass.real
      /\ pass'.got = [pass.got EXCEPT ![k] = v]
  BY <1>1 DEF Shape, PassShape
<1>5. OnKeys(cache) /\ OnKeys(pass.got) /\ pass.real \in BOOLEAN
  BY DEF Shape, PassShape
<1>6. VnicsOf(cache["vatt"]) /\ VnicsOf(pass.got["vatt"]) /\ (k = "vatt" => VnicsOf(v)) /\ VnicsOf(oci["vatt"])
  BY <1>1 DEF CacheInv, VattInv
<1> HIDE DEF k, v
<1>7. pass'.got[k] = v /\ \A x \in Keys \ {k} : pass'.got[x] = pass.got[x]
  BY <1>3, <1>4, <1>5 DEF OnKeys
<1>13. /\ VnicsOf(cache'["vatt"])
       /\ k \in Vnics \cup {"boot"} =>
            cache'[k] = v /\ \A x \in Keys \ {k} : cache'[x] = cache[x]
       /\ k \in {"vatt", "batt"} => cache'[k] = v
       /\ k = "vatt" /\ pass.real => \A x \in Keys \ {k} : cache'[x] = EvictVatt(cache)[x]
       /\ k = "batt" /\ pass.real => \A x \in Keys \ {k} : cache'[x] = EvictBatt(cache)[x]
       /\ k \in {"vatt", "batt"} /\ ~pass.real => \A x \in Keys \ {k} : cache'[x] = cache[x]
       /\ k = "inst" => \/ cache' = EvictInstance([cache EXCEPT ![k] = v])
                        \/ cache' = [cache EXCEPT ![k] = v]
  <2>1. VnicsOf(cache["vatt"]) /\ (k = "vatt" => VnicsOf(v))
    BY <1>6
  <2>2. cache' = StoreValue(cache, k, v, pass.real) /\ k \in Keys /\ OnKeys(cache) /\ pass.real \in BOOLEAN
    BY <1>1, <1>3, <1>5
  <2>3. StoreEffect(cache, k, v, pass.real, cache')
    BY <2>1, <2>2, StoredIn
  <2> QED BY <2>3 DEF StoreEffect
<1>8. VattInv'
  <2>2. VnicsOf(pass'.got["vatt"])
    BY <1>6, <1>7, VnicKeys
  <2> QED BY <1>1, <1>4, <1>6, <1>13, <2>2 DEF VattInv, VnicsOf
<1>9. LoadSound(cache', pass')
  BY <1>4 DEF LoadSound
<1>11. pass.stage = "sec" => pass.got["vatt"] # None
  BY DEF CacheInv
<1>12. pass'.stage = "sec" => pass'.got["vatt"] # None
  BY <1>3, <1>4, <1>7, <1>11, VnicKeys
<1>10. ASSUME ~straddled PROVE Belongs(cache') /\ ReadsHeld(cache', pass')
  <2>1. Belongs(cache) /\ ReadsHeld(cache, pass)
    BY <1>10 DEF CacheInv
  <2>2. CASE k \in Vnics
    <3>1. cache'[k] = v /\ \A x \in Keys \ {k} : cache'[x] = cache[x]
      BY <1>13, <2>2
    <3>2. pass.got["vatt"] # None
      BY <1>2, <1>3, <1>11, <2>2, NextReadKinds
    <3>3. cache["vatt"] = pass.got["vatt"] /\ cache'["vatt"] = cache["vatt"]
      BY <1>3, <2>1, <2>2, <3>1, <3>2, VnicKeys DEF ReadsHeld
    <3>4. Belongs(cache')
      BY <1>3, <2>1, <2>2, <3>1, <3>2, <3>3, VnicKeys DEF Belongs
    <3>5. ReadsHeld(cache', pass')
      BY <1>3, <1>4, <1>7, <2>1, <2>2, <3>1, VnicKeys DEF ReadsHeld
    <3> QED BY <3>4, <3>5
  <2>3. CASE k = "boot"
    <3>1. cache'[k] = v /\ \A x \in Keys \ {k} : cache'[x] = cache[x]
      BY <1>13, <2>3
    <3>2. cache["batt"] = pass.got["batt"] /\ cache["batt"] # None /\ cache["batt"].attached
      BY <1>3, <2>1, <2>3, AttachmentReasons DEF ReadsHeld
    <3>3. cache'["vatt"] = cache["vatt"] /\ cache'["batt"] = cache["batt"] /\ \A x \in Vnics : cache'[x] = cache[x]
      BY <2>3, <3>1, VnicKeys
    <3>4. Belongs(cache')
      BY <2>1, <3>2, <3>3 DEF Belongs
    <3>5. ReadsHeld(cache', pass')
      BY <1>3, <1>4, <1>7, <2>1, <2>3, <3>3, VnicKeys DEF ReadsHeld
    <3> QED BY <3>4, <3>5
  <2>4. CASE k = "vatt"
    <3>1. cache'["vatt"] = v /\ \A x \in Vnics : cache'[x] = None
      <4>1. CASE pass.real
        BY <1>13, <2>4, <4>1, <1>5, <1>6, <2>1, VnicKeys, EvictVattBelongs
      <4>2. CASE ~pass.real
        BY <1>13, <1>2, <2>4, <4>2, <2>1, VnicKeys DEF Belongs
      <4> QED BY <4>1, <4>2
    <3>2. cache'["boot"] # None => cache'["batt"] # None /\ cache'["batt"].attached
      <4>1. CASE pass.real
        <5>1. Belongs(EvictVatt(cache))
          BY <1>5, <1>6, <2>1, EvictVattBelongs
        <5>2. cache'["boot"] = EvictVatt(cache)["boot"] /\ cache'["batt"] = EvictVatt(cache)["batt"]
          BY <1>13, <2>4, <4>1, VnicKeys
        <5> QED BY <5>1, <5>2 DEF Belongs
      <4>2. CASE ~pass.real
        <5>1. cache'["boot"] = cache["boot"] /\ cache'["batt"] = cache["batt"]
          BY <1>13, <2>4, <4>2, VnicKeys
        <5> QED BY <2>1, <5>1 DEF Belongs
      <4> QED BY <4>1, <4>2
    <3>3. ReadsHeld(cache', pass')
      BY <1>3, <1>4, <1>7, <2>4, <3>1 DEF ReadsHeld
    <3> QED BY <3>1, <3>2, <3>3 DEF Belongs
  <2>5. CASE k = "batt"
    <3>1. cache'["batt"] = v /\ cache'["boot"] = None
      <4>1. CASE pass.real
        BY <1>13, <2>5, <4>1, <1>5, <2>1, VnicKeys, EvictBattBelongs
      <4>2. CASE ~pass.real
        BY <1>13, <1>2, <2>5, <4>2, <2>1, VnicKeys DEF Belongs
      <4> QED BY <4>1, <4>2
    <3>2. \A x \in Vnics : cache'[x] # None => cache'["vatt"] # None /\ x \in DOMAIN cache'["vatt"]
      <4>1. CASE pass.real
        <5>1. Belongs(EvictBatt(cache))
          BY <1>5, <2>1, EvictBattBelongs
        <5>2. cache'["vatt"] = EvictBatt(cache)["vatt"] /\ \A x \in Vnics : cache'[x] = EvictBatt(cache)[x]
          BY <1>13, <2>5, <4>1, VnicKeys
        <5> QED BY <5>1, <5>2 DEF Belongs
      <4>2. CASE ~pass.real
        <5>1. cache'["vatt"] = cache["vatt"] /\ \A x \in Vnics : cache'[x] = cache[x]
          BY <1>13, <2>5, <4>2, VnicKeys
        <5> QED BY <2>1, <5>1 DEF Belongs
      <4> QED BY <4>1, <4>2
    <3>3. ReadsHeld(cache', pass')
      BY <1>3, <1>4, <1>7, <2>5, <3>1 DEF ReadsHeld
    <3> QED BY <3>1, <3>2, <3>3 DEF Belongs
  <2>6. CASE k = "inst"
    <3> DEFINE c == [cache EXCEPT ![k] = v]
    <3>1. OnKeys(c) /\ \A x \in Keys \ {"inst"} : c[x] = cache[x]
      BY <1>3, <1>5, <2>6 DEF OnKeys
    <3>2. cache' = EvictInstance(c) \/ cache' = c
      BY <1>13, <2>6
    <3> HIDE DEF c
    <3>3. Belongs(c) /\ VnicsOf(c["vatt"])
      BY <1>6, <2>1, <3>1, VnicKeys DEF Belongs
    <3>4. Belongs(cache')
      BY <3>1, <3>2, <3>3, EvictInstanceBelongs
    <3> QED BY <1>3, <1>4, <2>6, <3>4 DEF ReadsHeld
  <2> QED BY <1>3, <2>2, <2>3, <2>4, <2>5, <2>6 DEF Keys
<1> QED BY <1>1, <1>8, <1>9, <1>10, <1>12 DEF CacheInv, LoadSound, ReadsHeld, Belongs

\* A hit and an answered read keep the invariant of the caches.
LEMMA CacheInvRead ==
  ASSUME Shape, CacheInv, ReadHit \/ ReadAnswered
  PROVE  CacheInv'
<1>0. OnKeys(pass.got) /\ UNCHANGED <<oci, cache, straddled>>
  BY Zenon DEF Shape, PassShape, ReadHit, ReadAnswered
<1>1. CASE ReadHit
  <2>1. PICK k \in NextReads(pass) : cache[k] # None /\ pass' = [pass EXCEPT !.got[k] = cache[k]]
    BY <1>1, Zenon DEF ReadHit
  <2>2. pass.load = None
    BY <1>1, Zenon DEF ReadHit
  <2>3. /\ pass'.stage = pass.stage /\ pass'.load = None /\ pass'.got = [pass.got EXCEPT ![k] = cache[k]]
    BY <2>1, <2>2 DEF Shape, PassShape
  <2>4. k \in Keys
    BY <2>1, NextReadKinds
  <2>5. pass'.got[k] = cache[k] /\ \A x \in Keys \ {k} : pass'.got[x] = pass.got[x]
    BY <1>0, <2>3, <2>4 DEF OnKeys
  <2>6. VattInv' /\ (pass'.stage = "sec" => pass'.got["vatt"] # None)
    BY <1>0, <2>1, <2>3, <2>5, VnicKeys DEF CacheInv, VattInv, VnicsOf
  <2>7. LoadSound(cache', pass')
    BY <2>3 DEF LoadSound
  <2>8. ReadsHeld(cache, pass) => ReadsHeld(cache', pass')
    BY <1>0, <2>3, <2>5, VnicKeys DEF ReadsHeld
  <2> QED BY <1>0, <2>6, <2>7, <2>8 DEF CacheInv, LoadSound, ReadsHeld, Belongs
<1>2. CASE ReadAnswered
  <2>1. PICK k \in NextReads(pass) : /\ (pass.real \/ cache[k] = None) /\ oci[k] # None
                                     /\ pass' = [pass EXCEPT !.load = [key |-> k, val |-> oci[k]]]
    BY <1>2, Zenon DEF ReadAnswered
  <2>2. /\ pass'.stage = pass.stage /\ pass'.got = pass.got /\ pass'.want = pass.want
        /\ pass'.real = pass.real /\ pass'.load = [key |-> k, val |-> oci[k]]
    BY <2>1 DEF Shape, PassShape
  <2>3. NextReads(pass') = NextReads(pass)
    BY <2>2, NextReadsSame
  <2>4. pass'.load.key = k /\ pass'.load.val = oci[k]
    BY <2>2
  <2>5. VattInv' /\ (pass'.stage = "sec" => pass'.got["vatt"] # None)
    BY <1>0, <2>2, <2>4 DEF CacheInv, VattInv, VnicsOf
  <2>6. LoadSound(cache', pass')
    BY <1>0, <2>1, <2>2, <2>3, <2>4 DEF LoadSound
  <2>7. ReadsHeld(cache, pass) => ReadsHeld(cache', pass')
    BY <1>0, <2>2 DEF ReadsHeld
  <2> QED BY <1>0, <2>5, <2>6, <2>7 DEF CacheInv, LoadSound, ReadsHeld, Belongs
<1> QED BY <1>1, <1>2

\* The fields of the idle pass.
LEMMA NoPassFields ==
  /\ NoPass.load = None /\ NoPass.got = Empty /\ NoPass.stage = "idle" /\ ~NoPass.clean
  /\ ~NoPass.real
BY DEF NoPass

\* Judging a stage keeps the invariant of the caches.
LEMMA CacheInvJudge ==
  ASSUME Shape, CacheInv, Judge
  PROVE  CacheInv'
<1>0. UNCHANGED <<oci, cache, straddled>> /\ pass.load = None /\ pass.stage # "idle" /\ NextReads(pass) = {}
  BY Zenon DEF Judge
<1>1. pass' = NoPass \/ pass' = Confirm(pass) \/ pass' = Advance(pass)
  BY Zenon DEF Judge, Finish
<1>2. VnicsOf(oci["vatt"]) /\ VnicsOf(cache["vatt"])
  BY DEF CacheInv, VattInv
<1>3. CASE pass' = NoPass
  BY <1>0, <1>2, <1>3, NoPassFields, CacheInvFresh
<1>4. CASE pass' = Confirm(pass)
  <2>1. pass'.load = None /\ pass'.got = Empty /\ pass'.stage # "sec"
    BY <1>0, <1>4 DEF Confirm, Shape, PassShape
  <2> QED BY <1>0, <1>2, <2>1, CacheInvFresh
<1>5. CASE pass' = Advance(pass)
  <2> DEFINE toSec == pass.stage = "net" /\ ~pass.want.skip /\ pass.want.net.secondary # <<>>
             got == [k \in Keys |-> IF toSec /\ k = "vatt" THEN pass.got[k] ELSE None]
  <2>1. pass' = [pass EXCEPT !.stage = IF @ = "inst" THEN "net" ELSE IF toSec THEN "sec" ELSE "boot",
                             !.real = toSec /\ @, !.got = got]
    BY <1>5 DEF Advance
  <2>2. /\ pass'.load = None /\ pass'.got = got
        /\ pass'.stage = IF pass.stage = "inst" THEN "net" ELSE IF toSec THEN "sec" ELSE "boot"
    BY <1>0, <2>1 DEF Shape, PassShape
  <2>3. CASE ~toSec
    <3>1. got = Empty
      BY <2>3 DEF Empty
    <3>2. pass'.stage # "sec"
      BY <2>2, <2>3
    <3> QED BY <1>0, <1>2, <2>2, <3>1, <3>2, CacheInvFresh
  <2>4. CASE toSec
    <3>1. got["vatt"] = pass.got["vatt"] /\ got["batt"] = None
      BY <2>4, VnicKeys
    <3>2. pass'.stage = "sec" /\ pass.stage = "net"
      BY <2>2, <2>4
    <3>3. pass.got["vatt"] # None
      BY <1>0, <3>2 DEF NextReads
    <3> HIDE DEF got, toSec
    <3>4. VattInv' /\ (pass'.stage = "sec" => pass'.got["vatt"] # None)
      BY <1>0, <2>2, <3>1, <3>3 DEF CacheInv, VattInv, VnicsOf
    <3>5. LoadSound(cache', pass')
      BY <2>2 DEF LoadSound
    <3>6. ReadsHeld(cache, pass) => ReadsHeld(cache', pass')
      BY <1>0, <2>2, <3>1, <3>2 DEF ReadsHeld
    <3> QED BY <1>0, <3>4, <3>5, <3>6 DEF CacheInv, LoadSound, ReadsHeld, Belongs
  <2> QED BY <2>3, <2>4
<1> QED BY <1>1, <1>3, <1>4, <1>5

\* EvictInstance leaves no instance cached.
LEMMA EvictedInst ==
  ASSUME NEW c, OnKeys(c)
  PROVE  EvictInstance(c)["inst"] = None
<1> DEFINE d == [c EXCEPT !["inst"] = None]
<1>1. OnKeys(d) /\ d["inst"] = None
  BY VnicKeys DEF OnKeys
<1> HIDE DEF d
<1>2. OnKeys(EvictVatt(d)) /\ EvictVatt(d)["inst"] = None
  BY <1>1, Evictions, VnicKeys
<1>3. EvictBatt(EvictVatt(d))["inst"] = None
  BY <1>2, Evictions, VnicKeys
<1> QED BY <1>3 DEF EvictInstance, d

\* Evictions by the other users of the caches, and an instance they store.
LEMMA CacheInvEvicted ==
  ASSUME Shape, CacheInv, UNCHANGED <<oci, pass>>, VnicsOf(cache'["vatt"]), Evicted,
         \A k \in Keys \ {"inst"} : cache'[k] \in {None, cache[k]}, Belongs(cache) => Belongs(cache')
  PROVE  CacheInv'
<1>1. VattInv' /\ (pass'.stage = "sec" => pass'.got["vatt"] # None)
  BY DEF CacheInv, VattInv, VnicsOf
<1>2. LoadSound(cache', pass')
  BY FewerLoad DEF CacheInv
<1>3. ASSUME ~straddled' PROVE ~straddled /\ (Straddles => cache' = cache)
  BY <1>3 DEF Evicted
<1>4. ASSUME ~straddled' PROVE ReadsHeld(cache', pass')
  BY <1>3, <1>4 DEF CacheInv, ReadsHeld, Straddles
<1> QED BY <1>1, <1>2, <1>3, <1>4 DEF CacheInv, LoadSound, ReadsHeld, Belongs

\* A step that touches only the cached instance keeps the invariant of the caches.
LEMMA CacheInvInst ==
  ASSUME Shape, CacheInv, UNCHANGED <<oci, pass, straddled>>, \A k \in Keys \ {"inst"} : cache'[k] = cache[k]
  PROVE  CacheInv'
<1>1. VattInv' /\ (pass'.stage = "sec" => pass'.got["vatt"] # None)
  BY VnicKeys DEF CacheInv, VattInv, VnicsOf
<1>2. LoadSound(cache', pass')
  BY FewerLoad DEF CacheInv
<1>3. Belongs(cache) => Belongs(cache')
  BY VnicKeys DEF Belongs
<1>4. ReadsHeld(cache, pass) => ReadsHeld(cache', pass')
  BY VnicKeys DEF ReadsHeld
<1> QED BY <1>1, <1>2, <1>3, <1>4 DEF CacheInv, LoadSound, ReadsHeld, Belongs

\* Get and List keep the invariant of the caches.
LEMMA CacheInvUsers ==
  ASSUME Shape, CacheInv, Users
  PROVE  CacheInv'
<1>0. UNCHANGED <<oci, pass>> /\ OnKeys(cache) /\ VnicsOf(cache["vatt"]) /\ VnicsOf(oci["vatt"])
  BY UsersFrame DEF Shape, CacheInv, VattInv
<1>1. \/ cache' = cache /\ straddled' = straddled
      \/ cache' = EvictInstance(cache) /\ Evicted
      \/ /\ cache' = EvictInstance([cache EXCEPT !["inst"] = other.val]) \/ cache' = [cache EXCEPT !["inst"] = other.val]
         /\ IF cache'["inst"] = None THEN Evicted ELSE straddled' = straddled
  <2>1. CASE GetAnswered \/ ListAnswered \/ ListFails
    BY <2>1, Zenon DEF GetAnswered, ListAnswered, ListFails
  <2>2. CASE GetNotFound
    BY <2>2, Zenon DEF GetNotFound
  <2>3. CASE OtherStored
    <3>1. /\ cache' = IF other.seen THEN StoreValue(cache, "inst", other.val, TRUE) ELSE EvictInstance(cache)
          /\ IF cache'["inst"] = None THEN Evicted ELSE straddled' = straddled
      BY <2>3, Zenon DEF OtherStored
    <3>2. StoreValue(cache, "inst", other.val, TRUE) \in
            {EvictInstance([cache EXCEPT !["inst"] = other.val]), [cache EXCEPT !["inst"] = other.val]}
      BY DEF StoreValue
    <3>3. EvictInstance(cache)["inst"] = None
      BY <1>0, EvictedInst
    <3> QED BY <3>1, <3>2, <3>3
  <2> QED BY <2>1, <2>2, <2>3 DEF Users
<1>2. CASE cache' = cache /\ straddled' = straddled
  BY <1>0, <1>2, CacheInvQuiet DEF Quiet
<1>3. CASE cache' = EvictInstance(cache) /\ Evicted
  <2>1. VnicsOf(cache'["vatt"]) /\ (Belongs(cache) => Belongs(cache'))
          /\ \A k \in Keys \ {"inst"} : cache'[k] \in {None, cache[k]}
    BY <1>0, <1>3, EvictedVnics, EvictInstanceBelongs, Evictions
  <2> QED BY <1>0, <1>3, <2>1, CacheInvEvicted
<1>4. CASE /\ cache' = EvictInstance([cache EXCEPT !["inst"] = other.val]) \/ cache' = [cache EXCEPT !["inst"] = other.val]
           /\ IF cache'["inst"] = None THEN Evicted ELSE straddled' = straddled
  <2> DEFINE c == [cache EXCEPT !["inst"] = other.val]
  <2>1. OnKeys(c) /\ \A k \in Keys \ {"inst"} : c[k] = cache[k]
    BY <1>0 DEF OnKeys
  <2>2. cache' = EvictInstance(c) \/ cache' = c
    BY <1>4
  <2> HIDE DEF c
  <2>3. c["vatt"] = cache["vatt"] /\ (Belongs(cache) => Belongs(c))
    BY <2>1, VnicKeys DEF Belongs
  <2>4. CASE Evicted
    <3>1. VnicsOf(cache'["vatt"]) /\ (Belongs(cache) => Belongs(cache'))
      BY <1>0, <2>1, <2>2, <2>3, EvictedVnics, EvictInstanceBelongs
    <3>2. \A k \in Keys \ {"inst"} : cache'[k] \in {None, cache[k]}
      BY <2>1, <2>2, Evictions
    <3> QED BY <1>0, <2>4, <3>1, <3>2, CacheInvEvicted
  <2>5. CASE cache'["inst"] # None /\ straddled' = straddled
    <3>1. cache' = c
      BY <2>1, <2>2, <2>5, EvictedInst
    <3> QED BY <1>0, <2>1, <2>5, <3>1, CacheInvInst
  <2> QED BY <1>4, <2>4, <2>5
<1> QED BY <1>1, <1>2, <1>3, <1>4

\* Every step keeps the invariant of the caches.
LEMMA CacheInvKept ==
  ASSUME Shape, LaunchInv, CacheInv, [Next]_vars
  PROVE  CacheInv'
<1>0. VnicsOf(oci'["vatt"]) /\ VnicsOf(cache["vatt"]) /\ OnKeys(cache)
  BY AttachedInvKept DEF CacheInv, VattInv, Shape
<1>1. ASSUME NEW f, BeginDrift(f) PROVE CacheInv'
  <2>1. UNCHANGED <<oci, cache, straddled>>
    BY <1>1, BeginDriftFrame
  <2>2. \/ pass' = NoPass
        \/ \E want, skipped : pass' = [NoPass EXCEPT !.stage = "inst", !.clean = TRUE,
                                                     !.skipped = skipped, !.want = want]
    BY <1>1, Zenon DEF BeginDrift, Finish
  <2>3. pass'.load = None /\ pass'.got = Empty /\ pass'.stage # "sec"
    BY <2>2, NoPassFields DEF NoPass
  <2> QED BY <1>0, <2>1, <2>3, CacheInvFresh
<1>2. CASE ReadHit \/ ReadAnswered
  BY <1>2, CacheInvRead
<1>3. CASE ReadStored
  BY <1>3, CacheInvStored
<1>4. CASE ReadFails
  <2>1. pass' = NoPass /\ straddled' = straddled /\ (cache' = EvictInstance(cache) \/ cache' = cache)
    BY <1>4, Zenon DEF ReadFails, Finish
  <2>2. VnicsOf(cache'["vatt"]) /\ (Belongs(cache) => Belongs(cache'))
    BY <1>0, <2>1, EvictedVnics, EvictInstanceBelongs
  <2> QED BY <1>0, <2>1, <2>2, NoPassFields, CacheInvFresh
<1>5. CASE Judge
  BY <1>5, CacheInvJudge
<1>6. CASE World
  BY <1>0, <1>6, WorldFrame, CacheInvQuiet
<1>7. CASE Users
  BY <1>7, CacheInvUsers
<1>8. ASSUME NEW t, NEW f, NEW slow, Launch(t, f, slow) PROVE CacheInv'
  <2>1. pass = NoPass /\ pass' = pass /\ straddled' = straddled
    BY <1>8, LaunchFrame, LaunchParts DEF Shape, ClaimShape
  <2>2. PICK inst : cache' = [Empty EXCEPT !["inst"] = inst]
    BY <1>8, LaunchParts
  <2>3. \A k \in Keys \ {"inst"} : cache'[k] = None
    BY <2>2 DEF Empty
  <2>4. VnicsOf(cache'["vatt"]) /\ Belongs(cache')
    BY <2>3, VnicKeys DEF VnicsOf, Belongs
  <2> QED BY <1>0, <2>1, <2>4, NoPassFields, CacheInvFresh
<1>9. CASE UNCHANGED vars
  BY <1>0, <1>9, CacheInvQuiet DEF vars, Quiet
<1> QED
  BY <1>1, <1>2, <1>3, <1>4, <1>5, <1>6, <1>7, <1>8, <1>9, StepKinds

\* The invariants of the instance and of the caches hold initially.
LEMMA CachesInit ==
  ASSUME Init
  PROVE  LaunchInv /\ CacheInv
<1>1. oci = Empty /\ cache = Empty /\ pass = NoPass /\ claim = None /\ npn = <<>>
  BY Zenon DEF Init
<1>2. \A k \in Keys : Empty[k] = None
  BY DEF Empty
<1>3. LaunchInv
  BY <1>1, <1>2, VnicKeys DEF LaunchInv, NpnInv, AttachedInv, Running, VnicsOf
<1>4. VattInv /\ LoadSound(cache, pass) /\ ReadsHeld(cache, pass) /\ pass.stage # "sec"
  BY <1>1, <1>2, NoPassFields, VnicKeys DEF VattInv, VnicsOf, LoadSound, ReadsHeld
<1>5. Belongs(cache)
  BY <1>1, <1>2, VnicKeys DEF Belongs
<1> QED BY <1>3, <1>4, <1>5 DEF CacheInv

\* What the caches' correctness rests on.
CachesInv == Shape /\ LaunchInv /\ CacheInv

\* The shape and the invariants of the instance and of the caches hold throughout.
LEMMA CachesSound == Spec => []CachesInv
<1>1. Init => CachesInv
  BY ShapeInit, CachesInit DEF CachesInv
<1>2. CachesInv /\ [Next]_vars => CachesInv'
  BY ShapeKept, NpnInvKept, AttachedInvKept, CacheInvKept DEF CachesInv, LaunchInv, VnicsOf
<1> QED BY <1>1, <1>2, PTL DEF Spec

\* A cached VNIC or boot volume belongs to cached attachments, whatever the other
\* users of the caches do between the reads of a pass.
THEOREM CachedChildrenBelong == Spec => []ChildrenBelong
<1>1. CachesInv => ChildrenBelong
  BY DEF CachesInv, CacheInv, Belongs, ChildrenBelong
<1> QED BY <1>1, CachesSound, PTL

-----------------------------------------------------------------------------
(* What a pass has read and what it compares it with *)

\* The status of a ready class is a resolution of its spec.
ClassInv ==
  class.ready =>
    /\ class.cpgs = GroupsOf(class.spec)
    /\ class.hash = KarpenterHash(StaticFields(class.spec))
    /\ DOMAIN class.net.secondary = 1..Len(class.spec.secondary)
    /\ Len(class.net.secondary) = Len(class.spec.secondary)

\* A value read of key k agrees with OCI: equal, except that attachments may have been
\* read before all were made.
Agrees(o, k, val) ==
  /\ k = "vatt" => \A v \in DOMAIN val : v \in DOMAIN o["vatt"] /\ val[v] = o["vatt"][v]
  /\ k = "batt" => val.enc = o["batt"].enc /\ (val.attached => o["batt"].attached)
  /\ k \notin {"vatt", "batt"} => val = o[k]

\* Nothing but Karpenter changes the instance: what the caches and the pass hold agrees.
FreshInv ==
  ~outside /\ Running =>
    /\ \A k \in Keys : cache[k] # None => Agrees(oci, k, cache[k])
    /\ \A k \in Keys : pass.got[k] # None => Agrees(oci, k, pass.got[k])
    /\ pass.load # None => Agrees(oci, pass.load.key, pass.load.val)
    /\ other # None /\ other.seen => other.val = oci["inst"]

\* What each stage has read before it reads on.
GotInv ==
  /\ pass.stage = "net" => \A v \in Vnics : pass.got[v] # None =>
       /\ pass.got["vatt"] # None /\ v \in DOMAIN pass.got["vatt"]
       /\ pass.got["vatt"][v] = pass.want.net.primary.subnet
  /\ pass.stage = "boot" /\ pass.got["boot"] # None =>
       pass.got["batt"] # None /\ AttachmentDrifted(pass.want, pass.got["batt"]) = ""

\* The image a launch of the claim's type would use now.
NowImages == ImageFor(class.spec, claim.type, LaunchLook(class.spec, {}))

\* A clean pass compares with what the class asks for now.
WantInv ==
  pass.clean /\ pass.stage # "idle" =>
    /\ class.ready
    /\ pass.want.spec = class.spec /\ pass.want.net = class.net /\ pass.want.cpgs = class.cpgs
    /\ pass.want.it = TypeInfo[claim.type]
    /\ pass.want.res = {claim.res} \cap class.spec.res
    /\ pass.want.skip = ~claim.init
    /\ claim.type \in ListInstanceTypes(class.spec)
    /\ claim.res # None => claim.res \in class.spec.res
    /\ claim.hash = class.hash
    /\ ~pass.skipped => NowImages = {pass.want.image}
    /\ pass.stage = "sec" => ~pass.want.skip

\* The secondary VNICs in o fit the desired ones, one for one.
FitAll(o, desired) ==
  LET found == DOMAIN o["vatt"] \ {Primary} IN
    \E f \in [DOMAIN desired -> found] :
      /\ Range(f) = found /\ IsInjective(f)
      /\ \A i \in DOMAIN desired : Fits(desired[i], o[f[i]])

\* The stages a clean pass has left found nothing.
StageInv ==
  pass.clean /\ ~outside /\ Running =>
    /\ pass.stage \in {"net", "sec", "boot"} => IsInstanceDrifted(pass.want, oci["inst"]) = ""
    /\ pass.stage \in {"sec", "boot"} => Fits(pass.want.net.primary, oci[Primary])
    /\ pass.stage = "boot" /\ claim.init /\ Len(claim.fields.secondary) = Len(class.spec.secondary)
         => FitAll(oci, pass.want.net.secondary)

\* What a clean pass reads to confirm a difference is what OCI has.
RealInv ==
  pass.clean =>
    /\ pass.real => \A k \in Keys : pass.got[k] # None => pass.got[k] = oci[k]
    /\ pass.load # None => pass.load.val = oci[pass.load.key]

\* What the class controller writes when it makes a class ready.
LEMMA ReadyClassInv ==
  ASSUME NEW spec \in Specs, Resolves(spec), NEW c, c = ReadyClass(spec)
  PROVE  /\ c.spec = spec /\ c.cpgs = GroupsOf(spec) /\ c.hash = KarpenterHash(StaticFields(spec))
         /\ DOMAIN c.net.secondary = 1..Len(spec.secondary)
         /\ Len(c.net.secondary) = Len(spec.secondary)
<1>1. NetworkNow(spec) # {} /\ c.net = CHOOSE n \in NetworkNow(spec) : TRUE
  BY DEF Resolves, ReadyClass
<1>2. c.net \in NetworkNow(spec)
  BY <1>1
<1>3. c.spec = spec /\ c.cpgs = GroupsOf(spec) /\ c.hash = KarpenterHash(StaticFields(spec))
  BY DEF ReadyClass
<1> QED BY <1>2, <1>3, NetworkShape

\* Every step keeps the status of a ready class in line with its spec.
LEMMA ClassInvKept ==
  ASSUME Shape, ClassInv, [Next]_vars
  PROVE  ClassInv'
<1>0. class.spec \in Specs
  BY DEF Shape, ClassShape
<1>1. CASE class' = class
  BY <1>1 DEF ClassInv
<1>2. CASE EditSpec
  <2>1. ~class'.ready
    BY <1>2 DEF EditSpec, Shape, ClassShape
  <2> QED BY <2>1 DEF ClassInv
<1>3. CASE ReconcileClass
  <2>1. \/ Resolves(class.spec) /\ class' = ReadyClass(class.spec)
        \/ class' = [class EXCEPT !.ready = FALSE]
    BY <1>3, Zenon DEF ReconcileClass
  <2>2. CASE Resolves(class.spec) /\ class' = ReadyClass(class.spec)
    BY <1>0, <2>2, ReadyClassInv DEF ClassInv
  <2>3. CASE class' = [class EXCEPT !.ready = FALSE]
    <3>1. ~class'.ready
      BY <2>3 DEF Shape, ClassShape
    <3> QED BY <3>1 DEF ClassInv
  <2> QED BY <2>1, <2>2, <2>3
<1> QED BY <1>1, <1>2, <1>3, ClassKept

\* What agreed with OCI agrees with it when another VNIC is attached.
LEMMA AgreesAttach ==
  ASSUME Shape, LaunchInv, AttachPrimary \/ AttachSecondary, NEW k \in Keys, NEW val,
         val # None, Agrees(oci, k, val)
  PROVE  Agrees(oci', k, val)
<1>0. OnKeys(oci) /\ Primary \in Vnics /\ AttachedInv
  BY DEF Shape, Vnics, LaunchInv
<1>1. CASE AttachPrimary
  <2>1. /\ Running /\ ~oci["batt"].attached
        /\ oci' = [oci EXCEPT !["vatt"] = [v \in {Primary} |-> oci[Primary].subnet],
                              !["batt"].attached = TRUE]
    BY <1>1, Zenon DEF AttachPrimary
  <2>2. /\ oci'["batt"] = [oci["batt"] EXCEPT !.attached = TRUE]
        /\ \A x \in Keys \ {"vatt", "batt"} : oci'[x] = oci[x]
    BY <1>0, <2>1 DEF OnKeys, Keys
  <2>3. DOMAIN oci["vatt"] = {}
    BY <1>0, <2>1 DEF AttachedInv
  <2>4. oci["batt"] = [attached |-> oci["batt"].attached, enc |-> oci["boot"].enc]
    BY <1>0, <2>1 DEF AttachedInv
  <2>5. oci'["batt"].attached /\ oci'["batt"].enc = oci["batt"].enc
    <3>1. PICK x, e : oci["batt"] = [attached |-> x, enc |-> e]
      BY <2>4
    <3>2. ASSUME NEW y PROVE [[attached |-> x, enc |-> e] EXCEPT !.attached = y] = [attached |-> y, enc |-> e]
      OBVIOUS
    <3>3. oci'["batt"] = [attached |-> TRUE, enc |-> e]
      BY <2>2, <3>1, <3>2
    <3> QED BY <3>1, <3>3
  <2> QED BY <2>2, <2>3, <2>5 DEF Agrees
<1>2. CASE AttachSecondary
  <2> DEFINE n == Cardinality(DOMAIN oci["vatt"])
             w == Secondaries[n]
  <2>1. /\ Running /\ oci["batt"].attached /\ n <= Len(npn)
        /\ oci' = [oci EXCEPT
           ![w] = npn[n],
           !["vatt"] = [x \in DOMAIN @ \cup {w} |-> IF x = w THEN npn[n].subnet ELSE @[x]]]
    BY <1>2, Zenon DEF AttachSecondary
  <2>2. w \in Vnics \ {Primary} /\ w \notin DOMAIN oci["vatt"]
    BY <1>2, NextVnic
  <2>3. oci[w] = None
    BY <1>0, <2>1, <2>2 DEF AttachedInv
  <2> HIDE DEF w, n
  <2>4. w \in Keys /\ w \notin {"inst", "vatt", "batt", "boot"}
    BY <2>2, VnicKeys
  <2>5. /\ oci'["vatt"] = [x \in DOMAIN oci["vatt"] \cup {w} |-> IF x = w THEN npn[n].subnet ELSE oci["vatt"][x]]
        /\ \A x \in Keys \ {"vatt", w} : oci'[x] = oci[x]
    BY <1>0, <2>1, <2>4 DEF OnKeys, Keys
  <2>6. k # w
    BY <2>3, <2>4 DEF Agrees
  <2>7. CASE k = "vatt"
    BY <2>2, <2>5, <2>7 DEF Agrees
  <2>8. CASE k # "vatt"
    <3>1. oci'["batt"] = oci["batt"] /\ oci'[k] = oci[k]
      BY <2>4, <2>5, <2>6, <2>8 DEF Keys
    <3> QED BY <2>8, <3>1 DEF Agrees
  <2> QED BY <2>7, <2>8
<1> QED BY <1>1, <1>2

\* Storing an answer leaves each other entry as it was or evicts it.
LEMMA StoredEntries ==
  ASSUME NEW c, OnKeys(c), NEW k, NEW v, NEW real
  PROVE  \A x \in Keys : StoreValue(c, k, v, real)[x] \in {None, c[x]} \/ (x = k /\ StoreValue(c, k, v, real)[x] = v)
<1> DEFINE old == IF real /\ k = "vatt" THEN EvictVatt(c)
                  ELSE IF real /\ k = "batt" THEN EvictBatt(c) ELSE c
           new == [old EXCEPT ![k] = v]
<1>1. OnKeys(old) /\ \A x \in Keys : old[x] \in {None, c[x]}
  BY Evictions
<1> HIDE DEF old
<1>2. OnKeys(new) /\ \A x \in Keys : new[x] \in {None, c[x]} \/ (x = k /\ new[x] = v)
  BY <1>1 DEF OnKeys
<1> HIDE DEF new
<1>3. \A x \in Keys : EvictInstance(new)[x] \in {None, new[x]}
  BY <1>2, Evictions
<1>4. StoreValue(c, k, v, real) \in {new, EvictInstance(new)}
  BY DEF StoreValue, new, old
<1> QED BY <1>2, <1>3, <1>4

\* The steps of OCI, and the others.
LEMMA OciSteps ==
  ASSUME Shape, LaunchInv, [Next]_vars, ~outside', Running'
  PROVE  \/ oci' = oci /\ outside' = outside
         \/ (AttachPrimary \/ AttachSecondary) /\ outside' = outside
         \/ \E t \in Types : \E f : \E slow \in BOOLEAN : Launch(t, f, slow)
<1>1. Terminate \/ Purge => ~Running'
  <2>1. ASSUME Terminate PROVE ~Running'
    <3>1. Running /\ oci'["inst"] = [oci["inst"] EXCEPT !.state = "terminated"]
      BY <2>1, VnicKeys DEF Terminate, Empty, Keys
    <3>2. oci'["inst"].state = "terminated"
      BY <3>1 DEF LaunchInv, AttachedInv
    <3> QED BY <3>2 DEF Running
  <2>2. ASSUME Purge PROVE ~Running'
    <3>1. oci'["inst"] = None
      BY <2>2 DEF Purge, Empty, Keys
    <3> QED BY <3>1 DEF Running
  <2> QED BY <2>1, <2>2
<1>2. ChangeOutside => outside' = TRUE
  BY Zenon DEF ChangeOutside
<1>3. outside' = outside \/ ChangeOutside
  <2>1. ASSUME World PROVE outside' = outside \/ ChangeOutside
    BY <2>1, Zenon DEF World, worldVars, EditSpec, ReconcileClass, AttachPrimary, AttachSecondary,
      BecomeInitialized, Retag, PublishImage, ExpireImages, RefreshCatalog, Terminate, Purge
  <2> QED BY <2>1, StepKinds, BeginDriftFrame, PassFrame, LaunchFrame, UsersFrame, Zenon DEF vars, worldVars
<1> QED BY <1>1, <1>2, <1>3, OciKept

\* How a step of the pass changes what it holds.
LEMMA GotChanges ==
  ASSUME Shape, CacheInv, [Next]_vars
  PROVE  /\ \A k \in Keys : \/ pass'.got[k] \in {None, pass.got[k]}
                            \/ pass'.got[k] = cache[k]
                            \/ pass.load # None /\ k = pass.load.key /\ pass'.got[k] = pass.load.val
         /\ \/ pass'.load \in {None, pass.load}
            \/ \E k \in Keys : pass'.load = [key |-> k, val |-> oci[k]] /\ oci' = oci
<1>0. PassShape /\ OnKeys(pass.got)
  BY VnicKeys DEF Shape, PassShape
<1>1. CASE Quiet
  BY <1>0, <1>1, QuietPass
<1>2. CASE pass'.got = Empty /\ pass'.load = None
  BY <1>2 DEF Empty
<1>3. ASSUME NEW f, BeginDrift(f) PROVE pass'.got = Empty /\ pass'.load = None
  <2>1. \/ pass' = NoPass
        \/ \E want, skipped : pass' = [NoPass EXCEPT !.stage = "inst", !.clean = TRUE,
                                                     !.skipped = skipped, !.want = want]
    BY <1>3, Zenon DEF BeginDrift, Finish
  <2> QED BY <2>1, NoPassFields DEF NoPass
<1>4. CASE ReadHit
  <2>1. PICK k \in NextReads(pass) : pass' = [pass EXCEPT !.got[k] = cache[k]]
    BY <1>4, Zenon DEF ReadHit
  <2>2. pass'.load = pass.load /\ pass'.got = [pass.got EXCEPT ![k] = cache[k]]
    BY <1>0, <2>1 DEF PassShape
  <2> QED BY <1>0, <2>2 DEF OnKeys
<1>5. CASE ReadAnswered
  <2>1. PICK k \in NextReads(pass) : pass' = [pass EXCEPT !.load = [key |-> k, val |-> oci[k]]]
    BY <1>5, Zenon DEF ReadAnswered
  <2>2. pass'.load = [key |-> k, val |-> oci[k]] /\ pass'.got = pass.got
    BY <1>0, <2>1 DEF PassShape
  <2>3. k \in Keys
    BY NextReadKinds
  <2>4. oci' = oci
    BY <1>5, PassFrame
  <2> QED BY <2>2, <2>3, <2>4
<1>6. CASE ReadStored
  <2>1. pass' = [pass EXCEPT !.load = None, !.got[pass.load.key] = pass.load.val] /\ pass.load # None
    BY <1>6 DEF ReadStored
  <2>2. pass'.load = None /\ pass'.got = [pass.got EXCEPT ![pass.load.key] = pass.load.val]
    BY <1>0, <2>1 DEF PassShape
  <2> QED BY <1>0, <2>1, <2>2 DEF OnKeys
<1>7. CASE ReadFails
  BY <1>2, <1>7, NoPassFields, Zenon DEF ReadFails, Finish
<1>8. CASE Judge
  <2>1. pass' = NoPass \/ pass' = Confirm(pass) \/ pass' = Advance(pass)
    BY <1>8, Zenon DEF Judge, Finish
  <2>2. CASE pass' = Confirm(pass)
    <3>1. pass'.load = pass.load /\ pass'.got = Empty
      BY <1>0, <2>2 DEF PassShape, Confirm
    <3> QED BY <3>1 DEF Empty
  <2>3. CASE pass' = Advance(pass)
    <3>1. pass'.load = pass.load /\ \A k \in Keys : pass'.got[k] \in {None, pass.got[k]}
      BY <1>0, <2>3 DEF PassShape, Advance
    <3> QED BY <3>1
  <2> QED BY <1>2, <2>1, <2>2, <2>3, NoPassFields
<1>9. World \/ Users \/ UNCHANGED vars => Quiet
  BY WorldFrame, UsersFrame DEF Quiet, vars
<1>10. ASSUME NEW t, NEW f, NEW slow, Launch(t, f, slow) PROVE Quiet
  BY <1>10, LaunchFrame DEF Quiet
<1> QED
  BY <1>1, <1>2, <1>3, <1>4, <1>5, <1>6, <1>7, <1>8, <1>9, <1>10, StepKinds

\* How a step changes the caches, a launch aside.
LEMMA CacheChanges ==
  ASSUME Shape, [Next]_vars
  PROVE  \/ \E t \in Types : \E f : \E slow \in BOOLEAN : Launch(t, f, slow)
         \/ \A k \in Keys : \/ cache'[k] \in {None, cache[k]}
                            \/ pass.load # None /\ k = pass.load.key /\ cache'[k] = pass.load.val
                            \/ other # None /\ other.seen /\ k = "inst" /\ cache'[k] = other.val
<1>0. OnKeys(cache)
  BY DEF Shape
<1>1. CASE cache' = cache
  BY <1>1
<1>2. CASE ReadStored
  <2>1. cache' = StoreValue(cache, pass.load.key, pass.load.val, pass.real) /\ pass.load # None
    BY <1>2 DEF ReadStored
  <2> QED BY <1>0, <2>1, StoredEntries
<1>3. CASE cache' = EvictInstance(cache)
  BY <1>0, <1>3, Evictions
<1>4. CASE other # None /\ other.seen /\ cache' = StoreValue(cache, "inst", other.val, TRUE)
  <2>1. ASSUME NEW real, cache' = StoreValue(cache, "inst", other.val, real)
        PROVE  \A x \in Keys : cache'[x] \in {None, cache[x]} \/ (x = "inst" /\ cache'[x] = other.val)
    BY <1>0, <2>1, StoredEntries
  <2> QED BY <1>4, <2>1
<1>5. ReadFails => cache' = cache \/ cache' = EvictInstance(cache)
  BY Zenon DEF ReadFails
<1>6. ReadHit \/ ReadAnswered \/ Judge => cache' = cache
  BY Zenon DEF ReadHit, ReadAnswered, Judge
<1>7. Users => \/ cache' = cache \/ cache' = EvictInstance(cache)
               \/ other # None /\ other.seen /\ cache' = StoreValue(cache, "inst", other.val, TRUE)
  BY Zenon DEF Users, GetAnswered, GetNotFound, ListAnswered, OtherStored, ListFails
<1>8. (\E f : BeginDrift(f)) \/ World \/ UNCHANGED vars => cache' = cache
  BY BeginDriftFrame, WorldFrame, Zenon DEF vars
<1> QED
  BY <1>1, <1>2, <1>3, <1>4, <1>5, <1>6, <1>7, <1>8, StepKinds

\* How a step changes what the other users of the caches were answered.
LEMMA OtherChanges ==
  ASSUME [Next]_vars
  PROVE  other' \in {None, other} \/ (other'.val = oci["inst"] /\ oci' = oci)
<1>1. ASSUME NEW seen PROVE [seen |-> seen, val |-> oci["inst"]].val = oci["inst"]
  OBVIOUS
<1>2. ASSUME Users PROVE other' \in {None, other} \/ \E seen : other' = [seen |-> seen, val |-> oci["inst"]]
  <2>1. GetNotFound \/ OtherStored \/ ListFails => other' = None \/ other' = other
    BY Zenon DEF GetNotFound, OtherStored, ListFails
  <2>2. GetAnswered => \E seen : other' = [seen |-> seen, val |-> oci["inst"]]
    BY Zenon DEF GetAnswered
  <2>3. ASSUME ListAnswered PROVE \E seen : other' = [seen |-> seen, val |-> oci["inst"]]
    <3>1. PICK seen : other' = [val |-> oci["inst"], seen |-> seen]
      BY <2>3, Zenon DEF ListAnswered
    <3>2. other' = [seen |-> seen, val |-> oci["inst"]]
      BY <3>1
    <3> QED BY <3>2
  <2> QED BY <1>2, <2>1, <2>2, <2>3 DEF Users
<1>3. Users => oci' = oci
  BY UsersFrame
<1>4. CASE Users
  BY <1>1, <1>2, <1>3, <1>4
<1>5. CASE ~Users
  <2>1. other' = other
    BY <1>5, StepKinds, BeginDriftFrame, PassFrame, LaunchFrame, WorldFrame, Zenon DEF vars
  <2> QED BY <2>1
<1> QED BY <1>4, <1>5

\* What the caches and the pass hold stays in agreement with OCI.
LEMMA FreshInvKept ==
  ASSUME Shape, LaunchInv, CacheInv, FreshInv, [Next]_vars
  PROVE  FreshInv'
<1> SUFFICES ASSUME ~outside', Running'
             PROVE  /\ \A k \in Keys : cache'[k] # None => Agrees(oci', k, cache'[k])
                    /\ \A k \in Keys : pass'.got[k] # None => Agrees(oci', k, pass'.got[k])
                    /\ pass'.load # None => Agrees(oci', pass'.load.key, pass'.load.val)
                    /\ other' # None /\ other'.seen => other'.val = oci'["inst"]
  BY DEF FreshInv, Agrees
<1>1. ASSUME NEW t \in Types, NEW f, NEW slow \in BOOLEAN, Launch(t, f, slow)
      PROVE  /\ \A k \in Keys : cache'[k] # None => Agrees(oci', k, cache'[k])
             /\ \A k \in Keys : pass'.got[k] # None => Agrees(oci', k, pass'.got[k])
             /\ pass'.load = None /\ other' = None
  <2>1. pass' = NoPass /\ other' = None
    BY <1>1, LaunchFrame, LaunchParts DEF Shape, ClaimShape
  <2>2. PICK inst : cache' = [Empty EXCEPT !["inst"] = inst] /\ oci' = Launched(inst, class.spec, slow)
    BY <1>1, LaunchParts
  <2>3. oci'["inst"] = inst
    BY <2>2, VnicKeys DEF Launched, Empty, Keys, Vnics
  <2>4. \A k \in Keys : cache'[k] # None => k = "inst" /\ cache'[k] = inst
    BY <2>2 DEF Empty
  <2>5. \A k \in Keys : pass'.got[k] = None
    BY <2>1, NoPassFields DEF Empty
  <2> QED BY <2>1, <2>3, <2>4, <2>5, NoPassFields DEF Agrees
<1>2. CASE \E t \in Types : \E f : \E slow \in BOOLEAN : Launch(t, f, slow)
  BY <1>1, <1>2
<1>3. CASE /\ ~\E t \in Types : \E f : \E slow \in BOOLEAN : Launch(t, f, slow)
           /\ outside' = outside /\ (oci' = oci \/ AttachPrimary \/ AttachSecondary)
  <2>1. Running /\ ~outside
    BY <1>3 DEF Running, AttachPrimary, AttachSecondary
  <2>2. ASSUME NEW k \in Keys, NEW val, val # None, Agrees(oci, k, val) PROVE Agrees(oci', k, val)
    BY <1>3, <2>2, AgreesAttach
  <2>3. /\ \A k \in Keys : cache[k] # None => Agrees(oci, k, cache[k])
        /\ \A k \in Keys : pass.got[k] # None => Agrees(oci, k, pass.got[k])
        /\ pass.load # None => Agrees(oci, pass.load.key, pass.load.val)
        /\ other # None /\ other.seen => Agrees(oci, "inst", other.val) /\ other.val # None
    BY <2>1 DEF FreshInv, Agrees, Running
  <2>4. pass.load # None => pass.load.key \in Keys /\ pass.load.val # None
    BY NextReadKinds DEF CacheInv, LoadSound
  <2>5. \A k \in Keys : cache'[k] # None => Agrees(oci', k, cache'[k])
    <3>1. ASSUME NEW k \in Keys, cache'[k] # None PROVE Agrees(oci, k, cache'[k])
      BY <1>3, <2>3, <3>1, CacheChanges
    <3> QED BY <2>2, <3>1
  <2>6. \A k \in Keys : pass'.got[k] # None => Agrees(oci', k, pass'.got[k])
    <3>1. ASSUME NEW k \in Keys, pass'.got[k] # None PROVE Agrees(oci, k, pass'.got[k])
      BY <2>3, <3>1, GotChanges
    <3> QED BY <2>2, <3>1
  <2>7. ASSUME pass'.load # None PROVE Agrees(oci', pass'.load.key, pass'.load.val)
    <3>1. CASE pass'.load = pass.load
      BY <2>2, <2>3, <2>4, <2>7, <3>1
    <3>2. ASSUME NEW k \in Keys, pass'.load = [key |-> k, val |-> oci[k]], oci' = oci
          PROVE  Agrees(oci', pass'.load.key, pass'.load.val)
      BY <2>1, <3>2 DEF Agrees, Running
    <3> QED BY <2>7, <3>1, <3>2, GotChanges
  <2>8. ASSUME other' # None, other'.seen PROVE other'.val = oci'["inst"]
    <3>1. CASE other' = other
      <4>1. Agrees(oci', "inst", other.val)
        BY <2>2, <2>3, <2>8, <3>1, VnicKeys
      <4> QED BY <3>1, <4>1 DEF Agrees
    <3> QED BY <2>8, <3>1, OtherChanges
  <2> QED BY <2>5, <2>6, <2>7, <2>8
<1> QED BY <1>2, <1>3, OciSteps

\* The network stage reads the VNICs of the primary's subnet.
LEMMA NetReads ==
  ASSUME NEW p, p.stage = "net", NEW k \in NextReads(p), k \in Vnics
  PROVE  p.got["vatt"][k] = p.want.net.primary.subnet
<1> DEFINE S == {v \in DOMAIN p.got["vatt"] : p.got["vatt"][v] = p.want.net.primary.subnet /\ p.got[v] = None}
<1>1. k \in FirstOf(S)
  BY VnicKeys DEF NextReads
<1> QED BY <1>1, FirstOfIn

\* The kinds of steps, by what they do to the pass.
LEMMA PassSteps ==
  ASSUME Shape, CacheInv, [Next]_vars
  PROVE  \/ Quiet
         \/ pass' = NoPass
         \/ \E f : BeginDrift(f) /\ pass'.stage = "inst" /\ pass'.got = Empty /\ pass'.load = None /\ ~pass'.real
         \/ /\ pass'.stage = pass.stage /\ pass'.want = pass.want /\ pass'.real = pass.real
            /\ pass'.clean = pass.clean /\ pass'.skipped = pass.skipped
            /\ pass'.got = pass.got \/ \E k \in NextReads(pass) : \E val : pass'.got = [pass.got EXCEPT ![k] = val]
            /\ ReadHit \/ ReadAnswered \/ ReadStored
         \/ Judge /\ (pass' = Confirm(pass) \/ pass' = Advance(pass))
<1>0. PassShape
  BY DEF Shape
<1>1. World \/ Users \/ UNCHANGED vars => Quiet
  BY WorldFrame, UsersFrame DEF Quiet, vars
<1>2. ASSUME NEW t, NEW f, NEW slow, Launch(t, f, slow) PROVE Quiet
  BY <1>2, LaunchFrame DEF Quiet
<1>3. ASSUME NEW f, BeginDrift(f)
      PROVE  pass' = NoPass \/ (pass'.stage = "inst" /\ pass'.got = Empty /\ pass'.load = None /\ ~pass'.real)
  <2>1. \/ pass' = NoPass
        \/ \E want, skipped : pass' = [NoPass EXCEPT !.stage = "inst", !.clean = TRUE,
                                                     !.skipped = skipped, !.want = want]
    BY <1>3, Zenon DEF BeginDrift, Finish
  <2> QED BY <2>1, NoPassFields DEF NoPass
<1>4. CASE ReadHit
  <2>1. PICK k \in NextReads(pass) : pass' = [pass EXCEPT !.got[k] = cache[k]]
    BY <1>4, Zenon DEF ReadHit
  <2>2. /\ pass'.stage = pass.stage /\ pass'.want = pass.want /\ pass'.real = pass.real
        /\ pass'.clean = pass.clean /\ pass'.skipped = pass.skipped
        /\ pass'.got = [pass.got EXCEPT ![k] = cache[k]]
    BY <1>0, <2>1 DEF PassShape
  <2> QED BY <1>4, <2>2
<1>5. CASE ReadAnswered
  <2>1. PICK k \in NextReads(pass) : pass' = [pass EXCEPT !.load = [key |-> k, val |-> oci[k]]]
    BY <1>5, Zenon DEF ReadAnswered
  <2>2. /\ pass'.stage = pass.stage /\ pass'.want = pass.want /\ pass'.real = pass.real
        /\ pass'.clean = pass.clean /\ pass'.skipped = pass.skipped
        /\ pass'.got = pass.got
    BY <1>0, <2>1 DEF PassShape
  <2> QED BY <1>5, <2>2
<1>6. CASE ReadStored
  <2>1. pass' = [pass EXCEPT !.load = None, !.got[pass.load.key] = pass.load.val] /\ pass.load # None
    BY <1>6 DEF ReadStored
  <2>2. /\ pass'.stage = pass.stage /\ pass'.want = pass.want /\ pass'.real = pass.real
        /\ pass'.clean = pass.clean /\ pass'.skipped = pass.skipped
        /\ pass'.got = [pass.got EXCEPT ![pass.load.key] = pass.load.val]
    BY <1>0, <2>1 DEF PassShape
  <2>3. pass.load.key \in NextReads(pass)
    BY <2>1 DEF CacheInv, LoadSound
  <2> QED BY <1>6, <2>2, <2>3
<1>7. ReadFails => pass' = NoPass
  BY Zenon DEF ReadFails, Finish
<1>8. Judge => pass' = NoPass \/ pass' = Confirm(pass) \/ pass' = Advance(pass)
  BY Zenon DEF Judge, Finish
<1> QED
  BY <1>1, <1>2, <1>3, <1>4, <1>5, <1>6, <1>7, <1>8, StepKinds

\* A stage reads attachments before what is attached.
LEMMA GotInvKept ==
  ASSUME Shape, CacheInv, GotInv, [Next]_vars
  PROVE  GotInv'
<1>0. PassShape /\ OnKeys(pass.got)
  BY DEF Shape, PassShape
<1>1. CASE /\ pass'.stage = pass.stage /\ pass'.want = pass.want /\ pass'.got = pass.got
  BY <1>1 DEF GotInv, AttachmentDrifted
<1>2. CASE pass'.stage \notin {"net", "boot"}
  BY <1>2 DEF GotInv
<1>3. CASE (\A v \in Vnics : pass'.got[v] = None) /\ pass'.got["boot"] = None
  BY <1>3 DEF GotInv
<1>4. ASSUME NEW k \in NextReads(pass), NEW val, pass'.got = [pass.got EXCEPT ![k] = val],
             pass'.stage = pass.stage, pass'.want = pass.want
      PROVE  GotInv'
  <2>1. \A x \in Keys \ {k} : pass'.got[x] = pass.got[x]
    BY <1>0, <1>4 DEF OnKeys
  <2>2. pass.stage = "net" => \A v \in Vnics : pass'.got[v] # None =>
       /\ pass'.got["vatt"] # None /\ v \in DOMAIN pass'.got["vatt"]
       /\ pass'.got["vatt"][v] = pass.want.net.primary.subnet
    <3> SUFFICES ASSUME pass.stage = "net", NEW v \in Vnics, pass'.got[v] # None
                 PROVE  /\ pass'.got["vatt"] # None /\ v \in DOMAIN pass'.got["vatt"]
                        /\ pass'.got["vatt"][v] = pass.want.net.primary.subnet
      OBVIOUS
    <3>1. /\ pass.got["vatt"] # None /\ v \in DOMAIN pass.got["vatt"]
          /\ pass.got["vatt"][v] = pass.want.net.primary.subnet
      <4>1. CASE k = v
        BY <4>1, NextReadKinds, NetReads
      <4>2. CASE k # v
        BY <2>1, <4>2, VnicKeys DEF GotInv
      <4> QED BY <4>1, <4>2
    <3>2. k # "vatt"
      BY <3>1, NextReadKinds
    <3> QED BY <2>1, <3>1, <3>2, VnicKeys
  <2>3. pass.stage = "boot" /\ pass'.got["boot"] # None =>
          pass'.got["batt"] # None /\ AttachmentDrifted(pass.want, pass'.got["batt"]) = ""
    <3> SUFFICES ASSUME pass.stage = "boot", pass'.got["boot"] # None
                 PROVE  pass'.got["batt"] # None /\ AttachmentDrifted(pass.want, pass'.got["batt"]) = ""
      OBVIOUS
    <3>1. pass.got["batt"] # None /\ AttachmentDrifted(pass.want, pass.got["batt"]) = ""
      <4>1. CASE k = "boot"
        BY <4>1, NextReadKinds
      <4>2. CASE k # "boot"
        BY <2>1, <4>2, VnicKeys DEF GotInv
      <4> QED BY <4>1, <4>2
    <3>2. k # "batt"
      BY <3>1, NextReadKinds
    <3> QED BY <2>1, <3>1, <3>2, VnicKeys
  <2>4. pass'.stage = pass.stage /\ pass'.want = pass.want
    BY <1>4
  <2> QED BY <2>2, <2>3, <2>4 DEF GotInv, AttachmentDrifted
<1>5. ASSUME pass' = Confirm(pass) PROVE (\A v \in Vnics : pass'.got[v] = None) /\ pass'.got["boot"] = None
  <2>1. pass'.got = Empty
    BY <1>0, <1>5 DEF PassShape, Confirm
  <2> QED BY <2>1, VnicKeys DEF Empty
<1>6. ASSUME pass' = Advance(pass) PROVE (\A v \in Vnics : pass'.got[v] = None) /\ pass'.got["boot"] = None
  <2>1. \A k \in Keys : pass'.got[k] # None => k = "vatt"
    BY <1>0, <1>6 DEF PassShape, Advance
  <2> QED BY <2>1, VnicKeys
<1>7. pass' = NoPass => pass'.stage \notin {"net", "boot"}
  BY NoPassFields
<1> QED
  BY <1>0, <1>1, <1>2, <1>3, <1>4, <1>5, <1>6, <1>7, QuietPass, PassSteps

\* While a pass is clean nothing changes what it compares, nor what it compares it with.
LEMMA Undisturbed ==
  ASSUME Shape, [Next]_vars, pass'.clean
  PROVE  /\ UNCHANGED <<class, claim, npn, oci, worldVars>>
         /\ imgs' = imgs \/ ReconcileClass \/ \E f : BeginDrift(f)
<1>0. PassShape
  BY DEF Shape
<1>1. ~Disturb
  BY <1>0 DEF Disturb, PassShape
<1>2. ASSUME World PROVE ReconcileClass /\ UNCHANGED <<class, claim, npn, oci, worldVars>>
  <2>1. ReconcileClass
    BY <1>1, <1>2, Zenon DEF World, EditSpec, AttachPrimary, AttachSecondary, BecomeInitialized,
      ChangeOutside, Retag, PublishImage, ExpireImages, RefreshCatalog, Terminate, Purge
  <2> QED BY <1>1, <2>1, Zenon DEF ReconcileClass
<1>3. ASSUME NEW t, NEW f, NEW slow, Launch(t, f, slow) PROVE FALSE
  <2>1. pass' = NoPass
    BY <1>3, LaunchFrame, LaunchParts DEF Shape, ClaimShape
  <2> QED BY <2>1, NoPassFields
<1>4. CASE World
  BY <1>2, <1>4
<1>5. CASE ReadHit \/ ReadAnswered \/ ReadStored \/ ReadFails \/ Judge
  BY <1>5, PassFrame, Zenon
<1>6. CASE Users
  BY <1>6, UsersFrame, Zenon
<1>7. CASE \E f : BeginDrift(f)
  BY <1>7, BeginDriftFrame, Zenon
<1>8. CASE UNCHANGED vars
  BY <1>8, Zenon DEF vars, worldVars
<1> QED BY <1>3, <1>4, <1>5, <1>6, <1>7, <1>8, StepKinds

\* What a resolution leaves in the caches does not change what the next one finds.
LEMMA LookKept ==
  ASSUME ImgsShape, NEW spec \in Specs, NEW f, NEW im,
         im.pub = imgs.pub, im.have \subseteq Ids, im.shapes \subseteq Ids,
         im.list = RememberImages(spec, LaunchLook(spec, f)).list,
         im = imgs'
  PROVE  LaunchLook(spec, {})' = LaunchLook(spec, {})
<1> DEFINE flt == spec.image.filter
           all == ListedImages({i \in Images : i.id \in imgs.pub}, spec.image)
           L == LaunchLook(spec, f).list
           Cached(l) == IF spec.image.id # None THEN None
                        ELSE IF l[flt] # None THEN {i \in Images : i.id \in l[flt]} ELSE all
<1>1. LaunchLook(spec, {}) = [list |-> Cached(imgs.list), have |-> Ids, shapes |-> Ids, strict |-> FALSE]
  <2>1. imgs.have \cup {i \in Ids : <<"image", i>> \notin {}} = Ids
    BY DEF ImgsShape
  <2>2. imgs.shapes \cup {i \in Ids : <<"shapes", i>> \notin {}} = Ids
    BY DEF ImgsShape
  <2>3. <<"list", None>> \notin {}
    OBVIOUS
  <2> QED BY <2>1, <2>2, <2>3, Zenon DEF LaunchLook
<1>2. LaunchLook(spec, {})' = [list |-> Cached(im.list), have |-> Ids, shapes |-> Ids, strict |-> FALSE]
  <2>1. imgs'.have \cup {i \in Ids : <<"image", i>> \notin {}} = Ids
    OBVIOUS
  <2>2. imgs'.shapes \cup {i \in Ids : <<"shapes", i>> \notin {}} = Ids
    OBVIOUS
  <2>3. <<"list", None>> \notin {}
    OBVIOUS
  <2>4. imgs'.pub = imgs.pub
    OBVIOUS
  <2>5. imgs'.list = im.list
    OBVIOUS
  <2>6. LaunchLook(spec, {})' =
          [list   |-> IF spec.image.id # None THEN None
                      ELSE IF imgs'.list[flt] # None THEN {i \in Images : i.id \in imgs'.list[flt]}
                      ELSE IF <<"list", None>> \in {} THEN None
                      ELSE ListedImages({i \in Images : i.id \in imgs'.pub}, spec.image),
           have   |-> imgs'.have \cup {i \in Ids : <<"image", i>> \notin {}},
           shapes |-> imgs'.shapes \cup {i \in Ids : <<"shapes", i>> \notin {}},
           strict |-> FALSE]
    BY Zenon DEF LaunchLook
  <2> QED BY <2>1, <2>2, <2>3, <2>4, <2>5, <2>6
<1>3. im.list = IF L = None THEN imgs.list ELSE [imgs.list EXCEPT ![flt] = {i.id : i \in L}]
  BY DEF RememberImages, ImgsShape
<1>4. Cached(im.list) = Cached(imgs.list)
  <2>1. CASE spec.image.id # None
    BY <2>1
  <2>2. CASE spec.image.id = None
    <3>1. flt \in Filters /\ DOMAIN imgs.list = Filters
      BY <2>2, ImagesAssumption DEF Filters, ImgsShape
    <3>2. CASE L = None
      BY <1>3, <3>2
    <3>3. CASE L # None
      <4>1. L = Cached(imgs.list) /\ L \subseteq Images
        BY <2>2, <3>3 DEF LaunchLook, ListedImages
      <4> HIDE DEF L
      <4>2. im.list[flt] = {i.id : i \in L}
        BY <1>3, <3>1, <3>3
      <4>3. {i.id : i \in L} # None
        BY <4>1, ImagesAssumption DEF Ids
      <4>4. {i \in Images : i.id \in {j.id : j \in L}} = L
        <5>1. ASSUME NEW i \in Images, i.id \in {j.id : j \in L} PROVE i \in L
          <6>1. PICK j \in L : i.id = j.id
            BY <5>1
          <6> QED BY <4>1, <6>1, ImagesAssumption
        <5>2. L \subseteq Images
          BY <4>1
        <5> QED BY <5>1, <5>2
      <4> QED BY <2>2, <4>1, <4>2, <4>3, <4>4
    <3> QED BY <3>2, <3>3
  <2> QED BY <2>1, <2>2
<1> HIDE DEF Cached
<1> QED BY <1>1, <1>2, <1>4

\* A shape has one image, or none.
LEMMA OneImage ==
  ASSUME NEW spec, NEW t, NEW look, NEW x \in ImageFor(spec, t, look)
  PROVE  ImageFor(spec, t, look) = {x}
<1> DEFINE found == ImagesFound(spec.image, Images, look)
           Sorted == FilterAndSort(found, spec.image, Images, look, Version)
           Pick(s) == LET runs == {n \in DOMAIN s : TypeInfo[t].shape \in s[n].shapes}
                          first == Min(runs)
                      IN  IF runs # {} /\ \A n \in 1..first : s[n].id \in look.shapes
                          THEN {s[first].id}
                          ELSE {}
<1>1. Sorted = {} \/ \E s : Sorted = {s}
  BY Zenon DEF FilterAndSort
<1>2. ImageFor(spec, t, look) = UNION {Pick(s) : s \in {s \in Sorted : s # <<>>}}
  BY Zenon DEF ImageFor, ResolveImageForShape, ResolveImages
<1>3. \A s : Pick(s) = {} \/ \E y : Pick(s) = {y}
  BY Zenon
<1> HIDE DEF Sorted, Pick
<1>4. PICK s \in Sorted : x \in Pick(s)
  BY <1>2
<1>5. ImageFor(spec, t, look) = Pick(s)
  BY <1>1, <1>2, <1>4
<1> QED BY <1>3, <1>4, <1>5

\* What a launch would use is the same after a step that changes neither the class, nor
\* the claim, nor an image other than by caching it.
LEMMA NowImagesKept ==
  ASSUME Shape, claim' = claim, class' = class,
         \/ imgs' = imgs \/ ReconcileClass \/ \E f : BeginDrift(f)
  PROVE  NowImages' = NowImages
<1>0. ImgsShape /\ class.spec \in Specs
  BY DEF Shape, ClassShape
<1>1. CASE imgs' = imgs
  BY <1>1 DEF NowImages, ImageFor, LaunchLook
<1>2. ASSUME NEW spec, spec = class.spec, LaunchLook(spec, {})' = LaunchLook(spec, {})
      PROVE  NowImages' = NowImages
  <2>1. LaunchLook(class.spec, {})' = LaunchLook(class.spec, {})
    BY <1>2 DEF LaunchLook
  <2> QED BY <2>1 DEF NowImages, ImageFor
<1>3. ASSUME NEW spec, spec = class.spec, NEW f, imgs' = RememberImages(spec, LaunchLook(spec, f))
      PROVE  LaunchLook(spec, {})' = LaunchLook(spec, {})
  <2>1. spec \in Specs
    BY <1>0, <1>3
  <2>2. imgs'.pub = imgs.pub /\ imgs'.have \subseteq Ids /\ imgs'.shapes = imgs.shapes
    BY <1>0, <1>3, <2>1, Remembered
  <2> QED BY <1>0, <1>3, <2>1, <2>2, LookKept DEF ImgsShape
<1>4. ASSUME NEW spec, spec = class.spec, NEW f, NEW t, imgs' = RememberShapes(spec, t, LaunchLook(spec, f))
      PROVE  LaunchLook(spec, {})' = LaunchLook(spec, {})
  <2> DEFINE r == RememberImages(spec, LaunchLook(spec, f))
             read == ShapesRead(spec.image, TypeInfo[t].shape, Images, LaunchLook(spec, f), Version)
  <2>1. spec \in Specs
    BY <1>0, <1>4
  <2>2. imgs' = [r EXCEPT !.shapes = @ \cup read]
    BY <1>4 DEF RememberShapes
  <2>3. /\ r = [pub |-> imgs.pub, have |-> r.have, shapes |-> imgs.shapes, list |-> r.list]
        /\ r.have \subseteq Ids
    BY <1>0, <2>1, Remembered
  <2>4. read \subseteq Ids
    <3>1. LaunchLook(spec, f).shapes \subseteq Ids
      BY <1>0 DEF LaunchLook, ImgsShape
    <3>2. read \subseteq LaunchLook(spec, f).shapes
      BY Zenon DEF ShapesRead
    <3> QED BY <3>1, <3>2
  <2>7. imgs.shapes \subseteq Ids
    BY <1>0 DEF ImgsShape
  <2> HIDE DEF r, read
  <2>5. imgs'.pub = imgs.pub /\ imgs'.have = r.have /\ imgs'.shapes = imgs.shapes \cup read /\ imgs'.list = r.list
    BY <2>2, <2>3
  <2>6. imgs'.list = RememberImages(spec, LaunchLook(spec, f)).list
    BY <2>5 DEF r
  <2> QED BY <1>0, <2>1, <2>3, <2>4, <2>5, <2>6, <2>7, LookKept
<1>5. CASE ReconcileClass
  BY <1>2, <1>3, <1>5, Zenon DEF ReconcileClass
<1>6. ASSUME NEW f, BeginDrift(f) PROVE NowImages' = NowImages
  <2>1. imgs' = imgs \/ imgs' = RememberShapes(class.spec, claim.type, LaunchLook(class.spec, f))
    BY <1>6, Zenon DEF BeginDrift
  <2> QED BY <1>1, <1>2, <1>4, <2>1
<1> QED BY <1>1, <1>5, <1>6

\* What the first part of IsDrifted has established when it looks at the instance.
LEMMA WantBegins ==
  ASSUME Shape, NEW f, BeginDrift(f), pass'.clean
  PROVE  /\ pass'.stage = "inst" /\ class.ready
         /\ pass'.want.spec = class.spec /\ pass'.want.net = class.net /\ pass'.want.cpgs = class.cpgs
         /\ pass'.want.it = TypeInfo[claim.type]
         /\ pass'.want.res = {claim.res} \cap class.spec.res
         /\ pass'.want.skip = ~claim.init
         /\ claim.type \in ListInstanceTypes(class.spec)
         /\ claim.res # None => claim.res \in class.spec.res
         /\ claim.hash = class.hash
         /\ ~pass'.skipped => NowImages = {pass'.want.image}
<1> DEFINE spec == class.spec
           image == ImageFor(spec, claim.type, LaunchLook(spec, f))
           skipped == image # ImageFor(spec, claim.type, LaunchLook(spec, {}))
           res == {claim.res} \cap spec.res
           early == IF ~class.ready \/ ListInstanceTypes(spec) = {} THEN "unknown"
               ELSE IF claim.type \notin ListInstanceTypes(spec) THEN "ShapeNotFound"
               ELSE IF image = {} THEN "unknown"
               ELSE IF claim.res # None /\ spec.res # {} /\ <<"res", None>> \in f THEN "unknown"
               ELSE IF claim.res # None /\ res = {} THEN "CapacityReservationMismatch"
               ELSE IF AreStaticFieldsDrifted THEN "NodeClassStaticFieldDrift"
               ELSE ""
           want == [spec |-> spec, net |-> class.net, cpgs |-> class.cpgs,
                    it |-> TypeInfo[claim.type], image |-> CHOOSE i \in image : TRUE,
                    res |-> res, skip |-> ~claim.init]
<1>1. \/ early # "" /\ pass' = NoPass
      \/ early = "" /\ pass' = [NoPass EXCEPT !.stage = "inst", !.clean = TRUE, !.skipped = skipped, !.want = want]
  BY Zenon DEF BeginDrift, Finish
<1>2. early = "" /\ pass' = [NoPass EXCEPT !.stage = "inst", !.clean = TRUE, !.skipped = skipped, !.want = want]
  BY <1>1, NoPassFields
<1>3. class.ready
  BY <1>2
<1>4. claim.type \in ListInstanceTypes(spec)
  BY <1>2
<1>5. image # {}
  BY <1>2
<1>6. claim.res # None => res # {}
  BY <1>2
<1>7. ~AreStaticFieldsDrifted
  BY <1>2
<1>8. /\ want.spec = spec /\ want.net = class.net /\ want.cpgs = class.cpgs /\ want.it = TypeInfo[claim.type]
      /\ want.res = res /\ want.skip = ~claim.init /\ want.image = CHOOSE i \in image : TRUE
  OBVIOUS
<1> HIDE DEF want, skipped
<1>9. ASSUME NEW y PROVE LET p == [NoPass EXCEPT !.stage = "inst", !.clean = TRUE, !.skipped = y, !.want = want]
                         IN  p.stage = "inst" /\ p.skipped = y /\ p.want = want
  BY DEF NoPass
<1>10. pass'.stage = "inst" /\ pass'.skipped = skipped /\ pass'.want = want
  BY <1>2, <1>9
<1>11. ~skipped => NowImages = {want.image}
  <2>1. want.image \in image
    BY <1>5, <1>8
  <2>2. image = {want.image}
    BY <2>1, OneImage
  <2> QED BY <2>2 DEF skipped, NowImages
<1> QED
  BY <1>3, <1>4, <1>6, <1>7, <1>8, <1>10, <1>11 DEF AreStaticFieldsDrifted

\* Every step keeps what a clean pass compares with current.
LEMMA WantInvKept ==
  ASSUME Shape, CacheInv, WantInv, [Next]_vars
  PROVE  WantInv'
<1> SUFFICES ASSUME pass'.clean, pass'.stage # "idle"
             PROVE  WantInv'
  BY DEF WantInv
<1>0. PassShape
  BY DEF Shape
<1>1. /\ UNCHANGED <<class, claim, catalog>>
      /\ imgs' = imgs \/ ReconcileClass \/ \E f : BeginDrift(f)
  BY Undisturbed DEF worldVars
<1>2. NowImages' = NowImages
  BY <1>1, NowImagesKept
<1>3. ListInstanceTypes(class.spec)' = ListInstanceTypes(class.spec)
  BY <1>1 DEF ListInstanceTypes
<1>4. ASSUME pass'.want = pass.want, pass'.skipped = pass.skipped, pass.clean, pass.stage # "idle",
             pass'.stage = "sec" => ~pass'.want.skip
      PROVE  WantInv'
  BY <1>1, <1>2, <1>3, <1>4 DEF WantInv
<1>5. CASE Quiet
  <2>1. pass' = pass /\ pass.clean
    BY <1>0, <1>5, QuietPass
  <2> QED BY <1>4, <2>1 DEF WantInv
<1>6. CASE pass' = NoPass
  BY <1>6, NoPassFields
<1>7. ASSUME NEW f, BeginDrift(f) PROVE WantInv'
  <2>1. /\ pass'.stage = "inst" /\ class.ready
        /\ pass'.want.spec = class.spec /\ pass'.want.net = class.net /\ pass'.want.cpgs = class.cpgs
        /\ pass'.want.it = TypeInfo[claim.type]
        /\ pass'.want.res = {claim.res} \cap class.spec.res
        /\ pass'.want.skip = ~claim.init
        /\ claim.type \in ListInstanceTypes(class.spec)
        /\ claim.res # None => claim.res \in class.spec.res
        /\ claim.hash = class.hash
        /\ ~pass'.skipped => NowImages = {pass'.want.image}
    BY <1>7, WantBegins
  <2> QED BY <1>1, <1>2, <1>3, <2>1 DEF WantInv
<1>8. CASE pass'.stage = pass.stage /\ pass'.want = pass.want /\ pass'.clean = pass.clean /\ pass'.skipped = pass.skipped
  BY <1>4, <1>8 DEF WantInv
<1>9. CASE Judge /\ pass' = Confirm(pass)
  <2>1. /\ pass'.want = pass.want /\ pass'.skipped = pass.skipped /\ pass'.clean = pass.clean
        /\ pass'.stage # "sec"
    BY <1>0, <1>9 DEF PassShape, Confirm
  <2>2. pass.stage # "idle"
    BY <1>9, Zenon DEF Judge
  <2> QED BY <1>4, <2>1, <2>2
<1>10. CASE Judge /\ pass' = Advance(pass)
  <2>1. /\ pass'.want = pass.want /\ pass'.skipped = pass.skipped /\ pass'.clean = pass.clean
        /\ pass'.stage = "sec" => ~pass.want.skip
    BY <1>0, <1>10 DEF PassShape, Advance
  <2>2. pass.stage # "idle"
    BY <1>10, Zenon DEF Judge
  <2> QED BY <1>4, <2>1, <2>2
<1> QED BY <1>5, <1>6, <1>7, <1>8, <1>9, <1>10, PassSteps

\* The ways a stage ends.
LEMMA JudgeKinds ==
  ASSUME Judge
  PROVE  /\ pass.stage # "idle" /\ pass.load = None /\ NextReads(pass) = {}
         /\ \/ \E reason \in Reasons(pass) : reason # "" /\ pass.real /\ Finish(reason, pass.clean, pass.skipped)
            \/ "" \in Reasons(pass) /\ pass.stage = "boot" /\ Finish("", pass.clean, pass.skipped)
            \/ /\ \E reason \in Reasons(pass) : reason # "" /\ ~pass.real
               /\ pass' = Confirm(pass) /\ verdict' = NoVerdict
            \/ "" \in Reasons(pass) /\ pass.stage # "boot" /\ pass' = Advance(pass) /\ verdict' = NoVerdict
<1>1. /\ pass.stage # "idle" /\ pass.load = None /\ NextReads(pass) = {}
      /\ \E reason \in Reasons(pass) :
       IF reason # "" /\ pass.real THEN Finish(reason, pass.clean, pass.skipped)
       ELSE IF reason = "" /\ pass.stage = "boot" THEN Finish("", pass.clean, pass.skipped)
       ELSE /\ pass' = IF reason # "" THEN Confirm(pass) ELSE Advance(pass)
            /\ verdict' = NoVerdict
  BY Zenon DEF Judge
<1>2. PICK reason \in Reasons(pass) :
       IF reason # "" /\ pass.real THEN Finish(reason, pass.clean, pass.skipped)
       ELSE IF reason = "" /\ pass.stage = "boot" THEN Finish("", pass.clean, pass.skipped)
       ELSE /\ pass' = IF reason # "" THEN Confirm(pass) ELSE Advance(pass)
            /\ verdict' = NoVerdict
  BY <1>1
<1>3. CASE reason = ""
  BY <1>1, <1>2, <1>3
<1>4. CASE reason # ""
  BY <1>1, <1>2, <1>4
<1> QED BY <1>3, <1>4

\* The VNICs are read one after another until none is left.
LEMMA FirstOfEmpty ==
  ASSUME NEW S, FirstOf(S) = {}
  PROVE  S \cap Vnics = {}
<1> DEFINE order == <<Primary>> \o Secondaries
           T == {m \in DOMAIN order : order[m] \in S}
<1>1. /\ DOMAIN order = 1..(Len(Secondaries) + 1) /\ Len(Secondaries) \in Nat /\ order[1] = Primary
      /\ \A i \in 1..Len(Secondaries) : i + 1 \in DOMAIN order /\ order[i + 1] = Secondaries[i]
  BY KeysAssumption
<1>2. \A v \in Vnics : \E m \in DOMAIN order : order[m] = v
  <2>1. \A v \in Range(Secondaries) : \E i \in 1..Len(Secondaries) : Secondaries[i] = v
    BY KeysAssumption DEF Range
  <2> HIDE DEF order
  <2>2. \A v \in Range(Secondaries) : \E m \in DOMAIN order : order[m] = v
    BY <1>1, <2>1
  <2>3. 1 \in DOMAIN order
    BY <1>1
  <2> QED BY <1>1, <2>2, <2>3 DEF Vnics
<1>3. FirstOf(S) = {order[n] : n \in {m \in DOMAIN order : order[m] \in S /\ \A l \in 1..(m - 1) : order[l] \notin S}}
  BY DEF FirstOf
<1> HIDE DEF order
<1>4. ASSUME T # {} PROVE FALSE
  <2>1. T \in SUBSET Nat
    BY <1>1
  <2>2. PICK x \in T : \A y \in T : x <= y
    BY <1>4, <2>1, LeastNatural
  <2>3. x \in DOMAIN order /\ order[x] \in S /\ x \in Nat
    BY <1>1, <2>2
  <2>4. \A l \in 1..(x - 1) : l \in DOMAIN order /\ ~(x <= l)
    BY <1>1, <2>3
  <2>5. \A l \in 1..(x - 1) : order[l] \notin S
    BY <2>2, <2>4
  <2>6. order[x] \in FirstOf(S)
    BY <1>3, <2>3, <2>5
  <2> QED BY <2>6
<1> QED BY <1>2, <1>4

\* The instance stage found nothing: the instance is as the class asks.
LEMMA InstStage ==
  ASSUME Shape, FreshInv, ~outside, Running, pass.stage = "inst", NextReads(pass) = {}, "" \in Reasons(pass)
  PROVE  IsInstanceDrifted(pass.want, oci["inst"]) = ""
<1>1. pass.got["inst"] # None
  BY VnicKeys DEF NextReads
<1>2. pass.got["inst"] = oci["inst"]
  BY <1>1, VnicKeys DEF FreshInv, Agrees
<1> QED BY <1>2 DEF Reasons

\* A VNIC read and found to be the primary is the primary.
LEMMA ReadVnic ==
  ASSUME Shape, LaunchInv, CacheInv, FreshInv, ~outside, Running, NEW v \in Vnics, pass.got[v] # None,
         pass.got["vatt"] # None, v \in DOMAIN pass.got["vatt"]
  PROVE  /\ pass.got[v] = oci[v] /\ v \in DOMAIN oci["vatt"] /\ pass.got["vatt"][v] = oci[v].subnet
         /\ oci[v].primary <=> v = Primary
<1>1. v \in Keys /\ v \notin {"inst", "vatt", "batt", "boot"} /\ "vatt" \in Keys
  BY VnicKeys
<1>2. pass.got[v] = oci[v]
  BY <1>1 DEF FreshInv, Agrees
<1>3. v \in DOMAIN oci["vatt"] /\ pass.got["vatt"][v] = oci["vatt"][v]
  BY <1>1 DEF FreshInv, Agrees
<1>4. /\ oci["vatt"] = [x \in DOMAIN oci["vatt"] |-> oci[x].subnet]
      /\ oci[Primary] = BuildVnic(oci[Primary], TRUE)
      /\ \A x \in DOMAIN oci["vatt"] \ {Primary} : oci[x] = BuildVnic(oci[x], FALSE)
  BY DEF LaunchInv, AttachedInv
<1>5. oci["vatt"][v] = oci[v].subnet
  BY <1>3, <1>4
<1>6. oci[Primary].primary
  <2>1. \A y : BuildVnic(oci[Primary], y).primary = y
    BY DEF BuildVnic
  <2> QED BY <1>4, <2>1
<1>7. v # Primary => ~oci[v].primary
  <2>1. \A y : BuildVnic(oci[v], y).primary = y
    BY DEF BuildVnic
  <2> QED BY <1>3, <1>4, <2>1
<1> QED BY <1>2, <1>3, <1>5, <1>6, <1>7

\* The network stage found nothing: the primary VNIC is on the subnet and in the groups.
LEMMA NetStage ==
  ASSUME Shape, LaunchInv, CacheInv, FreshInv, GotInv, ~outside, Running, pass.stage = "net", "" \in Reasons(pass)
  PROVE  Fits(pass.want.net.primary, oci[Primary])
<1>1. PrimaryDrifted(pass) = ""
  BY DEF Reasons
<1>2. /\ FoundPrimary(pass) # {}
      /\ \A v \in FoundPrimary(pass) : isVnicNsgIdsMatch(pass.want.net.primary, pass.got[v])
  BY <1>1, PrimaryReasons
<1>3. PICK v \in Vnics : v \in FoundPrimary(pass) /\ pass.got[v] # None /\ pass.got[v].primary
  BY <1>2 DEF FoundPrimary
<1>4. /\ pass.got["vatt"] # None /\ v \in DOMAIN pass.got["vatt"]
      /\ pass.got["vatt"][v] = pass.want.net.primary.subnet
  BY <1>3 DEF GotInv
<1>5. /\ pass.got[v] = oci[v] /\ pass.got["vatt"][v] = oci[v].subnet
      /\ oci[v].primary <=> v = Primary
  BY <1>3, <1>4, ReadVnic
<1>6. v = Primary
  BY <1>3, <1>5
<1> QED BY <1>2, <1>3, <1>4, <1>5, <1>6 DEF Fits

\* The first n naturals are n.
LEMMA IntervalSize ==
  ASSUME NEW n \in Nat
  PROVE  IsFiniteSet(1..n) /\ Cardinality(1..n) = n
BY FS_Interval

\* An initialized node has all its VNICs.
LEMMA AllAttached ==
  ASSUME Shape, LaunchInv, Running, claim.init
  PROVE  LET n == Len(claim.fields.secondary)
             found == DOMAIN oci["vatt"] \ {Primary}
         IN  n \in Nat /\ IsFiniteSet(found) /\ Cardinality(found) = n
<1> DEFINE n == Len(claim.fields.secondary)
<1>1. claim # None
  BY DEF Shape, ClaimShape, Running, Empty, Keys
<1>2. n \in 0..Len(Secondaries) /\ Len(Secondaries) \in Nat
  BY <1>1, KeysAssumption DEF LaunchInv, NpnInv
<1>3. DOMAIN oci["vatt"] = UpTo(n)
  BY DEF LaunchInv, AttachedInv
<1>4. IsFiniteSet(UpTo(n)) /\ Cardinality(UpTo(n)) = n + 1 /\ Primary \in UpTo(n)
  BY <1>2, UpToSize
<1> HIDE DEF n
<1>5. IsFiniteSet(UpTo(n) \ {Primary}) /\ Cardinality(UpTo(n) \ {Primary}) = (n + 1) - 1
  BY <1>4, FS_RemoveElement
<1> QED BY <1>2, <1>3, <1>5 DEF n

\* What the class asks a clean pass for.
LEMMA WantSecondary ==
  ASSUME Shape, ClassInv, WantInv, pass.clean, pass.stage # "idle"
  PROVE  LET desired == pass.want.net.secondary IN
           /\ Len(desired) = Len(class.spec.secondary) /\ DOMAIN desired = 1..Len(desired)
           /\ Len(desired) \in Nat
<1>1. pass.want.net = class.net /\ class.ready
  BY DEF WantInv
<1>2. Len(class.spec.secondary) \in Nat
  BY SpecsAssumption DEF Shape, ClassShape
<1> QED BY <1>1, <1>2 DEF ClassInv

\* The stage of the secondary VNICs has read all of them.
LEMMA SecRead ==
  ASSUME Shape, LaunchInv, CacheInv, FreshInv, ~outside, Running, pass.stage = "sec", NextReads(pass) = {}
  PROVE  LET found == {v \in DOMAIN pass.got["vatt"] : ~pass.got[v].primary} IN
           /\ found = DOMAIN pass.got["vatt"] \ {Primary}
           /\ found \subseteq DOMAIN oci["vatt"] \ {Primary}
           /\ \A v \in found : pass.got[v] = oci[v]
<1>1. pass.got["vatt"] # None /\ DOMAIN pass.got["vatt"] \subseteq Vnics
  BY DEF CacheInv, VattInv, VnicsOf
<1>2. FirstOf({v \in DOMAIN pass.got["vatt"] : pass.got[v] = None}) = {}
  BY DEF NextReads
<1>3. {v \in DOMAIN pass.got["vatt"] : pass.got[v] = None} \cap Vnics = {}
  BY <1>2, FirstOfEmpty
<1>4. \A v \in DOMAIN pass.got["vatt"] : v \in Vnics /\ pass.got[v] # None
  BY <1>1, <1>3
<1>5. \A v \in DOMAIN pass.got["vatt"] :
        pass.got[v] = oci[v] /\ v \in DOMAIN oci["vatt"] /\ (oci[v].primary <=> v = Primary)
  BY <1>1, <1>4, ReadVnic
<1> QED BY <1>5

\* The stage of the secondary VNICs found nothing: each desired one is there.
LEMMA SecStage ==
  ASSUME Shape, LaunchInv, CacheInv, FreshInv, ClassInv, WantInv, pass.clean, ~outside, Running,
         pass.stage = "sec", NextReads(pass) = {}, "" \in Reasons(pass), claim.init,
         Len(claim.fields.secondary) = Len(class.spec.secondary)
  PROVE  FitAll(oci, pass.want.net.secondary)
<1> DEFINE desired == pass.want.net.secondary
           found == {v \in DOMAIN pass.got["vatt"] : ~pass.got[v].primary}
           there == DOMAIN oci["vatt"] \ {Primary}
           n == Len(desired)
<1>1. Len(desired) = Len(class.spec.secondary) /\ DOMAIN desired = 1..n /\ n \in Nat
  BY WantSecondary
<1>2. IsFiniteSet(there) /\ Cardinality(there) = n
  BY <1>1, AllAttached
<1>3. found \subseteq there /\ \A v \in found : pass.got[v] = oci[v]
  BY SecRead
<1>4. "" \in SecondaryReasons(pass)
  BY DEF Reasons
<1>5. Cardinality(found) = n /\ Taken(desired, pass.got, found, n) # {}
  BY <1>4 DEF SecondaryReasons, MatchOutcomes
<1>6. PICK f \in [1..n -> found] : IsInjective(f) /\ \A i \in 1..n : Fits(desired[i], pass.got[f[i]])
  BY <1>5 DEF Taken
<1> HIDE DEF found, there, n, desired
<1>7. found = there
  BY <1>2, <1>3, <1>5, FS_Subset
<1>8. f \in Injection(1..n, there)
  BY <1>6, <1>7 DEF Injection
<1>9. Cardinality(1..n) = n
  BY <1>1, IntervalSize
<1>10. f \in Surjection(1..n, there)
  BY <1>2, <1>8, <1>9, FS_Injection
<1>11. Range(f) = there
  BY <1>10 DEF Surjection, Range
<1>12. \A i \in 1..n : Fits(desired[i], oci[f[i]])
  BY <1>3, <1>6
<1>13. f \in [DOMAIN desired -> there] /\ \A i \in DOMAIN desired : Fits(desired[i], oci[f[i]])
  BY <1>1, <1>6, <1>7, <1>12
<1> QED BY <1>6, <1>11, <1>13 DEF FitAll, there, desired

\* A class without secondary VNICs has them all.
LEMMA NoSecondary ==
  ASSUME Shape, LaunchInv, ClassInv, WantInv, pass.clean, pass.stage # "idle", Running, claim.init,
         Len(claim.fields.secondary) = Len(class.spec.secondary), pass.want.net.secondary = <<>>
  PROVE  FitAll(oci, pass.want.net.secondary)
<1> DEFINE there == DOMAIN oci["vatt"] \ {Primary}
<1>1. Len(class.spec.secondary) = 0
  BY WantSecondary
<1>2. IsFiniteSet(there) /\ Cardinality(there) = 0
  BY <1>1, AllAttached
<1>3. there = {}
  BY <1>2, FS_EmptySet
<1>4. DOMAIN pass.want.net.secondary = {}
  OBVIOUS
<1>5. \E f \in [{} -> {}] : Range(f) = {} /\ IsInjective(f)
  <2> DEFINE f == [x \in {} |-> x]
  <2>1. f \in [{} -> {}] /\ Range(f) = {} /\ IsInjective(f)
    BY DEF Range, IsInjective
  <2> HIDE DEF f
  <2> QED BY <2>1
<1> HIDE DEF there
<1>6. PICK f \in [{} -> {}] : Range(f) = {} /\ IsInjective(f)
  BY <1>5
<1> QED BY <1>3, <1>4, <1>6 DEF FitAll, there

\* Every step keeps true what the stages a clean pass is through have established.
LEMMA StageInvKept ==
  ASSUME Shape, LaunchInv, CacheInv, FreshInv, GotInv, ClassInv, WantInv, StageInv, [Next]_vars
  PROVE  StageInv'
<1> SUFFICES ASSUME pass'.clean, ~outside', Running' PROVE StageInv'
  BY DEF StageInv
<1>0. PassShape
  BY DEF Shape
<1>1. UNCHANGED <<class, claim, oci, outside>>
  BY Undisturbed DEF worldVars
<1>2. ~outside /\ Running
  BY <1>1 DEF Running
<1>3. ASSUME NEW stage, stage = pass'.stage, pass'.want = pass.want,
             stage \in {"net", "sec", "boot"} => IsInstanceDrifted(pass.want, oci["inst"]) = "",
             stage \in {"sec", "boot"} => Fits(pass.want.net.primary, oci[Primary]),
             stage = "boot" /\ claim.init /\ Len(claim.fields.secondary) = Len(class.spec.secondary)
               => FitAll(oci, pass.want.net.secondary)
      PROVE  StageInv'
  BY <1>1, <1>3 DEF StageInv
<1>4. CASE Quiet
  <2>1. pass' = pass
    BY <1>0, <1>4, QuietPass
  <2> QED BY <1>1, <1>2, <2>1 DEF StageInv
<1>5. CASE pass' = NoPass
  BY <1>5, NoPassFields
<1>6. CASE pass'.stage = "inst"
  BY <1>6 DEF StageInv
<1>7. CASE pass'.stage = pass.stage /\ pass'.want = pass.want /\ pass'.clean = pass.clean
  BY <1>2, <1>3, <1>7 DEF StageInv
<1>8. CASE Judge
  <2>1. CASE pass' = Confirm(pass)
    <3>1. /\ pass'.want = pass.want /\ pass'.clean = pass.clean
          /\ pass'.stage = IF pass.stage = "sec" THEN "net" ELSE pass.stage
      BY <1>0, <2>1 DEF PassShape, Confirm
    <3> QED BY <1>2, <1>3, <3>1 DEF StageInv
  <2>2. CASE "" \in Reasons(pass) /\ pass.stage # "boot" /\ pass' = Advance(pass)
    <3>0. pass.stage # "idle" /\ NextReads(pass) = {} /\ pass.stage \in {"inst", "net", "sec"}
      BY <1>0, <1>8, <2>2, JudgeKinds DEF PassShape, Stages
    <3>1. /\ pass'.want = pass.want /\ pass'.clean = pass.clean
          /\ pass'.stage = IF pass.stage = "inst" THEN "net"
                           ELSE IF pass.stage = "net" /\ ~pass.want.skip /\ pass.want.net.secondary # <<>>
                           THEN "sec" ELSE "boot"
      BY <1>0, <2>2 DEF PassShape, Advance
    <3>2. CASE pass.stage = "inst"
      BY <1>2, <1>3, <2>2, <3>0, <3>1, <3>2, InstStage
    <3>3. CASE pass.stage = "net"
      <4>1. Fits(pass.want.net.primary, oci[Primary])
        BY <1>2, <2>2, <3>3, NetStage
      <4>2. IsInstanceDrifted(pass.want, oci["inst"]) = ""
        BY <1>2, <3>1, <3>3 DEF StageInv
      <4>3. ASSUME pass'.stage = "boot", claim.init, Len(claim.fields.secondary) = Len(class.spec.secondary)
            PROVE  FitAll(oci, pass.want.net.secondary)
        <5>1. ~pass.want.skip
          BY <3>0, <3>1, <4>3 DEF WantInv
        <5>2. pass.want.net.secondary = <<>>
          BY <3>1, <3>3, <4>3, <5>1
        <5> QED BY <1>2, <3>0, <3>1, <4>3, <5>2, NoSecondary
      <4> QED BY <1>3, <3>1, <4>1, <4>2, <4>3
    <3>4. CASE pass.stage = "sec"
      <4>1. IsInstanceDrifted(pass.want, oci["inst"]) = "" /\ Fits(pass.want.net.primary, oci[Primary])
        BY <1>2, <3>1, <3>4 DEF StageInv
      <4>2. ASSUME claim.init, Len(claim.fields.secondary) = Len(class.spec.secondary)
            PROVE  FitAll(oci, pass.want.net.secondary)
        BY <1>2, <2>2, <3>0, <3>1, <3>4, <4>2, SecStage
      <4> QED BY <1>3, <3>1, <4>1, <4>2
    <3> QED BY <3>0, <3>2, <3>3, <3>4
  <2>3. pass' = NoPass \/ pass' = Confirm(pass) \/ ("" \in Reasons(pass) /\ pass.stage # "boot" /\ pass' = Advance(pass))
    BY <1>8, JudgeKinds DEF Finish
  <2> QED BY <1>5, <2>1, <2>2, <2>3
<1> QED BY <1>4, <1>5, <1>6, <1>7, <1>8, PassSteps

-----------------------------------------------------------------------------
(* A pass that finds no drift *)

\* A hash of slices as sets tells every element that occurs once.
LEMMA NoTwins ==
  ASSUME NEW f, \A i, j \in DOMAIN f.secondary : f.secondary[i] = f.secondary[j] => i = j
  PROVE  KarpenterHash(f).secondary = Range(f.secondary)
<1> DEFINE At(e) == {i \in DOMAIN f.secondary : f.secondary[i] = e}
<1>1. \A e \in Range(f.secondary) : \E x : At(e) = {x}
  BY DEF Range
<1>2. \A e : (\E x : At(e) = {x}) => Cardinality(At(e)) = 1
  BY FS_Singleton
<1>3. \A e \in Range(f.secondary) : Cardinality(At(e)) % 2 = 1
  <2>1. 1 % 2 = 1
    OBVIOUS
  <2> HIDE DEF At
  <2> QED BY <1>1, <1>2, <2>1
<1>4. KarpenterHash(f).secondary = {e \in Range(f.secondary) : Cardinality(At(e)) % 2 = 1}
  BY DEF KarpenterHash
<1> HIDE DEF At
<1> QED BY <1>3, <1>4

\* Equal hashes: the static fields of the launch hold.
LEMMA EqualHashes ==
  ASSUME KarpenterHash(claim.fields) = KarpenterHash(StaticFields(class.spec))
  PROVE  StaticFieldsHold
<1> DEFINE old == claim.fields
           new == StaticFields(class.spec)
           Twins(f) == \E i, j \in DOMAIN f.secondary : i # j /\ f.secondary[i] = f.secondary[j]
<1>1. \A f : KarpenterHash(f).plain = f.plain /\ KarpenterHash(f).comp = f.comp
  BY DEF KarpenterHash
<1>2. old.plain = new.plain /\ old.comp = new.comp
  <2> HIDE DEF old, new
  <2>1. KarpenterHash(old) = KarpenterHash(new)
    BY DEF old, new
  <2> QED BY <1>1, <2>1
<1>3. ~Twins(old) => KarpenterHash(old).secondary = Range(old.secondary)
  BY NoTwins
<1>4. ~Twins(new) => KarpenterHash(new).secondary = Range(new.secondary)
  BY NoTwins
<1>5. Range(old.secondary) = Range(new.secondary) \/ Twins(old) \/ Twins(new)
  BY <1>3, <1>4
<1> QED BY <1>2, <1>5, Zenon DEF StaticFieldsHold

\* The comparison of the boot volume's sizes as an order.
LEMMA NotLess ==
  ASSUME NEW x \in Nat, NEW y \in Nat, ~(y < x)
  PROVE  y >= x
OBVIOUS

\* The parts of a running instance.
LEMMA RunningParts ==
  ASSUME LaunchInv, Running
  PROVE  /\ oci["batt"].enc = oci["boot"].enc /\ oci["boot"].size \in Nat
         /\ oci["inst"].res = claim.res
<1>1. /\ oci["batt"] = [attached |-> oci["batt"].attached, enc |-> oci["boot"].enc]
      /\ oci["boot"].size \in Nat
      /\ LET i == oci["inst"] IN
         i = [state |-> "running", comp |-> i.comp, shape |-> i.shape, size |-> i.size,
              image |-> i.image, res |-> claim.res, cpg |-> i.cpg, launch |-> i.launch]
  BY Zenon DEF LaunchInv, AttachedInv
<1>2. ASSUME NEW a, NEW e, oci["batt"] = [attached |-> a, enc |-> e] PROVE oci["batt"].enc = e
  BY <1>2
<1> QED BY <1>1, <1>2

\* The boot stage found nothing: the boot volume is as the class asks.
LEMMA BootStage ==
  ASSUME Shape, LaunchInv, FreshInv, GotInv, ~outside, Running, pass.stage = "boot",
         NextReads(pass) = {}, "" \in Reasons(pass)
  PROVE  LET cfg == pass.want.spec.boot
             b   == oci["boot"]
         IN  /\ cfg.enc \in {None, b.enc} /\ cfg.kms \in {None, b.kms} /\ cfg.vpus \in {None, b.vpus}
             /\ ~(cfg.size # None /\ b.size < cfg.size)
<1>1. /\ pass.got["batt"] # None
      /\ AttachmentDrifted(pass.want, pass.got["batt"]) # "" \/ pass.got["boot"] # None
  BY Zenon DEF NextReads
<1>2. pass.got["boot"] # None /\ BootVolumeDrifted(pass.want, pass.got["boot"]) = ""
  BY <1>1 DEF Reasons
<1>3. AttachmentDrifted(pass.want, pass.got["batt"]) = ""
  BY <1>2 DEF GotInv
<1>4. pass.got["boot"] = oci["boot"] /\ pass.got["batt"].enc = oci["batt"].enc
  BY <1>1, <1>2, VnicKeys DEF FreshInv, Agrees
<1>5. oci["batt"].enc = oci["boot"].enc
  BY RunningParts
<1>6. pass.want.spec.boot.enc = None \/ pass.want.spec.boot.enc = pass.got["batt"].enc
  BY <1>3, AttachmentReasons
<1>7. /\ ~(pass.want.spec.boot.size # None /\ pass.got["boot"].size < pass.want.spec.boot.size)
      /\ pass.want.spec.boot.kms = None \/ pass.got["boot"].kms = pass.want.spec.boot.kms
      /\ pass.want.spec.boot.vpus = None \/ pass.got["boot"].vpus = pass.want.spec.boot.vpus
  BY <1>2, BootReasons
<1> QED BY <1>4, <1>5, <1>6, <1>7

\* What the proofs about verdicts rest on.
DriftInv ==
  /\ Shape /\ LaunchInv /\ CacheInv
  /\ ClassInv /\ FreshInv /\ GotInv /\ WantInv /\ StageInv

\* A clean pass that ends without a reason has found everything the class asks for.
LEMMA RequestNow ==
  ASSUME DriftInv, pass.clean, ~pass.skipped, ~outside, Running, pass.stage = "boot",
         NextReads(pass) = {}, "" \in Reasons(pass)
  PROVE  RequestHolds
<1> USE DEF DriftInv
<1> DEFINE s == class.spec
           i == oci["inst"]
           want == pass.want
<1>1. /\ class.ready /\ want.spec = s /\ want.net = class.net /\ want.cpgs = class.cpgs
      /\ claim.type \in ListInstanceTypes(s)
      /\ claim.res # None => claim.res \in s.res
      /\ claim.hash = class.hash
      /\ NowImages = {want.image}
  BY DEF WantInv
<1>2. claim # None
  BY DEF Shape, ClaimShape, Running, Empty, Keys
<1>3. StaticFieldsHold
  <2>1. claim.hash = KarpenterHash(claim.fields)
    BY <1>2 DEF LaunchInv, NpnInv
  <2>2. class.hash = KarpenterHash(StaticFields(class.spec))
    BY <1>1 DEF ClassInv
  <2> QED BY <1>1, <2>1, <2>2, EqualHashes
<1>4. /\ i.comp = GetInstanceCompartment(want.spec)
      /\ i.image = want.image
      /\ ~ClusterPlacementGroupMismatch(want, i)
      /\ ~isLaunchOptionMismatch(want.spec.launch, i.launch)
  <2>1. IsInstanceDrifted(want, i) = ""
    BY DEF StageInv
  <2> QED BY <2>1, InstanceReasons
<1>5. i.res = claim.res
  BY RunningParts
<1>6. IF claim.res = None THEN i.res = None ELSE i.res \in s.res
  BY <1>1, <1>5
<1>7. IF class.cpgs = {} THEN i.cpg = None ELSE i.cpg \in class.cpgs
  BY <1>1, <1>4 DEF ClusterPlacementGroupMismatch
<1>8. \A x \in DOMAIN s.launch \ {"size"} : s.launch[x] \in {None, i.launch[x]}
  BY <1>1, <1>4 DEF isLaunchOptionMismatch
<1>9. \A x \in DOMAIN s.boot \ {"size"} : s.boot[x] \in {None, oci["boot"][x]}
  <2>1. DOMAIN s.boot = {"enc", "size", "kms", "vpus"}
    BY SpecsAssumption DEF Shape, ClassShape
  <2>2. /\ s.boot.enc \in {None, oci["boot"].enc} /\ s.boot.kms \in {None, oci["boot"].kms}
        /\ s.boot.vpus \in {None, oci["boot"].vpus}
    BY <1>1, BootStage
  <2> QED BY <2>1, <2>2
<1>10. s.boot.size # None => oci["boot"].size >= s.boot.size
  <2>1. ~(s.boot.size # None /\ oci["boot"].size < s.boot.size)
    BY <1>1, BootStage
  <2>2. s.boot.size \in {None} \cup Nat
    BY SpecsAssumption DEF Shape, ClassShape
  <2>3. oci["boot"].size \in Nat
    BY RunningParts
  <2> QED BY <2>1, <2>2, <2>3, NotLess, Zenon
<1>11. Fits(class.net.primary, oci[Primary])
  BY <1>1 DEF StageInv
<1>12. claim.init /\ Len(claim.fields.secondary) = Len(s.secondary) => SecondariesFit(class.net.secondary, Fits)
  <2>1. claim.init /\ Len(claim.fields.secondary) = Len(s.secondary) => FitAll(oci, class.net.secondary)
    BY <1>1 DEF StageInv
  <2> QED BY <2>1 DEF SecondariesFit, FitAll
<1>13. {i.image} = ImageFor(s, claim.type, LaunchLook(s, {}))
  BY <1>1, <1>4 DEF NowImages
<1>14. i.comp = GetInstanceCompartment(s)
  BY <1>1, <1>4
<1> QED
  BY <1>1, <1>3, <1>6, <1>7, <1>8, <1>9, <1>10, <1>11, <1>12, <1>13, <1>14, Zenon DEF RequestHolds

\* Whether the request holds depends on the class, the claim, OCI and the images.
LEMMA RequestSame ==
  ASSUME UNCHANGED <<class, claim, oci, catalog, imgs>>
  PROVE  RequestHolds' <=> RequestHolds
BY DEF RequestHolds, StaticFieldsHold, ListInstanceTypes, ImageFor, LaunchLook, SecondariesFit

\* The steps that give a verdict.
LEMMA VerdictKinds ==
  ASSUME [Next]_vars
  PROVE  \/ UNCHANGED vars
         \/ verdict' = NoVerdict
         \/ (\E f : BeginDrift(f)) /\ pass' = NoPass
         \/ ReadFails /\ Finish("unknown", pass.clean, pass.skipped)
         \/ Judge /\ \E reason \in Reasons(pass) : reason # "" /\ pass.real /\ Finish(reason, pass.clean, pass.skipped)
         \/ Judge /\ "" \in Reasons(pass) /\ pass.stage = "boot" /\ Finish("", pass.clean, pass.skipped)
<1>1. World => verdict' = NoVerdict
  BY WorldFrame
<1>2. Users => verdict' = NoVerdict
  BY UsersFrame
<1>3. ReadHit \/ ReadAnswered \/ ReadStored => verdict' = NoVerdict
  BY Zenon DEF ReadHit, ReadAnswered, ReadStored
<1>4. ReadFails => Finish("unknown", pass.clean, pass.skipped)
  BY Zenon DEF ReadFails
<1>5. ASSUME NEW f, BeginDrift(f) PROVE pass' = NoPass \/ verdict' = NoVerdict
  BY <1>5, Zenon DEF BeginDrift, Finish
<1>6. ASSUME NEW t, NEW f, NEW slow, Launch(t, f, slow) PROVE verdict' = NoVerdict
  BY <1>6, LaunchFrame
<1> QED BY <1>1, <1>2, <1>3, <1>4, <1>5, <1>6, JudgeKinds, StepKinds

\* No verdict of "" comes from the first part of IsDrifted.
LEMMA EarlyReason ==
  ASSUME NEW f, BeginDrift(f), pass' = NoPass
  PROVE  \E early, skipped : early # "" /\ Finish(early, TRUE, skipped)
<1>1. \/ \E early, skipped : early # "" /\ Finish(early, TRUE, skipped)
      \/ \E want, skipped : pass' = [NoPass EXCEPT !.stage = "inst", !.clean = TRUE,
                                                   !.skipped = skipped, !.want = want]
  BY Zenon DEF BeginDrift
<1>2. ASSUME NEW want, NEW skipped
      PROVE  [NoPass EXCEPT !.stage = "inst", !.clean = TRUE, !.skipped = skipped, !.want = want].stage = "inst"
  BY DEF NoPass
<1> QED BY <1>1, <1>2, NoPassFields

\* What a pass that returns leaves in the verdict.
LEMMA VerdictParts ==
  ASSUME NEW reason, NEW skipped
  PROVE  /\ [reason |-> reason, skipped |-> skipped].reason = reason
         /\ [reason |-> reason, skipped |-> skipped].skipped = skipped
         /\ NoVerdict.reason = "none"
<1>1. \A y : [reason |-> "none", skipped |-> y].reason = "none"
  OBVIOUS
<1>2. NoVerdict.reason = "none"
  BY <1>1 DEF NoVerdict
<1> QED BY <1>2

\* The inductive invariant holds initially.
LEMMA DriftInvInit == Init => DriftInv
<1> SUFFICES ASSUME Init PROVE DriftInv
  OBVIOUS
<1>1. Shape /\ LaunchInv /\ CacheInv
  BY ShapeInit, CachesInit
<1>2. pass = NoPass /\ cache = Empty /\ other = None /\ oci = Empty
  BY Zenon DEF Init
<1>3. PICK s \in InitialSpecs : Resolves(s) /\ class = ReadyClass(s)
  BY Zenon DEF Init
<1>4. ClassInv
  <2>1. s \in Specs
    BY DriftAssumption
  <2> QED BY <1>3, <2>1, ReadyClassInv DEF ClassInv
<1>5. ~Running
  BY <1>2, VnicKeys DEF Running, Empty
<1> QED BY <1>1, <1>2, <1>4, <1>5, NoPassFields DEF DriftInv, FreshInv, GotInv, WantInv, StageInv

\* Every step keeps the inductive invariant.
LEMMA DriftInvKept == DriftInv /\ [Next]_vars => DriftInv'
<1> SUFFICES ASSUME DriftInv, [Next]_vars PROVE DriftInv'
  OBVIOUS
<1>1. Shape /\ LaunchInv /\ CacheInv /\ ClassInv /\ FreshInv /\ GotInv /\ WantInv /\ StageInv
  BY DEF DriftInv
<1>2. Shape' /\ CacheInv'
  BY <1>1, ShapeKept, CacheInvKept
<1>3. LaunchInv'
  BY <1>1, <1>2, NpnInvKept, AttachedInvKept DEF LaunchInv, CacheInv, VattInv, VnicsOf
<1>4. ClassInv' /\ FreshInv' /\ GotInv' /\ WantInv' /\ StageInv'
  BY <1>1, ClassInvKept, FreshInvKept, GotInvKept, WantInvKept, StageInvKept
<1> QED BY <1>2, <1>3, <1>4 DEF DriftInv

\* When IsDrifted finds no drift, everything the class asks for is so, although the
\* pass may have read nothing but the caches.
THEOREM NoDriftIsSound == Spec => []NoDriftMeansRequestHolds
<1>1. Init => NoDriftMeansRequestHolds
  <2>1. Init => verdict = NoVerdict
    BY Zenon DEF Init
  <2> QED BY <2>1, VerdictParts DEF NoDriftMeansRequestHolds
<1>2. ASSUME DriftInv, NoDriftMeansRequestHolds, [Next]_vars PROVE NoDriftMeansRequestHolds'
  <2> SUFFICES ASSUME verdict'.reason = "", ~verdict'.skipped, ~outside', Running' PROVE RequestHolds'
    BY DEF NoDriftMeansRequestHolds
  <2>1. CASE UNCHANGED vars
    <3>1. UNCHANGED <<class, claim, oci, catalog, imgs, verdict, outside>>
      BY <2>1, Zenon DEF vars, worldVars
    <3>2. RequestHolds
      BY <1>2, <3>1 DEF NoDriftMeansRequestHolds, Running
    <3> QED BY <3>1, <3>2, RequestSame
  <2>2. verdict' # NoVerdict
    BY VerdictParts
  <2>3. ASSUME NEW reason, NEW clean, NEW skipped, Finish(reason, clean, skipped)
        PROVE  reason = "" /\ clean /\ ~skipped
    <3>1. clean /\ verdict' = [reason |-> reason, skipped |-> skipped]
      BY <2>2, <2>3 DEF Finish
    <3> QED BY <3>1, VerdictParts
  <2>4. ~\E f : BeginDrift(f) /\ pass' = NoPass
    BY <2>3, EarlyReason
  <2>5. CASE Judge /\ "" \in Reasons(pass) /\ pass.stage = "boot" /\ Finish("", pass.clean, pass.skipped)
    <3>1. UNCHANGED <<class, claim, oci, catalog, imgs, outside>>
      BY <2>5, PassFrame DEF worldVars
    <3>2. RequestHolds
      BY <1>2, <2>3, <2>5, <3>1, JudgeKinds, RequestNow DEF Running
    <3> QED BY <3>1, <3>2, RequestSame
  <2>6. ~(ReadFails /\ Finish("unknown", pass.clean, pass.skipped))
    <3>1. "unknown" # ""
      OBVIOUS
    <3>2. ASSUME NEW r, r # "", Finish(r, pass.clean, pass.skipped) PROVE FALSE
      BY <2>3, <3>2
    <3> QED BY <3>1, <3>2, Zenon
  <2>7. ~\E reason \in Reasons(pass) : reason # "" /\ pass.real /\ Finish(reason, pass.clean, pass.skipped)
    BY <2>3
  <2> QED BY <1>2, <2>1, <2>2, <2>4, <2>5, <2>6, <2>7, VerdictKinds, Zenon
<1> QED BY <1>1, <1>2, DriftInvInit, DriftInvKept, PTL DEF Spec

-----------------------------------------------------------------------------
(* A pass that reports drift *)

\* What a clean pass reads to confirm a difference is what OCI has.
LEMMA RealInvKept ==
  ASSUME Shape, CacheInv, RealInv, [Next]_vars
  PROVE  RealInv'
<1> SUFFICES ASSUME pass'.clean PROVE RealInv'
  BY DEF RealInv
<1>0. PassShape /\ OnKeys(pass.got)
  BY DEF Shape, PassShape
<1>1. oci' = oci
  BY Undisturbed
<1>2. ASSUME pass'.real => \A k \in Keys : pass'.got[k] # None => pass'.got[k] = oci[k],
             pass'.load # None => pass'.load.val = oci[pass'.load.key]
      PROVE  RealInv'
  BY <1>1, <1>2 DEF RealInv
<1>3. CASE Quiet
  <2>1. pass' = pass
    BY <1>0, <1>3, QuietPass
  <2> QED BY <1>2, <2>1 DEF RealInv
<1>4. CASE pass' = NoPass
  BY <1>4, NoPassFields
<1>5. CASE ~pass'.real /\ pass'.load = None
  BY <1>5 DEF RealInv
<1>6. CASE ReadHit
  <2>1. PICK k : pass' = [pass EXCEPT !.got[k] = cache[k]]
    BY <1>6, Zenon DEF ReadHit
  <2>2. ~pass.real /\ pass.load = None
    BY <1>6, Zenon DEF ReadHit
  <2>3. pass'.real = pass.real /\ pass'.load = pass.load
    BY <1>0, <2>1 DEF PassShape
  <2> QED BY <1>5, <2>2, <2>3
<1>7. CASE ReadAnswered
  <2>1. PICK k : pass' = [pass EXCEPT !.load = [key |-> k, val |-> oci[k]]]
    BY <1>7, Zenon DEF ReadAnswered
  <2>2. /\ pass'.real = pass.real /\ pass'.clean = pass.clean /\ pass'.got = pass.got
        /\ pass'.load = [key |-> k, val |-> oci[k]]
    BY <1>0, <2>1 DEF PassShape
  <2> QED BY <1>2, <2>2 DEF RealInv
<1>8. CASE ReadStored
  <2>1. pass' = [pass EXCEPT !.load = None, !.got[pass.load.key] = pass.load.val] /\ pass.load # None
    BY <1>8 DEF ReadStored
  <2>2. /\ pass'.real = pass.real /\ pass'.clean = pass.clean /\ pass'.load = None
        /\ pass'.got = [pass.got EXCEPT ![pass.load.key] = pass.load.val]
    BY <1>0, <2>1 DEF PassShape
  <2>3. pass.load.val = oci[pass.load.key]
    BY <2>1, <2>2 DEF RealInv
  <2>4. \A k \in Keys : pass'.got[k] = IF k = pass.load.key THEN oci[k] ELSE pass.got[k]
    BY <1>0, <2>2, <2>3 DEF OnKeys
  <2> QED BY <1>2, <2>2, <2>4 DEF RealInv
<1>9. CASE Judge /\ pass' = Confirm(pass)
  <2>1. pass'.got = Empty /\ pass'.load = pass.load
    BY <1>0, <1>9 DEF PassShape, Confirm
  <2>2. pass.load = None
    BY <1>9, JudgeKinds
  <2> QED BY <1>2, <2>1, <2>2 DEF Empty
<1>10. CASE Judge /\ pass' = Advance(pass)
  <2>1. /\ pass'.load = pass.load /\ pass'.clean = pass.clean
        /\ pass'.real => pass.real
        /\ \A k \in Keys : pass'.got[k] \in {None, pass.got[k]}
    BY <1>0, <1>10 DEF PassShape, Advance
  <2>2. pass.load = None
    BY <1>10, JudgeKinds
  <2> QED BY <1>2, <2>1, <2>2 DEF RealInv
<1> QED BY <1>3, <1>4, <1>5, <1>6, <1>7, <1>8, <1>9, <1>10, PassSteps

\* The secondary VNICs in o are, one for one, those a launch would make.
SameAll(o, desired) ==
  LET found == DOMAIN o["vatt"] \ {Primary} IN
    \E f \in [DOMAIN desired -> found] :
      /\ Range(f) = found /\ IsInjective(f)
      /\ \A i \in DOMAIN desired : o[f[i]] = BuildVnic(desired[i], FALSE)

\* The instance is the one a launch would make now.
Equal ==
  /\ Running /\ oci["batt"].attached
  /\ claim.type \in ListInstanceTypes(class.spec)
  /\ claim.fields = StaticFields(class.spec)
  /\ \E i \in NowImages : \E r, g :
       /\ (class.spec.res = {} /\ r = None) \/ r \in class.spec.res
       /\ (class.cpgs = {} /\ g = None) \/ g \in class.cpgs
       /\ oci["inst"] = BuildInstance(class.spec, TypeInfo[claim.type], i, r, g)
  /\ oci["boot"] = BuildBootVolume(class.spec)
  /\ oci[Primary] = BuildVnic(class.net.primary, TRUE)
  /\ claim.init => SameAll(oci, class.net.secondary)
  /\ ~AmbiguousSecondaries

\* A replacement differs, or one of the excuses holds, or the instance equals the
\* request in everything compared.
LEMMA EqualOrExcused ==
  ASSUME Shape
  PROVE  ReplacementDiffers \/ StaleNetworkStatus \/ StillProvisioning \/ AmbiguousSecondaries \/ Equal
<1> SUFFICES ASSUME ~ReplacementDiffers, ~StaleNetworkStatus, ~StillProvisioning, ~AmbiguousSecondaries
             PROVE  Equal
  OBVIOUS
<1> DEFINE s == class.spec
           Same(r, vnic) == vnic = BuildVnic(r, FALSE)
           SomeOf(S) == IF S = {} THEN {None} ELSE S
<1>1. /\ Running
      /\ claim.type \in ListInstanceTypes(s)
      /\ claim.fields = StaticFields(s)
      /\ \E i \in ImageFor(s, claim.type, LaunchLook(s, {})), r \in SomeOf(s.res), g \in SomeOf(class.cpgs) :
           oci["inst"] = BuildInstance(s, TypeInfo[claim.type], i, r, g)
      /\ oci["boot"] = BuildBootVolume(s)
      /\ \E net \in NetworkNow(s) :
           /\ oci[Primary] = BuildVnic(net.primary, TRUE)
           /\ claim.init => SecondariesFit(net.secondary, Same)
  BY Zenon DEF ReplacementDiffers
<1>2. PICK net \in NetworkNow(s) : /\ oci[Primary] = BuildVnic(net.primary, TRUE)
                                   /\ claim.init => SecondariesFit(net.secondary, Same)
  BY <1>1
<1>3. net = class.net
  <2>1. s \in Specs /\ class.net \in NetworkNow(s)
    BY DEF Shape, ClassShape, StaleNetworkStatus
  <2> QED BY <2>1, NetworkShape
<1>4. claim.init => SameAll(oci, class.net.secondary)
  BY <1>2, <1>3, Zenon DEF SecondariesFit, SameAll
<1>5. \E i \in NowImages : \E r, g :
       /\ (s.res = {} /\ r = None) \/ r \in s.res
       /\ (class.cpgs = {} /\ g = None) \/ g \in class.cpgs
       /\ oci["inst"] = BuildInstance(s, TypeInfo[claim.type], i, r, g)
  <2>1. \A S, x : x \in SomeOf(S) => (S = {} /\ x = None) \/ x \in S
    OBVIOUS
  <2> HIDE DEF SomeOf
  <2> QED BY <1>1, <2>1, Zenon DEF NowImages
<1>6. oci["batt"].attached
  BY <1>1 DEF StillProvisioning
<1> QED BY <1>1, <1>2, <1>3, <1>4, <1>5, <1>6, Zenon DEF Equal

\* The placement groups of a class have ids, and a class that names none has none.
LEMMA GroupIds ==
  ASSUME NEW spec
  PROVE  None \notin GroupsOf(spec) /\ (spec.cpgs = {} => GroupsOf(spec) = {})
<1> DEFINE Found(c) == IF c.id # None
                       THEN {g \in Groups : g.id = c.id}
                       ELSE {g \in Groups : g.deleted /\ Matches(c.sel, g, Home)}
           all == UNION {Found(c) : c \in spec.cpgs}
<1>1. ResolveClusterPlacementGroups(spec.cpgs) \in {{all}, {}}
  BY Zenon DEF ResolveClusterPlacementGroups
<1>2. all \subseteq Groups /\ (spec.cpgs = {} => all = {})
  <2>1. \A c : Found(c) \subseteq Groups
    OBVIOUS
  <2> HIDE DEF Found
  <2> QED BY <2>1
<1> HIDE DEF all
<1>3. \A gs \in ResolveClusterPlacementGroups(spec.cpgs) : gs = all
  BY <1>1
<1>4. \A x \in GroupsOf(spec) : \E g \in all : x = g.id
  BY <1>3 DEF GroupsOf
<1> QED BY <1>2, <1>4, ResolutionAssumption

\* An instance that a replacement would equal gives the instance stage no reason.
LEMMA EqualInst ==
  ASSUME Shape, LaunchInv, ClassInv, WantInv, Equal, pass.clean, ~pass.skipped, pass.stage # "idle"
  PROVE  IsInstanceDrifted(pass.want, oci["inst"]) = ""
<1> DEFINE s == class.spec
           i == oci["inst"]
           want == pass.want
           it == TypeInfo[claim.type]
<1>1. /\ class.ready /\ want.spec = s /\ want.cpgs = class.cpgs /\ want.it = it
      /\ want.res = {claim.res} \cap s.res
      /\ claim.res # None => claim.res \in s.res
      /\ NowImages = {want.image}
  BY DEF WantInv
<1>2. PICK im, r, g :
       /\ im \in NowImages
       /\ (class.cpgs = {} /\ g = None) \/ g \in class.cpgs
       /\ i = BuildInstance(s, it, im, r, g)
  BY Zenon DEF Equal
<1>3. /\ i.comp = GetInstanceCompartment(s) /\ i.shape = it.shape /\ i.size = it.size /\ i.image = im
      /\ i.cpg = g /\ i.launch = BuildLaunchOptions(s.launch)
  <2>1. ASSUME NEW x, x = BuildInstance(s, it, im, r, g)
        PROVE  /\ x.comp = GetInstanceCompartment(s) /\ x.shape = it.shape /\ x.size = it.size /\ x.image = im
               /\ x.cpg = g /\ x.launch = BuildLaunchOptions(s.launch)
    BY <2>1 DEF BuildInstance
  <2> QED BY <1>2, <2>1
<1>4. i.res = claim.res
  BY RunningParts DEF Equal
<1>5. i.image = want.image
  BY <1>1, <1>2, <1>3
<1>6. ~IsInstanceDriftedFromInstanceType(i, want.it)
  BY <1>1, <1>3 DEF IsInstanceDriftedFromInstanceType
<1>7. ~CapacityReservationMismatch(want, i)
  BY <1>1, <1>4 DEF CapacityReservationMismatch
<1>8. ~ClusterPlacementGroupMismatch(want, i)
  <2>1. class.cpgs = GroupsOf(s)
    BY <1>1 DEF ClassInv
  <2>2. None \notin class.cpgs /\ (s.cpgs = {} => class.cpgs = {})
    BY <2>1, GroupIds
  <2> QED BY <1>1, <1>2, <1>3, <2>2 DEF ClusterPlacementGroupMismatch
<1>9. ~isLaunchOptionMismatch(want.spec.launch, i.launch)
  BY <1>1, <1>3 DEF isLaunchOptionMismatch, BuildLaunchOptions, OrElse
<1>10. i.comp = GetInstanceCompartment(want.spec)
  BY <1>1, <1>3
<1> HIDE DEF i, want
<1> QED BY <1>5, <1>6, <1>7, <1>8, <1>9, <1>10, InstanceReasons DEF i, want

\* Nor does it give the network stage one.
LEMMA EqualPrimary ==
  ASSUME Shape, LaunchInv, CacheInv, GotInv, WantInv, RealInv, Equal, pass.clean, pass.real,
         pass.stage = "net", NextReads(pass) = {}
  PROVE  PrimaryDrifted(pass) = ""
<1> DEFINE r == pass.want.net.primary
<1>1. pass.want.net = class.net
  BY DEF WantInv
<1>2. oci[Primary] = BuildVnic(r, TRUE) /\ Running /\ oci["batt"].attached
  BY <1>1 DEF Equal
<1>3. oci[Primary].subnet = r.subnet /\ oci[Primary].nsgs = r.nsgs /\ oci[Primary].primary
  <2>1. ASSUME NEW y, oci[Primary] = BuildVnic(r, y)
        PROVE  oci[Primary].subnet = r.subnet /\ oci[Primary].nsgs = r.nsgs /\ oci[Primary].primary = y
    BY <2>1 DEF BuildVnic
  <2> QED BY <1>2, <2>1
<1>4. /\ oci["vatt"] = [v \in DOMAIN oci["vatt"] |-> oci[v].subnet]
      /\ \A v \in DOMAIN oci["vatt"] \ {Primary} : oci[v] = BuildVnic(oci[v], FALSE)
      /\ \E m \in 0..Len(claim.fields.secondary) : DOMAIN oci["vatt"] = UpTo(m)
  BY <1>2, Zenon DEF LaunchInv, AttachedInv
<1>5. Primary \in DOMAIN oci["vatt"] /\ Primary \in Vnics
  BY <1>4 DEF UpTo, Vnics
<1>6. \A k \in Keys : pass.got[k] # None => pass.got[k] = oci[k]
  BY DEF RealInv
<1>7. pass.got["vatt"] # None /\ pass.got["vatt"] = oci["vatt"]
  BY <1>6, VnicKeys DEF NextReads
<1>8. FoundPrimary(pass) # {}
  <2> SUFFICES ASSUME FoundPrimary(pass) = {} PROVE FALSE
    OBVIOUS
  <2> DEFINE S == {v \in DOMAIN pass.got["vatt"] : pass.got["vatt"][v] = r.subnet /\ pass.got[v] = None}
  <2>1. FirstOf(S) = {}
    BY <1>7 DEF NextReads
  <2>2. S \cap Vnics = {}
    BY <2>1, FirstOfEmpty
  <2>3. pass.got["vatt"][Primary] = r.subnet
    BY <1>3, <1>4, <1>5, <1>7
  <2>4. pass.got[Primary] # None
    BY <1>5, <1>7, <2>2, <2>3
  <2>5. pass.got[Primary] = oci[Primary]
    BY <1>5, <1>6, <2>4, VnicKeys
  <2> QED BY <1>3, <1>5, <2>4, <2>5 DEF FoundPrimary
<1>9. \A v \in FoundPrimary(pass) : isVnicNsgIdsMatch(r, pass.got[v])
  <2> SUFFICES ASSUME NEW v \in Vnics, pass.got[v] # None, pass.got[v].primary
               PROVE  isVnicNsgIdsMatch(r, pass.got[v])
    BY DEF FoundPrimary
  <2>1. pass.got[v] = oci[v] /\ v \in DOMAIN oci["vatt"]
    BY <1>6, <1>7, VnicKeys DEF GotInv
  <2>2. v = Primary
    <3>1. \A y : BuildVnic(oci[v], y).primary = y
      BY DEF BuildVnic
    <3> QED BY <1>4, <2>1, <3>1
  <2> QED BY <1>3, <2>1, <2>2 DEF isVnicNsgIdsMatch
<1> QED BY <1>8, <1>9, PrimaryReasons

\* Nor the boot stage.
LEMMA EqualBoot ==
  ASSUME Shape, LaunchInv, WantInv, RealInv, Equal, pass.clean, pass.real,
         pass.stage = "boot", NextReads(pass) = {}, NEW reason \in Reasons(pass)
  PROVE  reason = ""
<1> DEFINE s == class.spec
           want == pass.want
<1>1. want.spec = s /\ s \in Specs
  BY DEF WantInv, Shape, ClassShape
<1>2. oci["batt"].attached /\ oci["boot"] = BuildBootVolume(s) /\ Running
  BY DEF Equal
<1>3. \A k \in Keys : pass.got[k] # None => pass.got[k] = oci[k]
  BY DEF RealInv
<1>4. pass.got["batt"] # None /\ pass.got["batt"] = oci["batt"]
  BY <1>3, VnicKeys, Zenon DEF NextReads
<1>5. oci["batt"].enc = oci["boot"].enc
  BY <1>2, RunningParts
<1>6. /\ oci["boot"].size \in Nat /\ (s.boot.size # None => oci["boot"].size = s.boot.size)
      /\ s.boot.enc # None => oci["boot"].enc = s.boot.enc
      /\ s.boot.kms # None => oci["boot"].kms = s.boot.kms
      /\ s.boot.vpus # None => oci["boot"].vpus = s.boot.vpus
  BY <1>1, <1>2, BootShape
<1>7. AttachmentDrifted(want, pass.got["batt"]) = ""
  <2>1. pass.got["batt"].attached /\ (want.spec.boot.enc = None \/ want.spec.boot.enc = pass.got["batt"].enc)
    BY <1>1, <1>2, <1>4, <1>5, <1>6
  <2> QED BY <2>1, AttachmentReasons
<1>8. pass.got["boot"] # None => BootVolumeDrifted(want, pass.got["boot"]) = ""
  <2> SUFFICES ASSUME pass.got["boot"] # None PROVE BootVolumeDrifted(want, pass.got["boot"]) = ""
    OBVIOUS
  <2>1. pass.got["boot"] = oci["boot"]
    BY <1>3, VnicKeys
  <2>2. ~(s.boot.size # None /\ oci["boot"].size < s.boot.size)
    BY <1>6
  <2>3. /\ ~(want.spec.boot.size # None /\ pass.got["boot"].size < want.spec.boot.size)
        /\ want.spec.boot.kms = None \/ pass.got["boot"].kms = want.spec.boot.kms
        /\ want.spec.boot.vpus = None \/ pass.got["boot"].vpus = want.spec.boot.vpus
    BY <1>1, <1>6, <2>1, <2>2
  <2> QED BY <2>3, BootReasons
<1> QED BY <1>7, <1>8 DEF Reasons

\* VNICs made one for one for the desired ones, none of which another could take for
\* itself: whatever the first of them have taken, the next one still finds its own.
LEMMA NeverStuck ==
  ASSUME NEW n \in Nat, NEW desired, NEW o, NEW found,
         NEW f \in [1..n -> found], IsInjective(f),
         \A i \in 1..n : o[f[i]].subnet = desired[i].subnet /\ o[f[i]].nsgs = desired[i].nsgs,
         \A i, j \in 1..n : desired[i].subnet = desired[j].subnet /\ desired[i].nsgs \subseteq desired[j].nsgs
                              => desired[i].nsgs = desired[j].nsgs,
         NEW k \in 1..n, NEW h \in [1..(k - 1) -> found], IsInjective(h),
         \A i \in 1..(k - 1) : Fits(desired[i], o[h[i]])
  PROVE  \E v \in found \ Range(h) : Fits(desired[k], o[v])
<1> SUFFICES ASSUME \A v \in found \ Range(h) : ~Fits(desired[k], o[v]) PROVE FALSE
  OBVIOUS
<1> DEFINE C == {j \in 1..n : desired[j].subnet = desired[k].subnet /\ desired[j].nsgs = desired[k].nsgs}
           Q(j, i) == i \in 1..(k - 1) /\ h[i] = f[j]
           g == [j \in C |-> CHOOSE i : Q(j, i)]
<1>1. ASSUME NEW j \in C PROVE \E i : Q(j, i)
  <2>1. f[j] \in found /\ Fits(desired[k], o[f[j]])
    BY DEF Fits, isVnicNsgIdsMatch
  <2>2. f[j] \in Range(h)
    BY <2>1
  <2> QED BY <2>2 DEF Range
<1>2. ASSUME NEW j \in C, NEW i, Q(j, i) PROVE i \in C \ {k}
  <2>1. i \in 1..n /\ i # k /\ j \in 1..n
    BY <1>2
  <2>2. Fits(desired[i], o[f[j]])
    BY <1>2
  <2>3. desired[i].subnet = desired[j].subnet /\ desired[i].nsgs \subseteq desired[j].nsgs
    BY <2>1, <2>2 DEF Fits, isVnicNsgIdsMatch
  <2>4. desired[i].nsgs = desired[j].nsgs
    BY <2>1, <2>3
  <2> QED BY <2>1, <2>3, <2>4
<1>3. \A j \in C : Q(j, g[j])
  BY <1>1
<1>4. \A j \in C : g[j] \in C \ {k}
  BY <1>2, <1>3
<1>5. \A i, j \in C : g[i] = g[j] => i = j
  <2> SUFFICES ASSUME NEW i \in C, NEW j \in C, g[i] = g[j] PROVE i = j
    OBVIOUS
  <2>1. f[i] = h[g[i]] /\ f[j] = h[g[j]]
    BY <1>3
  <2>2. f[i] = f[j] /\ i \in 1..n /\ j \in 1..n
    BY <2>1
  <2> QED BY <2>2 DEF IsInjective
<1>6. k \in C /\ C \in SUBSET (1..n)
  OBVIOUS
<1>7. g \in [C -> C \ {k}] /\ IsInjective(g)
  BY <1>4, <1>5 DEF IsInjective
<1> HIDE DEF C, g, Q
<1>8. IsFiniteSet(C)
  BY <1>6, IntervalSize, FS_Subset
<1>9. IsFiniteSet(C \ {k}) /\ Cardinality(C \ {k}) = Cardinality(C) - 1 /\ Cardinality(C) \in Nat
  BY <1>6, <1>8, FS_RemoveElement, FS_CardinalityType
<1>10. g \in Injection(C, C \ {k})
  BY <1>7 DEF Injection
<1>11. Cardinality(C) <= Cardinality(C \ {k})
  BY <1>9, <1>10, FS_Injection
<1> QED BY <1>9, <1>11

\* Nor the stage of the secondary VNICs.
LEMMA EqualSecondary ==
  ASSUME Shape, LaunchInv, CacheInv, ClassInv, WantInv, RealInv, Equal, pass.clean, pass.real,
         pass.stage = "sec", NextReads(pass) = {}, NEW reason \in Reasons(pass)
  PROVE  reason = ""
<1> DEFINE desired == pass.want.net.secondary
           n == Len(desired)
           there == DOMAIN oci["vatt"] \ {Primary}
           found == {v \in DOMAIN pass.got["vatt"] : ~pass.got[v].primary}
<1>1. DOMAIN desired = 1..n /\ n \in Nat
  BY WantSecondary
<1>2. pass.want.net = class.net /\ claim.init
  BY DEF WantInv
<1>3. PICK f \in [DOMAIN desired -> there] :
        /\ Range(f) = there /\ IsInjective(f)
        /\ \A i \in DOMAIN desired : oci[f[i]] = BuildVnic(desired[i], FALSE)
  BY <1>2 DEF Equal, SameAll
<1>4. \A k \in Keys : pass.got[k] # None => pass.got[k] = oci[k]
  BY DEF RealInv
<1>5. pass.got["vatt"] # None /\ pass.got["vatt"] = oci["vatt"] /\ DOMAIN pass.got["vatt"] \subseteq Vnics
  BY <1>4, VnicKeys DEF CacheInv, VattInv, VnicsOf
<1>6. FirstOf({v \in DOMAIN pass.got["vatt"] : pass.got[v] = None}) = {}
  BY DEF NextReads
<1>7. {v \in DOMAIN pass.got["vatt"] : pass.got[v] = None} \cap Vnics = {}
  BY <1>6, FirstOfEmpty
<1>8. \A v \in DOMAIN oci["vatt"] : pass.got[v] = oci[v]
  BY <1>4, <1>5, <1>7, VnicKeys
<1>9. /\ oci[Primary] = BuildVnic(oci[Primary], TRUE)
      /\ \A x \in there : oci[x] = BuildVnic(oci[x], FALSE)
  BY Zenon DEF LaunchInv, AttachedInv, Equal
<1>10. oci[Primary].primary /\ \A x \in there : ~oci[x].primary
  <2>1. \A x, y : BuildVnic(x, y).primary = y
    BY DEF BuildVnic
  <2> QED BY <1>9, <2>1
<1>11. found = there
  BY <1>5, <1>8, <1>10
<1>12. \A i \in 1..n : oci[f[i]].subnet = desired[i].subnet /\ oci[f[i]].nsgs = desired[i].nsgs
  <2>1. ASSUME NEW i \in 1..n, NEW y, oci[f[i]] = BuildVnic(desired[i], y)
        PROVE  oci[f[i]].subnet = desired[i].subnet /\ oci[f[i]].nsgs = desired[i].nsgs
    BY <2>1 DEF BuildVnic
  <2>2. \A i \in 1..n : oci[f[i]] = BuildVnic(desired[i], FALSE)
    BY <1>1, <1>3
  <2> HIDE DEF n, desired, there
  <2> QED BY <2>1, <2>2, Zenon
<1>13. \A i, j \in 1..n : desired[i].subnet = desired[j].subnet /\ desired[i].nsgs \subseteq desired[j].nsgs
                              => desired[i].nsgs = desired[j].nsgs
  BY <1>1, <1>2 DEF Equal, AmbiguousSecondaries
<1>14. \A i \in 1..n : pass.got[f[i]] = oci[f[i]]
  BY <1>1, <1>3, <1>8
<1>15. reason \in SecondaryReasons(pass)
  BY DEF Reasons
<1>16. SecondaryReasons(pass) =
          IF Cardinality(found) # n THEN {"SecondaryVnicsNumberMismatch"}
          ELSE {IF ok THEN "" ELSE "SecondaryVnicNsgIdsMismatch" : ok \in MatchOutcomes(desired, pass.got, found)}
  BY Zenon DEF SecondaryReasons
<1> HIDE DEF desired, found, there, n
<1>17. Cardinality(found) = n
  <2>1. f \in Bijection(1..n, there)
    BY <1>1, <1>3 DEF Bijection, Injection, Surjection, Range
  <2>2. ExistsBijection(1..n, there)
    BY <2>1 DEF ExistsBijection
  <2> QED BY <1>1, <1>11, <2>2, IntervalSize, FS_Bijection
<1>18. ASSUME FALSE \in MatchOutcomes(desired, pass.got, found) PROVE FALSE
  <2>1. PICK k \in DOMAIN desired : \E h \in Taken(desired, pass.got, found, k - 1) :
                 \A v \in found \ Range(h) : ~Fits(desired[k], pass.got[v])
    BY <1>18 DEF MatchOutcomes
  <2>2. PICK h \in Taken(desired, pass.got, found, k - 1) :
                 \A v \in found \ Range(h) : ~Fits(desired[k], pass.got[v])
    BY <2>1
  <2>3. /\ h \in [1..(k - 1) -> found] /\ IsInjective(h)
        /\ \A i \in 1..(k - 1) : Fits(desired[i], pass.got[h[i]])
    BY <2>2 DEF Taken
  <2>4. /\ k \in 1..n /\ f \in [1..n -> found]
        /\ \A i \in 1..n : pass.got[f[i]].subnet = desired[i].subnet /\ pass.got[f[i]].nsgs = desired[i].nsgs
    BY <1>1, <1>3, <1>11, <1>12, <1>14
  <2>5. \E v \in found \ Range(h) : Fits(desired[k], pass.got[v])
    BY <1>1, <1>3, <1>13, <2>3, <2>4, NeverStuck
  <2> QED BY <2>2, <2>5
<1>19. \A ok \in MatchOutcomes(desired, pass.got, found) : ok \in BOOLEAN
  BY Zenon DEF MatchOutcomes
<1>20. PICK ok \in MatchOutcomes(desired, pass.got, found) :
          reason = IF ok THEN "" ELSE "SecondaryVnicNsgIdsMismatch"
  BY <1>15, <1>16, <1>17
<1> QED BY <1>18, <1>19, <1>20

\* ReplacementDiffers, of what it depends on.
Differs(c, cl, o, types, images, nets) ==
  LET s == c.spec
      SomeOf(S) == IF S = {} THEN {None} ELSE S
  IN
  \/ ~(o["inst"] # None /\ o["inst"].state = "running")
  \/ cl.type \notin types
  \/ cl.fields # StaticFields(s)
  \/ ~\E i \in images, r \in SomeOf(s.res), g \in SomeOf(c.cpgs) :
        o["inst"] = BuildInstance(s, TypeInfo[cl.type], i, r, g)
  \/ o["boot"] # BuildBootVolume(s)
  \/ ~\E net \in nets :
        /\ o[Primary] = BuildVnic(net.primary, TRUE)
        /\ cl.init => SameAll(o, net.secondary)

\* Whether a replacement differs, and each excuse, depends on what is named here.
LEMMA ReplacementSame ==
  ASSUME UNCHANGED <<class, claim, oci, catalog, untagged>>, NowImages' = NowImages
  PROVE  /\ ReplacementDiffers' <=> ReplacementDiffers
         /\ StaleNetworkStatus' <=> StaleNetworkStatus
         /\ StillProvisioning' <=> StillProvisioning
         /\ AmbiguousSecondaries' <=> AmbiguousSecondaries
<1>2. StillProvisioning' <=> StillProvisioning
  BY DEF StillProvisioning, Running
<1>3. AmbiguousSecondaries' <=> AmbiguousSecondaries
  BY DEF AmbiguousSecondaries
<1>4. NetworkNow(class.spec)' = NetworkNow(class.spec)
  BY DEF NetworkNow, NsgsNow
<1>5. StaleNetworkStatus' <=> StaleNetworkStatus
  BY <1>4 DEF StaleNetworkStatus
<1>6. ReplacementDiffers' <=> ReplacementDiffers
  <2>1. ReplacementDiffers <=>
          Differs(class, claim, oci, ListInstanceTypes(class.spec), NowImages, NetworkNow(class.spec))
    BY Zenon DEF ReplacementDiffers, Differs, Running, NowImages, SecondariesFit, SameAll
  <2>2. ReplacementDiffers' <=>
          Differs(class', claim', oci', ListInstanceTypes(class.spec)', NowImages', NetworkNow(class.spec)')
    BY Zenon DEF ReplacementDiffers, Differs, Running, NowImages, SecondariesFit, SameAll
  <2>3. ListInstanceTypes(class.spec)' = ListInstanceTypes(class.spec)
    BY DEF ListInstanceTypes
  <2> QED BY <1>4, <2>1, <2>2, <2>3
<1> QED BY <1>2, <1>3, <1>5, <1>6

\* An instance that a replacement would equal gives the first part of IsDrifted no reason.
LEMMA EqualEarly ==
  ASSUME Shape, LaunchInv, ClassInv, Equal, NEW f, BeginDrift(f), pass' = NoPass
  PROVE  verdict'.reason \in {"", "unknown"}
<1> DEFINE spec == class.spec
           image == ImageFor(spec, claim.type, LaunchLook(spec, f))
           skipped == image # ImageFor(spec, claim.type, LaunchLook(spec, {}))
           res == {claim.res} \cap spec.res
           early == IF ~class.ready \/ ListInstanceTypes(spec) = {} THEN "unknown"
               ELSE IF claim.type \notin ListInstanceTypes(spec) THEN "ShapeNotFound"
               ELSE IF image = {} THEN "unknown"
               ELSE IF claim.res # None /\ spec.res # {} /\ <<"res", None>> \in f THEN "unknown"
               ELSE IF claim.res # None /\ res = {} THEN "CapacityReservationMismatch"
               ELSE IF AreStaticFieldsDrifted THEN "NodeClassStaticFieldDrift"
               ELSE ""
<1>1. \/ Finish(early, TRUE, skipped)
      \/ \E want, sk : pass' = [NoPass EXCEPT !.stage = "inst", !.clean = TRUE, !.skipped = sk, !.want = want]
  BY Zenon DEF BeginDrift
<1>2. ASSUME NEW want, NEW sk
      PROVE  [NoPass EXCEPT !.stage = "inst", !.clean = TRUE, !.skipped = sk, !.want = want].stage = "inst"
  BY DEF NoPass
<1>3. Finish(early, TRUE, skipped)
  BY <1>1, <1>2, NoPassFields
<1>4. claim.type \in ListInstanceTypes(spec)
  BY DEF Equal
<1>5. claim.res # None => claim.res \in spec.res
  <2>1. oci["inst"].res = claim.res
    BY RunningParts DEF Equal
  <2>2. PICK i, r, g : /\ (spec.res = {} /\ r = None) \/ r \in spec.res
                       /\ oci["inst"] = BuildInstance(spec, TypeInfo[claim.type], i, r, g)
    BY Zenon DEF Equal
  <2>3. oci["inst"].res = r
    <3>1. ASSUME NEW x, x = BuildInstance(spec, TypeInfo[claim.type], i, r, g) PROVE x.res = r
      BY <3>1 DEF BuildInstance
    <3> QED BY <2>2, <3>1
  <2> QED BY <2>1, <2>2, <2>3
<1>6. class.ready => ~AreStaticFieldsDrifted
  <2>1. claim # None
    BY DEF Shape, ClaimShape, Running, Empty, Keys, Equal
  <2>2. claim.hash = KarpenterHash(StaticFields(spec))
    BY <2>1 DEF LaunchInv, NpnInv, Equal
  <2> QED BY <2>2 DEF ClassInv, AreStaticFieldsDrifted
<1>7. early \in {"", "unknown"}
  BY <1>4, <1>5, <1>6
<1> HIDE DEF early, skipped
<1>8. verdict' = [reason |-> early, skipped |-> skipped]
  BY <1>3 DEF Finish
<1>9. verdict'.reason = early
  BY <1>8, VerdictParts
<1> QED BY <1>7, <1>9

\* A pass confirms a difference only of an instance that a replacement would differ from,
\* or in one of the cases excepted.
LEMMA ConfirmedDiffers ==
  ASSUME DriftInv, RealInv, Equal, pass.clean, ~pass.skipped, pass.real, pass.stage # "idle",
         NextReads(pass) = {}, NEW reason \in Reasons(pass)
  PROVE  reason = ""
<1> USE DEF DriftInv
<1>1. CASE pass.stage = "inst"
  <2>1. pass.got["inst"] # None
    BY <1>1, VnicKeys DEF NextReads
  <2>2. pass.got["inst"] = oci["inst"]
    BY <2>1, VnicKeys DEF RealInv
  <2>3. reason = IsInstanceDrifted(pass.want, pass.got["inst"])
    BY <1>1 DEF Reasons
  <2> QED BY <2>2, <2>3, EqualInst
<1>2. CASE pass.stage = "net"
  <2>1. reason = PrimaryDrifted(pass)
    BY <1>2 DEF Reasons
  <2> QED BY <1>2, <2>1, EqualPrimary
<1>3. CASE pass.stage = "sec"
  BY <1>3, EqualSecondary
<1>4. CASE pass.stage = "boot"
  BY <1>4, EqualBoot
<1>5. pass.stage \in Stages
  BY DEF Shape, PassShape
<1> QED BY <1>1, <1>2, <1>3, <1>4, <1>5 DEF Stages

\* The invariant of what a pass may report holds initially.
LEMMA RealInvInit == Init => RealInv
<1>1. Init => pass = NoPass
  BY Zenon DEF Init
<1> QED BY <1>1, NoPassFields DEF RealInv

\* IsDrifted reports drift only of an instance that a replacement would differ from,
\* whatever the caches held when the pass began.
THEOREM DriftIsReal == Spec => []DriftMeansReplacementDiffers
<1>1. Init => DriftMeansReplacementDiffers
  <2>1. Init => verdict = NoVerdict
    BY Zenon DEF Init
  <2> QED BY <2>1, VerdictParts DEF DriftMeansReplacementDiffers
<1>2. ASSUME DriftInv, RealInv, DriftMeansReplacementDiffers, [Next]_vars PROVE DriftMeansReplacementDiffers'
  <2> DEFINE Excused == ReplacementDiffers \/ StaleNetworkStatus \/ StillProvisioning \/ AmbiguousSecondaries
  <2>0. Shape /\ LaunchInv /\ ClassInv /\ (Excused \/ Equal)
    BY <1>2, EqualOrExcused DEF DriftInv
  <2> SUFFICES ASSUME verdict'.reason \notin {"none", "", "unknown"}, ~verdict'.skipped PROVE Excused'
    BY DEF DriftMeansReplacementDiffers
  <2>1. ASSUME UNCHANGED <<class, claim, oci, catalog, untagged>>, NowImages' = NowImages, Excused PROVE Excused'
    BY <2>1, ReplacementSame
  <2> HIDE DEF Excused
  <2>2. verdict' # NoVerdict
    BY VerdictParts
  <2>3. ASSUME NEW reason, NEW clean, NEW skipped, Finish(reason, clean, skipped)
        PROVE  reason \notin {"none", "", "unknown"} /\ clean /\ ~skipped
    <3>1. clean /\ verdict' = [reason |-> reason, skipped |-> skipped]
      BY <2>2, <2>3 DEF Finish
    <3> QED BY <3>1, VerdictParts
  <2>4. CASE UNCHANGED vars
    <3>1. UNCHANGED <<class, claim, oci, catalog, untagged, imgs, verdict>>
      BY <2>4, Zenon DEF vars, worldVars
    <3>2. NowImages' = NowImages
      BY <2>0, <3>1, NowImagesKept
    <3>3. Excused
      BY <1>2, <3>1 DEF DriftMeansReplacementDiffers, Excused
    <3> QED BY <2>1, <3>1, <3>2, <3>3
  <2>5. ASSUME NEW f, BeginDrift(f), pass' = NoPass PROVE Excused'
    <3>1. UNCHANGED <<class, claim, oci, catalog, untagged>>
      BY <2>5, BeginDriftFrame DEF worldVars
    <3>2. NowImages' = NowImages
      BY <2>0, <2>5, <3>1, NowImagesKept
    <3>3. ~Equal
      BY <2>0, <2>5, EqualEarly
    <3> QED BY <2>0, <2>1, <3>1, <3>2, <3>3
  <2>6. ASSUME Judge, NEW reason \in Reasons(pass), reason # "", pass.real, Finish(reason, pass.clean, pass.skipped)
        PROVE  Excused'
    <3>1. UNCHANGED <<class, claim, oci, catalog, untagged, imgs>>
      BY <2>6, PassFrame DEF worldVars
    <3>2. NowImages' = NowImages
      BY <2>0, <3>1, NowImagesKept
    <3>3. ~Equal
      <4>1. pass.clean /\ ~pass.skipped
        <5>1. verdict' = IF pass.clean THEN [reason |-> reason, skipped |-> pass.skipped] ELSE NoVerdict
          BY <2>6, Zenon DEF Finish
        <5>2. pass.clean /\ verdict' = [reason |-> reason, skipped |-> pass.skipped]
          BY <2>2, <5>1, Zenon
        <5>3. verdict'.skipped = pass.skipped
          BY <5>2, VerdictParts
        <5> QED BY <5>2, <5>3
      <4>2. pass.stage # "idle" /\ NextReads(pass) = {}
        BY <2>6, JudgeKinds
      <4> QED BY <1>2, <2>6, <4>1, <4>2, ConfirmedDiffers
    <3> QED BY <2>0, <2>1, <3>1, <3>2, <3>3
  <2>7. ASSUME NEW r, r \in {"", "unknown"}, Finish(r, pass.clean, pass.skipped) PROVE FALSE
    BY <2>3, <2>7
  <2>8. ~(ReadFails /\ Finish("unknown", pass.clean, pass.skipped))
    BY <2>7
  <2>9. ~Finish("", pass.clean, pass.skipped)
    BY <2>7
  <2> QED BY <1>2, <2>2, <2>4, <2>5, <2>6, <2>8, <2>9, VerdictKinds, Zenon
<1>3. Shape /\ CacheInv /\ RealInv /\ [Next]_vars => RealInv'
  BY RealInvKept
<1>4. DriftInv => Shape /\ CacheInv
  BY DEF DriftInv
<1> QED BY <1>1, <1>2, <1>3, <1>4, DriftInvInit, DriftInvKept, RealInvInit, PTL DEF Spec

-----------------------------------------------------------------------------
(* The image a launch uses: what the cached resolution names, the launch's own does *)

\* What KubeletVersion gives for x when the versions f of the older images are known.
Body(f, x, have) ==
  IF x.k8s # None THEN [st |-> "ok", minor |-> x.k8s]
  ELSE IF x.base = None THEN [st |-> "untagged", minor |-> 0]
  ELSE IF x.base \notin have THEN [st |-> "unread", minor |-> 0]
  ELSE f[ImageById(Images, x.base)]

\* The version of an image depends only on the versions of older ones.
LEMMA BodyBase ==
  ASSUME NEW have \in SUBSET Ids, NEW x \in Images, NEW f, NEW g,
         \A y \in Images : y.made < x.made => f[y] = g[y]
  PROVE  Body(f, x, have) = Body(g, x, have)
<1>1. CASE x.base \in have
  <2> DEFINE y == ImageById(Images, x.base)
  <2>1. \E z \in Images : z.id = x.base
    BY <1>1 DEF Ids
  <2>2. y \in Images /\ y.id = x.base
    BY <2>1 DEF ImageById
  <2>3. y.made < x.made
    BY <2>2, ImagesAssumption
  <2>4. f[y] = g[y]
    BY <2>2, <2>3
  <2> HIDE DEF y
  <2> QED BY <2>4, Zenon DEF Body, y
<1>2. CASE x.base \notin have
  BY <1>2, Zenon DEF Body
<1> QED BY <1>1, <1>2

\* KubeletVersions is the function that its recursion chooses.
LEMMA KletIs ==
  ASSUME NEW have
  PROVE  KubeletVersions(Images, have) = CHOOSE f : f = [x \in Images |-> Body(f, x, have)]
BY Zenon DEF KubeletVersions, Body

\* f is right for the images made before n.
RightTo(f, n, have) == \A x \in Images : x.made < n => f[x] = Body(f, x, have)

\* Two functions that satisfy the recursion up to n agree up to n: at the oldest image
\* where they differed, the recursion would give both the same value.
LEMMA RightAgree ==
  ASSUME NEW have \in SUBSET Ids, NEW n \in Nat, NEW f, NEW g, RightTo(f, n, have), RightTo(g, n, have)
  PROVE  \A x \in Images : x.made < n => f[x] = g[x]
<1> DEFINE Bad == {x \in Images : x.made < n /\ f[x] # g[x]}
           T == {x.made : x \in Bad}
<1> SUFFICES ASSUME Bad # {} PROVE FALSE
  OBVIOUS
<1>1. T \in SUBSET Nat /\ T # {}
  BY ImagesAssumption
<1> HIDE DEF T
<1>2. PICK m \in T : \A y \in T : m <= y
  BY <1>1, LeastNatural
<1>3. PICK x \in Bad : m = x.made
  BY <1>2 DEF T
<1>4. \A y \in Images : y.made < x.made => f[y] = g[y]
  <2> SUFFICES ASSUME NEW y \in Images, y.made < x.made, f[y] # g[y] PROVE FALSE
    OBVIOUS
  <2>1. y.made \in Nat /\ x.made \in Nat /\ x.made < n
    BY <1>3, ImagesAssumption
  <2>2. y.made < n
    BY <2>1
  <2>3. y.made \in T
    BY <2>2 DEF T
  <2> QED BY <1>2, <1>3, <2>1, <2>3
<1>5. f[x] = Body(f, x, have) /\ g[x] = Body(g, x, have) /\ f[x] # g[x]
  BY <1>3 DEF RightTo
<1> QED BY <1>3, <1>4, <1>5, BodyBase

\* Some function satisfies the recursion up to n: at the least n without one, the one
\* for the images before gives it.
LEMMA RightExists ==
  ASSUME NEW have \in SUBSET Ids, NEW n \in Nat
  PROVE  \E f : RightTo(f, n, have)
<1> DEFINE T == {m \in Nat : ~\E f : RightTo(f, m, have)}
<1> SUFFICES ASSUME T # {} PROVE FALSE
  OBVIOUS
<1> HIDE DEF T
<1>1. PICK m \in T : \A y \in T : m <= y
  BY LeastNatural DEF T
<1>2. m \in Nat /\ ~\E f : RightTo(f, m, have)
  BY <1>1 DEF T
<1>3. m # 0
  <2>1. ASSUME NEW f, NEW x \in Images PROVE ~(x.made < 0)
    BY ImagesAssumption
  <2> QED BY <1>2, <2>1 DEF RightTo
<1>4. m - 1 \in Nat /\ m - 1 \notin T
  BY <1>1, <1>2, <1>3
<1>5. PICK f : RightTo(f, m - 1, have)
  BY <1>4 DEF T
<1> DEFINE g == [x \in Images |-> IF x.made < m - 1 THEN f[x] ELSE Body(f, x, have)]
<1>6. RightTo(g, m, have)
  <2> SUFFICES ASSUME NEW x \in Images, x.made < m PROVE g[x] = Body(g, x, have)
    BY DEF RightTo
  <2>1. g[x] = Body(f, x, have)
    BY <1>5 DEF RightTo
  <2>2. \A y \in Images : y.made < x.made => f[y] = g[y]
    BY <1>2, <1>4, ImagesAssumption
  <2> HIDE DEF g
  <2> QED BY <2>1, <2>2, BodyBase
<1> HIDE DEF g
<1> QED BY <1>2, <1>6

\* The recursion over an image's ancestors is well defined.
LEMMA KletBody ==
  ASSUME NEW have \in SUBSET Ids
  PROVE  LET kv == KubeletVersions(Images, have) IN
           kv = [x \in Images |-> Body(kv, x, have)]
<1> DEFINE F(n) == CHOOSE f : RightTo(f, n, have)
           h == [x \in Images |-> F(x.made + 1)[x]]
<1>1. \A n \in Nat : RightTo(F(n), n, have)
  BY RightExists
<1> HIDE DEF F
<1>2. ASSUME NEW x \in Images, NEW y \in Images, y.made < x.made PROVE F(x.made + 1)[y] = h[y]
  <2>1. x.made \in Nat /\ y.made \in Nat
    BY ImagesAssumption
  <2>2. RightTo(F(x.made + 1), y.made + 1, have)
    <3>1. RightTo(F(x.made + 1), x.made + 1, have)
      BY <1>1, <2>1
    <3> QED BY <1>2, <2>1, <3>1, ImagesAssumption DEF RightTo
  <2>3. RightTo(F(y.made + 1), y.made + 1, have)
    BY <1>1, <2>1
  <2>4. y.made + 1 \in Nat /\ y.made < y.made + 1
    BY <2>1
  <2>5. F(x.made + 1)[y] = F(y.made + 1)[y]
    BY <2>2, <2>3, <2>4, RightAgree
  <2> QED BY <2>5
<1>3. ASSUME NEW x \in Images PROVE h[x] = Body(h, x, have)
  <2>1. x.made \in Nat
    BY ImagesAssumption
  <2>2. RightTo(F(x.made + 1), x.made + 1, have) /\ x.made < x.made + 1
    BY <1>1, <2>1
  <2>3. h[x] = F(x.made + 1)[x] /\ F(x.made + 1)[x] = Body(F(x.made + 1), x, have)
    BY <2>2 DEF RightTo
  <2>4. \A y \in Images : y.made < x.made => F(x.made + 1)[y] = h[y]
    BY <1>2
  <2> HIDE DEF h
  <2>5. Body(F(x.made + 1), x, have) = Body(h, x, have)
    BY <2>4, BodyBase
  <2> QED BY <2>3, <2>5
<1>4. h = [x \in Images |-> h[x]]
  OBVIOUS
<1> HIDE DEF h
<1>5. h = [x \in Images |-> Body(h, x, have)]
  BY <1>3, <1>4
<1>6. \E f : f = [x \in Images |-> Body(f, x, have)]
  BY <1>5
<1> QED BY <1>6, KletIs

\* Reading more images changes no version that could be read with fewer.
LEMMA KletMore ==
  ASSUME NEW have \in SUBSET Ids, NEW more \in SUBSET Ids, have \subseteq more
  PROVE  LET kv == KubeletVersions(Images, have)
             lv == KubeletVersions(Images, more)
         IN  \A x \in Images : kv[x].st # "unread" => lv[x] = kv[x]
<1> DEFINE kv == KubeletVersions(Images, have)
           lv == KubeletVersions(Images, more)
           Bad == {x \in Images : kv[x].st # "unread" /\ lv[x] # kv[x]}
           T == {x.made : x \in Bad}
<1>1. kv = [x \in Images |-> Body(kv, x, have)] /\ lv = [x \in Images |-> Body(lv, x, more)]
  BY KletBody
<1> HIDE DEF kv, lv
<1> SUFFICES ASSUME Bad # {} PROVE FALSE
  BY DEF kv, lv
<1>2. T \in SUBSET Nat /\ T # {}
  BY ImagesAssumption
<1> HIDE DEF T
<1>3. PICK m \in T : \A y \in T : m <= y
  BY <1>2, LeastNatural
<1>4. PICK x \in Bad : m = x.made
  BY <1>3 DEF T
<1>5. x \in Images /\ kv[x] = Body(kv, x, have) /\ lv[x] = Body(lv, x, more) /\ kv[x].st # "unread" /\ lv[x] # kv[x]
  BY <1>1, <1>4
<1>6. x.k8s = None /\ x.base # None /\ x.base \in have
  <2>1. [st |-> "unread", minor |-> 0].st = "unread"
    OBVIOUS
  <2>2. x.k8s = None /\ x.base # None
    BY <1>5, Zenon DEF Body
  <2>3. x.base \notin have => kv[x] = [st |-> "unread", minor |-> 0]
    BY <1>5, <2>2, Zenon DEF Body
  <2> QED BY <1>5, <2>1, <2>2, <2>3
<1> DEFINE y == ImageById(Images, x.base)
<1>7. y \in Images /\ y.id = x.base
  BY <1>6 DEF ImageById, Ids
<1>8. y.made \in Nat /\ x.made \in Nat /\ y.made < x.made
  BY <1>5, <1>7, ImagesAssumption
<1>9. kv[x] = kv[y] /\ lv[x] = lv[y]
  BY <1>5, <1>6, Zenon DEF Body
<1>10. y \in Bad
  BY <1>5, <1>7, <1>9
<1>11. y.made \in T
  BY <1>10 DEF T
<1> QED BY <1>3, <1>4, <1>8, <1>11

\* A resolution from the caches that succeeds finds and sorts the images that one
\* that reads more would.
LEMMA SameSorted ==
  ASSUME NEW c, NEW a, NEW b, a.strict, ~b.strict, a.have \in SUBSET Ids, b.have \in SUBSET Ids,
         a.have \subseteq b.have, NEW found \in SUBSET Images,
         FilterAndSort(found, c, Images, a, Version) # {}
  PROVE  FilterAndSort(found, c, Images, a, Version) = FilterAndSort(found, c, Images, b, Version)
<1> DEFINE kv == KubeletVersions(Images, a.have)
           lv == KubeletVersions(Images, b.have)
           Score(k) == [i \in found |-> CompatibleScore(Version, k[i].minor)]
           Fit(k) == {i \in found : k[i].st = "ok" /\ Score(k)[i] >= 0}
           Sorted(k, strict) ==
             IF found = {} THEN {}
             ELSE IF ~IsPreBaked(c, found) THEN {ByScore(found, [i \in found |-> 0])}
             ELSE IF Version = None \/ (strict /\ \E i \in found : k[i].st = "unread") THEN {}
             ELSE {ByScore(Fit(k), Score(k))}
<1>1. /\ FilterAndSort(found, c, Images, a, Version) = Sorted(kv, a.strict)
      /\ FilterAndSort(found, c, Images, b, Version) = Sorted(lv, b.strict)
  BY Zenon DEF FilterAndSort
<1>2. \A x \in Images : kv[x].st # "unread" => lv[x] = kv[x]
  BY KletMore
<1> HIDE DEF kv, lv
<1>3. CASE ~IsPreBaked(c, found)
  BY <1>1, <1>3
<1>4. CASE IsPreBaked(c, found)
  <2>1. found # {} /\ Version # None /\ \A i \in found : kv[i].st # "unread"
    BY <1>1, <1>4, Zenon
  <2>2. \A i \in found : lv[i] = kv[i]
    BY <1>2, <2>1
  <2>3. Score(kv) = Score(lv)
    BY <2>2
  <2>4. Fit(kv) = Fit(lv)
    <3> HIDE DEF Score
    <3> QED BY <2>2, <2>3
  <2>5. Sorted(kv, a.strict) = {ByScore(Fit(kv), Score(kv))} /\ Sorted(lv, b.strict) = {ByScore(Fit(lv), Score(lv))}
    BY <1>4, <2>1, Zenon
  <2> HIDE DEF Fit, Score, Sorted
  <2> QED BY <1>1, <2>3, <2>4, <2>5
<1> QED BY <1>3, <1>4

\* The image the caches name is the one a launch would use, whatever OCI does not answer.
LEMMA CachedImage ==
  ASSUME Shape, NEW spec \in Specs, NEW t, NEW fail, ImageFor(spec, t, CachedLook(spec)) # {}
  PROVE  ImageFor(spec, t, CachedLook(spec)) = ImageFor(spec, t, LaunchLook(spec, fail))
<1> DEFINE a == CachedLook(spec)
           b == LaunchLook(spec, fail)
           c == spec.image
           found == ImagesFound(c, Images, a)
           Sorted(look, S) == FilterAndSort(S, c, Images, look, Version)
           Pick(s, look) == LET runs == {n \in DOMAIN s : TypeInfo[t].shape \in s[n].shapes}
                                first == Min(runs)
                            IN  IF runs # {} /\ \A n \in 1..first : s[n].id \in look.shapes
                                THEN {s[first].id}
                                ELSE {}
<1>1. \A look : ImageFor(spec, t, look) =
        UNION {Pick(s, look) : s \in {s \in Sorted(look, ImagesFound(c, Images, look)) : s # <<>>}}
  BY Zenon DEF ImageFor, ResolveImageForShape, ResolveImages
<1>2. ImgsShape
  BY DEF Shape
<1>3. /\ a.strict /\ a.have = imgs.have /\ a.shapes = imgs.shapes /\ a.have \in SUBSET Ids
      /\ a.list = IF c.id # None \/ imgs.list[c.filter] = None THEN None
                  ELSE {i \in Images : i.id \in imgs.list[c.filter]}
  BY <1>2 DEF CachedLook, ImgsShape
<1>4. /\ ~b.strict /\ b.have \in SUBSET Ids /\ a.have \subseteq b.have /\ a.shapes \subseteq b.shapes
      /\ c.id = None /\ imgs.list[c.filter] # None => b.list = {i \in Images : i.id \in imgs.list[c.filter]}
  <2>1. b.have = imgs.have \cup {i \in Ids : <<"image", i>> \notin fail}
    BY DEF LaunchLook
  <2>2. b.shapes = imgs.shapes \cup {i \in Ids : <<"shapes", i>> \notin fail}
    BY DEF LaunchLook
  <2>3. ~b.strict
    BY DEF LaunchLook
  <2>4. c.id = None /\ imgs.list[c.filter] # None => b.list = {i \in Images : i.id \in imgs.list[c.filter]}
    BY DEF LaunchLook
  <2> HIDE DEF b, a
  <2> QED BY <1>2, <1>3, <2>1, <2>2, <2>3, <2>4 DEF ImgsShape
<1> HIDE DEF a, b
<1>5. found # {}
  <2>1. \A look : Sorted(look, {}) = {}
    BY Zenon DEF FilterAndSort
  <2> HIDE DEF Sorted, Pick
  <2> QED BY <1>1, <2>1 DEF a
<1>6. ImagesFound(c, Images, b) = found /\ found \in SUBSET Images
  <2>1. CASE c.id # None
    BY <1>3, <1>4, <1>5, <2>1 DEF ImagesFound
  <2>2. CASE c.id = None
    <3>1. found = OrElse(a.list, {}) /\ ImagesFound(c, Images, b) = OrElse(b.list, {})
      BY <2>2 DEF ImagesFound
    <3>2. a.list # None
      BY <1>5, <3>1 DEF OrElse
    <3>3. imgs.list[c.filter] # None /\ a.list = {i \in Images : i.id \in imgs.list[c.filter]}
      BY <1>3, <2>2, <3>2
    <3>4. b.list = a.list
      BY <1>4, <2>2, <3>3
    <3> QED BY <3>1, <3>2, <3>3, <3>4 DEF OrElse
  <2> QED BY <2>1, <2>2
<1> HIDE DEF found
<1>7. Sorted(a, found) # {}
  <2>1. ImageFor(spec, t, a) = UNION {Pick(s, a) : s \in {s \in Sorted(a, found) : s # <<>>}}
    BY <1>1 DEF found
  <2> HIDE DEF Sorted, Pick
  <2> QED BY <2>1 DEF a
<1>8. Sorted(b, found) = Sorted(a, found)
  BY <1>3, <1>4, <1>6, <1>7, SameSorted
<1>9. /\ ImageFor(spec, t, a) = UNION {Pick(s, a) : s \in {s \in Sorted(a, found) : s # <<>>}}
      /\ ImageFor(spec, t, b) = UNION {Pick(s, b) : s \in {s \in Sorted(a, found) : s # <<>>}}
  <2>1. ImageFor(spec, t, b) = UNION {Pick(s, b) : s \in {s \in Sorted(b, ImagesFound(c, Images, b)) : s # <<>>}}
    BY <1>1
  <2>2. ImageFor(spec, t, a) = UNION {Pick(s, a) : s \in {s \in Sorted(a, ImagesFound(c, Images, a)) : s # <<>>}}
    BY <1>1
  <2> HIDE DEF Sorted, Pick
  <2> QED BY <1>6, <1>8, <2>1, <2>2 DEF found
<1>10. \A s : Pick(s, a) # {} => Pick(s, b) = Pick(s, a)
  BY <1>4
<1> HIDE DEF Sorted, Pick
<1>11. PICK s \in Sorted(a, found) : s # <<>> /\ Pick(s, a) # {}
  <2>1. ImageFor(spec, t, a) # {}
    BY DEF a
  <2> QED BY <1>9, <2>1
<1>12. Sorted(a, found) = {s}
  <2>1. \A look, S : Sorted(look, S) = {} \/ \E x : Sorted(look, S) = {x}
    BY Zenon DEF FilterAndSort, Sorted
  <2> QED BY <1>11, <2>1
<1>13. ImageFor(spec, t, a) = Pick(s, a) /\ ImageFor(spec, t, b) = Pick(s, b)
  BY <1>9, <1>11, <1>12
<1> QED BY <1>10, <1>11, <1>13 DEF a, b

\* The image ResolveImageForShapeCached names is the one a launch would use, whichever
\* of its own look-ups OCI would fail to answer.
THEOREM CachedImageIsLaunchImage == Spec => []CachedNamesLaunchImage
<1>1. Shape => CachedNamesLaunchImage
  BY CachedImage, Zenon DEF CachedNamesLaunchImage, Shape, ClassShape
<1>2. CachesInv => Shape
  BY DEF CachesInv
<1> QED BY <1>1, <1>2, CachesSound, PTL

=============================================================================
