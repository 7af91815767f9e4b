--------------------------- MODULE NodeClassStatus --------------------------
(***************************************************************************)
(* pkg/controllers/nodeclasses: one OCINodeClass, from the object in the   *)
(* API server through the controller's Reconcile and finalize back to the  *)
(* object, and CloudProvider.Create, which reads it.                       *)
(*                                                                         *)
(* Reconcile reads the object from the informer cache, adds a finalizer,   *)
(* lets one sub-reconciler per condition ask OCI, sets the static hash if  *)
(* the class came out Ready, and writes the result in two patches, the     *)
(* annotations first and the status second, each refused when the object   *)
(* has changed since it was read.  A deleting class keeps its finalizer    *)
(* while a NodeClaim refers to it.                                         *)
(*                                                                         *)
(* The spec is abstracted to the optional conditions it asks for and the   *)
(* version of its static (hashed) fields.  A resourceVersion is abstracted *)
(* to whether a copy is still the latest: `lag` for the informer's,        *)
(* `behind` for the one Reconcile works on.                                *)
(***************************************************************************)
EXTENDS Naturals, Sequences, FiniteSets

CONSTANTS
  Kinds,       \* condition types that are not the root "Ready"
  Optional,    \* the ones the spec may leave out
  Order,       \* the sub-reconcilers, in the order NewController lists them
  Claims,      \* NodeClaims that may refer to the class
  MaxGen,      \* bound: generation of the last spec edit
  MaxCrashes,  \* bound: restarts
  None

ASSUME NodeClassAssumption ==
  /\ Optional \subseteq Kinds
  /\ Order \in Seq(Kinds) /\ \A k \in Kinds : \E n \in DOMAIN Order : Order[n] = k
  /\ MaxGen \in Nat \ {0} /\ MaxCrashes \in Nat
  /\ None \notin Claims

VARIABLES
  obj,        \* the OCINodeClass in the API server, or None
  cache,      \* the informer's copy
  lag,        \* obj has been written since cache was
  queued,     \* the class is in the work queue
  timer,      \* a RequeueAfter of minutes is pending
  pc,         \* where Reconcile is
  work,       \* nodeClass: the copy Reconcile changes
  stored,     \* stored: what the patches are computed against
  behind,     \* obj has been written by others since work was read
  todo,       \* sub-reconcilers still to run
  failed,     \* errs # nil
  resolvable, \* kinds OCI would resolve now
  claim,      \* NodeClaim objects: "absent", "present", "gone"
  seen,       \* NodeClaims in the informer cache
  create,     \* per claim: "none", class "checked" by Create, "launched"
  crashes,
  proven,     \* history: static versions a pass has found Ready
  lost        \* history: a status patch was applied but its response was lost

classVars == <<obj, cache, lag>>
queueVars == <<queued, timer>>
history   == <<proven, lost>>
passVars  == <<pc, work, stored, behind, todo, failed>>
claimVars == <<claim, seen, create>>
vars == <<classVars, queueVars, passVars, resolvable, claimVars, crashes, history>>

Gen       == 0..(MaxGen + 1)
Condition == [st : {"none", "true", "false"}, gen : Gen]
Class ==
  [gen : Gen, static : Gen, wants : SUBSET Optional, fin : BOOLEAN, del : BOOLEAN,
   hash : Gen, cond : [Kinds -> Condition], ready : Condition]

ASSUME NoneAssumption == None \notin Class

TypeOK ==
  /\ obj \in Class \cup {None} /\ cache \in Class \cup {None}
  /\ lag \in BOOLEAN /\ queued \in BOOLEAN /\ timer \in BOOLEAN
  /\ pc \in {"idle", "finalizer", "subs", "annotate", "status", "list", "unfinalize"}
  /\ work \in Class \cup {None} /\ stored \in Class \cup {None}
  /\ behind \in BOOLEAN /\ failed \in BOOLEAN
  /\ todo \in Seq(Kinds)
  /\ resolvable \in SUBSET Kinds
  /\ claim \in [Claims -> {"absent", "present", "gone"}]
  /\ seen \in SUBSET Claims
  /\ create \in [Claims -> {"none", "checked", "launched"}]
  /\ crashes \in 0..MaxCrashes
  /\ proven \in SUBSET Gen
  /\ lost \in BOOLEAN

Unset == [st |-> "none", gen |-> 0]

NewClass(w) ==
  [gen |-> 1, static |-> 1, wants |-> w, fin |-> FALSE, del |-> FALSE,
   hash |-> 0, cond |-> [k \in Kinds |-> Unset], ready |-> Unset]

Init ==
  /\ \E w \in SUBSET Optional : obj = NewClass(w)
  /\ cache = obj /\ lag = FALSE
  /\ queued = TRUE /\ timer = FALSE
  /\ pc = "idle" /\ work = None /\ stored = None
  /\ behind = FALSE /\ failed = FALSE /\ todo = <<>>
  /\ resolvable \in SUBSET Kinds
  /\ claim = [c \in Claims |-> "absent"]
  /\ seen = {}
  /\ create = [c \in Claims |-> "none"]
  /\ crashes = 0
  /\ proven = {}
  /\ lost = FALSE

\* Somebody else writes the object: every copy of it is out of date.
Written(o) ==
  /\ obj' = o
  /\ lag' = TRUE
  /\ behind' = TRUE

-----------------------------------------------------------------------------
(* Users, OCI and the informers *)

\* An edit of the spec, of its hashed fields or not, with or without a change of
\* the optional parts.
EditSpec ==
  /\ obj # None /\ ~obj.del /\ obj.gen < MaxGen
  /\ \E w \in SUBSET Optional, s \in {obj.static, obj.gen + 1} :
       Written([obj EXCEPT !.gen = @ + 1, !.static = s, !.wants = w])
  /\ UNCHANGED <<cache, queueVars, pc, work, stored, todo, failed, resolvable, claimVars, crashes, history>>

\* Deletion: marked, with a new generation, or immediate without a finalizer.
DeleteClass ==
  /\ obj # None /\ ~obj.del
  /\ Written(IF obj.fin THEN [obj EXCEPT !.gen = @ + 1, !.del = TRUE] ELSE None)
  /\ UNCHANGED <<cache, queueVars, pc, work, stored, todo, failed, resolvable, claimVars, crashes, history>>

\* The informer catches up; GenerationChangedPredicate passes on changes of the
\* generation only.
ClassEvent ==
  /\ lag
  /\ cache' = obj /\ lag' = FALSE
  /\ queued' = (queued \/ (obj # None /\ obj.gen # cache.gen))
  /\ UNCHANGED <<obj, timer, passVars, resolvable, claimVars, crashes, history>>

\* An image is published, a key disabled, permissions change, OCI is unavailable.
OciChanges(k) ==
  /\ resolvable' = IF k \in resolvable THEN resolvable \ {k} ELSE resolvable \cup {k}
  /\ UNCHANGED <<classVars, queueVars, passVars, claimVars, crashes, history>>

ClaimCreated(c) ==
  /\ claim[c] = "absent" /\ obj # None
  /\ claim' = [claim EXCEPT ![c] = "present"]
  /\ UNCHANGED <<classVars, queueVars, passVars, resolvable, seen, create, crashes, history>>

\* Core removes a claim's finalizer once its instance is gone, never while it is
\* in Create for it.
ClaimRemoved(c) ==
  /\ claim[c] = "present" /\ create[c] # "checked"
  /\ claim' = [claim EXCEPT ![c] = "gone"]
  /\ create' = [create EXCEPT ![c] = "none"]
  /\ UNCHANGED <<classVars, queueVars, passVars, resolvable, seen, crashes, history>>

\* The informer sees a claim, or sees it go: only the latter queues the class.
ClaimEvent(c) ==
  /\ \/ claim[c] = "present" /\ c \notin seen
        /\ seen' = seen \cup {c} /\ UNCHANGED queueVars
     \/ claim[c] = "gone" /\ c \in seen
        /\ seen' = seen \ {c} /\ queued' = TRUE /\ UNCHANGED timer
  /\ UNCHANGED <<classVars, passVars, resolvable, claim, create, crashes, history>>

-----------------------------------------------------------------------------
(* CloudProvider.Create *)

\* StatusConditions: the conditions Ready depends on follow the spec.
Dependents(o) == (Kinds \ Optional) \cup o.wants

Ready(o) == o.ready.st = "true" /\ o.ready.gen = o.gen

\* ensureNodeClassFromNodeClaim and ensureNodeClassReady, from the same informer
\* cache as the claim.
CreateChecks(c) ==
  /\ c \in seen /\ claim[c] = "present" /\ create[c] = "none"
  /\ cache # None /\ ~cache.del /\ Ready(cache)
  /\ create' = [create EXCEPT ![c] = "checked"]
  /\ UNCHANGED <<classVars, queueVars, passVars, resolvable, claim, seen, crashes, history>>

CreateLaunches(c) ==
  /\ create[c] = "checked"
  /\ create' = [create EXCEPT ![c] = "launched"]
  /\ UNCHANGED <<classVars, queueVars, passVars, resolvable, claim, seen, crashes, history>>

CreateFails(c) ==
  /\ create[c] = "checked"
  /\ create' = [create EXCEPT ![c] = "none"]
  /\ UNCHANGED <<classVars, queueVars, passVars, resolvable, claim, seen, crashes, history>>

-----------------------------------------------------------------------------
(* Reconcile *)

\* The end of a pass: over, again "now" (an error, or a conflict's one second), or
\* "later" (after minutes).  A pending RequeueAfter outlives the passes in between.
Return(next) ==
  /\ pc' = "idle" /\ work' = None /\ stored' = None
  /\ behind' = FALSE /\ failed' = FALSE /\ todo' = <<>>
  /\ queued' = (queued \/ next = "now")
  /\ timer' = (timer \/ next = "later")

\* What result.Min and the collected errors make of a pass.
Outcome(o, err) ==
  IF err THEN "now" ELSE IF o.ready.st = "true" THEN "done" ELSE "later"

\* Minutes have passed; the informer has long caught up with the last write.
TimerFires ==
  /\ timer /\ ~lag
  /\ timer' = FALSE /\ queued' = TRUE
  /\ UNCHANGED <<classVars, passVars, resolvable, claimVars, crashes, history>>

\* The queue hands the class to the one worker it has for it.
StartPass ==
  /\ pc = "idle" /\ queued
  /\ queued' = FALSE /\ UNCHANGED timer
  /\ \/ cache = None /\ UNCHANGED passVars
     \/ /\ cache # None
        /\ work' = cache /\ stored' = cache
        /\ behind' = lag
        /\ pc' = IF cache.del THEN "list" ELSE IF cache.fin THEN "subs" ELSE "finalizer"
        /\ todo' = Order
        /\ UNCHANGED failed
  /\ UNCHANGED <<classVars, resolvable, claimVars, crashes, history>>

\* A patch with an optimistic lock: the object is still the one that was read.
Current == obj # None /\ ~behind

\* The API server takes a patch from Reconcile, whose copy stays the latest.
Patched(o) ==
  /\ obj' = o
  /\ lag' = TRUE

AddFinalizer ==
  /\ pc = "finalizer" /\ Current
  /\ Patched([obj EXCEPT !.fin = TRUE])
  /\ work' = obj' /\ stored' = obj'
  /\ pc' = "subs"
  /\ UNCHANGED <<cache, queueVars, behind, todo, failed, resolvable, claimVars, crashes, history>>

\* What a sub-reconciler leaves as the condition of its kind.
ReconcileRequired(o, k) ==
  [st |-> IF k \in resolvable THEN "true" ELSE "false", gen |-> o.gen]

ReconcileOptional(o, k) ==
  IF k \in o.wants THEN ReconcileRequired(o, k) ELSE Unset

\* One sub-reconciler asks OCI and sets, or clears, its condition.
SubReconcile ==
  /\ pc = "subs" /\ todo # <<>>
  /\ LET k == Head(todo) IN
       work' = [work EXCEPT !.cond[k] =
                  IF k \in Optional THEN ReconcileOptional(work, k) ELSE ReconcileRequired(work, k)]
  /\ todo' = Tail(todo)
  /\ UNCHANGED <<classVars, queueVars, pc, stored, behind, failed, resolvable, claimVars, crashes, history>>

\* Mutant of RootCondition: optional conditions are not dependents.
RootConditionRequired(o) ==
  [st |-> IF \A k \in Kinds \ Optional : o.cond[k].st = "true" THEN "true" ELSE "false",
   gen |-> o.gen]

\* Ready, as re-computed whenever a condition is set.
RootCondition(o) ==
  [st |-> IF \A k \in Dependents(o) : o.cond[k].st = "true" THEN "true" ELSE "false",
   gen |-> o.gen]

\* Mutant of Hashed: the hash follows the spec at once.
HashedAlways(o) == [o EXCEPT !.hash = o.static]

\* The Hash reconciler, "keep this guy as last one".
Hashed(o) == IF o.ready.st = "true" THEN [o EXCEPT !.hash = o.static] ELSE o

\* Every sub-reconciler has run; nothing is written if nothing has changed.
SubsDone ==
  /\ pc = "subs" /\ todo = <<>>
  /\ LET done == [work EXCEPT !.ready = RootCondition(work)]
         next == Hashed(done)
     IN  /\ proven' = IF done.ready.st = "true" THEN proven \cup {done.static} ELSE proven
         /\ \/ /\ next = stored
               /\ Return(Outcome(next, FALSE))
            \/ /\ next # stored
               /\ work' = next
               /\ pc' = IF next.hash # stored.hash THEN "annotate" ELSE "status"
               /\ UNCHANGED <<queueVars, stored, behind, todo, failed>>
  /\ UNCHANGED <<classVars, resolvable, claimVars, crashes, lost>>

\* The first patch, of the annotations; the response is what the second one is
\* computed against.
AnnotatePatch ==
  /\ pc = "annotate" /\ Current
  /\ Patched([obj EXCEPT !.hash = work.hash])
  /\ stored' = obj'
  /\ pc' = "status"
  /\ UNCHANGED <<cache, queueVars, work, behind, todo, failed, resolvable, claimVars, crashes, history>>

\* The first patch fails, or its response is lost.  annotationPatchOnly is still
\* the copy of nodeClass, so the second patch will have nothing in it.
AnnotateError ==
  /\ pc = "annotate" /\ obj # None
  /\ \/ UNCHANGED <<obj, lag, behind>>
     \/ Current /\ Written([obj EXCEPT !.hash = work.hash])
  /\ stored' = work
  /\ failed' = TRUE
  /\ pc' = "status"
  /\ UNCHANGED <<cache, queueVars, work, todo, resolvable, claimVars, crashes, history>>

\* Mutant of StatusPatch: the annotations are left to a later pass.
StatusPatchFirst ==
  /\ pc \in {"annotate", "status"} /\ Current
  /\ Patched([obj EXCEPT !.cond = work.cond, !.ready = work.ready])
  /\ Return(Outcome(work, failed))
  /\ UNCHANGED <<cache, resolvable, claimVars, crashes, history>>

\* The second patch, of the status, and the end of the pass.
StatusPatch ==
  /\ pc = "status" /\ Current
  /\ Patched(IF stored = work THEN obj ELSE [obj EXCEPT !.cond = work.cond, !.ready = work.ready])
  /\ Return(Outcome(work, failed))
  /\ UNCHANGED <<cache, resolvable, claimVars, crashes, history>>

\* It fails, or its response is lost: the error brings the class back.
StatusError ==
  /\ pc = "status" /\ obj # None
  /\ \/ UNCHANGED <<obj, lag, lost>>
     \/ /\ Current /\ stored # work
        /\ Patched([obj EXCEPT !.cond = work.cond, !.ready = work.ready])
        /\ lost' = TRUE
  /\ Return("now")
  /\ UNCHANGED <<cache, resolvable, claimVars, crashes, proven>>

\* Mutant of Conflict: the class is not put back in the queue.
ConflictDropped ==
  /\ pc \in {"finalizer", "annotate", "status", "unfinalize"}
  /\ obj # None /\ behind
  /\ Return("done")
  /\ UNCHANGED <<classVars, resolvable, claimVars, crashes, history>>

\* A patch meets a newer object.
Conflict ==
  /\ pc \in {"finalizer", "annotate", "status", "unfinalize"}
  /\ obj # None /\ behind
  /\ Return("now")
  /\ UNCHANGED <<classVars, resolvable, claimVars, crashes, history>>

\* A patch meets no object: an error from the finalizer's, ignored by the others.
PatchNotFound ==
  /\ pc \in {"finalizer", "annotate", "status", "unfinalize"}
  /\ obj = None
  /\ Return(CASE pc = "finalizer"  -> "now"
              [] pc = "unfinalize" -> "done"
              [] OTHER             -> Outcome(work, failed))
  /\ UNCHANGED <<classVars, resolvable, claimVars, crashes, history>>

-----------------------------------------------------------------------------
(* finalize *)

\* Claims that refer to the class keep it; it is looked at again later.
FinalizeWaits ==
  /\ pc = "list" /\ work.fin
  /\ seen # {}
  /\ Return("later")
  /\ UNCHANGED <<classVars, resolvable, claimVars, crashes, history>>

\* Mutant of FinalizeListed: only claims with an instance count.
FinalizeListedLaunched ==
  /\ pc = "list"
  /\ \/ /\ work.fin /\ \A c \in seen : create[c] # "launched"
        /\ pc' = "unfinalize"
        /\ UNCHANGED <<queueVars, work, stored, behind, todo, failed>>
     \/ ~work.fin /\ Return("done")
  /\ UNCHANGED <<classVars, resolvable, claimVars, crashes, history>>

\* Mutant of FinalizeListed: a class that is not Ready is not looked after.
FinalizeListedReady ==
  /\ pc = "list"
  /\ \/ /\ work.fin /\ seen = {} /\ work.ready.st = "true"
        /\ pc' = "unfinalize"
        /\ UNCHANGED <<queueVars, work, stored, behind, todo, failed>>
     \/ ~work.fin /\ Return("done")
  /\ UNCHANGED <<classVars, resolvable, claimVars, crashes, history>>

\* None does; or the finalizer has gone already.
FinalizeListed ==
  /\ pc = "list"
  /\ \/ /\ work.fin /\ seen = {}
        /\ pc' = "unfinalize"
        /\ UNCHANGED <<queueVars, work, stored, behind, todo, failed>>
     \/ ~work.fin /\ Return("done")
  /\ UNCHANGED <<classVars, resolvable, claimVars, crashes, history>>

\* The finalizer is patched away and the API server deletes the object.
RemoveFinalizer ==
  /\ pc = "unfinalize" /\ Current
  /\ Patched(None)
  /\ Return("done")
  /\ UNCHANGED <<cache, resolvable, claimVars, crashes, history>>

\* Listing the claims, or a patch of the finalizer, fails, or its response is lost.
FinalizerError ==
  /\ \/ pc \in {"list", "finalizer", "unfinalize"} /\ UNCHANGED <<obj, lag>>
     \/ pc = "finalizer" /\ Current /\ Patched([obj EXCEPT !.fin = TRUE])
     \/ pc = "unfinalize" /\ Current /\ Patched(None)
  /\ Return("now")
  /\ UNCHANGED <<cache, resolvable, claimVars, crashes, history>>

-----------------------------------------------------------------------------
\* The process restarts: its caches are filled anew and every class is queued.
Crash ==
  /\ crashes < MaxCrashes
  /\ crashes' = crashes + 1
  /\ cache' = obj /\ lag' = FALSE
  /\ pc' = "idle" /\ work' = None /\ stored' = None
  /\ behind' = FALSE /\ failed' = FALSE /\ todo' = <<>>
  /\ queued' = (obj # None) /\ timer' = FALSE
  /\ seen' = {c \in Claims : claim[c] = "present"}
  /\ create' = [c \in Claims |-> IF create[c] = "checked" THEN "none" ELSE create[c]]
  /\ UNCHANGED <<obj, resolvable, claim, history>>

Pass ==
  \/ TimerFires \/ StartPass \/ SubReconcile \/ SubsDone
  \/ AddFinalizer \/ AnnotatePatch \/ StatusPatch \/ Conflict \/ PatchNotFound
  \/ FinalizeWaits \/ FinalizeListed \/ RemoveFinalizer

Errors == AnnotateError \/ StatusError \/ FinalizerError

Creating(c) == CreateChecks(c) \/ CreateLaunches(c) \/ CreateFails(c)

Next ==
  \/ EditSpec \/ DeleteClass \/ ClassEvent
  \/ \E k \in Kinds : OciChanges(k)
  \/ \E c \in Claims : ClaimCreated(c) \/ ClaimRemoved(c) \/ ClaimEvent(c) \/ Creating(c)
  \/ Pass \/ Errors
  \/ Crash

Spec == Init /\ [][Next]_vars

\* The queue is worked off, informers deliver, and a request to the API server
\* that is made again and again succeeds in the end.
FairSpec ==
  /\ Spec
  /\ WF_vars(Pass) /\ WF_vars(ClassEvent) /\ SF_vars(TimerFires)
  /\ \A c \in Claims : WF_vars(ClaimEvent(c)) /\ WF_vars(CreateLaunches(c) \/ CreateFails(c))
  /\ SF_vars(AddFinalizer \/ AnnotatePatch \/ RemoveFinalizer)
  /\ SF_vars(FinalizeListed \/ StatusPatch)

-----------------------------------------------------------------------------
(* Properties *)

\* A class that Create accepts carries the hash of the spec it was accepted for:
\* the status never gets ahead of the annotation, through conflicts, failed or
\* half-failed patches and restarts.  (Create writes the hash of the spec into the
\* claim; drift compares it with the annotation.)
ReadyMeansHashed ==
  obj # None /\ Ready(obj) => obj.hash = obj.static

\* Ready at a generation means that each condition the spec of that generation
\* calls for was found true for that generation.
ReadyMeansResolved ==
  obj # None /\ Ready(obj) =>
    \A k \in Dependents(obj) : obj.cond[k] = [st |-> "true", gen |-> obj.gen]

\* The hash only ever names a spec some pass has found Ready, so nodes are not
\* drifted towards a class that cannot launch.
HashOnlyOfReadySpec ==
  obj # None => obj.hash \in proven \cup {0}

\* finalize "ensure all node claims are deleted before deleting node classes": a
\* class is not deleted while Create is launching, or has launched, from it.
ClassOutlivesItsInstances ==
  obj = None => \A c \in Claims : create[c] = "none"

\* Once OCI resolves everything, edits having ceased, the class becomes Ready and
\* stays so: no conflict, failed patch or pass over a stale cache leaves it behind.
\* (A status patch whose response is lost can: the retry may run before the
\* informer has seen it, find "no change" and not be queued again.)
BecomesReady ==
  <>[](resolvable = Kinds) => <>[](obj = None \/ obj.del \/ Ready(obj) \/ lost)

\* A deleting class that no claim refers to any more goes away.
ClassDeletionCompletes ==
  <>[](\A c \in Claims : claim[c] # "present") =>
    ((obj # None /\ obj.del) ~> obj = None)

=============================================================================
