----------------------- MODULE NodeClassStatusProofs ------------------------
(***************************************************************************)
(* Proofs about the OCINodeClass controller, for any set of conditions,    *)
(* any order of the sub-reconcilers, and any number of claims, edits and   *)
(* restarts.                                                               *)
(***************************************************************************)
EXTENDS NodeClassStatus, SequenceTheorems, TLAPS

\* The controller's part of a class that a pass does not write.
SameSpec(o, p) ==
  /\ o.gen = p.gen /\ o.static = p.static /\ o.wants = p.wants
  /\ o.fin = p.fin /\ o.del = p.del

-----------------------------------------------------------------------------
(* The inductive invariant *)

\* A pass has its two copies of the class.
PassHasCopies == pc # "idle" => work \in Class /\ stored \in Class

\* The last generation is the one a deletion makes; a status is never of a
\* generation to come.
GenerationsBounded ==
  obj # None => (~obj.del => obj.gen <= MaxGen) /\ obj.ready.gen <= obj.gen

\* The informer's copy is an earlier state of the object, and a finalizer or a
\* deletion it shows is not undone.  A class that went while the copy still
\* shows a finalizer went by the finalizer, and the copy shows the deletion.
CopyTrails ==
  /\ ~lag => cache = obj
  /\ cache # None /\ obj # None => (cache.del => obj.del) /\ (cache.fin => obj.fin)
  /\ cache # None /\ obj = None => cache.del \/ ~cache.fin

\* The pass works on the class it has read: the copies agree on what a pass does
\* not write, and as long as nobody else has written, the object is what the next
\* patch is computed against, or the patch is empty.
PassInSync ==
  pc # "idle" =>
    /\ SameSpec(work, stored)
    /\ obj # None /\ ~behind => stored = obj \/ (pc = "status" /\ stored = work)

\* The sub-reconcilers that have run have left their condition for this generation.
SubsProgress ==
  /\ pc = "finalizer" => todo = Order
  /\ pc = "subs" =>
       /\ work.fin /\ work.hash = stored.hash
       /\ \A k \in Dependents(work) :
            (\E n \in DOMAIN todo : todo[n] = k) \/ work.cond[k].gen = work.gen

\* What a pass is about to write: a root condition that follows from conditions of
\* this generation, and the hash of this spec if that condition is true.
ResultSound ==
  pc \in {"annotate", "status"} =>
    /\ work.fin
    /\ work.ready = RootCondition(work)
    /\ \A k \in Dependents(work) : work.cond[k].gen = work.gen
    /\ work.ready.st = "true" => work.hash = work.static

\* The hash is patched only if it is new, and the status only after the hash.
HashFirst ==
  /\ pc = "annotate" => work.hash = work.static
  /\ pc = "status" => work.hash = stored.hash

\* Every copy's hash is of a spec that was found Ready.
HashesProven ==
  /\ obj # None => obj.hash \in proven \cup {0}
  /\ cache # None => cache.hash \in proven \cup {0}
  /\ pc # "idle" => work.hash \in proven \cup {0} /\ stored.hash \in proven \cup {0}

\* Only a class with a finalizer becomes Ready.
ReadyHasFinalizer ==
  /\ obj # None /\ obj.ready.st = "true" => obj.fin
  /\ cache # None /\ cache.ready.st = "true" => cache.fin

\* A claim in Create is visible to finalize, and its class is there and finalized.
InCreate ==
  \A c \in Claims : create[c] # "none" =>
    claim[c] = "present" /\ c \in seen /\ obj # None /\ obj.fin

\* finalize works on a class whose deletion everybody sees, so that no Create call
\* passes the check any more, and lets go only when none has.
FinalizeSound ==
  /\ pc \in {"list", "unfinalize"} =>
       (obj # None => obj.del) /\ (cache # None => cache.del)
  /\ pc = "unfinalize" => \A c \in Claims : create[c] = "none"

IInv ==
  /\ TypeOK /\ PassHasCopies /\ GenerationsBounded /\ CopyTrails
  /\ PassInSync /\ SubsProgress /\ ResultSound /\ HashFirst /\ HashesProven
  /\ ReadyHasFinalizer /\ InCreate /\ FinalizeSound
  /\ ReadyMeansHashed /\ ReadyMeansResolved
-----------------------------------------------------------------------------
(* Facts about the records *)

\* The fields of a class.
LEMMA ClassFields ==
  ASSUME NEW o \in Class
  PROVE  /\ o # None
         /\ o.gen \in Gen /\ o.static \in Gen /\ o.hash \in Gen /\ o.wants \in SUBSET Optional
         /\ o.fin \in BOOLEAN /\ o.del \in BOOLEAN
         /\ o.cond \in [Kinds -> Condition] /\ o.ready \in Condition
  BY NoneAssumption DEF Class

\* What the controller, the user and the deletion write makes a class of a class.
LEMMA ClassUpdates ==
  ASSUME NEW o \in Class
  PROVE  /\ [o EXCEPT !.fin = TRUE] \in Class
         /\ \A h \in Gen : [o EXCEPT !.hash = h] \in Class
         /\ \A r \in Condition : [o EXCEPT !.ready = r] \in Class
         /\ \A c \in [Kinds -> Condition], r \in Condition : [o EXCEPT !.cond = c, !.ready = r] \in Class
         /\ \A k \in Kinds, x \in Condition : [o EXCEPT !.cond[k] = x] \in Class
         /\ o.gen <= MaxGen =>
              /\ [o EXCEPT !.gen = @ + 1, !.del = TRUE] \in Class
              /\ \A s \in Gen, w \in SUBSET Optional :
                   [o EXCEPT !.gen = @ + 1, !.static = s, !.wants = w] \in Class
  <1> USE DEF Class
  <1>1. [o EXCEPT !.fin = TRUE] \in Class
    OBVIOUS
  <1>2. ASSUME NEW h \in Gen PROVE [o EXCEPT !.hash = h] \in Class
    OBVIOUS
  <1>3. ASSUME NEW r \in Condition PROVE [o EXCEPT !.ready = r] \in Class
    OBVIOUS
  <1>4. ASSUME NEW c \in [Kinds -> Condition], NEW r \in Condition
        PROVE  [o EXCEPT !.cond = c, !.ready = r] \in Class
    OBVIOUS
  <1>5. ASSUME NEW k \in Kinds, NEW x \in Condition PROVE [o EXCEPT !.cond[k] = x] \in Class
    OBVIOUS
  <1>6. ASSUME o.gen <= MaxGen
        PROVE  /\ [o EXCEPT !.gen = @ + 1, !.del = TRUE] \in Class
               /\ \A s \in Gen, w \in SUBSET Optional :
                    [o EXCEPT !.gen = @ + 1, !.static = s, !.wants = w] \in Class
    <2>1. o.gen + 1 \in Gen
      BY <1>6, NodeClassAssumption DEF Gen
    <2> HIDE DEF Gen
    <2>2. [o EXCEPT !.gen = o.gen + 1, !.del = TRUE] \in Class
      BY <2>1
    <2>3. ASSUME NEW s \in Gen, NEW w \in SUBSET Optional
          PROVE  [o EXCEPT !.gen = o.gen + 1, !.static = s, !.wants = w] \in Class
      BY <2>1
    <2> QED BY <2>2, <2>3
  <1> HIDE DEF Class
  <1> QED BY <1>1, <1>2, <1>3, <1>4, <1>5, <1>6

\* What the updates write and what they leave alone.
LEMMA UpdatedFields ==
  ASSUME NEW o \in Class
  PROVE  /\ LET p == [o EXCEPT !.fin = TRUE] IN
              /\ p.fin /\ p.gen = o.gen /\ p.static = o.static /\ p.wants = o.wants /\ p.del = o.del
              /\ p.hash = o.hash /\ p.cond = o.cond /\ p.ready = o.ready
         /\ \A h : LET p == [o EXCEPT !.hash = h] IN
              /\ SameSpec(p, o) /\ p.hash = h /\ p.cond = o.cond /\ p.ready = o.ready
         /\ \A r : LET p == [o EXCEPT !.ready = r] IN
              /\ SameSpec(p, o) /\ p.hash = o.hash /\ p.cond = o.cond /\ p.ready = r
         /\ \A c, r : LET p == [o EXCEPT !.cond = c, !.ready = r] IN
              /\ SameSpec(p, o) /\ p.hash = o.hash /\ p.cond = c /\ p.ready = r
         /\ LET p == [o EXCEPT !.gen = @ + 1, !.del = TRUE] IN
              /\ p.gen = o.gen + 1 /\ p.del /\ p.fin = o.fin /\ p.static = o.static
              /\ p.wants = o.wants /\ p.hash = o.hash /\ p.cond = o.cond /\ p.ready = o.ready
         /\ \A s, w : LET p == [o EXCEPT !.gen = @ + 1, !.static = s, !.wants = w] IN
              /\ p.gen = o.gen + 1 /\ p.static = s /\ p.wants = w
              /\ p.del = o.del /\ p.fin = o.fin /\ p.hash = o.hash /\ p.cond = o.cond /\ p.ready = o.ready
  BY DEF Class, SameSpec

\* Generations are natural numbers.
LEMMA Generations ==
  ASSUME NEW o \in Class
  PROVE  /\ o.gen \in Nat /\ o.ready.gen \in Nat /\ o.gen # o.gen + 1
  <1>1. o.gen \in Gen /\ o.ready.gen \in Gen
    BY ClassFields DEF Condition
  <1> QED BY <1>1 DEF Gen

\* What a user's edit makes of the object.
LEMMA Edited ==
  ASSUME TypeOK, EditSpec
  PROVE  /\ obj \in Class /\ obj' \in Class /\ ~obj.del
         /\ obj'.gen = obj.gen + 1 /\ obj'.gen <= MaxGen
         /\ obj'.del = obj.del /\ obj'.fin = obj.fin /\ obj'.hash = obj.hash /\ obj'.ready = obj.ready
  <1>1. PICK w \in SUBSET Optional, s \in {obj.static, obj.gen + 1} :
               obj' = [obj EXCEPT !.gen = @ + 1, !.static = s, !.wants = w]
    BY DEF EditSpec, Written
  <1>2. obj \in Class /\ obj.gen < MaxGen /\ ~obj.del
    BY DEF EditSpec, TypeOK
  <1>3. obj.gen + 1 \in Gen /\ obj.gen <= MaxGen /\ obj.gen + 1 <= MaxGen
    BY <1>2, Generations, NodeClassAssumption DEF Gen
  <1>4. s \in Gen
    BY <1>2, <1>3, ClassFields
  <1>5. obj' \in Class
    BY <1>1, <1>2, <1>3, <1>4, ClassUpdates
  <1>6. /\ obj'.gen = obj.gen + 1
        /\ obj'.del = obj.del /\ obj'.fin = obj.fin /\ obj'.hash = obj.hash /\ obj'.ready = obj.ready
    BY <1>1, <1>2 DEF Class
  <1> QED BY <1>2, <1>3, <1>5, <1>6

\* What a deletion makes of it.
LEMMA Deleted ==
  ASSUME TypeOK, GenerationsBounded, DeleteClass
  PROVE  /\ obj \in Class
         /\ ~obj.fin => obj' = None
         /\ obj.fin => /\ obj' \in Class
                       /\ obj'.gen = obj.gen + 1 /\ obj'.del /\ obj'.fin
                       /\ obj'.hash = obj.hash /\ obj'.ready = obj.ready
  <1>1. obj \in Class /\ obj.gen <= MaxGen
    BY DEF DeleteClass, TypeOK, GenerationsBounded
  <1>2. obj' = IF obj.fin THEN [obj EXCEPT !.gen = @ + 1, !.del = TRUE] ELSE None
    BY DEF DeleteClass, Written
  <1> QED BY <1>1, <1>2, ClassUpdates, UpdatedFields

\* The conditions a pass computes are conditions.
LEMMA ConditionTypes ==
  ASSUME NEW o \in Class, NEW k \in Kinds
  PROVE  /\ Unset \in Condition
         /\ ReconcileRequired(o, k) \in Condition /\ ReconcileOptional(o, k) \in Condition
         /\ RootCondition(o) \in Condition
  <1>1. o.gen \in Gen /\ 0 \in Gen
    BY ClassFields, NodeClassAssumption DEF Gen
  <1> QED BY <1>1 DEF Condition, Unset, ReconcileRequired, ReconcileOptional, RootCondition

\* A class with the hash of its spec is a class.
LEMMA HashedType == ASSUME NEW o \in Class PROVE Hashed(o) \in Class
  BY ClassFields, ClassUpdates DEF Hashed

\* A pass that returns leaves no copies behind.
LEMMA ReturnTypes ==
  ASSUME TypeOK, NEW next, Return(next)
  PROVE  /\ pc' = "idle" /\ work' = None /\ stored' = None /\ todo' \in Seq(Kinds)
         /\ behind' \in BOOLEAN /\ failed' \in BOOLEAN /\ queued' \in BOOLEAN /\ timer' \in BOOLEAN
  <1>1. pc' = "idle" /\ work' = None /\ stored' = None
    BY DEF Return
  <1>2. todo' \in Seq(Kinds)
    BY DEF Return
  <1>3. /\ behind' \in BOOLEAN /\ failed' \in BOOLEAN /\ queued' \in BOOLEAN /\ timer' \in BOOLEAN
    BY Zenon DEF Return, TypeOK
  <1> QED BY <1>1, <1>2, <1>3

\* The object, when a step writes it, is a class or gone.
ObjectTyped == obj' \in Class \cup {None} /\ cache' \in Class \cup {None} /\ lag' \in BOOLEAN

\* What a pass holds after a step.
PassTyped ==
  /\ pc' \in {"idle", "finalizer", "subs", "annotate", "status", "list", "unfinalize"}
  /\ work' \in Class \cup {None} /\ stored' \in Class \cup {None}
  /\ behind' \in BOOLEAN /\ failed' \in BOOLEAN /\ todo' \in Seq(Kinds)
  /\ queued' \in BOOLEAN /\ timer' \in BOOLEAN
  /\ pc' # "idle" => work' \in Class /\ stored' \in Class

\* The rest of the state.
RestTyped ==
  /\ resolvable' \in SUBSET Kinds
  /\ claim' \in [Claims -> {"absent", "present", "gone"}]
  /\ seen' \in SUBSET Claims
  /\ create' \in [Claims -> {"none", "checked", "launched"}]
  /\ crashes' \in 0..MaxCrashes
  /\ proven' \in SUBSET Gen
  /\ lost' \in BOOLEAN

\* A step keeps the type of the object and of the informer's copy.
LEMMA ObjectStep ==
  ASSUME TypeOK, PassHasCopies, GenerationsBounded, [Next]_vars
  PROVE  ObjectTyped
  <1> USE ClassFields, ClassUpdates DEF TypeOK, ObjectTyped, PassHasCopies
  <1>1. CASE EditSpec
    BY <1>1, Edited DEF EditSpec, Written
  <1>2. CASE DeleteClass
    BY <1>2, Deleted DEF DeleteClass, Written
  <1>3. CASE ClassEvent \/ Crash
    BY <1>3 DEF ClassEvent, Crash
  <1>4. CASE AddFinalizer
    BY <1>4 DEF AddFinalizer, Patched, Current
  <1>5. CASE AnnotatePatch
    BY <1>5 DEF AnnotatePatch, Patched, Current
  <1>6. CASE StatusPatch
    BY <1>6 DEF StatusPatch, Patched, Current
  <1>7. CASE AnnotateError
    <2>1. obj \in Class /\ work.hash \in Gen
      BY <1>7 DEF AnnotateError
    <2>2. [obj EXCEPT !.hash = work.hash] \in Class
      BY <2>1
    <2> QED BY <1>7, <2>2 DEF AnnotateError, Written
  <1>8. CASE StatusError
    <2>1. obj \in Class /\ work.cond \in [Kinds -> Condition] /\ work.ready \in Condition
      BY <1>8 DEF StatusError
    <2>2. [obj EXCEPT !.cond = work.cond, !.ready = work.ready] \in Class
      BY <2>1
    <2> QED BY <1>8, <2>2 DEF StatusError, Patched
  <1>9. CASE FinalizerError
    BY <1>9 DEF FinalizerError, Patched, Current
  <1>10. CASE RemoveFinalizer
    BY <1>10 DEF RemoveFinalizer, Patched
  <1>11. CASE UNCHANGED classVars
    BY <1>11 DEF classVars
  <1> QED
    BY <1>1, <1>2, <1>3, <1>4, <1>5, <1>6, <1>7, <1>8, <1>9, <1>10, <1>11
       DEF Next, Pass, Errors, Creating, vars, TimerFires, StartPass, SubReconcile, SubsDone,
           Conflict, PatchNotFound, FinalizeWaits, FinalizeListed, OciChanges, ClaimCreated,
           ClaimRemoved, ClaimEvent, CreateChecks, CreateLaunches, CreateFails

\* A step keeps the types of the pass and its queue.
LEMMA PassStep ==
  ASSUME TypeOK, PassHasCopies, ObjectTyped, [Next]_vars
  PROVE  PassTyped
  <1> USE ClassFields, ClassUpdates DEF TypeOK, PassTyped, PassHasCopies
  <1>1. CASE EditSpec \/ DeleteClass
    BY <1>1 DEF EditSpec, DeleteClass, Written, queueVars
  <1>2. CASE ClassEvent \/ TimerFires
    BY <1>2 DEF ClassEvent, TimerFires, passVars
  <1>3. CASE Crash
    <2>1. todo' \in Seq(Kinds)
      <3> HIDE ClassFields, ClassUpdates
      <3> QED BY <1>3 DEF Crash
    <2>2. /\ pc' = "idle" /\ work' = None /\ stored' = None
          /\ behind' \in BOOLEAN /\ failed' \in BOOLEAN /\ queued' \in BOOLEAN /\ timer' \in BOOLEAN
      <3> HIDE ClassFields, ClassUpdates DEF TypeOK, PassTyped, PassHasCopies
      <3> QED BY <1>3, Zenon DEF Crash
    <2> QED BY <2>1, <2>2
  <1>4. CASE StartPass
    BY <1>4, NodeClassAssumption DEF StartPass, passVars
  <1>5. CASE AddFinalizer
    BY <1>5 DEF AddFinalizer, Current, Patched, queueVars
  <1>6. CASE SubReconcile
    <2>1. Head(todo) \in Kinds /\ Tail(todo) \in Seq(Kinds)
      BY <1>6, HeadTailProperties DEF SubReconcile
    <2>2. work \in Class
      BY <1>6 DEF SubReconcile
    <2>3. work' \in Class
      BY <1>6, <2>1, <2>2, ConditionTypes DEF SubReconcile
    <2> QED BY <1>6, <2>1, <2>3 DEF SubReconcile, queueVars
  <1>7. CASE SubsDone
    <2>1. work \in Class /\ RootCondition(work) \in Condition
      <3>1. work \in Class
        BY <1>7 DEF SubsDone
      <3>2. RootCondition(work) \in Condition
        BY <3>1, NodeClassAssumption DEF RootCondition, Condition, Gen
      <3> QED BY <3>1, <3>2
    <2> DEFINE next == Hashed([work EXCEPT !.ready = RootCondition(work)])
    <2>2. next \in Class /\ stored \in Class
      BY <1>7, <2>1, HashedType DEF SubsDone
    <2> HIDE ClassFields, ClassUpdates DEF next
    <2>3. \/ Return(Outcome(next, FALSE))
          \/ /\ work' = next /\ pc' \in {"annotate", "status"}
             /\ UNCHANGED <<queueVars, stored, behind, todo, failed>>
      BY <1>7 DEF SubsDone, next
    <2>4. CASE Return(Outcome(next, FALSE))
      BY <2>4, ReturnTypes
    <2>5. CASE /\ work' = next /\ pc' \in {"annotate", "status"}
               /\ UNCHANGED <<queueVars, stored, behind, todo, failed>>
      BY <2>2, <2>5 DEF queueVars
    <2> QED BY <2>3, <2>4, <2>5
  <1>8. CASE AnnotatePatch
    BY <1>8 DEF AnnotatePatch, Current, Patched, queueVars
  <1>9. CASE AnnotateError
    BY <1>9 DEF AnnotateError, Written, queueVars
  <1>10. CASE \E next : Return(next)
    BY <1>10, ReturnTypes
  <1>11. CASE FinalizeListed
    <2>1. CASE \E next : Return(next)
      BY <2>1, <1>10
    <2>2. CASE pc' = "unfinalize" /\ UNCHANGED <<queueVars, work, stored, behind, todo, failed>>
      BY <1>11, <2>2 DEF queueVars, FinalizeListed
    <2> QED BY <1>11, <2>1, <2>2 DEF FinalizeListed
  <1>12. CASE UNCHANGED <<passVars, queueVars>>
    BY <1>12 DEF passVars, queueVars
  <1>13. CASE \E c \in Claims : ClaimEvent(c)
    BY <1>13 DEF ClaimEvent, passVars, queueVars
  <1> QED
    BY <1>1, <1>2, <1>3, <1>4, <1>5, <1>6, <1>7, <1>8, <1>9, <1>10, <1>11, <1>12, <1>13
       DEF Next, Pass, Errors, Creating, vars, StatusPatch, StatusError, RemoveFinalizer,
           FinalizerError, Conflict, PatchNotFound, FinalizeWaits, OciChanges, ClaimCreated,
           ClaimRemoved, CreateChecks, CreateLaunches, CreateFails

\* A step keeps the types of the claims, the bounds and the histories.
LEMMA RestStep ==
  ASSUME TypeOK, PassHasCopies, [Next]_vars
  PROVE  RestTyped
  <1> USE DEF TypeOK, RestTyped, claimVars, history
  <1>1. CASE SubsDone
    <2>1. work \in Class /\ work.static \in Gen
      BY <1>1, ClassFields DEF SubsDone, PassHasCopies
    <2>2. [work EXCEPT !.ready = RootCondition(work)].static = work.static
      BY <2>1 DEF Class
    <2> QED BY <1>1, <2>1, <2>2 DEF SubsDone
  <1>2. CASE StatusError
    BY <1>2 DEF StatusError
  <1>3. CASE Crash
    <2>1. crashes' \in 0..MaxCrashes
      BY <1>3, NodeClassAssumption DEF Crash
    <2> QED BY <1>3, <2>1 DEF Crash
  <1>4. CASE \E k \in Kinds : OciChanges(k)
    BY <1>4 DEF OciChanges
  <1>5. ASSUME NEW c \in Claims, ClaimCreated(c) \/ ClaimRemoved(c) \/ ClaimEvent(c) \/ Creating(c)
        PROVE  RestTyped
    BY <1>5 DEF ClaimCreated, ClaimRemoved, ClaimEvent, Creating, CreateChecks, CreateLaunches, CreateFails
  <1>6. CASE UNCHANGED <<resolvable, claimVars, crashes, history>>
    BY <1>6
  <1> QED
    BY <1>1, <1>2, <1>3, <1>4, <1>5, <1>6
       DEF Next, Pass, Errors, vars, EditSpec, DeleteClass, ClassEvent, TimerFires, StartPass,
           SubReconcile, AddFinalizer, AnnotatePatch, StatusPatch, Conflict, PatchNotFound,
           FinalizeWaits, FinalizeListed, RemoveFinalizer, AnnotateError, FinalizerError

\* A step keeps all types, and a pass has its copies.
LEMMA TypeStep ==
  ASSUME TypeOK, PassHasCopies, GenerationsBounded, [Next]_vars
  PROVE  TypeOK' /\ PassHasCopies'
  BY ObjectStep, PassStep, RestStep DEF TypeOK, PassHasCopies, ObjectTyped, PassTyped, RestTyped
-----------------------------------------------------------------------------
(* The object *)

\* The parts of the invariant that are about the object and the informer's copy.
ClassInv ==
  /\ GenerationsBounded /\ CopyTrails /\ ReadyHasFinalizer
  /\ ReadyMeansHashed /\ ReadyMeansResolved

\* An object written by a user or the API server's deletion is of a new generation,
\* and so not Ready.
LEMMA ClassStepUser ==
  ASSUME IInv, TypeOK', EditSpec \/ DeleteClass PROVE ClassInv'
  <1>1. /\ obj \in Class /\ obj # None /\ TypeOK /\ GenerationsBounded
        /\ lag' /\ UNCHANGED cache
    BY DEF IInv, TypeOK, EditSpec, DeleteClass, Written
  <1>2. CASE obj' = None
    <2>1. ~obj.fin
      BY <1>1, <1>2, Edited, Deleted, NoneAssumption
    <2> QED BY <1>1, <1>2, <2>1 DEF IInv, ClassInv, GenerationsBounded, CopyTrails,
               ReadyHasFinalizer, ReadyMeansHashed, ReadyMeansResolved
  <1>3. CASE obj' # None
    <2>1. /\ obj'.gen = obj.gen + 1 /\ obj'.ready = obj.ready /\ obj'.fin = obj.fin
          /\ obj.del => obj'.del
          /\ ~obj'.del => obj'.gen <= MaxGen
      BY <1>1, <1>3, Edited, Deleted
    <2>2. obj'.ready.gen <= obj'.gen /\ obj'.ready.gen # obj'.gen
      <3>1. obj.ready.gen <= obj.gen /\ obj.gen \in Nat /\ obj.ready.gen \in Nat
        BY <1>1, Generations DEF GenerationsBounded
      <3> QED BY <2>1, <3>1
    <2> QED BY <1>1, <1>3, <2>1, <2>2 DEF IInv, ClassInv, GenerationsBounded, CopyTrails,
               ReadyHasFinalizer, ReadyMeansHashed, ReadyMeansResolved, Ready
  <1> QED BY <1>2, <1>3

\* A patch that writes the finalizer or the hash of this spec.
LEMMA ClassStepPatch ==
  ASSUME IInv, obj \in Class, obj' \in Class,
         /\ obj'.gen = obj.gen /\ obj'.static = obj.static /\ obj'.wants = obj.wants /\ obj'.del = obj.del
         /\ obj.fin => obj'.fin
         /\ obj'.cond = obj.cond /\ obj'.ready = obj.ready
         /\ obj'.hash \in {obj.hash, obj.static},
         lag' = TRUE, UNCHANGED cache
  PROVE  ClassInv'
  BY NoneAssumption DEF IInv, ClassInv, GenerationsBounded, CopyTrails, ReadyHasFinalizer,
     ReadyMeansHashed, ReadyMeansResolved, Ready, Dependents

\* The status patch writes a Ready that follows from conditions of this generation,
\* onto an object that has the hash of this spec.
LEMMA ClassStepStatus ==
  ASSUME IInv, pc = "status", Current, stored # work, lag' = TRUE, UNCHANGED cache,
         obj' = [obj EXCEPT !.cond = work.cond, !.ready = work.ready]
  PROVE  ClassInv'
  <1>1. obj \in Class /\ work \in Class /\ obj # None
    BY DEF IInv, PassHasCopies, Current, TypeOK
  <1>2. stored = obj /\ SameSpec(work, obj) /\ work.hash = obj.hash
    BY DEF IInv, PassInSync, HashFirst, Current
  <1>3. /\ SameSpec(obj', obj) /\ obj'.hash = obj.hash
        /\ obj'.cond = work.cond /\ obj'.ready = work.ready
    BY <1>1 DEF Class, SameSpec
  <1>4. /\ work.fin /\ work.ready = RootCondition(work)
        /\ \A k \in Dependents(work) : work.cond[k].gen = work.gen
        /\ work.ready.st = "true" => work.hash = work.static
    BY DEF IInv, ResultSound
  <1>5. work.ready.gen = work.gen /\ (work.ready.st = "true" => \A k \in Dependents(work) : work.cond[k].st = "true")
    BY <1>4 DEF RootCondition
  <1>6. \A k \in Dependents(work) : work.cond[k] \in Condition
    BY <1>1, ClassFields, NodeClassAssumption DEF Dependents
  <1>7. ReadyMeansResolved'
    <2>1. Dependents(work) = Dependents(obj')
      BY <1>2, <1>3 DEF Dependents, SameSpec
    <2>2. ASSUME NEW k \in Dependents(work), work.ready.st = "true"
          PROVE  work.cond[k] = [st |-> "true", gen |-> work.gen]
      BY <1>4, <1>5, <1>6, <2>2 DEF Condition
    <2> QED BY <1>2, <1>3, <2>1, <2>2 DEF ReadyMeansResolved, Ready, SameSpec, Dependents
  <1>8. ReadyMeansHashed'
    BY <1>2, <1>3, <1>4 DEF ReadyMeansHashed, Ready, SameSpec
  <1>9. ReadyHasFinalizer'
    BY <1>2, <1>3, <1>4 DEF ReadyHasFinalizer, SameSpec, IInv
  <1>10. GenerationsBounded'
    <2>1. obj'.gen \in Nat
      BY <1>1, <1>3, Generations DEF SameSpec
    <2> QED BY <1>1, <1>2, <1>3, <1>5, <2>1 DEF GenerationsBounded, SameSpec, IInv
  <1>11. CopyTrails'
    <2>1. obj' \in Class
      BY <1>1, ClassFields, ClassUpdates
    <2> QED BY <1>1, <1>3, <2>1, NoneAssumption DEF CopyTrails, SameSpec, IInv
  <1> QED BY <1>7, <1>8, <1>9, <1>10, <1>11 DEF ClassInv

\* The finalizer goes only after the informer's copy shows the deletion.
LEMMA ClassStepGone ==
  ASSUME IInv, pc = "unfinalize", obj' = None, lag' = TRUE, UNCHANGED cache
  PROVE  ClassInv'
  BY DEF IInv, ClassInv, GenerationsBounded, CopyTrails, ReadyHasFinalizer,
     ReadyMeansHashed, ReadyMeansResolved, FinalizeSound

\* A step that writes neither object nor copy keeps what is known of them.
LEMMA ClassSame == ASSUME IInv, UNCHANGED classVars PROVE ClassInv'
  BY DEF IInv, ClassInv, GenerationsBounded, CopyTrails, ReadyHasFinalizer,
     ReadyMeansHashed, ReadyMeansResolved, Ready, Dependents, classVars

\* Every step keeps what is known of the object and its copy.
LEMMA ClassStep == ASSUME IInv, TypeOK', [Next]_vars PROVE ClassInv'
  <1>1. CASE EditSpec \/ DeleteClass
    BY <1>1, ClassStepUser
  <1>2. CASE ClassEvent \/ Crash
    BY <1>2 DEF ClassEvent, Crash, IInv, ClassInv, GenerationsBounded, CopyTrails, ReadyHasFinalizer,
       ReadyMeansHashed, ReadyMeansResolved, Ready, Dependents
  <1>3. CASE /\ obj # None /\ obj' = [obj EXCEPT !.fin = TRUE] /\ lag' = TRUE /\ UNCHANGED cache
    <2>1. obj \in Class
      BY <1>3 DEF IInv, TypeOK
    <2> QED BY <1>3, <2>1, ClassUpdates, UpdatedFields, ClassStepPatch
  <1>4. CASE /\ pc = "annotate" /\ Current
             /\ obj' = [obj EXCEPT !.hash = work.hash] /\ lag' = TRUE /\ UNCHANGED cache
    <2>1. obj \in Class /\ work \in Class /\ work.hash \in Gen
      BY <1>4, ClassFields DEF IInv, TypeOK, PassHasCopies, Current
    <2>2. work.hash = obj.static
      BY <1>4 DEF IInv, HashFirst, PassInSync, Current, SameSpec
    <2>3. /\ SameSpec(obj', obj) /\ obj'.hash = obj.static
          /\ obj'.cond = obj.cond /\ obj'.ready = obj.ready
      BY <1>4, <2>1, <2>2 DEF Class, SameSpec
    <2>4. obj' \in Class
      BY <1>4, <2>1, ClassUpdates
    <2> QED BY <1>4, <2>1, <2>3, <2>4, ClassStepPatch DEF SameSpec
  <1>5. CASE /\ pc = "status" /\ Current /\ stored # work
             /\ obj' = [obj EXCEPT !.cond = work.cond, !.ready = work.ready]
             /\ lag' = TRUE /\ UNCHANGED cache
    BY <1>5, ClassStepStatus
  <1>6. CASE pc = "unfinalize" /\ obj' = None /\ lag' = TRUE /\ UNCHANGED cache
    BY <1>6, ClassStepGone
  <1>7. CASE UNCHANGED classVars
    BY <1>7, ClassSame
  <1>8. CASE UNCHANGED <<obj, cache>> /\ lag' = TRUE
    BY <1>8 DEF IInv, ClassInv, GenerationsBounded, CopyTrails, ReadyHasFinalizer,
       ReadyMeansHashed, ReadyMeansResolved, Ready, Dependents
  <1> QED
    BY <1>1, <1>2, <1>3, <1>4, <1>5, <1>6, <1>7, <1>8
       DEF Next, Pass, Errors, Creating, vars, classVars, Patched, Written, Current, TimerFires, StartPass,
           SubReconcile, SubsDone, AddFinalizer, AnnotatePatch, StatusPatch, AnnotateError,
           StatusError, FinalizerError, RemoveFinalizer,
           Conflict, PatchNotFound, FinalizeWaits, FinalizeListed, OciChanges, ClaimCreated,
           ClaimRemoved, ClaimEvent, CreateChecks, CreateLaunches, CreateFails
-----------------------------------------------------------------------------
(* The pass *)

PassInv == PassInSync /\ SubsProgress /\ ResultSound /\ HashFirst

\* Between passes there is nothing to keep.
LEMMA PassOver == ASSUME pc' = "idle" PROVE PassInv'
  BY DEF PassInv, PassInSync, SubsProgress, ResultSound, HashFirst

\* Somebody else's write leaves the pass behind, other steps leave it alone.
LEMMA PassSame ==
  ASSUME IInv, UNCHANGED <<pc, work, stored, todo>>,
         behind' = TRUE \/ UNCHANGED <<obj, behind>>
  PROVE  PassInv'
  BY DEF IInv, PassInv, PassInSync, SubsProgress, ResultSound, HashFirst, SameSpec, Dependents,
         RootCondition

\* A pass begins with two equal copies, of the object itself if the informer is not
\* behind, and with all the sub-reconcilers to run.
LEMMA PassStarts == ASSUME IInv, StartPass, cache # None PROVE PassInv'
  <1>1. /\ work' = cache /\ stored' = cache /\ behind' = lag /\ todo' = Order
        /\ pc' = (IF cache.del THEN "list" ELSE IF cache.fin THEN "subs" ELSE "finalizer")
        /\ UNCHANGED obj
    BY DEF StartPass, classVars
  <1>2. cache \in Class
    BY DEF IInv, TypeOK
  <1>3. PassInSync'
    BY <1>1 DEF PassInSync, SameSpec, IInv, CopyTrails
  <1>4. \A k \in Dependents(work') : \E n \in DOMAIN Order : Order[n] = k
    BY <1>1, <1>2, ClassFields, NodeClassAssumption DEF Dependents
  <1>5. SubsProgress'
    BY <1>1, <1>4 DEF SubsProgress, Dependents
  <1>6. ResultSound' /\ HashFirst'
    BY <1>1 DEF ResultSound, HashFirst
  <1> QED BY <1>3, <1>5, <1>6 DEF PassInv

\* The finalizer's patch returns the object: both copies are it.
LEMMA PassFinalizes == ASSUME IInv, AddFinalizer PROVE PassInv'
  <1>1. obj \in Class
    BY DEF IInv, TypeOK, AddFinalizer, Current
  <1>2. /\ obj' = [obj EXCEPT !.fin = TRUE] /\ work' = obj' /\ stored' = obj'
        /\ pc' = "subs" /\ todo' = Order /\ behind' = behind
    BY DEF AddFinalizer, Patched, IInv, SubsProgress
  <1>3. obj'.fin /\ obj' \in Class
    BY <1>1, <1>2, UpdatedFields, ClassUpdates
  <1>4. \A k \in Dependents(work') : \E n \in DOMAIN Order : Order[n] = k
    BY <1>2, <1>3, ClassFields, NodeClassAssumption DEF Dependents
  <1>5. PassInSync'
    BY <1>2 DEF PassInSync, SameSpec
  <1>6. SubsProgress'
    BY <1>2, <1>3, <1>4 DEF SubsProgress, Dependents
  <1>7. ResultSound' /\ HashFirst'
    BY <1>2 DEF ResultSound, HashFirst
  <1> QED BY <1>5, <1>6, <1>7 DEF PassInv

\* What is left of the queue of sub-reconcilers after its head.
LEMMA StillToDo ==
  ASSUME NEW s \in Seq(Kinds), s # <<>>, NEW k, \E n \in DOMAIN s : s[n] = k, k # Head(s)
  PROVE  \E n \in DOMAIN Tail(s) : Tail(s)[n] = k
  <1>1. PICK n \in DOMAIN s : s[n] = k
    OBVIOUS
  <1>2. n \in 1..Len(s) /\ n # 1 /\ Len(s) \in Nat
    BY <1>1, LenProperties
  <1>3. Len(Tail(s)) = Len(s) - 1 /\ DOMAIN Tail(s) = 1..(Len(s) - 1)
    BY HeadTailProperties, LenProperties
  <1>4. n - 1 \in DOMAIN Tail(s) /\ Tail(s)[n - 1] = s[n]
    BY <1>2, <1>3, HeadTailProperties
  <1> QED BY <1>1, <1>4

\* A sub-reconciler replaces the condition of its own kind, for this generation.
LEMMA PassReconciles == ASSUME IInv, SubReconcile PROVE PassInv'
  <1> DEFINE k == Head(todo)
             x == IF k \in Optional THEN ReconcileOptional(work, k) ELSE ReconcileRequired(work, k)
  <1>1. /\ pc = "subs" /\ pc' = "subs" /\ todo # <<>> /\ todo' = Tail(todo)
        /\ work' = [work EXCEPT !.cond[k] = x]
        /\ UNCHANGED <<obj, stored, behind>>
    BY DEF SubReconcile, classVars
  <1>2. work \in Class /\ todo \in Seq(Kinds)
    BY <1>1 DEF IInv, PassHasCopies, TypeOK
  <1>3. k \in Kinds
    BY <1>1, <1>2, HeadTailProperties
  <1>4. /\ SameSpec(work', work) /\ work'.hash = work.hash
        /\ work'.cond[k] = x /\ \A j \in Kinds : j # k => work'.cond[j] = work.cond[j]
    <2> HIDE DEF k, x
    <2> QED BY <1>1, <1>2, <1>3 DEF Class, SameSpec
  <1>5. k \in Dependents(work) => x.gen = work.gen
    BY DEF Dependents, ReconcileOptional, ReconcileRequired
  <1> HIDE DEF k, x
  <1>6. SameSpec(work', stored) /\ work'.fin /\ work'.hash = stored.hash
    BY <1>1, <1>4 DEF IInv, PassInSync, SubsProgress, SameSpec
  <1>7. PassInSync'
    BY <1>1, <1>6 DEF PassInSync, IInv, SameSpec
  <1>8. ASSUME NEW j \in Dependents(work)
        PROVE  (\E n \in DOMAIN todo' : todo'[n] = j) \/ work'.cond[j].gen = work.gen
    <2>1. j \in Kinds
      BY <1>2, ClassFields, NodeClassAssumption DEF Dependents
    <2>2. CASE j = k
      BY <1>4, <1>5, <2>2
    <2>3. CASE j # k /\ \E n \in DOMAIN todo : todo[n] = j
      BY <1>1, <1>2, <2>3, StillToDo DEF k
    <2>4. CASE j # k /\ work.cond[j].gen = work.gen
      BY <1>4, <2>1, <2>4
    <2> QED BY <1>1, <2>2, <2>3, <2>4 DEF IInv, SubsProgress
  <1>9. SubsProgress'
    BY <1>1, <1>4, <1>6, <1>8 DEF SubsProgress, Dependents, SameSpec
  <1>10. ResultSound' /\ HashFirst'
    BY <1>1 DEF ResultSound, HashFirst
  <1> QED BY <1>7, <1>9, <1>10 DEF PassInv

\* The end of the sub-reconcilers: Ready follows from their conditions, and a class
\* that is Ready gets the hash of its spec.
LEMMA PassConcludes == ASSUME IInv, SubsDone PROVE PassInv'
  <1> DEFINE done == [work EXCEPT !.ready = RootCondition(work)]
             next == Hashed(done)
  <1>1. pc = "subs" /\ todo = <<>> /\ UNCHANGED obj
    BY DEF SubsDone, classVars
  <1>2. work \in Class /\ stored \in Class
    BY <1>1 DEF IInv, PassHasCopies
  <1>3. /\ SameSpec(work, stored) /\ work.fin /\ work.hash = stored.hash
        /\ obj # None /\ ~behind => stored = obj
        /\ \A k \in Dependents(work) : work.cond[k].gen = work.gen
    BY <1>1 DEF IInv, PassInSync, SubsProgress
  <1>4. SameSpec(done, work) /\ done.hash = work.hash /\ done.cond = work.cond /\ done.ready = RootCondition(work)
    BY <1>2 DEF Class, SameSpec
  <1>5. done \in Class
    <2>1. RootCondition(work) \in Condition
      BY <1>2, ClassFields DEF RootCondition, Condition
    <2> QED BY <1>2, <2>1, ClassUpdates
  <1> HIDE DEF done
  <1>6. /\ SameSpec(next, work) /\ next.cond = work.cond /\ next.ready = RootCondition(work)
        /\ next.ready.st = "true" => next.hash = next.static
        /\ next.hash # work.hash => next.hash = next.static
    <2>1. CASE done.ready.st = "true"
      <3>1. next = [done EXCEPT !.hash = done.static]
        BY <2>1 DEF Hashed
      <3>2. SameSpec(next, done) /\ next.hash = done.static /\ next.cond = done.cond /\ next.ready = done.ready
        BY <1>5, <3>1 DEF Class, SameSpec
      <3> HIDE DEF next
      <3> QED BY <1>4, <3>2 DEF SameSpec
    <2>2. CASE done.ready.st # "true"
      <3>1. next = done
        BY <2>2 DEF Hashed
      <3> HIDE DEF next
      <3> QED BY <1>4, <2>2, <3>1 DEF SameSpec
    <2> QED BY <2>1, <2>2
  <1> HIDE DEF next
  <1>7. RootCondition(next) = RootCondition(work) /\ Dependents(next) = Dependents(work)
    BY <1>6 DEF RootCondition, Dependents, SameSpec
  <1>8. \/ pc' = "idle"
        \/ /\ work' = next /\ UNCHANGED <<stored, behind>>
           /\ pc' = IF next.hash # stored.hash THEN "annotate" ELSE "status"
    BY DEF SubsDone, Return, next, done
  <1>9. CASE pc' = "idle"
    BY <1>9, PassOver
  <1>10. CASE /\ work' = next /\ UNCHANGED <<stored, behind>>
              /\ pc' = IF next.hash # stored.hash THEN "annotate" ELSE "status"
    <2>1. PassInSync'
      BY <1>1, <1>3, <1>6, <1>10 DEF PassInSync, SameSpec
    <2>2. SubsProgress'
      BY <1>10 DEF SubsProgress
    <2>3. ResultSound'
      <3>1. next.fin /\ \A k \in Dependents(next) : next.cond[k].gen = next.gen
        BY <1>3, <1>6, <1>7 DEF SameSpec
      <3>2. next.ready = RootCondition(next)
        BY <1>6, <1>7
      <3> QED BY <1>6, <1>10, <3>1, <3>2 DEF ResultSound, RootCondition, Dependents
    <2>4. HashFirst'
      BY <1>3, <1>6, <1>10 DEF HashFirst
    <2> QED BY <2>1, <2>2, <2>3, <2>4 DEF PassInv
  <1> QED BY <1>8, <1>9, <1>10

\* The response of the annotation patch is what the status patch is computed against.
LEMMA PassAnnotates == ASSUME IInv, AnnotatePatch PROVE PassInv'
  <1>1. /\ pc = "annotate" /\ pc' = "status" /\ Current
        /\ obj' = [obj EXCEPT !.hash = work.hash] /\ stored' = obj'
        /\ UNCHANGED <<work, behind>>
    BY DEF AnnotatePatch, Patched
  <1>2. obj \in Class /\ work \in Class
    BY <1>1 DEF IInv, TypeOK, PassHasCopies, Current
  <1>3. SameSpec(work, obj)
    BY <1>1 DEF IInv, PassInSync, Current
  <1>4. SameSpec(obj', obj) /\ obj'.hash = work.hash
    BY <1>1, <1>2 DEF Class, SameSpec
  <1>5. PassInSync' /\ SubsProgress' /\ HashFirst'
    BY <1>1, <1>3, <1>4 DEF PassInSync, SubsProgress, HashFirst, SameSpec
  <1>6. ResultSound'
    BY <1>1 DEF IInv, ResultSound, Dependents, RootCondition
  <1> QED BY <1>5, <1>6 DEF PassInv

\* When it fails the status patch is left without content.
LEMMA PassAnnotateFails == ASSUME IInv, AnnotateError PROVE PassInv'
  <1>1. /\ pc = "annotate" /\ pc' = "status" /\ stored' = work /\ UNCHANGED work
    BY DEF AnnotateError
  <1>2. PassInSync' /\ SubsProgress' /\ HashFirst'
    BY <1>1 DEF PassInSync, SubsProgress, HashFirst, SameSpec
  <1>3. ResultSound'
    BY <1>1 DEF IInv, ResultSound, Dependents, RootCondition
  <1> QED BY <1>2, <1>3 DEF PassInv

\* Every step keeps what is known of the pass.
LEMMA PassKeeps == ASSUME IInv, [Next]_vars PROVE PassInv'
  <1>1. CASE pc' = "idle"
    BY <1>1, PassOver
  <1>2. CASE /\ UNCHANGED <<pc, work, stored, todo>>
             /\ behind' = TRUE \/ UNCHANGED <<obj, behind>>
    BY <1>2, PassSame
  <1>3. CASE StartPass /\ cache # None
    BY <1>3, PassStarts
  <1>4. CASE AddFinalizer \/ SubReconcile \/ SubsDone
    BY <1>4, PassFinalizes, PassReconciles, PassConcludes
  <1>5. CASE AnnotatePatch \/ AnnotateError
    BY <1>5, PassAnnotates, PassAnnotateFails
  <1>6. CASE /\ pc = "list" /\ pc' = "unfinalize" /\ UNCHANGED <<work, stored, behind, obj>>
    BY <1>6 DEF IInv, PassInv, PassInSync, SubsProgress, ResultSound, HashFirst, SameSpec
  <1> QED
    BY <1>1, <1>2, <1>3, <1>4, <1>5, <1>6
       DEF Next, Pass, Errors, Creating, vars, classVars, passVars, Return, Patched, Written, TimerFires, StartPass,
           StatusPatch, StatusError, FinalizerError, RemoveFinalizer, EditSpec, DeleteClass, ClassEvent, Crash,
           Conflict, PatchNotFound, FinalizeWaits, FinalizeListed, OciChanges, ClaimCreated,
           ClaimRemoved, ClaimEvent, CreateChecks, CreateLaunches, CreateFails
-----------------------------------------------------------------------------
(* Hashes, claims and the finalizer *)

\* Hashes are copied from one copy to another; the one that is computed is of a spec
\* found Ready in the same step.
LEMMA HashStep == ASSUME IInv, [Next]_vars PROVE HashesProven'
  <1> DEFINE H == proven \cup {0}
  <1>1. /\ obj # None => obj \in Class /\ obj.hash \in H
        /\ cache # None => cache \in Class /\ cache.hash \in H
        /\ pc # "idle" => work \in Class /\ stored \in Class /\ work.hash \in H /\ stored.hash \in H
    BY DEF IInv, TypeOK, PassHasCopies, HashesProven
  <1>2. CASE SubsDone
    <2> DEFINE done == [work EXCEPT !.ready = RootCondition(work)]
               next == Hashed(done)
    <2>1. work \in Class /\ done.hash = work.hash /\ done.static = work.static
      BY <1>1, <1>2 DEF SubsDone, Class
    <2>2. done \in Class
      <3>1. RootCondition(work) \in Condition
        BY <2>1, ClassFields DEF RootCondition, Condition
      <3> QED BY <2>1, <3>1, ClassUpdates
    <2>3. proven' = IF done.ready.st = "true" THEN proven \cup {done.static} ELSE proven
      BY <1>2 DEF SubsDone
    <2>4. \/ pc' = "idle"
          \/ work' = next /\ UNCHANGED stored
      BY <1>2 DEF SubsDone, Return
    <2>5. UNCHANGED <<obj, cache>> /\ pc = "subs"
      BY <1>2 DEF SubsDone, classVars
    <2> HIDE DEF done
    <2>6. next.hash \in proven' \cup {0}
      <3>1. CASE done.ready.st = "true"
        <4>1. next = [done EXCEPT !.hash = done.static]
          BY <3>1 DEF Hashed
        <4>2. next.hash = done.static
          BY <2>2, <4>1 DEF Class
        <4> HIDE DEF next
        <4> QED BY <2>3, <3>1, <4>2
      <3>2. CASE done.ready.st # "true"
        <4>1. next = done
          BY <3>2 DEF Hashed
        <4> HIDE DEF next
        <4> QED BY <1>1, <2>1, <2>3, <2>5, <3>2, <4>1
      <3> QED BY <3>1, <3>2
    <2> HIDE DEF next
    <2>7. H \subseteq proven' \cup {0}
      BY <2>3
    <2> QED BY <1>1, <2>4, <2>5, <2>6, <2>7 DEF HashesProven
  <1>3. ASSUME ~SubsDone
        PROVE  /\ UNCHANGED proven
               /\ obj' # None => obj'.hash \in H
               /\ cache' # None => cache'.hash \in H
               /\ pc' # "idle" => work'.hash \in H /\ stored'.hash \in H
    <2>1. UNCHANGED proven
      BY <1>3 DEF Next, Pass, Errors, Creating, vars, history, TimerFires, StartPass, SubReconcile,
           AddFinalizer, AnnotatePatch, AnnotateError,
           StatusPatch, StatusError, FinalizerError, RemoveFinalizer, EditSpec, DeleteClass, ClassEvent, Crash,
           Conflict, PatchNotFound, FinalizeWaits, FinalizeListed, OciChanges, ClaimCreated,
           ClaimRemoved, ClaimEvent, CreateChecks, CreateLaunches, CreateFails
    <2>2. obj' # None => obj'.hash \in H
      <3>1. CASE EditSpec
        BY <1>1, <3>1, Edited DEF IInv, EditSpec
      <3>2. CASE DeleteClass
        BY <1>1, <3>2, Deleted DEF IInv, DeleteClass
      <3>3. CASE AnnotatePatch \/ AnnotateError
        <4>1. CASE UNCHANGED obj
          BY <1>1, <4>1
        <4>2. CASE obj' = [obj EXCEPT !.hash = work.hash]
          <5>1. obj # None /\ pc # "idle"
            BY <3>3 DEF AnnotatePatch, AnnotateError, Current
          <5>2. obj'.hash = work.hash
            BY <1>1, <4>2, <5>1 DEF Class
          <5> QED BY <1>1, <5>1, <5>2
        <4> QED BY <3>3, <4>1, <4>2 DEF AnnotatePatch, AnnotateError, Patched, Written
      <3>4. CASE StatusPatch \/ StatusError
        BY <1>1, <3>4 DEF StatusPatch, StatusError, Patched, Current, Class
      <3>5. CASE AddFinalizer \/ FinalizerError \/ RemoveFinalizer
        BY <1>1, <3>5 DEF AddFinalizer, FinalizerError, RemoveFinalizer, Patched, Current, Class
      <3>6. CASE UNCHANGED obj
        BY <1>1, <3>6
      <3> QED BY <1>3, <3>1, <3>2, <3>3, <3>4, <3>5, <3>6
              DEF Next, Pass, Errors, Creating, vars, classVars, TimerFires, StartPass, SubReconcile,
                  ClassEvent, Crash, Conflict, PatchNotFound, FinalizeWaits, FinalizeListed,
                  OciChanges, ClaimCreated, ClaimRemoved, ClaimEvent, CreateChecks,
                  CreateLaunches, CreateFails
    <2>3. cache' # None => cache'.hash \in H
      <3>1. cache' \in {cache, obj}
        BY DEF Next, Pass, Errors, Creating, vars, classVars, TimerFires, StartPass, SubReconcile,
           SubsDone, AddFinalizer, AnnotatePatch, AnnotateError,
           StatusPatch, StatusError, FinalizerError, RemoveFinalizer, EditSpec, DeleteClass, ClassEvent, Crash,
           Conflict, PatchNotFound, FinalizeWaits, FinalizeListed, OciChanges, ClaimCreated,
           ClaimRemoved, ClaimEvent, CreateChecks, CreateLaunches, CreateFails
      <3> QED BY <1>1, <3>1
    <2>4. pc' # "idle" => work'.hash \in H /\ stored'.hash \in H
      <3>1. CASE SubReconcile
        <4>1. work \in Class /\ work'.hash = work.hash /\ UNCHANGED stored
          BY <1>1, <3>1 DEF SubReconcile, Class
        <4> QED BY <1>1, <3>1, <4>1 DEF SubReconcile
      <3>2. CASE StartPass \/ AddFinalizer \/ AnnotatePatch \/ AnnotateError
        <4>1. CASE StartPass
          BY <1>1, <4>1 DEF StartPass, passVars
        <4>2. CASE AddFinalizer
          <5>1. obj' # None
            BY <1>1, <4>2, ClassUpdates, NoneAssumption DEF AddFinalizer, Patched, Current
          <5> QED BY <4>2, <5>1, <2>2 DEF AddFinalizer
        <4>3. CASE AnnotatePatch
          <5>1. stored'.hash = work.hash
            BY <1>1, <4>3 DEF AnnotatePatch, Patched, Current, Class
          <5> QED BY <1>1, <4>3, <5>1 DEF AnnotatePatch
        <4>4. CASE AnnotateError
          BY <1>1, <4>4 DEF AnnotateError
        <4> QED BY <3>2, <4>1, <4>2, <4>3, <4>4
      <3>3. CASE pc' = "idle"
        BY <3>3
      <3>4. CASE pc # "idle" /\ UNCHANGED <<work, stored>>
        BY <1>1, <3>4
      <3>5. CASE UNCHANGED <<pc, work, stored>>
        BY <1>1, <3>5
      <3> QED BY <1>3, <3>1, <3>2, <3>3, <3>4, <3>5
              DEF Next, Pass, Errors, Creating, vars, passVars, Return, TimerFires,
                  StatusPatch, StatusError, FinalizerError, RemoveFinalizer, EditSpec, DeleteClass, ClassEvent, Crash,
                  Conflict, PatchNotFound, FinalizeWaits, FinalizeListed, OciChanges, ClaimCreated,
                  ClaimRemoved, ClaimEvent, CreateChecks, CreateLaunches, CreateFails
    <2> QED BY <2>1, <2>2, <2>3, <2>4
  <1> QED BY <1>2, <1>3 DEF HashesProven

\* The class a Create call works for stays: it is let go neither without a finalizer,
\* which a class that was Ready has, nor by finalize, which sees the claim.
LEMMA ClaimStep ==
  ASSUME IInv, TypeOK', [Next]_vars
  PROVE  InCreate' /\ FinalizeSound'
  <1> USE DEF InCreate, FinalizeSound
  <1>1. /\ obj # None => obj \in Class
        /\ cache # None => cache \in Class
    BY DEF IInv, TypeOK
  <1>2. CASE EditSpec
    <2>1. obj' # None /\ obj'.fin = obj.fin /\ ~obj.del /\ obj # None
      BY <1>2, Edited, NoneAssumption DEF IInv
    <2> QED BY <1>2, <2>1 DEF EditSpec, IInv, claimVars
  <1>3. CASE DeleteClass
    <2>1. obj # None /\ ~obj.del /\ (obj.fin => obj' # None /\ obj'.fin)
      BY <1>3, Deleted, NoneAssumption DEF IInv, DeleteClass
    <2> QED BY <1>3, <2>1 DEF DeleteClass, IInv, claimVars
  <1>4. CASE ClassEvent \/ Crash
    BY <1>4 DEF ClassEvent, Crash, IInv, claimVars, passVars
  <1>5. ASSUME NEW c \in Claims, ClaimCreated(c) \/ ClaimRemoved(c) \/ ClaimEvent(c)
        PROVE  InCreate' /\ FinalizeSound'
    BY <1>5 DEF ClaimCreated, ClaimRemoved, ClaimEvent, IInv, TypeOK, classVars, passVars
  <1>6. ASSUME NEW c \in Claims, CreateChecks(c)
        PROVE  InCreate' /\ FinalizeSound'
    <2>1. cache # None /\ ~cache.del /\ cache.fin
      BY <1>6 DEF CreateChecks, Ready, IInv, ReadyHasFinalizer
    <2>2. obj # None /\ obj.fin
      BY <2>1 DEF IInv, CopyTrails
    <2>3. pc \notin {"list", "unfinalize"}
      BY <2>1 DEF IInv
    <2> QED BY <1>6, <2>2, <2>3 DEF CreateChecks, IInv, TypeOK, classVars, passVars
  <1>7. ASSUME NEW c \in Claims, CreateLaunches(c) \/ CreateFails(c)
        PROVE  InCreate' /\ FinalizeSound'
    BY <1>7 DEF CreateLaunches, CreateFails, IInv, TypeOK, classVars, passVars
  <1>8. CASE FinalizeListed
    BY <1>8 DEF FinalizeListed, Return, IInv, classVars, claimVars
  <1>9. CASE StartPass
    <2>1. CASE cache = None
      BY <1>9, <2>1 DEF StartPass, IInv, classVars, claimVars, passVars
    <2>2. CASE cache # None
      BY <1>9, <2>2 DEF StartPass, IInv, CopyTrails, classVars, claimVars
    <2> QED BY <2>1, <2>2
  <1>10. CASE pc = "unfinalize" /\ pc' = "idle" /\ UNCHANGED claimVars
    BY <1>10 DEF IInv, claimVars
  <1>11. CASE AddFinalizer \/ AnnotatePatch \/ AnnotateError \/ StatusPatch \/ StatusError \/ FinalizerError
    <2>1. obj # None => obj' = obj \/ (obj' # None /\ (obj.fin => obj'.fin)) \/ pc = "unfinalize"
      <3>1. CASE AddFinalizer \/ FinalizerError
        <4>1. \/ obj' = obj \/ obj' = [obj EXCEPT !.fin = TRUE] \/ pc = "unfinalize"
          BY <3>1 DEF AddFinalizer, FinalizerError, Patched
        <4>2. obj # None => [obj EXCEPT !.fin = TRUE] # None
          BY <1>1, ClassUpdates, NoneAssumption
        <4>3. obj # None => [obj EXCEPT !.fin = TRUE].fin
          BY <1>1 DEF Class
        <4> QED BY <4>1, <4>2, <4>3
      <3>2. CASE AnnotatePatch \/ AnnotateError
        <4>1. obj # None => [obj EXCEPT !.hash = work.hash] # None /\ [obj EXCEPT !.hash = work.hash].fin = obj.fin
          <5>1. work.hash \in Gen
            BY <3>2, ClassFields DEF AnnotatePatch, AnnotateError, IInv, PassHasCopies
          <5>2. obj # None => [obj EXCEPT !.hash = work.hash] # None
            BY <1>1, <5>1, ClassUpdates, NoneAssumption
          <5>3. obj # None => [obj EXCEPT !.hash = work.hash].fin = obj.fin
            BY <1>1 DEF Class
          <5> QED BY <5>2, <5>3
        <4> QED BY <3>2, <4>1 DEF AnnotatePatch, AnnotateError, Patched, Written
      <3>3. CASE StatusPatch \/ StatusError
        <4>1. obj # None => /\ [obj EXCEPT !.cond = work.cond, !.ready = work.ready] # None
                            /\ [obj EXCEPT !.cond = work.cond, !.ready = work.ready].fin = obj.fin
          <5>1. work.cond \in [Kinds -> Condition] /\ work.ready \in Condition
            BY <3>3, ClassFields DEF StatusPatch, StatusError, IInv, PassHasCopies
          <5>2. obj # None => [obj EXCEPT !.cond = work.cond, !.ready = work.ready] \in Class
            BY <1>1, <5>1 DEF Class
          <5>3. obj # None => [obj EXCEPT !.cond = work.cond, !.ready = work.ready].fin = obj.fin
            BY <1>1 DEF Class
          <5> QED BY <5>2, <5>3, NoneAssumption
        <4> QED BY <3>3, <4>1 DEF StatusPatch, StatusError, Patched
      <3> QED BY <1>11, <3>1, <3>2, <3>3
    <2>2. UNCHANGED claimVars /\ pc' \in {"idle", "subs", "status"}
      BY <1>11 DEF AddFinalizer, AnnotatePatch, AnnotateError, StatusPatch, StatusError, FinalizerError, Return
    <2> QED BY <2>1, <2>2 DEF IInv, claimVars
  <1>12. CASE UNCHANGED <<obj, cache, claimVars>> /\ pc' = pc
    BY <1>12 DEF IInv, claimVars
  <1>13. CASE UNCHANGED <<obj, cache, claimVars>> /\ pc' \notin {"list", "unfinalize"}
    BY <1>13 DEF IInv, claimVars
  <1> QED
    BY <1>2, <1>3, <1>4, <1>5, <1>6, <1>7, <1>8, <1>9, <1>10, <1>11, <1>12, <1>13
       DEF Next, Pass, Errors, Creating, vars, classVars, passVars, Return, TimerFires, SubReconcile, SubsDone,
           RemoveFinalizer, Conflict, PatchNotFound, FinalizeWaits, OciChanges

-----------------------------------------------------------------------------
(* The theorems *)

\* The initial states satisfy the invariant.
LEMMA InitIInv == Init => IInv
  <1> SUFFICES ASSUME Init PROVE IInv
    OBVIOUS
  <1>1. PICK w \in SUBSET Optional : obj = NewClass(w)
    BY DEF Init
  <1>2. 0 \in Gen /\ 1 \in Gen /\ MaxGen \in Nat /\ 1 <= MaxGen
    BY NodeClassAssumption DEF Gen
  <1>3. Unset \in Condition
    BY <1>2 DEF Unset, Condition
  <1>4. obj \in Class
    BY <1>1, <1>2, <1>3 DEF NewClass, Class
  <1>5. TypeOK
    <2>1. crashes \in 0..MaxCrashes
      BY NodeClassAssumption DEF Init
    <2>2. todo \in Seq(Kinds)
      BY DEF Init
    <2>3. /\ claim \in [Claims -> {"absent", "present", "gone"}]
          /\ create \in [Claims -> {"none", "checked", "launched"}]
      BY DEF Init
    <2> QED BY <1>4, <2>1, <2>2, <2>3 DEF Init, TypeOK
  <1>6. /\ obj.gen = 1 /\ ~obj.del /\ obj.hash = 0 /\ obj.ready.st = "none" /\ obj.ready.gen = 0
    BY <1>1 DEF NewClass, Unset
  <1>7. pc = "idle" /\ cache = obj /\ ~lag /\ \A c \in Claims : create[c] = "none"
    BY DEF Init
  <1>8. GenerationsBounded /\ CopyTrails /\ ReadyHasFinalizer /\ ReadyMeansHashed /\ ReadyMeansResolved
    BY <1>2, <1>6, <1>7 DEF GenerationsBounded, CopyTrails, ReadyHasFinalizer, ReadyMeansHashed,
       ReadyMeansResolved, Ready
  <1>9. /\ PassHasCopies /\ PassInSync /\ SubsProgress /\ ResultSound /\ HashFirst /\ HashesProven
        /\ InCreate /\ FinalizeSound
    BY <1>6, <1>7 DEF PassHasCopies, PassInSync, SubsProgress, ResultSound, HashFirst, HashesProven,
       InCreate, FinalizeSound
  <1> QED BY <1>5, <1>8, <1>9 DEF IInv

\* Every step preserves it.
LEMMA NextIInv == IInv /\ [Next]_vars => IInv'
  <1> SUFFICES ASSUME IInv, [Next]_vars PROVE IInv'
    OBVIOUS
  <1>1. TypeOK' /\ PassHasCopies'
    BY TypeStep DEF IInv
  <1>2. ClassInv' /\ PassInv' /\ HashesProven' /\ InCreate' /\ FinalizeSound'
    BY <1>1, ClassStep, PassKeeps, HashStep, ClaimStep
  <1> QED BY <1>1, <1>2 DEF IInv, ClassInv, PassInv

\* So it holds in every reachable state.
LEMMA IInvHolds == Spec => []IInv
  BY InitIInv, NextIInv, PTL DEF Spec

\* The object, its copies, the queue, the claims and the histories keep their types.
THEOREM TypeCorrect == Spec => []TypeOK
  BY IInvHolds, PTL DEF IInv

\* patchNodeClass writes the annotations before the status and the status only onto
\* the object it was computed for: a class that Create takes for Ready always
\* carries the hash of its own spec.
THEOREM ReadyIsHashed == Spec => []ReadyMeansHashed
  BY IInvHolds, PTL DEF IInv

\* Reconcile publishes Ready for a generation only when each condition that this
\* generation's spec calls for was found true for it.
THEOREM ReadyIsResolved == Spec => []ReadyMeansResolved
  BY IInvHolds, PTL DEF IInv

\* The hash annotation is only ever of a spec that some pass found Ready.
THEOREM HashIsOfReadySpec == Spec => []HashOnlyOfReadySpec
  <1>1. IInv => HashOnlyOfReadySpec
    BY DEF IInv, HashesProven, HashOnlyOfReadySpec
  <1> QED BY <1>1, IInvHolds, PTL

\* finalize lets a class go only when no Create call has passed its readiness check
\* for it, or has launched from it, whatever the informers' lag.
THEOREM ClassStaysForInstances == Spec => []ClassOutlivesItsInstances
  <1>1. IInv => ClassOutlivesItsInstances
    BY DEF IInv, InCreate, ClassOutlivesItsInstances
  <1> QED BY <1>1, IInvHolds, PTL
=============================================================================
