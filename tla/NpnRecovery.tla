----------------------------- MODULE NpnRecovery ----------------------------
(***************************************************************************)
(* pkg/controllers/npnrecovery: the NativePodNetwork (NPN) object of an    *)
(* instance is created by CloudProvider.Create after the launch.  When that *)
(* fails Create succeeds all the same, and this controller creates the     *)
(* object, or deletes the NodeClaim if it cannot or must not.              *)
(*                                                                         *)
(* Instance and NPN have to be built from the same OCINodeClass spec.  A   *)
(* generation stands for the static fields of the spec and for their hash. *)
(* The controller reads NPNs and the class from informers, which lag.      *)
(***************************************************************************)
EXTENDS Integers

CONSTANTS
  Claims,
  MaxGen,      \* bound: generations of the OCINodeClass
  MaxCrashes,  \* bound: restarts
  None

ASSUME RecoveryAssumption ==
  /\ MaxGen \in Nat \ {0} /\ MaxCrashes \in Nat
  /\ None \notin Claims \cup Nat

VARIABLES
  claim,     \* "absent", "creating", "launched", "initialized" or "gone"
  hash,      \* the generation the instance was launched from (an annotation)
  npn,       \* the generation the NPN in the API server was built from, or None
  visible,   \* claims whose NPN the informer has
  age,       \* time since launch: within "grace", within the "window", or "late"
  class,     \* the OCINodeClass: generation, observedGeneration of a true Ready
             \* condition (or 0), and the generation of its hash annotation
  cached,    \* the informer's copy of it
  queue,     \* claims due for Reconcile
  timers,    \* claims with a RequeueAfter pending
  worker,    \* the claim createNpn is running for, or None
  copy,      \* the generation of the class it builds the NPN from
  crashes,
  recreated, \* history: claims whose NPN this controller created
  replaced   \* history: claims it deleted although their NPN existed

claimVars == <<claim, hash, npn, age>>
classVars == <<class, cached>>
workVars  == <<queue, timers, worker, copy>>
history   == <<recreated, replaced>>
vars == <<claimVars, visible, classVars, workVars, crashes, history>>

Class == [gen : 1..MaxGen, ready : 0..MaxGen, hash : 0..MaxGen]

TypeOK ==
  /\ claim \in [Claims -> {"absent", "creating", "launched", "initialized", "gone"}]
  /\ hash \in [Claims -> 0..MaxGen]
  /\ npn \in [Claims -> 1..MaxGen \cup {None}]
  /\ age \in [Claims -> {"grace", "window", "late"}]
  /\ visible \in SUBSET Claims
  /\ class \in Class /\ cached \in Class
  /\ queue \in SUBSET Claims /\ timers \in SUBSET Claims
  /\ worker \in Claims \cup {None}
  /\ copy \in 0..MaxGen
  /\ crashes \in 0..MaxCrashes
  /\ recreated \in SUBSET Claims /\ replaced \in SUBSET Claims

Init ==
  /\ claim = [c \in Claims |-> "absent"]
  /\ hash = [c \in Claims |-> 0]
  /\ npn = [c \in Claims |-> None]
  /\ age = [c \in Claims |-> "grace"]
  /\ visible = {}
  /\ class = [gen |-> 1, ready |-> 0, hash |-> 0]
  /\ cached = class
  /\ queue = {} /\ timers = {}
  /\ worker = None /\ copy = 0
  /\ crashes = 0
  /\ recreated = {} /\ replaced = {}

-----------------------------------------------------------------------------
(* The OCINodeClass.  That Ready is published after the hash of the same     *)
(* generation is the property ReadyMeansHashed of NodeClassStatus.           *)

ClassEdited ==
  /\ class.gen < MaxGen
  /\ class' = [class EXCEPT !.gen = @ + 1]
  /\ UNCHANGED <<claimVars, visible, cached, workVars, crashes, history>>

ClassHashed ==
  /\ class.hash # class.gen
  /\ class' = [class EXCEPT !.hash = class.gen]
  /\ UNCHANGED <<claimVars, visible, cached, workVars, crashes, history>>

ClassReady ==
  /\ class.hash = class.gen /\ class.ready # class.gen
  /\ class' = [class EXCEPT !.ready = class.gen]
  /\ UNCHANGED <<claimVars, visible, cached, workVars, crashes, history>>

ClassNotReady ==
  /\ class.ready # 0
  /\ class' = [class EXCEPT !.ready = 0]
  /\ UNCHANGED <<claimVars, visible, cached, workVars, crashes, history>>

-----------------------------------------------------------------------------
(* CloudProvider.Create and core Karpenter *)

\* The instance is launched from the cached class, which must be Ready.
LaunchStarts(c) ==
  /\ claim[c] = "absent"
  /\ cached.ready # 0
  /\ claim' = [claim EXCEPT ![c] = "creating"]
  /\ hash' = [hash EXCEPT ![c] = cached.gen]
  /\ UNCHANGED <<npn, age, visible, classVars, workVars, crashes, history>>

\* createAndApplyNpnObject succeeds or fails; Create returns the claim with the
\* hash of the class it used, and core marks it launched.
LaunchEnds(c) ==
  /\ claim[c] = "creating"
  /\ claim' = [claim EXCEPT ![c] = "launched"]
  /\ \/ npn' = [npn EXCEPT ![c] = hash[c]]
     \/ UNCHANGED npn
  /\ queue' = queue \cup {c}
  /\ UNCHANGED <<hash, age, visible, classVars, timers, worker, copy, crashes, history>>

\* A node initializes only with its NPN.
Initialized(c) ==
  /\ claim[c] = "launched" /\ npn[c] # None
  /\ claim' = [claim EXCEPT ![c] = "initialized"]
  /\ queue' = queue \cup {c}
  /\ UNCHANGED <<hash, npn, age, visible, classVars, timers, worker, copy, crashes, history>>

ClaimTouched(c) ==
  /\ claim[c] \in {"creating", "launched", "initialized"}
  /\ queue' = queue \cup {c}
  /\ UNCHANGED <<claimVars, visible, classVars, timers, worker, copy, crashes, history>>

ClaimDeleted(c) ==
  /\ claim[c] \in {"launched", "initialized"}
  /\ claim' = [claim EXCEPT ![c] = "gone"]
  /\ queue' = queue \cup {c}
  /\ UNCHANGED <<hash, npn, age, visible, classVars, timers, worker, copy, crashes, history>>

-----------------------------------------------------------------------------
(* Reconcile: one worker; what it reads from the informers it reads at once *)

Takes(c) == worker = None /\ c \in queue

\* The claim is in this controller's scope and its NPN is not in the cache.
Missing(c) == claim[c] = "launched" /\ c \notin visible

\* Mutant of InGrace: the NPN is looked for at once.
InGraceNever(c) == FALSE

InGrace(c) == age[c] = "grace"

TimedOut(c) == age[c] = "late"

\* Mutant of ClassCurrent: any Ready condition will do.
ClassReadyAtAll == cached.ready # 0

\* Ready, and observed for the generation the copy has.
ClassCurrent == cached.ready # 0 /\ cached.ready = cached.gen

\* AreStaticFieldsDrifted: the annotations of the claim and of the class.
Drifted(c) == cached.hash # 0 /\ cached.hash # hash[c]

ReconcileIgnores(c) ==
  /\ Takes(c) /\ ~Missing(c)
  /\ queue' = queue \ {c}
  /\ UNCHANGED <<claimVars, visible, classVars, timers, worker, copy, crashes, history>>

ReconcileWaits(c) ==
  /\ Takes(c) /\ Missing(c)
  /\ \/ InGrace(c)
     \/ ~InGrace(c) /\ ~TimedOut(c) /\ ~ClassCurrent
  /\ queue' = queue \ {c}
  /\ timers' = timers \cup {c}
  /\ UNCHANGED <<claimVars, visible, classVars, worker, copy, crashes, history>>

\* The time-out, or an instance bootstrapped from another spec.  The deletion is
\* an event that queues the claim again.
ReconcileReplaces(c) ==
  /\ Takes(c) /\ Missing(c) /\ ~InGrace(c)
  /\ TimedOut(c) \/ (ClassCurrent /\ Drifted(c))
  /\ claim' = [claim EXCEPT ![c] = "gone"]
  /\ replaced' = IF npn[c] # None THEN replaced \cup {c} ELSE replaced
  /\ UNCHANGED <<hash, npn, age, visible, classVars, workVars, crashes, recreated>>

ReconcileRecreates(c) ==
  /\ Takes(c) /\ Missing(c) /\ ~InGrace(c) /\ ~TimedOut(c)
  /\ ClassCurrent /\ ~Drifted(c)
  /\ queue' = queue \ {c}
  /\ worker' = c
  /\ copy' = cached.gen
  /\ UNCHANGED <<claimVars, visible, classVars, timers, crashes, history>>

\* createNpn succeeds, also with AlreadyExists.
NpnCreated(c) ==
  /\ worker = c
  /\ npn' = [npn EXCEPT ![c] = IF @ = None THEN copy ELSE @]
  /\ recreated' = IF npn[c] = None THEN recreated \cup {c} ELSE recreated
  /\ worker' = None /\ copy' = 0
  /\ UNCHANGED <<claim, hash, age, visible, classVars, queue, timers, crashes, replaced>>

\* Mutant of CreateNpnFails: the error is swallowed.
CreateNpnFailsQuietly(c) ==
  /\ worker = c
  /\ worker' = None /\ copy' = 0
  /\ UNCHANGED <<claimVars, visible, classVars, queue, timers, crashes, history>>

\* The instance or the network cannot be resolved, or the API server refuses: the
\* error puts the claim back into the queue.
CreateNpnFails(c) ==
  /\ worker = c
  /\ queue' = queue \cup {c}
  /\ worker' = None /\ copy' = 0
  /\ UNCHANGED <<claimVars, visible, classVars, timers, crashes, history>>

Reconcile(c) ==
  \/ ReconcileIgnores(c) \/ ReconcileWaits(c) \/ ReconcileReplaces(c)
  \/ ReconcileRecreates(c) \/ NpnCreated(c) \/ CreateNpnFails(c)

-----------------------------------------------------------------------------
(* Informers, time and restarts *)

RequeueAfter(c) ==
  /\ c \in timers
  /\ timers' = timers \ {c}
  /\ queue' = queue \cup {c}
  /\ UNCHANGED <<claimVars, visible, classVars, worker, copy, crashes, history>>

NpnSeen(c) ==
  /\ npn[c] # None /\ c \notin visible
  /\ visible' = visible \cup {c}
  /\ UNCHANGED <<claimVars, classVars, workVars, crashes, history>>

ClassSeen ==
  /\ cached # class
  /\ cached' = class
  /\ UNCHANGED <<claimVars, visible, class, workVars, crashes, history>>

\* gracePeriod is long enough for an NPN that Create wrote to reach the informer.
GraceEnds(c) ==
  /\ claim[c] = "launched" /\ age[c] = "grace"
  /\ npn[c] # None => c \in visible
  /\ age' = [age EXCEPT ![c] = "window"]
  /\ UNCHANGED <<claim, hash, npn, visible, classVars, workVars, crashes, history>>

WindowEnds(c) ==
  /\ claim[c] = "launched" /\ age[c] = "window"
  /\ age' = [age EXCEPT ![c] = "late"]
  /\ UNCHANGED <<claim, hash, npn, visible, classVars, workVars, crashes, history>>

\* A restart: Create calls are lost (the next one launches another instance, with
\* an NPN of another name), and the informers replay every claim.
Crash ==
  /\ crashes < MaxCrashes
  /\ crashes' = crashes + 1
  /\ claim' = [c \in Claims |-> IF claim[c] = "creating" THEN "absent" ELSE claim[c]]
  /\ queue' = {c \in Claims : claim[c] \in {"launched", "initialized"}}
  /\ timers' = {} /\ worker' = None /\ copy' = 0
  /\ cached' = class
  /\ visible' = {c \in Claims : npn[c] # None}
  /\ UNCHANGED <<hash, npn, age, class, history>>

Next ==
  \/ ClassEdited \/ ClassHashed \/ ClassReady \/ ClassNotReady \/ ClassSeen
  \/ \E c \in Claims :
       \/ LaunchStarts(c) \/ LaunchEnds(c) \/ Initialized(c)
       \/ ClaimTouched(c) \/ ClaimDeleted(c)
       \/ Reconcile(c)
       \/ RequeueAfter(c) \/ NpnSeen(c) \/ GraceEnds(c) \/ WindowEnds(c)
  \/ Crash

Spec == Init /\ [][Next]_vars

\* The worker goes on, timers fire, informers deliver and time passes; OCI and
\* the API server may refuse the NPN for ever, and the class may never be Ready.
FairSpec ==
  /\ Spec
  /\ \A c \in Claims :
       /\ WF_vars(Reconcile(c)) /\ WF_vars(RequeueAfter(c)) /\ WF_vars(NpnSeen(c))
       /\ WF_vars(GraceEnds(c)) /\ WF_vars(WindowEnds(c))

-----------------------------------------------------------------------------
(* Properties *)

\* "an NPN built from a changed NodeClass would not match" the instance: whoever
\* creates it, and however edits of the class, its two status writes and the
\* informer's lag interleave with the launch and the recovery, the NPN is built
\* from the spec the instance was launched from.
NpnMatchesInstance ==
  \A c \in Claims : npn[c] # None => npn[c] = hash[c]

\* "the NPN exists, so the nodeclaim must not be touched" (test): a claim whose
\* NPN Create wrote is never replaced, for all that the informer may not have the
\* NPN when the claim is launched; only one that was itself recreated so late that
\* the time-out came before the informer can be.
ServedClaimsKept == replaced \subseteq recreated

\* A launched claim without NPN does not stay that way: "without it the node
\* registers but never initializes, and core karpenter reclaims neither".
RecoveredOrReplaced ==
  \A c \in Claims : claim[c] = "launched" /\ npn[c] = None ~>
                    npn[c] # None \/ claim[c] = "gone"

=============================================================================
