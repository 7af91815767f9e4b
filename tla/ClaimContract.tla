---------------------------- MODULE ClaimContract ----------------------------
(***************************************************************************)
(* What the cloud provider promises about a NodeClaim and the machines     *)
(* launched for it, without saying how: an abstraction of NodeLifecycle,   *)
(* which implements it.                                                    *)
(*                                                                         *)
(* A claim has at most one machine at a time; a machine is launched once,  *)
(* for one claim, never for a claim that is not there yet or has been let  *)
(* go; and a claim is let go only when its machine has ended.  A claim of  *)
(* which the provider has lost track is exempt from the first and the last.*)
(***************************************************************************)
EXTENDS FiniteSets

CONSTANTS Claims, Instances

VARIABLES
  phase,  \* "absent", "live", "deleting", then "finalized" by the provider
          \* or "gone" by force
  fleet,  \* the machines that run, or start, for each claim
  used,   \* machines launched so far
  lost    \* claims the provider has lost track of

vars == <<phase, fleet, used, lost>>

Init ==
  /\ phase = [c \in Claims |-> "absent"]
  /\ fleet = [c \in Claims |-> {}]
  /\ used = {} /\ lost = {}

\* Users and core Karpenter.
Request(c) ==
  /\ \/ phase[c] = "absent" /\ phase' = [phase EXCEPT ![c] = "live"]
     \/ phase[c] = "live" /\ phase' = [phase EXCEPT ![c] = "deleting"]
     \/ phase[c] \in {"live", "deleting"} /\ phase' = [phase EXCEPT ![c] = "gone"]
  /\ UNCHANGED <<fleet, used, lost>>

\* One machine at a time, for a claim that was asked for.
Launch(c, i) ==
  /\ phase[c] \in {"live", "deleting", "gone"}
  /\ fleet[c] = {} \/ c \in lost
  /\ i \notin used
  /\ fleet' = [fleet EXCEPT ![c] = @ \cup {i}]
  /\ used' = used \cup {i}
  /\ lost' \in {lost, lost \cup {c}}
  /\ UNCHANGED phase

\* The provider, or OCI, ends a machine for good.
End(c, i) ==
  /\ i \in fleet[c]
  /\ fleet' = [fleet EXCEPT ![c] = @ \ {i}]
  /\ UNCHANGED <<phase, used, lost>>

\* NodeClaimNotFoundError: the claim may go, no machine runs for it.
Finalize(c) ==
  /\ phase[c] = "deleting"
  /\ phase' = [phase EXCEPT ![c] = "finalized"]
  /\ lost' \in {lost, lost \cup {c}}
  /\ fleet[c] = {} \/ c \in lost'
  /\ UNCHANGED <<fleet, used>>

\* A restart.
LoseTrack ==
  /\ \E S \in SUBSET Claims : lost' = lost \cup S
  /\ UNCHANGED <<phase, fleet, used>>

Next ==
  \/ \E c \in Claims : Request(c) \/ Finalize(c)
  \/ \E c \in Claims, i \in Instances : Launch(c, i) \/ End(c, i)
  \/ LoseTrack

Spec == Init /\ [][Next]_vars

=============================================================================
