----------------------------- MODULE SharedResult -----------------------------
(***************************************************************************)
(* What a shared fetch result promises to the callers that joined it (the  *)
(* comments on singleflight and chunkFlight): callers join while it is     *)
(* open, the set of users is final once it is sealed, each user drops out  *)
(* once, and the resource behind the result is freed by the last user to   *)
(* drop - no sooner, no later, and never twice.                            *)
(*                                                                         *)
(* Users are a set here.  The code keeps two counters, in two structures,  *)
(* under two different kinds of synchronisation.                           *)
(***************************************************************************)
CONSTANTS Results, Readers

VARIABLES
  phase,      \* of each result: unused, open, sealed or freed
  users       \* of each result: who may still read it

sharedVars == <<phase, users>>

SharedInit ==
  /\ phase = [r \in Results |-> "unused"]
  /\ users = [r \in Results |-> {}]

OpenBy(r, u) ==
  /\ phase[r] = "unused"
  /\ phase' = [phase EXCEPT ![r] = "open"]
  /\ users' = [users EXCEPT ![r] = {u}]

JoinBy(r, u) ==
  /\ phase[r] = "open"
  /\ u \notin users[r]
  /\ users' = [users EXCEPT ![r] = @ \cup {u}]
  /\ UNCHANGED phase

Seal(r) ==
  /\ phase[r] = "open"
  /\ phase' = [phase EXCEPT ![r] = "sealed"]
  /\ UNCHANGED users

DropBy(r, u) ==
  /\ phase[r] = "sealed"
  /\ u \in users[r]
  /\ users' = [users EXCEPT ![r] = @ \ {u}]
  /\ phase' = [phase EXCEPT ![r] = IF users[r] = {u} THEN "freed" ELSE @]

SharedNext ==
  \E r \in Results :
    \/ Seal(r)
    \/ \E u \in Readers : OpenBy(r, u) \/ JoinBy(r, u) \/ DropBy(r, u)

SharedSpec == SharedInit /\ [][SharedNext]_sharedVars

-----------------------------------------------------------------------------
(* What follows for whoever shares a result                                *)

\* A result has users from its opening to its release: it is not sealed with
\* nobody left to free it, and not kept when nobody is.
NeverOrphaned ==
  \A r \in Results : users[r] # {} <=> phase[r] \in {"open", "sealed"}

\* Sealing is final: from then on users only drop out, nobody comes back, and
\* what is freed stays freed.
SealedForGood ==
  [][\A r \in Results : phase[r] \in {"sealed", "freed"} =>
       /\ users'[r] \subseteq users[r]
       /\ phase'[r] = "freed" \/ (phase[r] = "sealed" /\ phase'[r] = "sealed")]_sharedVars

=============================================================================
