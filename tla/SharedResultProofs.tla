-------------------------- MODULE SharedResultProofs --------------------------
(***************************************************************************)
(* Proofs about the abstract shared result, for all sets of results and of *)
(* readers.  ChunkFetchProofs instantiates this module for the flights of  *)
(* singleflight and chunkFlight.                                           *)
(***************************************************************************)
EXTENDS SharedResult, TLAPS

\* Types, and who uses a result in which phase.
SharedInv ==
  /\ phase \in [Results -> {"unused", "open", "sealed", "freed"}]
  /\ users \in [Results -> SUBSET Readers]
  /\ NeverOrphaned

\* Each step of a result keeps the invariant.
LEMMA SharedStepInv == SharedInv /\ [SharedNext]_sharedVars => SharedInv'
<1> SUFFICES ASSUME SharedInv, [SharedNext]_sharedVars PROVE SharedInv'
  OBVIOUS
<1> USE DEF SharedInv, NeverOrphaned
<1>1. ASSUME NEW r \in Results, NEW u \in Readers, OpenBy(r, u) PROVE SharedInv'
  BY <1>1 DEF OpenBy
<1>2. ASSUME NEW r \in Results, NEW u \in Readers, JoinBy(r, u) PROVE SharedInv'
  BY <1>2 DEF JoinBy
<1>3. ASSUME NEW r \in Results, Seal(r) PROVE SharedInv'
  BY <1>3 DEF Seal
<1>4. ASSUME NEW r \in Results, NEW u \in Readers, DropBy(r, u) PROVE SharedInv'
  <2>1. users[r] \ {u} = {} <=> users[r] = {u}
    BY <1>4 DEF DropBy
  <2> QED BY <1>4, <2>1 DEF DropBy
<1>5. ASSUME UNCHANGED sharedVars PROVE SharedInv'
  BY <1>5 DEF sharedVars
<1> QED BY <1>1, <1>2, <1>3, <1>4, <1>5 DEF SharedNext

\* Every reachable state of the shared results satisfies it.
LEMMA SharedInvariant == SharedSpec => []SharedInv
<1>1. SharedInit => SharedInv
  BY DEF SharedInit, SharedInv, NeverOrphaned
<1> QED BY <1>1, SharedStepInv, PTL DEF SharedSpec

\* chunkFlight: as long as a flight is neither unused nor freed, someone is
\* left who will free it.
THEOREM SharedNeverOrphaned == SharedSpec => []NeverOrphaned
<1>1. SharedInv => NeverOrphaned
  BY DEF SharedInv
<1> QED BY <1>1, SharedInvariant, PTL

\* chunkFlight: once singleflight.finish has read the count nobody joins, and
\* free runs once.
THEOREM SharedSealedForGood == SharedSpec => SealedForGood
<1>1. SharedInv /\ [SharedNext]_sharedVars =>
        [\A r \in Results : phase[r] \in {"sealed", "freed"} =>
           /\ users'[r] \subseteq users[r]
           /\ phase'[r] = "freed" \/ (phase[r] = "sealed" /\ phase'[r] = "sealed")]_sharedVars
  BY DEF SharedInv, SharedNext, OpenBy, JoinBy, Seal, DropBy, sharedVars
<1> QED BY <1>1, SharedInvariant, PTL DEF SharedSpec, SealedForGood

=============================================================================
