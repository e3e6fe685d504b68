--------------------------- MODULE BufferPoolProofs ---------------------------
(***************************************************************************)
(* Proofs about the abstract pool of buffers, for every finite set of      *)
(* fetches and every number of buffers.  ChunkFetchProofs,                 *)
(* ServeAlignedProofs and ReadaheadProofs instantiate this module with     *)
(* their refinement of the pool, and so inherit what is proved here.       *)
(***************************************************************************)
EXTENDS BufferPool, FiniteSetTheorems, WellFoundedInduction, TLAPS

\* What holds of the pool's state, one named part per promise.
PoolInv ==
  /\ holders \in SUBSET Fetches
  /\ waiting \in SUBSET Fetches
  /\ ahead \in [Fetches -> SUBSET Fetches]
  /\ NeverOvercommitted
  /\ OneLine

-----------------------------------------------------------------------------
(* The line                                                                *)

\* A set of fetches is finite and can be counted.
LEMMA CardFetches ==
  ASSUME IsFiniteSet(Fetches), NEW S \in SUBSET Fetches
  PROVE  IsFiniteSet(S) /\ Cardinality(S) \in Nat
<1>1. IsFiniteSet(S)
  BY FS_Subset
<1> QED BY <1>1, FS_CardinalityType

\* One more, one less.
LEMMA CardStep ==
  ASSUME IsFiniteSet(Fetches), NEW S \in SUBSET Fetches, NEW f \in Fetches
  PROVE  /\ f \notin S => Cardinality(S \cup {f}) = Cardinality(S) + 1
         /\ f \in S => Cardinality(S \ {f}) = Cardinality(S) - 1
<1>1. IsFiniteSet(S)
  BY CardFetches
<1>2. f \notin S => Cardinality(S \cup {f}) = Cardinality(S) + 1
  BY <1>1, FS_AddElement
<1>3. f \in S => Cardinality(S \ {f}) = Cardinality(S) - 1
  BY <1>1, FS_RemoveElement
<1> QED BY <1>2, <1>3

\* A line of finitely many has a head.  The sets ahead of the fetches in it are
\* ordered by strict inclusion, which is well-founded on finite sets; a least
\* one of them is empty, as everyone ahead of its owner has a smaller one.
LEMMA LineHasHead ==
  ASSUME IsFiniteSet(Fetches), PoolInv
  PROVE  HasHead
<1> SUFFICES ASSUME waiting # {} PROVE \E f \in waiting : ahead[f] = {}
  BY DEF HasHead
<1> DEFINE R == StrictSubsetOrdering(Fetches)
           T == {ahead[f] : f \in waiting}
<1>1. IsWellFoundedOn(R, SUBSET Fetches)
  BY FS_StrictSubsetOrderingWellFounded, FS_FiniteSubsetsOfFinite
<1>2. T \subseteq SUBSET Fetches /\ T # {}
  BY DEF PoolInv
<1>3. PICK A \in T : \A B \in T : <<B, A>> \notin R
  <2> HIDE DEF R, T
  <2> QED BY <1>1, <1>2, WFMin
<1>4. PICK f \in waiting : A = ahead[f]
  OBVIOUS
<1>5. ASSUME NEW g \in ahead[f] PROVE FALSE
  <2>1. g \in waiting /\ g # f
    BY <1>5 DEF PoolInv, OneLine
  <2>2. ahead[g] \subseteq ahead[f]
    BY <1>5, <2>1 DEF PoolInv, OneLine
  <2>3. g \notin ahead[g]
    BY <2>1 DEF PoolInv, OneLine
  <2>4. ahead[g] \in SUBSET Fetches /\ ahead[f] \in SUBSET Fetches /\ ahead[g] # ahead[f]
    BY <1>2, <1>5, <2>1, <2>3
  <2>5. <<ahead[g], ahead[f]>> \in R
    BY <2>2, <2>4 DEF StrictSubsetOrdering
  <2>6. ahead[g] \in T
    BY <2>1
  <2> QED BY <1>3, <1>4, <2>5, <2>6
<1> QED BY <1>4, <1>5

\* Whoever leaves the line, the others stay in line.
LEMMA LeaveKeepsLine ==
  ASSUME PoolInv, NEW f \in Fetches, PoolLeave(f)
  PROVE  /\ waiting' \in SUBSET Fetches
         /\ ahead' \in [Fetches -> SUBSET Fetches]
         /\ OneLine'
<1>1. /\ waiting' = waiting \ {f}
      /\ ahead' = [g \in Fetches |-> IF g = f THEN {} ELSE ahead[g] \ {f}]
      /\ waiting \in SUBSET Fetches /\ ahead \in [Fetches -> SUBSET Fetches]
  BY DEF PoolLeave, PoolInv
<1>2. \A g \in waiting' : g \in waiting /\ g # f /\ ahead'[g] = ahead[g] \ {f}
  BY <1>1
<1>3. OneLine'
  BY <1>1, <1>2 DEF PoolInv, OneLine
<1> QED BY <1>1, <1>3

-----------------------------------------------------------------------------
(* The invariant                                                           *)

\* It holds of an unused pool.
LEMMA PoolInitInv ==
  ASSUME IsFiniteSet(Fetches), Units \in Nat, PoolInit
  PROVE  PoolInv
<1>1. Cardinality(holders) = 0
  BY FS_EmptySet DEF PoolInit
<1> QED BY <1>1 DEF PoolInit, PoolInv, NeverOvercommitted, OneLine

\* Each operation keeps it.
LEMMA PoolStepInv ==
  ASSUME IsFiniteSet(Fetches), Units \in Nat, PoolInv, [PoolNext]_poolVars
  PROVE  PoolInv'
<1>0. /\ holders \in SUBSET Fetches /\ waiting \in SUBSET Fetches
      /\ ahead \in [Fetches -> SUBSET Fetches]
      /\ Cardinality(holders) \in Nat /\ Cardinality(holders) <= Units
      /\ waiting # {} => Cardinality(holders) = Units
      /\ holders \cap waiting = {}
  BY CardFetches DEF PoolInv, NeverOvercommitted
<1>1. ASSUME NEW f \in Fetches, PoolTake(f) PROVE PoolInv'
  <2>1. /\ f \notin holders /\ waiting = {} /\ Cardinality(holders) < Units
        /\ holders' = holders \cup {f} /\ waiting' = waiting /\ ahead' = ahead
    BY <1>1 DEF PoolTake
  <2>2. Cardinality(holders') = Cardinality(holders) + 1
    BY <1>0, <2>1, CardStep
  <2>3. NeverOvercommitted'
    BY <1>0, <2>1, <2>2 DEF NeverOvercommitted
  <2>4. OneLine'
    BY <2>1 DEF PoolInv, OneLine
  <2> QED BY <1>0, <2>1, <2>3, <2>4 DEF PoolInv
<1>2. ASSUME NEW f \in Fetches, PoolWait(f) PROVE PoolInv'
  <2>1. /\ f \notin holders /\ f \notin waiting /\ Cardinality(holders) = Units
        /\ holders' = holders /\ waiting' = waiting \cup {f}
        /\ ahead' = [ahead EXCEPT ![f] = waiting]
    BY <1>2 DEF PoolWait
  <2>2. NeverOvercommitted'
    BY <1>0, <2>1 DEF NeverOvercommitted
  <2>3. ahead'[f] = waiting /\ \A g \in waiting : ahead'[g] = ahead[g] /\ f \notin ahead[g]
    BY <1>0, <2>1 DEF PoolInv, OneLine
  <2>4. OneLine'
    <3>1. \A g \in waiting' : ahead'[g] \subseteq waiting' \ {g}
      BY <2>1, <2>3 DEF PoolInv, OneLine
    <3>2. \A g, h \in waiting' : g # h => (g \in ahead'[h] <=> h \notin ahead'[g])
      BY <2>1, <2>3 DEF PoolInv, OneLine
    <3>3. \A g, h \in waiting' : g \in ahead'[h] => ahead'[g] \subseteq ahead'[h]
      BY <2>1, <2>3 DEF PoolInv, OneLine
    <3> QED BY <3>1, <3>2, <3>3 DEF OneLine
  <2> QED BY <1>0, <2>1, <2>2, <2>4 DEF PoolInv
<1>3. ASSUME NEW f \in Fetches, PoolQuit(f) PROVE PoolInv'
  <2>1. PoolLeave(f) /\ holders' = holders /\ waiting' = waiting \ {f} /\ waiting # {}
    BY <1>3 DEF PoolQuit, PoolLeave
  <2>2. NeverOvercommitted'
    BY <1>0, <2>1 DEF NeverOvercommitted
  <2> QED BY <1>0, <2>1, <2>2, LeaveKeepsLine DEF PoolInv
<1>4. ASSUME NEW f \in Fetches, PoolReturn(f) PROVE PoolInv'
  <2>1. /\ f \in holders /\ waiting = {} /\ holders' = holders \ {f}
        /\ waiting' = waiting /\ ahead' = ahead
    BY <1>4 DEF PoolReturn
  <2>2. Cardinality(holders') = Cardinality(holders) - 1
    BY <1>0, <2>1, CardStep
  <2>3. NeverOvercommitted'
    BY <1>0, <2>1, <2>2 DEF NeverOvercommitted
  <2>4. OneLine'
    BY <2>1 DEF PoolInv, OneLine
  <2> QED BY <1>0, <2>1, <2>3, <2>4 DEF PoolInv
<1>5. ASSUME NEW f \in Fetches, NEW g \in Fetches, PoolPass(f, g) PROVE PoolInv'
  <2>1. /\ f \in holders /\ g \in waiting /\ g \notin holders
        /\ holders' = (holders \ {f}) \cup {g}
        /\ PoolLeave(g) /\ waiting' = waiting \ {g}
    BY <1>0, <1>5 DEF PoolPass, PoolLeave
  <2>2. Cardinality(holders') = Cardinality(holders)
    <3>1. Cardinality(holders \ {f}) = Cardinality(holders) - 1
      BY <1>0, <2>1, CardStep
    <3>2. holders \ {f} \in SUBSET Fetches /\ g \notin holders \ {f}
      BY <1>0, <2>1
    <3>3. Cardinality(holders') = Cardinality(holders \ {f}) + 1
      BY <2>1, <3>2, CardStep
    <3> QED BY <1>0, <3>1, <3>3
  <2>3. NeverOvercommitted'
    BY <1>0, <2>1, <2>2 DEF NeverOvercommitted
  <2> QED BY <1>0, <2>1, <2>3, LeaveKeepsLine DEF PoolInv
<1>6. ASSUME UNCHANGED poolVars PROVE PoolInv'
  BY <1>6 DEF poolVars, PoolInv, NeverOvercommitted, OneLine
<1> QED BY <1>1, <1>2, <1>3, <1>4, <1>5, <1>6 DEF PoolNext

\* Overtaking would take a step that passes a buffer to a fetch behind another.
LEMMA PoolStepFair ==
  ASSUME PoolInv, [PoolNext]_poolVars,
         NEW f \in waiting, NEW g \in waiting, f \in ahead[g], f \in waiting'
  PROVE  /\ g \notin holders'
         /\ g \in waiting' => f \in ahead'[g]
<1>0. /\ holders \cap waiting = {} /\ f \in Fetches /\ g \in Fetches /\ f # g
      /\ waiting \in SUBSET Fetches /\ ahead \in [Fetches -> SUBSET Fetches]
  BY DEF PoolInv, NeverOvercommitted, OneLine
<1>1. ASSUME NEW h \in Fetches, PoolLeave(h), g \in waiting' PROVE f \in ahead'[g]
  BY <1>0, <1>1 DEF PoolLeave
<1>2. ASSUME NEW h \in Fetches, PoolTake(h) \/ PoolWait(h) \/ PoolQuit(h) \/ PoolReturn(h)
      PROVE  g \notin holders' /\ (g \in waiting' => f \in ahead'[g])
  BY <1>0, <1>1, <1>2 DEF PoolTake, PoolWait, PoolQuit, PoolReturn
<1>3. ASSUME NEW h \in Fetches, NEW o \in Fetches, PoolPass(h, o)
      PROVE  g \notin holders' /\ (g \in waiting' => f \in ahead'[g])
  BY <1>0, <1>1, <1>3 DEF PoolPass
<1>4. ASSUME UNCHANGED poolVars
      PROVE  g \notin holders' /\ (g \in waiting' => f \in ahead'[g])
  BY <1>0, <1>4 DEF poolVars
<1> QED BY <1>2, <1>3, <1>4 DEF PoolNext

-----------------------------------------------------------------------------
(* The theorems                                                            *)

\* Every reachable state of the pool satisfies the invariant.
LEMMA PoolInvariant ==
  ASSUME IsFiniteSet(Fetches), Units \in Nat
  PROVE  PoolSpec => []PoolInv
<1>1. PoolInit => PoolInv
  BY PoolInitInv
<1>2. PoolInv /\ [PoolNext]_poolVars => PoolInv'
  BY PoolStepInv
<1> QED BY <1>1, <1>2, PTL DEF PoolSpec

\* chunkBudget's promise: never more than Units buffers, no fetch waits while
\* one is free, and none waits while it owns one.
THEOREM PoolNeverOvercommitted ==
  ASSUME IsFiniteSet(Fetches), Units \in Nat
  PROVE  PoolSpec => []NeverOvercommitted
<1>1. PoolInv => NeverOvercommitted
  BY DEF PoolInv
<1> QED BY <1>1, PoolInvariant, PTL

\* The senders blocked in the channel of chunkBudget stand in one line, and
\* the line has a head for release to hand the freed slot to.
THEOREM PoolInLine ==
  ASSUME IsFiniteSet(Fetches), Units \in Nat
  PROVE  PoolSpec => [](OneLine /\ HasHead)
<1>1. PoolInv => OneLine /\ HasHead
  BY LineHasHead DEF PoolInv
<1> QED BY <1>1, PoolInvariant, PTL

\* No fetch is overtaken in the queue of chunkBudget.
THEOREM PoolFirstCome ==
  ASSUME IsFiniteSet(Fetches), Units \in Nat
  PROVE  PoolSpec => FirstCome
<1>1. PoolInv /\ [PoolNext]_poolVars =>
        [\A f, g \in waiting :
           f \in ahead[g] /\ f \in waiting' =>
             /\ g \notin holders'
             /\ g \in waiting' => f \in ahead'[g]]_poolVars
  BY PoolStepFair
<1> QED BY <1>1, PoolInvariant, PTL DEF PoolSpec, FirstCome

=============================================================================
