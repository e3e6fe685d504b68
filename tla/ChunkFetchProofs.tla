--------------------------- MODULE ChunkFetchProofs ---------------------------
(***************************************************************************)
(* Proofs about ChunkFetch, for every finite set of callers, every set of  *)
(* chunks and every budget.                                                *)
(***************************************************************************)
EXTENDS ChunkFetch, FiniteSetTheorems, TLAPS

-----------------------------------------------------------------------------
(* The inductive invariant                                                 *)

\* Where a caller, its claimer and its result can be at the same time.
CallerShape ==
  \A c \in Callers :
    /\ gpc[c] = "none" <=> joined[c] = None
    /\ cpc[c] \in {"idle", "lookup", "join"} => gpc[c] = "none" /\ via[c] = "none"
    /\ cpc[c] \in {"admit", "out"} => gpc[c] # "none"
    /\ gpc[c] \in {"wait", "offer"} => cpc[c] \in {"admit", "out", "end"}
    /\ gpc[c] = "none" => via[c] \in {"none", "hit"}
    /\ gpc[c] = "wait" => via[c] = "none"
    /\ gpc[c] = "gone" /\ cpc[c] # "holding" => via[c] = "none"

\* A caller joins a started fetch of its own chunk; its claimer gets past the
\* wait only when that fetch is done; a fetch is led by a caller of its own.
JoinShape ==
  \A c \in Callers :
    /\ joined[c] # None => /\ lpc[joined[c]] # "none"
                           /\ ChunkOf[joined[c]] = ChunkOf[c]
    /\ gpc[c] \in {"offer", "gone"} => lpc[joined[c]] = "done"
    /\ lpc[c] # "none" => joined[c] = c

\* A fetch has an outcome from the end of its download on, and queues only
\* between acquire and admission.
LeadShape ==
  \A f \in Callers :
    /\ res[f] = "none" <=> lpc[f] \in {"none", "acquire", "budget", "download"}
    /\ f \in waiting => lpc[f] = "budget"

FetchInv ==
  /\ FetchTypeOK
  /\ CallerShape
  /\ JoinShape
  /\ LeadShape
  /\ FlightsExact
  /\ RefsExact
  /\ FreedExactly
  /\ UnitsExact
  /\ WaitOnlyWhenFull

-----------------------------------------------------------------------------
(* Cardinalities of sets of callers                                        *)

\* The callers are finite, so every set of them can be counted, and the count
\* is zero just for the empty set.
LEMMA CardCallers ==
  ASSUME NEW S \in SUBSET Callers
  PROVE  /\ IsFiniteSet(S)
         /\ Cardinality(S) \in Nat
         /\ Cardinality(S) = 0 <=> S = {}
<1>1. IsFiniteSet(S)
  BY FetchAssumption, FS_Subset
<1> QED
  BY <1>1, FS_CardinalityType, FS_EmptySet

\* One more, one less.
LEMMA CardOne ==
  ASSUME NEW S \in SUBSET Callers, NEW c \in Callers
  PROVE  /\ c \notin S => Cardinality(S \cup {c}) = Cardinality(S) + 1
         /\ c \in S => Cardinality(S \ {c}) = Cardinality(S) - 1
         /\ c \in S => Cardinality(S) > 0
<1>1. IsFiniteSet(S) /\ Cardinality(S) \in Nat
  BY CardCallers
<1>2. c \notin S => Cardinality(S \cup {c}) = Cardinality(S) + 1
  BY <1>1, FS_AddElement
<1>3. c \in S => Cardinality(S \ {c}) = Cardinality(S) - 1
  BY <1>1, FS_RemoveElement
<1>4. c \in S => Cardinality(S) > 0
  <2>1. c \in S => Cardinality(S) # 0
    BY CardCallers
  <2> QED BY <1>1, <2>1
<1> QED BY <1>2, <1>3, <1>4

-----------------------------------------------------------------------------
(* The budget                                                              *)

\* The owner of a buffer returns its unit (ReturnUnit), and nothing else
\* changes hands: the count stays exact, nobody waits for a free unit, and
\* the step is a return, or a pass to the oldest waiting fetch, of the pool.
LEMMA GiveBack ==
  ASSUME FetchTypeOK, LeadShape, UnitsExact, WaitOnlyWhenFull,
         NEW f \in Callers, f \in Holders, f \notin Holders', ReturnUnit,
         \A g \in Callers \ {f} :
           lpc'[g] = lpc[g] /\ res'[g] = res[g] /\ (g \in freed' <=> g \in freed)
  PROVE  /\ BudgetTypeOK' /\ UnitsExact' /\ WaitOnlyWhenFull'
         /\ waiting' \subseteq waiting
         /\ Pool!PoolReturn(f) \/ \E g \in Callers : Pool!PoolPass(f, g)
<1> USE FetchAssumption, UnitsAssumption
<1>0. Holders \in SUBSET Callers /\ units = Cardinality(Holders)
  BY DEF Holders, UnitsExact
<1>1. f \notin waiting
  BY DEF FetchTypeOK, LeadShape, Holders, HoldsUnit
<1>2. CASE waiting = {}
  <2>1. units' = units - 1 /\ waiting' = waiting /\ ahead' = ahead
    BY <1>2 DEF ReturnUnit
  <2>2. Holders' = Holders \ {f}
    BY <2>1 DEF Holders, HoldsUnit
  <2>3. Cardinality(Holders') = Cardinality(Holders) - 1
    BY <1>0, <2>2, CardOne
  <2>4. BudgetTypeOK'
    BY <2>1 DEF FetchTypeOK, BudgetTypeOK, ReturnUnit
  <2>5. UnitsExact'
    BY <1>0, <2>1, <2>3 DEF UnitsExact, Holders
  <2>6. WaitOnlyWhenFull'
    BY <1>2, <2>1 DEF WaitOnlyWhenFull
  <2>7. Pool!PoolReturn(f)
    BY <1>2, <2>1, <2>2 DEF Pool!PoolReturn
  <2> QED BY <2>1, <2>4, <2>5, <2>6, <2>7
<1>3. CASE waiting # {}
  <2>1. PICK g \in waiting : Oldest(g) /\ LeaveQueue(g) /\ units' = units
    BY <1>3 DEF ReturnUnit
  <2>2. g \in Callers /\ g # f /\ lpc[g] = "budget" /\ g \notin Holders
    BY <1>1, <2>1 DEF FetchTypeOK, BudgetTypeOK, LeadShape, Holders, HoldsUnit
  <2>3. waiting' = waiting \ {g}
    BY <2>1 DEF LeaveQueue
  <2>4. Holders' = (Holders \ {f}) \cup {g}
    BY <1>1, <2>2, <2>3 DEF Holders, HoldsUnit
  <2>5. Cardinality(Holders \ {f}) = Cardinality(Holders) - 1
    BY <1>0, CardOne
  <2>6. Cardinality(Holders') = Cardinality(Holders \ {f}) + 1
    <3>1. Holders \ {f} \in SUBSET Callers /\ g \notin Holders \ {f}
      BY <1>0, <2>2
    <3> QED BY <2>2, <2>4, <3>1, CardOne
  <2>7. Cardinality(Holders') = units'
    <3>1. Cardinality(Holders) \in Nat
      BY <1>0, CardCallers
    <3> QED BY <1>0, <2>1, <2>5, <2>6, <3>1
  <2>8. BudgetTypeOK'
    BY <2>1, <2>3 DEF FetchTypeOK, BudgetTypeOK, LeaveQueue
  <2>9. UnitsExact'
    BY <2>7 DEF UnitsExact, Holders
  <2>10. WaitOnlyWhenFull'
    BY <1>3, <2>1 DEF WaitOnlyWhenFull
  <2>11. Pool!PoolPass(f, g)
    BY <2>1, <2>4 DEF Pool!PoolPass, Pool!PoolLeave, Oldest, LeaveQueue
  <2> QED BY <2>2, <2>3, <2>8, <2>9, <2>10, <2>11
<1> QED BY <1>2, <1>3

\* Steps that leave the leads, the outcomes and the queue alone leave the
\* owners of the budget alone.
LEMMA BudgetSame ==
  ASSUME FetchTypeOK, UnitsExact, WaitOnlyWhenFull,
         UNCHANGED budgetVars, Holders' = Holders
  PROVE  BudgetTypeOK' /\ UnitsExact' /\ WaitOnlyWhenFull'
<1>1. units' = units /\ waiting' = waiting /\ ahead' = ahead
  BY DEF budgetVars
<1>2. BudgetTypeOK'
  BY <1>1 DEF FetchTypeOK, BudgetTypeOK
<1>3. UnitsExact'
  BY <1>1 DEF UnitsExact, Holders
<1>4. WaitOnlyWhenFull'
  BY <1>1 DEF WaitOnlyWhenFull
<1> QED BY <1>2, <1>3, <1>4

-----------------------------------------------------------------------------
(* The reference count                                                     *)

\* A user c of a published flight f drops out with an unref: the count stays
\* exact, the flight is freed just when c was the last user, and a buffer's
\* unit goes back just then.
LEMMA DropUser ==
  ASSUME FetchInv, NEW c \in Callers, NEW f \in Callers,
         c \in Users(f), lpc[f] = "done", Unref(f),
         lpc' = lpc, res' = res, waiters' = waiters,
         Users(f)' = Users(f) \ {c},
         \A g \in Callers \ {f} : Users(g)' = Users(g)
  PROVE  /\ RefsExact' /\ FreedExactly'
         /\ refs' \in [Callers -> Nat] /\ freed' \in SUBSET Callers
         /\ BudgetTypeOK' /\ UnitsExact' /\ WaitOnlyWhenFull'
         /\ waiting' \subseteq waiting
<1>0. /\ FetchTypeOK /\ LeadShape /\ UnitsExact /\ WaitOnlyWhenFull
      /\ RefsExact /\ FreedExactly
  BY DEF FetchInv
<1>1. \A g \in Callers : Users(g) \in SUBSET Callers
  BY DEF Users
<1>2. refs[f] = Cardinality(Users(f)) /\ f \notin freed
  BY <1>0 DEF RefsExact, FreedExactly
<1>3. Cardinality(Users(f)) \in Nat /\ Cardinality(Users(f)) > 0
  BY <1>1, CardCallers, CardOne
<1>4. Cardinality(Users(f) \ {c}) = Cardinality(Users(f)) - 1
  BY <1>1, CardOne
<1>5. refs[f] = 1 <=> Users(f) \ {c} = {}
  <2>1. Cardinality(Users(f) \ {c}) = 0 <=> Users(f) \ {c} = {}
    <3>1. Users(f) \ {c} \in SUBSET Callers
      BY <1>1
    <3> QED BY <3>1, CardCallers
  <2> QED BY <1>2, <1>3, <1>4, <2>1
<1>6. refs' = [refs EXCEPT ![f] = @ - 1]
  BY DEF Unref
<1>7. freed' = IF refs[f] = 1 THEN freed \cup {f} ELSE freed
  BY DEF Unref
<1>8. refs' \in [Callers -> Nat] /\ freed' \in SUBSET Callers
  <2>1. refs[f] - 1 \in Nat
    BY <1>2, <1>3
  <2> QED BY <1>0, <1>6, <1>7, <2>1 DEF FetchTypeOK
<1>9. RefsExact'
  <2> SUFFICES ASSUME NEW g \in Callers
               PROVE  /\ lpc'[g] \in Unfinished => waiters'[g] = Cardinality(Users(g)')
                      /\ lpc'[g] \in {"publish", "done"} => refs'[g] = Cardinality(Users(g)')
    BY DEF RefsExact, Unfinished, Users
  <2>1. CASE g = f
    <3>1. refs'[g] = refs[f] - 1
      BY <1>0, <1>6, <2>1 DEF FetchTypeOK
    <3> QED BY <1>2, <1>4, <2>1, <3>1 DEF Unfinished
  <2>2. CASE g # f
    <3>1. refs'[g] = refs[g] /\ Users(g)' = Users(g)
      BY <1>0, <1>6, <2>2 DEF FetchTypeOK
    <3> QED BY <1>0, <3>1 DEF RefsExact
  <2> QED BY <2>1, <2>2
<1>10. FreedExactly'
  <2> SUFFICES ASSUME NEW g \in Callers
               PROVE  g \in freed' <=> (lpc'[g] = "done" /\ Users(g)' = {})
    BY DEF FreedExactly, Users
  <2>1. CASE g = f
    BY <1>2, <1>5, <1>7, <2>1
  <2>2. CASE g # f
    BY <1>0, <1>7, <2>2 DEF FreedExactly
  <2> QED BY <2>1, <2>2
<1>11. CASE refs[f] = 1 /\ res[f] = "buf"
  <2>1. ReturnUnit
    BY <1>11 DEF Unref
  <2>2. f \in Holders /\ f \notin Holders'
    BY <1>2, <1>7, <1>11, FetchAssumption DEF Holders, HoldsUnit
  <2>3. \A g \in Callers \ {f} :
           lpc'[g] = lpc[g] /\ res'[g] = res[g] /\ (g \in freed' <=> g \in freed)
    BY <1>7
  <2>4. BudgetTypeOK' /\ UnitsExact' /\ WaitOnlyWhenFull' /\ waiting' \subseteq waiting
    BY <1>0, <2>1, <2>2, <2>3, GiveBack
  <2> QED BY <1>8, <1>9, <1>10, <2>4
<1>12. CASE ~(refs[f] = 1 /\ res[f] = "buf")
  <2>1. UNCHANGED budgetVars
    BY <1>12 DEF Unref
  <2>2. Holders' = Holders
    BY <1>7, <1>12, <2>1 DEF Holders, HoldsUnit, budgetVars
  <2>3. waiting' = waiting
    BY <2>1 DEF budgetVars
  <2> QED BY <1>0, <1>8, <1>9, <1>10, <2>1, <2>2, <2>3, BudgetSame
<1> QED BY <1>11, <1>12

\* Steps that change no flight, no count and no user leave the counts exact.
LEMMA RefsSame ==
  ASSUME RefsExact, FreedExactly,
         lpc' = lpc, waiters' = waiters, refs' = refs, freed' = freed,
         \A g \in Callers : Users(g)' = Users(g)
  PROVE  RefsExact' /\ FreedExactly'
BY DEF RefsExact, FreedExactly, Users, Unfinished

-----------------------------------------------------------------------------
(* Callers                                                                 *)

\* A step of a caller or claimer that neither joins nor claims nor drops
\* leaves everything about the flights as it was.
LEMMA FlightsUndisturbed ==
  ASSUME FetchInv, UNCHANGED <<flightVars, budgetVars>>,
         \A g \in Callers : Users(g)' = Users(g)
  PROVE  /\ LeadShape' /\ FlightsExact' /\ RefsExact' /\ FreedExactly'
         /\ BudgetTypeOK' /\ UnitsExact' /\ WaitOnlyWhenFull'
<1>1. /\ sf' = sf /\ lpc' = lpc /\ res' = res /\ waiters' = waiters
      /\ refs' = refs /\ freed' = freed /\ waiting' = waiting
  BY DEF flightVars, budgetVars
<1>2. LeadShape' /\ FlightsExact'
  BY <1>1 DEF FetchInv, LeadShape, FlightsExact
<1>3. RefsExact' /\ FreedExactly'
  BY <1>1, RefsSame DEF FetchInv
<1>4. Holders' = Holders
  BY <1>1 DEF Holders, HoldsUnit
<1> QED BY <1>2, <1>3, <1>4, BudgetSame DEF FetchInv

\* The steps of fetchChunk on its own, and the hand-off, keep the invariant.
LEMMA CallerKeepsInv ==
  ASSUME FetchInv, NEW c \in Callers,
         \/ Start(c) \/ Hit(c) \/ Miss(c) \/ QuitBeforeJoin(c)
         \/ Admitted(c) \/ QuitWaiting(c) \/ HandOff(c)
  PROVE  FetchInv'
<1>0. FetchTypeOK /\ CallerShape /\ JoinShape
  BY DEF FetchInv
<1>1. CASE Start(c)
  <2>1. UNCHANGED <<flightVars, budgetVars>> /\ joined' = joined
    BY <1>1 DEF Start
  <2>2. \A g \in Callers : Users(g)' = Users(g)
    BY <1>0, <1>1 DEF Start, Users, Shared, FetchTypeOK, CallerShape
  <2>3. FetchTypeOK'
    BY <1>0, <1>1, <2>1, <2>2, FlightsUndisturbed DEF Start, FetchTypeOK, flightVars
  <2>4. CallerShape'
    BY <1>0, <1>1 DEF Start, CallerShape, FetchTypeOK
  <2>5. JoinShape'
    BY <1>0, <1>1 DEF Start, JoinShape, FetchTypeOK, flightVars
  <2> QED BY <2>1, <2>2, <2>3, <2>4, <2>5, FlightsUndisturbed DEF FetchInv
<1>2. CASE Hit(c)
  <2>1. UNCHANGED <<flightVars, budgetVars>> /\ joined' = joined
    BY <1>2 DEF Hit
  <2>2. \A g \in Callers : Users(g)' = Users(g)
    BY <1>0, <1>2 DEF Hit, Users, Shared, FetchTypeOK, CallerShape
  <2>3. FetchTypeOK'
    BY <1>0, <1>2, <2>1, <2>2, FlightsUndisturbed DEF Hit, FetchTypeOK, flightVars
  <2>4. CallerShape'
    BY <1>0, <1>2 DEF Hit, CallerShape, FetchTypeOK
  <2>5. JoinShape'
    BY <1>0, <1>2 DEF Hit, JoinShape, FetchTypeOK, flightVars
  <2> QED BY <2>1, <2>2, <2>3, <2>4, <2>5, FlightsUndisturbed DEF FetchInv
<1>3. CASE Miss(c)
  <2>1. UNCHANGED <<flightVars, budgetVars>> /\ joined' = joined
    BY <1>3 DEF Miss
  <2>2. \A g \in Callers : Users(g)' = Users(g)
    BY <1>0, <1>3 DEF Miss, Users, Shared, FetchTypeOK, CallerShape
  <2>3. FetchTypeOK'
    BY <1>0, <1>3, <2>1, <2>2, FlightsUndisturbed DEF Miss, FetchTypeOK, flightVars
  <2>4. CallerShape'
    BY <1>0, <1>3 DEF Miss, Missed, CallerShape, FetchTypeOK
  <2>5. JoinShape'
    BY <1>0, <1>3 DEF Miss, JoinShape, FetchTypeOK, flightVars
  <2> QED BY <2>1, <2>2, <2>3, <2>4, <2>5, FlightsUndisturbed DEF FetchInv
<1>4. CASE QuitBeforeJoin(c)
  <2>1. UNCHANGED <<flightVars, budgetVars>> /\ joined' = joined
    BY <1>4 DEF QuitBeforeJoin
  <2>2. \A g \in Callers : Users(g)' = Users(g)
    BY <1>0, <1>4 DEF QuitBeforeJoin, Users, Shared, FetchTypeOK, CallerShape
  <2>3. FetchTypeOK'
    BY <1>0, <1>4, <2>1, <2>2, FlightsUndisturbed DEF QuitBeforeJoin, FetchTypeOK, flightVars
  <2>4. CallerShape'
    BY <1>0, <1>4 DEF QuitBeforeJoin, Missed, CallerShape, FetchTypeOK
  <2>5. JoinShape'
    BY <1>0, <1>4 DEF QuitBeforeJoin, JoinShape, FetchTypeOK, flightVars
  <2> QED BY <2>1, <2>2, <2>3, <2>4, <2>5, FlightsUndisturbed DEF FetchInv
<1>5. CASE Admitted(c)
  <2>1. UNCHANGED <<flightVars, budgetVars>> /\ joined' = joined
    BY <1>5 DEF Admitted
  <2>2. \A g \in Callers : Users(g)' = Users(g)
    BY <1>0, <1>5 DEF Admitted, Users, Shared, FetchTypeOK, CallerShape
  <2>3. FetchTypeOK'
    BY <1>0, <1>5, <2>1, <2>2, FlightsUndisturbed DEF Admitted, FetchTypeOK, flightVars
  <2>4. CallerShape'
    BY <1>0, <1>5 DEF Admitted, CallerShape, FetchTypeOK
  <2>5. JoinShape'
    BY <1>0, <1>5 DEF Admitted, JoinShape, FetchTypeOK, flightVars
  <2> QED BY <2>1, <2>2, <2>3, <2>4, <2>5, FlightsUndisturbed DEF FetchInv
<1>6. CASE QuitWaiting(c)
  <2>1. UNCHANGED <<flightVars, budgetVars>> /\ joined' = joined
    BY <1>6 DEF QuitWaiting
  <2>2. \A g \in Callers : Users(g)' = Users(g)
    BY <1>0, <1>6 DEF QuitWaiting, Users, Shared, FetchTypeOK, CallerShape
  <2>3. FetchTypeOK'
    BY <1>0, <1>6, <2>1, <2>2, FlightsUndisturbed DEF QuitWaiting, FetchTypeOK, flightVars
  <2>4. CallerShape'
    BY <1>0, <1>6 DEF QuitWaiting, CallerShape, FetchTypeOK
  <2>5. JoinShape'
    BY <1>0, <1>6 DEF QuitWaiting, JoinShape, FetchTypeOK, flightVars
  <2> QED BY <2>1, <2>2, <2>3, <2>4, <2>5, FlightsUndisturbed DEF FetchInv
<1>7. CASE HandOff(c)
  <2>1. UNCHANGED <<flightVars, budgetVars>> /\ joined' = joined
    BY <1>7 DEF HandOff
  <2>2. \A g \in Callers : Users(g)' = Users(g)
    BY <1>0, <1>7 DEF HandOff, Users, Shared, FetchTypeOK, CallerShape
  <2>3. FetchTypeOK'
    BY <1>0, <1>7, <2>1, <2>2, FlightsUndisturbed DEF HandOff, FetchTypeOK, flightVars
  <2>4. CallerShape'
    BY <1>0, <1>7 DEF HandOff, CallerShape, FetchTypeOK
  <2>5. JoinShape'
    BY <1>0, <1>7 DEF HandOff, JoinShape, FetchTypeOK, flightVars
  <2> QED BY <2>1, <2>2, <2>3, <2>4, <2>5, FlightsUndisturbed DEF FetchInv
<1> QED BY <1>1, <1>2, <1>3, <1>4, <1>5, <1>6, <1>7

\* Cancelling contexts and evicting files touch no flight.
LEMMA OutsideKeepsInv ==
  ASSUME FetchInv,
         \/ \E S \in SUBSET Callers : Cancel(S)
         \/ \E k \in Chunks : Evict(k)
         \/ UNCHANGED fetchVars
  PROVE  FetchInv'
<1>1. /\ UNCHANGED <<cpc, gpc, joined, via, flightVars, budgetVars>>
      /\ cancelled' \in SUBSET Callers /\ onDisk' \in SUBSET Chunks
  BY DEF FetchInv, FetchTypeOK, Cancel, Evict, callerVars, fetchVars, flightVars
<1>2. \A g \in Callers : Users(g)' = Users(g)
  BY <1>1 DEF Users
<1>3. /\ LeadShape' /\ FlightsExact' /\ RefsExact' /\ FreedExactly'
      /\ BudgetTypeOK' /\ UnitsExact' /\ WaitOnlyWhenFull'
  BY <1>1, <1>2, FlightsUndisturbed
<1>4. FetchTypeOK' /\ CallerShape' /\ JoinShape'
  BY <1>1, <1>3 DEF FetchInv, FetchTypeOK, CallerShape, JoinShape, flightVars
<1> QED BY <1>3, <1>4 DEF FetchInv

\* Joining a flight, or opening one, keeps the invariant: the flight found in
\* the map is unfinished, and the new user is counted.
LEMMA JoinKeepsInv ==
  ASSUME FetchInv, NEW c \in Callers, Join(c)
  PROVE  FetchInv'
<1> DEFINE f == sf[ChunkOf[c]]
<1>0. /\ FetchTypeOK /\ CallerShape /\ JoinShape /\ LeadShape /\ FlightsExact
      /\ RefsExact /\ FreedExactly /\ UnitsExact /\ WaitOnlyWhenFull
  BY DEF FetchInv
<1>1. /\ cpc[c] = "join" /\ gpc[c] = "none" /\ joined[c] = None /\ via[c] = "none"
      /\ lpc[c] = "none"
  BY <1>0, FetchAssumption DEF Join, CallerShape, JoinShape
<1>2. /\ onDisk' = onDisk /\ via' = via /\ cancelled' = cancelled /\ res' = res
      /\ refs' = refs /\ admitted' = admitted /\ freed' = freed
      /\ units' = units /\ waiting' = waiting /\ ahead' = ahead
      /\ gpc' = [gpc EXCEPT ![c] = "wait"] /\ cpc' = [cpc EXCEPT ![c] = "admit"]
  BY DEF Join, budgetVars
<1>3. UNCHANGED budgetVars
  BY <1>2 DEF budgetVars
<1>4. CASE f = None
  <2>1. /\ joined' = [joined EXCEPT ![c] = c] /\ waiters' = [waiters EXCEPT ![c] = 1]
        /\ sf' = [sf EXCEPT ![ChunkOf[c]] = c] /\ lpc' = [lpc EXCEPT ![c] = "acquire"]
    BY <1>4 DEF Join, Lead
  <2>2. Holders' = Holders
    BY <1>0, <1>1, <1>2, <2>1, FetchAssumption DEF Holders, HoldsUnit, FetchTypeOK, LeadShape
  <2>3. BudgetTypeOK' /\ UnitsExact' /\ WaitOnlyWhenFull'
    BY <1>0, <1>3, <2>2, BudgetSame
  <2>4. FetchTypeOK'
    BY <1>0, <1>2, <2>1, <2>3, FetchAssumption DEF FetchTypeOK
  <2>5. CallerShape'
    BY <1>0, <1>1, <1>2, <2>1, FetchAssumption DEF FetchTypeOK, CallerShape
  <2>6. JoinShape'
    BY <1>0, <1>1, <1>2, <2>1, FetchAssumption DEF FetchTypeOK, JoinShape
  <2>7. LeadShape'
    BY <1>0, <1>1, <1>2, <2>1 DEF FetchTypeOK, LeadShape
  <2>8. FlightsExact'
    BY <1>0, <1>1, <1>4, <2>1, FetchAssumption DEF FetchTypeOK, FlightsExact, Unfinished
  <2>9. Users(c) = {} /\ Users(c)' = {c} /\ \A g \in Callers \ {c} : Users(g)' = Users(g)
    BY <1>0, <1>1, <1>2, <2>1, FetchAssumption DEF FetchTypeOK, Users, JoinShape, Shared
  <2>10. Cardinality({c}) = 1
    BY FS_Singleton
  <2>11. RefsExact'
    <3> SUFFICES ASSUME NEW g \in Callers
                 PROVE  /\ lpc'[g] \in Unfinished => waiters'[g] = Cardinality(Users(g)')
                        /\ lpc'[g] \in {"publish", "done"} => refs'[g] = Cardinality(Users(g)')
      BY DEF RefsExact, Unfinished, Users
    <3>1. CASE g = c
      BY <1>0, <2>1, <2>9, <2>10, <3>1 DEF FetchTypeOK
    <3>2. CASE g # c
      BY <1>0, <1>2, <2>1, <2>9, <3>2 DEF FetchTypeOK, RefsExact
    <3> QED BY <3>1, <3>2
  <2>12. FreedExactly'
    BY <1>0, <1>1, <1>2, <2>1, <2>9 DEF FetchTypeOK, FreedExactly, Users
  <2> QED BY <2>3, <2>4, <2>5, <2>6, <2>7, <2>8, <2>11, <2>12 DEF FetchInv
<1>5. CASE f # None
  <2>1. /\ joined' = [joined EXCEPT ![c] = f] /\ waiters' = [waiters EXCEPT ![f] = @ + 1]
        /\ sf' = sf /\ lpc' = lpc
    BY <1>5 DEF Join, Follow
  <2>2. f \in Callers /\ ChunkOf[f] = ChunkOf[c] /\ lpc[f] \in Unfinished /\ f # c
    <3>1. f \in Callers
      BY <1>0, <1>5, FetchAssumption DEF FetchTypeOK
    <3>2. ChunkOf[f] = ChunkOf[c] /\ lpc[f] \in Unfinished
      BY <1>0, <3>1, FetchAssumption DEF FlightsExact
    <3> QED BY <1>1, <3>1, <3>2 DEF Unfinished
  <2>3. Holders' = Holders
    BY <1>2, <2>1 DEF Holders, HoldsUnit
  <2>4. BudgetTypeOK' /\ UnitsExact' /\ WaitOnlyWhenFull'
    BY <1>0, <1>3, <2>3, BudgetSame
  <2>5. FetchTypeOK'
    BY <1>0, <1>2, <2>1, <2>2, <2>4 DEF FetchTypeOK
  <2>6. CallerShape'
    BY <1>0, <1>1, <1>2, <2>1, <2>2, FetchAssumption DEF FetchTypeOK, CallerShape
  <2>7. JoinShape'
    BY <1>0, <1>1, <1>2, <2>1, <2>2, FetchAssumption DEF FetchTypeOK, JoinShape, Unfinished
  <2>8. LeadShape' /\ FlightsExact'
    BY <1>0, <1>2, <2>1 DEF LeadShape, FlightsExact
  <2>9. c \notin Users(f) /\ Users(f)' = Users(f) \cup {c}
    BY <1>0, <1>1, <1>2, <2>1, <2>2, FetchAssumption DEF FetchTypeOK, Users, Shared
  <2>10. \A g \in Callers \ {f} : Users(g)' = Users(g)
    BY <1>0, <1>1, <1>2, <2>1, <2>2, FetchAssumption DEF FetchTypeOK, Users, Shared
  <2>11. Users(f) \in SUBSET Callers
    BY DEF Users
  <2>12. Cardinality(Users(f)') = Cardinality(Users(f)) + 1
    BY <2>9, <2>11, CardOne
  <2>13. RefsExact'
    <3> SUFFICES ASSUME NEW g \in Callers
                 PROVE  /\ lpc'[g] \in Unfinished => waiters'[g] = Cardinality(Users(g)')
                        /\ lpc'[g] \in {"publish", "done"} => refs'[g] = Cardinality(Users(g)')
      BY DEF RefsExact, Unfinished, Users
    <3>1. CASE g = f
      BY <1>0, <2>1, <2>2, <2>12, <3>1 DEF FetchTypeOK, RefsExact, Unfinished
    <3>2. CASE g # f
      BY <1>0, <1>2, <2>1, <2>2, <2>10, <3>2 DEF FetchTypeOK, RefsExact
    <3> QED BY <3>1, <3>2
  <2>14. FreedExactly'
    <3> SUFFICES ASSUME NEW g \in Callers
                 PROVE  g \in freed' <=> (lpc'[g] = "done" /\ Users(g)' = {})
      BY DEF FreedExactly, Users
    <3> QED BY <1>0, <1>2, <2>1, <2>2, <2>10 DEF FreedExactly, Unfinished
  <2> QED BY <2>4, <2>5, <2>6, <2>7, <2>8, <2>13, <2>14 DEF FetchInv
<1> QED BY <1>4, <1>5

\* Closing a result, by its consumer or by the claimer of an aborted caller,
\* keeps the invariant.
LEMMA CloseKeepsInv ==
  ASSUME FetchInv, NEW c \in Callers, Close(c) \/ Discard(c)
  PROVE  FetchInv'
<1> DEFINE f == joined[c]
<1>0. /\ FetchTypeOK /\ CallerShape /\ JoinShape /\ LeadShape /\ FlightsExact
  BY DEF FetchInv
<1>1. /\ onDisk' = onDisk /\ joined' = joined /\ cancelled' = cancelled /\ sf' = sf
      /\ lpc' = lpc /\ res' = res /\ waiters' = waiters /\ admitted' = admitted
      /\ via' = [via EXCEPT ![c] = "none"]
  BY DEF Close, Discard, CloseResult
<1>2. \/ /\ cpc[c] = "holding" /\ gpc[c] \in {"none", "gone"}
         /\ cpc' = [cpc EXCEPT ![c] = "end"] /\ gpc' = gpc
      \/ gpc[c] = "offer" /\ gpc' = [gpc EXCEPT ![c] = "gone"] /\ cpc' = cpc
  BY <1>0 DEF Close, Discard, CallerShape, FetchTypeOK
<1>3. /\ cpc' \in [Callers -> {"idle", "lookup", "join", "admit", "out", "holding", "end"}]
      /\ gpc' \in [Callers -> {"none", "wait", "offer", "gone"}]
      /\ via' \in [Callers -> Shared \cup {"none", "hit", "file", "err"}]
  BY <1>0, <1>1, <1>2 DEF FetchTypeOK
<1>4. CallerShape'
  BY <1>0, <1>1, <1>2 DEF FetchTypeOK, CallerShape
<1>5. JoinShape'
  BY <1>0, <1>1, <1>2 DEF FetchTypeOK, JoinShape
<1>6. FlightsExact'
  BY <1>0, <1>1 DEF FlightsExact
<1>7. CASE via[c] \in Shared
  <2>1. gpc[c] \in {"offer", "gone"} /\ f \in Callers /\ lpc[f] = "done"
    BY <1>0, <1>2, <1>7 DEF FetchTypeOK, CallerShape, JoinShape, Shared
  <2>2. Unref(f)
    BY <1>7 DEF Close, Discard, CloseResult
  <2>3. c \in Users(f) /\ Users(f)' = Users(f) \ {c}
    BY <1>0, <1>1, <1>2, <1>7 DEF FetchTypeOK, Users, Shared
  <2>4. \A g \in Callers \ {f} : Users(g)' = Users(g)
    BY <1>0, <1>1, <1>2 DEF FetchTypeOK, Users, Shared
  <2>5. /\ RefsExact' /\ FreedExactly'
        /\ refs' \in [Callers -> Nat] /\ freed' \in SUBSET Callers
        /\ BudgetTypeOK' /\ UnitsExact' /\ WaitOnlyWhenFull'
        /\ waiting' \subseteq waiting
    BY <1>1, <2>1, <2>2, <2>3, <2>4, DropUser
  <2>6. FetchTypeOK'
    BY <1>0, <1>1, <1>3, <2>5 DEF FetchTypeOK
  <2>7. LeadShape'
    BY <1>0, <1>1, <2>5 DEF LeadShape
  <2> QED BY <1>4, <1>5, <1>6, <2>5, <2>6, <2>7 DEF FetchInv
<1>8. CASE via[c] \notin Shared
  <2>1. UNCHANGED <<flightVars, budgetVars>>
    BY <1>1, <1>8 DEF Close, Discard, CloseResult, flightVars
  <2>2. \A g \in Callers : Users(g)' = Users(g)
    BY <1>0, <1>1, <1>2, <1>8 DEF FetchTypeOK, Users, Shared
  <2>3. /\ LeadShape' /\ FlightsExact' /\ RefsExact' /\ FreedExactly'
        /\ BudgetTypeOK' /\ UnitsExact' /\ WaitOnlyWhenFull'
    BY <2>1, <2>2, FlightsUndisturbed
  <2>4. FetchTypeOK'
    BY <1>0, <1>1, <1>3, <2>1, <2>3 DEF FetchTypeOK, flightVars
  <2> QED BY <1>4, <1>5, <2>3, <2>4 DEF FetchInv
<1> QED BY <1>7, <1>8

\* A claim keeps the invariant: it drops the reference unless the result
\* reads the shared pin or buffer.
LEMMA ClaimKeepsInv ==
  ASSUME FetchInv, NEW c \in Callers, Claim(c)
  PROVE  FetchInv'
<1> DEFINE f == joined[c]
<1>0. /\ FetchTypeOK /\ CallerShape /\ JoinShape /\ LeadShape /\ FlightsExact
  BY DEF FetchInv
<1>1. /\ onDisk' = onDisk /\ cpc' = cpc /\ joined' = joined /\ cancelled' = cancelled
      /\ sf' = sf /\ lpc' = lpc /\ res' = res /\ waiters' = waiters /\ admitted' = admitted
      /\ gpc[c] = "wait" /\ gpc' = [gpc EXCEPT ![c] = "offer"] /\ lpc[f] = "done"
  BY DEF Claim
<1>2. f \in Callers
  BY <1>0, <1>1 DEF FetchTypeOK, CallerShape
<1>3. PICK v \in Shared \cup {"file", "err"} :
        /\ via' = [via EXCEPT ![c] = v]
        /\ IF v \in Shared THEN UNCHANGED <<refs, freed, budgetVars>> ELSE Unref(f)
  BY DEF Claim, ClaimError, ClaimBuffer, ClaimFile, ClaimPinned, Shared
<1>4. /\ gpc' \in [Callers -> {"none", "wait", "offer", "gone"}]
      /\ via' \in [Callers -> Shared \cup {"none", "hit", "file", "err"}]
  BY <1>0, <1>1, <1>3 DEF FetchTypeOK
<1>5. CallerShape'
  BY <1>0, <1>1, <1>3 DEF FetchTypeOK, CallerShape
<1>6. JoinShape'
  BY <1>0, <1>1, <1>3 DEF FetchTypeOK, JoinShape
<1>7. CASE v \in Shared
  <2>1. UNCHANGED <<flightVars, budgetVars>>
    BY <1>1, <1>3, <1>7 DEF flightVars
  <2>2. \A g \in Callers : Users(g)' = Users(g)
    BY <1>0, <1>1, <1>3, <1>7 DEF FetchTypeOK, Users
  <2>3. /\ LeadShape' /\ FlightsExact' /\ RefsExact' /\ FreedExactly'
        /\ BudgetTypeOK' /\ UnitsExact' /\ WaitOnlyWhenFull'
    BY <2>1, <2>2, FlightsUndisturbed
  <2>4. FetchTypeOK'
    BY <1>0, <1>1, <1>4, <2>1, <2>3 DEF FetchTypeOK, flightVars
  <2> QED BY <1>5, <1>6, <2>3, <2>4 DEF FetchInv
<1>8. CASE v \notin Shared
  <2>1. c \in Users(f) /\ Users(f)' = Users(f) \ {c}
    BY <1>0, <1>1, <1>3, <1>8 DEF FetchTypeOK, Users
  <2>2. \A g \in Callers \ {f} : Users(g)' = Users(g)
    BY <1>0, <1>1, <1>3 DEF FetchTypeOK, Users
  <2>3. /\ RefsExact' /\ FreedExactly'
        /\ refs' \in [Callers -> Nat] /\ freed' \in SUBSET Callers
        /\ BudgetTypeOK' /\ UnitsExact' /\ WaitOnlyWhenFull'
        /\ waiting' \subseteq waiting
    BY <1>1, <1>2, <1>3, <1>8, <2>1, <2>2, DropUser
  <2>4. FetchTypeOK'
    BY <1>0, <1>1, <1>4, <2>3 DEF FetchTypeOK
  <2>5. LeadShape' /\ FlightsExact'
    BY <1>0, <1>1, <2>3 DEF LeadShape, FlightsExact
  <2> QED BY <1>5, <1>6, <2>3, <2>4, <2>5 DEF FetchInv
<1> QED BY <1>7, <1>8

-----------------------------------------------------------------------------
(* Leads                                                                   *)

\* A lead that moves on without finishing leaves callers, map and counts.
LEMMA LeadGoesOn ==
  ASSUME FetchInv, NEW f \in Callers, NEW p \in Unfinished,
         lpc[f] \in Unfinished, lpc' = [lpc EXCEPT ![f] = p],
         UNCHANGED <<callerVars, sf, waiters, refs, freed>>
  PROVE  CallerShape' /\ JoinShape' /\ FlightsExact' /\ RefsExact' /\ FreedExactly'
<1>0. /\ FetchTypeOK /\ CallerShape /\ JoinShape /\ FlightsExact
      /\ RefsExact /\ FreedExactly
  BY DEF FetchInv
<1>1. /\ cpc' = cpc /\ gpc' = gpc /\ joined' = joined /\ via' = via
      /\ cancelled' = cancelled
  BY DEF callerVars
<1>2. CallerShape'
  BY <1>0, <1>1 DEF CallerShape
<1>3. JoinShape'
  BY <1>0, <1>1 DEF FetchTypeOK, JoinShape, Unfinished
<1>4. FlightsExact'
  BY <1>0 DEF FetchTypeOK, FlightsExact, Unfinished
<1>5. \A g \in Callers : Users(g)' = Users(g)
  BY <1>1 DEF Users
<1>6. RefsExact'
  <2> SUFFICES ASSUME NEW g \in Callers
               PROVE  /\ lpc'[g] \in Unfinished => waiters'[g] = Cardinality(Users(g)')
                      /\ lpc'[g] \in {"publish", "done"} => refs'[g] = Cardinality(Users(g)')
    BY DEF RefsExact, Unfinished, Users
  <2> QED BY <1>0, <1>5 DEF FetchTypeOK, RefsExact, Unfinished
<1>7. FreedExactly'
  <2> SUFFICES ASSUME NEW g \in Callers
               PROVE  g \in freed' <=> (lpc'[g] = "done" /\ Users(g)' = {})
    BY DEF FreedExactly, Users
  <2> QED BY <1>0, <1>5 DEF FetchTypeOK, FreedExactly, Unfinished
<1> QED BY <1>2, <1>3, <1>4, <1>6, <1>7

\* The budget steps of a lead keep the invariant.
LEMMA QueueingKeepsInv ==
  ASSUME FetchInv, NEW f \in Callers,
         Acquire(f) \/ QueueTimeout(f) \/ Admit(f)
  PROVE  FetchInv'
<1>0. /\ FetchTypeOK /\ LeadShape /\ UnitsExact /\ WaitOnlyWhenFull
  BY DEF FetchInv
<1>1. CASE Acquire(f)
  <2>1. /\ lpc[f] = "acquire" /\ lpc' = [lpc EXCEPT ![f] = "budget"]
        /\ UNCHANGED <<onDisk, callerVars, sf, res, waiters, refs, admitted, freed>>
    BY <1>1 DEF Acquire
  <2>2. CallerShape' /\ JoinShape' /\ FlightsExact' /\ RefsExact' /\ FreedExactly'
    BY <2>1, LeadGoesOn DEF Unfinished
  <2>3. f \notin waiting /\ f \notin Holders /\ Holders \in SUBSET Callers
    BY <1>0, <2>1, FetchAssumption DEF LeadShape, Holders, HoldsUnit
  <2>4. CASE TakeUnit
    <3>1. units < Units /\ units' = units + 1 /\ waiting' = waiting /\ ahead' = ahead
      BY <2>4 DEF TakeUnit
    <3>2. Holders' = Holders \cup {f}
      BY <1>0, <2>1, <2>3, <3>1, FetchAssumption DEF FetchTypeOK, Holders, HoldsUnit
    <3>3. UnitsExact'
      BY <1>0, <2>3, <3>1, <3>2, CardOne DEF UnitsExact, Holders
    <3>4. BudgetTypeOK' /\ WaitOnlyWhenFull'
      BY <1>0, <3>1, UnitsAssumption DEF FetchTypeOK, BudgetTypeOK, WaitOnlyWhenFull
    <3>5. LeadShape'
      BY <1>0, <2>1, <2>3, <3>1 DEF FetchTypeOK, LeadShape
    <3>6. FetchTypeOK'
      BY <1>0, <2>1, <3>4 DEF FetchTypeOK, callerVars
    <3> QED BY <2>2, <3>3, <3>4, <3>5, <3>6 DEF FetchInv
  <2>5. CASE JoinQueue(f)
    <3>1. /\ units = Units /\ units' = units /\ waiting' = waiting \cup {f}
          /\ ahead' = [ahead EXCEPT ![f] = waiting]
      BY <2>5 DEF JoinQueue
    <3>2. Holders' = Holders
      BY <1>0, <2>1, <2>3, <3>1, FetchAssumption DEF FetchTypeOK, Holders, HoldsUnit
    <3>3. UnitsExact' /\ WaitOnlyWhenFull'
      BY <1>0, <3>1, <3>2 DEF UnitsExact, Holders, WaitOnlyWhenFull
    <3>4. BudgetTypeOK'
      BY <1>0, <3>1, FetchAssumption DEF FetchTypeOK, BudgetTypeOK
    <3>5. LeadShape'
      BY <1>0, <2>1, <2>3, <3>1 DEF FetchTypeOK, LeadShape
    <3>6. FetchTypeOK'
      BY <1>0, <2>1, <3>4 DEF FetchTypeOK, callerVars
    <3> QED BY <2>2, <3>3, <3>4, <3>5, <3>6 DEF FetchInv
  <2> QED BY <1>1, <2>4, <2>5 DEF Acquire
<1>2. CASE QueueTimeout(f)
  <2>1. /\ lpc[f] = "budget" /\ lpc' = [lpc EXCEPT ![f] = "finish"]
        /\ res' = [res EXCEPT ![f] = "err"]
        /\ UNCHANGED <<onDisk, callerVars, sf, waiters, refs, admitted, freed>>
        /\ f \in waiting /\ LeaveQueue(f) /\ units' = units
    BY <1>2 DEF QueueTimeout, QuitQueue
  <2>2. CallerShape' /\ JoinShape' /\ FlightsExact' /\ RefsExact' /\ FreedExactly'
    BY <2>1, LeadGoesOn DEF Unfinished
  <2>3. waiting' = waiting \ {f}
    BY <2>1 DEF LeaveQueue
  <2>4. Holders' = Holders
    BY <1>0, <2>1, <2>3, FetchAssumption DEF FetchTypeOK, LeadShape, Holders, HoldsUnit
  <2>5. UnitsExact' /\ WaitOnlyWhenFull'
    BY <1>0, <2>1, <2>3, <2>4 DEF UnitsExact, Holders, WaitOnlyWhenFull
  <2>6. BudgetTypeOK'
    BY <1>0, <2>1, <2>3 DEF FetchTypeOK, BudgetTypeOK, LeaveQueue
  <2>7. LeadShape'
    BY <1>0, <2>1, <2>3 DEF FetchTypeOK, LeadShape
  <2>8. FetchTypeOK'
    BY <1>0, <2>1, <2>6 DEF FetchTypeOK, callerVars
  <2> QED BY <2>2, <2>5, <2>6, <2>7, <2>8 DEF FetchInv
<1>3. CASE Admit(f)
  <2>1. /\ lpc[f] = "budget" /\ lpc' = [lpc EXCEPT ![f] = "download"] /\ f \notin waiting
        /\ admitted' = admitted \cup {f}
        /\ UNCHANGED <<onDisk, callerVars, sf, res, waiters, refs, freed, budgetVars>>
    BY <1>3 DEF Admit
  <2>2. CallerShape' /\ JoinShape' /\ FlightsExact' /\ RefsExact' /\ FreedExactly'
    BY <2>1, LeadGoesOn DEF Unfinished
  <2>3. Holders' = Holders
    BY <1>0, <2>1 DEF FetchTypeOK, Holders, HoldsUnit, budgetVars
  <2>4. BudgetTypeOK' /\ UnitsExact' /\ WaitOnlyWhenFull'
    BY <1>0, <2>1, <2>3, BudgetSame
  <2>5. LeadShape'
    BY <1>0, <2>1 DEF FetchTypeOK, LeadShape, budgetVars
  <2>6. FetchTypeOK'
    BY <1>0, <2>1, <2>4 DEF FetchTypeOK, callerVars
  <2> QED BY <2>2, <2>4, <2>5, <2>6 DEF FetchInv
<1> QED BY <1>1, <1>2, <1>3

\* The end of a download, failed or not, stored or not, keeps the invariant:
\* the unit goes back unless the flight keeps the buffer.
LEMMA DownloadKeepsInv ==
  ASSUME FetchInv, NEW f \in Callers,
         DownloadFails(f) \/ StoreChunk(f) \/ KeepBuffer(f)
  PROVE  FetchInv'
<1>0. /\ FetchTypeOK /\ LeadShape /\ UnitsExact /\ WaitOnlyWhenFull
  BY DEF FetchInv
<1>1. PICK r \in {"err", "pin", "buf"} :
        /\ res' = [res EXCEPT ![f] = r]
        /\ IF r = "buf" THEN UNCHANGED budgetVars ELSE ReturnUnit
  BY DEF DownloadFails, StoreChunk, KeepBuffer
<1>2. /\ lpc[f] = "download" /\ lpc' = [lpc EXCEPT ![f] = "finish"]
      /\ UNCHANGED <<callerVars, sf, waiters, refs, admitted, freed>>
      /\ onDisk' \in SUBSET Chunks
  BY <1>0, FetchAssumption DEF DownloadFails, StoreChunk, KeepBuffer, FetchTypeOK
<1>3. CallerShape' /\ JoinShape' /\ FlightsExact' /\ RefsExact' /\ FreedExactly'
  BY <1>2, LeadGoesOn DEF Unfinished
<1>4. f \notin freed /\ f \in Holders
  BY <1>2, FetchAssumption DEF FetchInv, FreedExactly, Holders, HoldsUnit
<1>5. /\ BudgetTypeOK' /\ UnitsExact' /\ WaitOnlyWhenFull'
      /\ waiting' \subseteq waiting
  <2>1. CASE r = "buf"
    <3>1. UNCHANGED budgetVars
      BY <1>1, <2>1
    <3>2. Holders' = Holders
      BY <1>0, <1>1, <1>2, <1>4, <2>1, <3>1 DEF FetchTypeOK, Holders, HoldsUnit, budgetVars
    <3> QED BY <1>0, <3>1, <3>2, BudgetSame DEF budgetVars
  <2>2. CASE r # "buf"
    <3>1. ReturnUnit
      BY <1>1, <2>2
    <3>2. f \notin Holders'
      BY <1>0, <1>1, <1>2, <2>2 DEF FetchTypeOK, Holders, HoldsUnit
    <3>3. \A g \in Callers \ {f} :
            lpc'[g] = lpc[g] /\ res'[g] = res[g] /\ (g \in freed' <=> g \in freed)
      BY <1>0, <1>1, <1>2 DEF FetchTypeOK
    <3> QED BY <1>0, <1>4, <3>1, <3>2, <3>3, GiveBack
  <2> QED BY <2>1, <2>2
<1>6. LeadShape'
  BY <1>0, <1>1, <1>2, <1>5 DEF FetchTypeOK, LeadShape
<1>7. FetchTypeOK'
  BY <1>0, <1>1, <1>2, <1>5 DEF FetchTypeOK, callerVars
<1> QED BY <1>3, <1>5, <1>6, <1>7 DEF FetchInv

\* Finishing and publishing keep the invariant: the count read under the lock
\* is the number of users, and the leading caller is still one of them when
\* the flight is published.
LEMMA FinishKeepsInv ==
  ASSUME FetchInv, NEW f \in Callers, Finish(f) \/ Publish(f)
  PROVE  FetchInv'
<1>0. /\ FetchTypeOK /\ CallerShape /\ JoinShape /\ LeadShape /\ FlightsExact
      /\ RefsExact /\ FreedExactly /\ UnitsExact /\ WaitOnlyWhenFull
  BY DEF FetchInv
<1>1. /\ UNCHANGED <<onDisk, callerVars, res, waiters, freed, budgetVars>>
      /\ lpc' \in [Callers -> {"none", "acquire", "budget", "download", "finish", "publish", "done"}]
      /\ lpc[f] \in {"finish", "publish"} /\ lpc'[f] \in {"publish", "done"}
      /\ \A g \in Callers \ {f} : lpc'[g] = lpc[g]
  BY <1>0 DEF Finish, Publish, FetchTypeOK
<1>2. /\ cpc' = cpc /\ gpc' = gpc /\ joined' = joined /\ via' = via
      /\ cancelled' = cancelled /\ waiting' = waiting
  BY <1>1 DEF callerVars, budgetVars
<1>3. \A g \in Callers : Users(g)' = Users(g)
  BY <1>2 DEF Users
<1>4. CallerShape'
  BY <1>0, <1>2 DEF CallerShape
<1>5. JoinShape'
  BY <1>0, <1>1, <1>2 DEF FetchTypeOK, CallerShape, JoinShape
<1>6. LeadShape'
  BY <1>0, <1>1, <1>2 DEF FetchTypeOK, LeadShape
<1>7. Holders' = Holders
  BY <1>0, <1>1, <1>2, FetchAssumption DEF FetchTypeOK, Holders, HoldsUnit
<1>8. BudgetTypeOK' /\ UnitsExact' /\ WaitOnlyWhenFull'
  BY <1>0, <1>1, <1>7, BudgetSame
<1>9. f \in Users(f)
  BY <1>0, <1>1, FetchAssumption DEF FetchTypeOK, CallerShape, JoinShape, Users
<1>10. FreedExactly'
  <2> SUFFICES ASSUME NEW g \in Callers
               PROVE  g \in freed' <=> (lpc'[g] = "done" /\ Users(g)' = {})
    BY DEF FreedExactly, Users
  <2>1. CASE g = f
    BY <1>0, <1>1, <1>3, <1>9, <2>1 DEF FreedExactly
  <2>2. CASE g # f
    BY <1>0, <1>1, <1>3, <2>2 DEF FreedExactly
  <2> QED BY <2>1, <2>2
<1>11. CASE Finish(f)
  <2>1. /\ lpc[f] = "finish" /\ sf' = [sf EXCEPT ![ChunkOf[f]] = None]
        /\ refs' = [refs EXCEPT ![f] = waiters[f]] /\ lpc' = [lpc EXCEPT ![f] = "publish"]
        /\ admitted' = admitted
    BY <1>11 DEF Finish
  <2>2. FetchTypeOK'
    BY <1>0, <1>1, <1>2, <1>8, <2>1, FetchAssumption DEF FetchTypeOK
  <2>3. FlightsExact'
    BY <1>0, <2>1, FetchAssumption DEF FetchTypeOK, FlightsExact, Unfinished
  <2>4. RefsExact'
    <3> SUFFICES ASSUME NEW g \in Callers
                 PROVE  /\ lpc'[g] \in Unfinished => waiters'[g] = Cardinality(Users(g)')
                        /\ lpc'[g] \in {"publish", "done"} => refs'[g] = Cardinality(Users(g)')
      BY DEF RefsExact, Unfinished, Users
    <3>1. CASE g = f
      BY <1>0, <1>3, <2>1, <3>1 DEF FetchTypeOK, RefsExact, Unfinished
    <3>2. CASE g # f
      BY <1>0, <1>1, <1>3, <2>1, <3>2 DEF FetchTypeOK, RefsExact
    <3> QED BY <3>1, <3>2
  <2> QED BY <1>4, <1>5, <1>6, <1>8, <1>10, <2>2, <2>3, <2>4 DEF FetchInv
<1>12. CASE Publish(f)
  <2>1. /\ lpc[f] = "publish" /\ sf' = sf /\ refs' = refs
        /\ lpc' = [lpc EXCEPT ![f] = "done"] /\ admitted' = admitted \cup {f}
    BY <1>12 DEF Publish
  <2>2. FetchTypeOK'
    BY <1>0, <1>1, <1>2, <1>8, <2>1 DEF FetchTypeOK
  <2>3. FlightsExact'
    BY <1>0, <2>1 DEF FetchTypeOK, FlightsExact, Unfinished
  <2>4. RefsExact'
    <3> SUFFICES ASSUME NEW g \in Callers
                 PROVE  /\ lpc'[g] \in Unfinished => waiters'[g] = Cardinality(Users(g)')
                        /\ lpc'[g] \in {"publish", "done"} => refs'[g] = Cardinality(Users(g)')
      BY DEF RefsExact, Unfinished, Users
    <3> QED BY <1>0, <1>1, <1>3, <2>1 DEF FetchTypeOK, RefsExact, Unfinished
  <2> QED BY <1>4, <1>5, <1>6, <1>8, <1>10, <2>2, <2>3, <2>4 DEF FetchInv
<1> QED BY <1>11, <1>12

-----------------------------------------------------------------------------
(* The theorems                                                            *)

\* The invariant holds when the process starts: no flight, no user, no unit.
LEMMA InitInv == FetchInit => FetchInv
<1> SUFFICES ASSUME FetchInit PROVE FetchInv
  OBVIOUS
<1>1. FetchTypeOK
  BY FetchAssumption, UnitsAssumption
  DEF FetchInit, BudgetInit, FetchTypeOK, BudgetTypeOK, Shared
<1>2. CallerShape /\ JoinShape /\ LeadShape /\ FlightsExact
  BY FetchAssumption
  DEF FetchInit, BudgetInit, CallerShape, JoinShape, LeadShape, FlightsExact, Unfinished
<1>3. RefsExact /\ FreedExactly /\ WaitOnlyWhenFull
  BY DEF FetchInit, BudgetInit, RefsExact, FreedExactly, WaitOnlyWhenFull, Unfinished
<1>4. UnitsExact
  <2>1. Holders = {}
    BY FetchAssumption DEF FetchInit, BudgetInit, Holders, HoldsUnit
  <2> QED BY <2>1, FS_EmptySet DEF FetchInit, BudgetInit, UnitsExact, Holders
<1> QED BY <1>1, <1>2, <1>3, <1>4 DEF FetchInv

\* What may happen to callers, claimers, leads and the cache: the steps of
\* FetchNext, with any set of contexts cancelled at once.
FetchAction ==
  \/ FetchStep
  \/ \E c \in Callers : Start(c) \/ Close(c)
  \/ \E S \in SUBSET Callers : Cancel(S)

\* Every step of the fetch path keeps it, however many contexts end at once.
LEMMA StepInv == FetchInv /\ [FetchAction]_fetchVars => FetchInv'
<1> SUFFICES ASSUME FetchInv, [FetchAction]_fetchVars PROVE FetchInv'
  OBVIOUS
<1>1. ASSUME NEW c \in Callers, CallerStep(c) \/ Start(c) \/ HandOff(c) PROVE FetchInv'
  BY <1>1, CallerKeepsInv, JoinKeepsInv DEF CallerStep
<1>2. ASSUME NEW c \in Callers, Claim(c) \/ Discard(c) \/ Close(c) PROVE FetchInv'
  BY <1>2, ClaimKeepsInv, CloseKeepsInv
<1>3. ASSUME NEW f \in Callers, LeadStep(f) \/ QueueTimeout(f) PROVE FetchInv'
  BY <1>3, QueueingKeepsInv, DownloadKeepsInv, FinishKeepsInv DEF LeadStep
<1>4. ASSUME \/ \E S \in SUBSET Callers : Cancel(S)
             \/ \E k \in Chunks : Evict(k)
             \/ UNCHANGED fetchVars
      PROVE FetchInv'
  BY <1>4, OutsideKeepsInv
<1> QED BY <1>1, <1>2, <1>3, <1>4 DEF FetchAction, FetchStep, ClaimerStep

\* The steps of FetchSpec are among them.
LEMMA NextIsAction == [FetchNext]_fetchVars => [FetchAction]_fetchVars
<1>1. ASSUME NEW c \in Callers, Cancel({c}) PROVE \E S \in SUBSET Callers : Cancel(S)
  BY <1>1
<1> QED BY <1>1 DEF FetchNext, FetchAction

\* Every reachable state of the chunk fetch path satisfies the inductive
\* invariant, for any number of callers and any budget.
THEOREM FetchInvariant == FetchSpec => []FetchInv
<1>1. FetchInit => FetchInv
  BY InitInv
<1>2. FetchInv /\ [FetchNext]_fetchVars => FetchInv'
  BY StepInv, NextIsAction
<1> QED BY <1>1, <1>2, PTL DEF FetchSpec

\* Type correctness: in particular no counter of chunk.go, singleflight.go or
\* budget.go goes below zero, and the channel never exceeds its capacity.
THEOREM FetchTypeCorrect == FetchSpec => []FetchTypeOK
<1>1. FetchInv => FetchTypeOK
  BY DEF FetchInv
<1> QED BY <1>1, FetchInvariant, PTL

\* Both reference counters count exactly the callers they should.
THEOREM FetchRefsExact == FetchSpec => []RefsExact
<1>1. FetchInv => RefsExact
  BY DEF FetchInv
<1> QED BY <1>1, FetchInvariant, PTL

\* A flight's file or buffer is released with its last user: never earlier,
\* never later.
THEOREM FetchFreedExactly == FetchSpec => []FreedExactly
<1>1. FetchInv => FreedExactly
  BY DEF FetchInv
<1> QED BY <1>1, FetchInvariant, PTL

\* The anonymous budget count equals the number of buffers owned.
THEOREM FetchUnitsExact == FetchSpec => []UnitsExact
<1>1. FetchInv => UnitsExact
  BY DEF FetchInv
<1> QED BY <1>1, FetchInvariant, PTL

\* Every buffer in memory has a unit of the budget to its name.
LEMMA InvBuffersCapped == FetchInv => BuffersCapped
<1> SUFFICES ASSUME FetchInv PROVE BuffersCapped
  OBVIOUS
<1>1. LiveBuffers \subseteq Holders /\ Holders \subseteq Callers
  BY FetchAssumption DEF LiveBuffers, Holders, HoldsUnit
<1>2. IsFiniteSet(Holders)
  BY <1>1, CardCallers
<1>3. /\ Cardinality(LiveBuffers) \in Nat /\ Cardinality(Holders) \in Nat
      /\ Cardinality(LiveBuffers) <= Cardinality(Holders)
  BY <1>1, <1>2, CardCallers, FS_Subset
<1>4. Cardinality(Holders) = units /\ units \in 0..Units
  BY DEF FetchInv, UnitsExact, Holders, FetchTypeOK, BudgetTypeOK
<1> QED BY <1>3, <1>4, UnitsAssumption DEF BuffersCapped

\* However many callers share, abandon or are slow to close what they fetched,
\* no more than Units chunk buffers are in memory.
THEOREM FetchBuffersCapped == FetchSpec => []BuffersCapped
  BY InvBuffersCapped, FetchInvariant, PTL

\* A fetch queues for budget only while every unit is taken.
THEOREM FetchWaitOnlyWhenFull == FetchSpec => []WaitOnlyWhenFull
<1>1. FetchInv => WaitOnlyWhenFull
  BY DEF FetchInv
<1> QED BY <1>1, FetchInvariant, PTL

\* The singleflight map holds exactly the unfinished fetches.
THEOREM FetchFlightsExact == FetchSpec => []FlightsExact
<1>1. FetchInv => FlightsExact
  BY DEF FetchInv
<1> QED BY <1>1, FetchInvariant, PTL

-----------------------------------------------------------------------------
(* The budget implements the pool                                          *)

\* An unref of a flight that still has a user returns its unit to the pool,
\* or changes nothing in it.
LEMMA UnrefPool ==
  ASSUME FetchInv, NEW f \in Callers, NEW c \in Users(f), lpc[f] = "done", Unref(f),
         lpc' = lpc, res' = res
  PROVE  [Pool!PoolNext]_(Pool!poolVars)
<1>0. FetchTypeOK /\ LeadShape /\ UnitsExact /\ WaitOnlyWhenFull /\ f \notin freed
  BY DEF FetchInv, FreedExactly
<1>1. freed' = IF refs[f] = 1 THEN freed \cup {f} ELSE freed
  BY DEF Unref
<1>2. CASE refs[f] = 1 /\ res[f] = "buf"
  <2>1. ReturnUnit
    BY <1>2 DEF Unref
  <2>2. f \in Holders /\ f \notin Holders'
    BY <1>0, <1>1, <1>2, FetchAssumption DEF Holders, HoldsUnit
  <2>3. \A g \in Callers \ {f} :
           lpc'[g] = lpc[g] /\ res'[g] = res[g] /\ (g \in freed' <=> g \in freed)
    BY <1>1
  <2>4. Pool!PoolReturn(f) \/ \E g \in Callers : Pool!PoolPass(f, g)
    BY <1>0, <2>1, <2>2, <2>3, GiveBack
  <2> QED BY <2>4, FetchAssumption DEF Pool!PoolNext
<1>3. CASE ~(refs[f] = 1 /\ res[f] = "buf")
  <2>1. UNCHANGED budgetVars
    BY <1>3 DEF Unref
  <2>2. Holders' = Holders
    BY <1>1, <1>3, <2>1 DEF Holders, HoldsUnit, budgetVars
  <2> QED BY <2>1, <2>2 DEF Pool!poolVars, budgetVars
<1> QED BY <1>2, <1>3

\* Every step of the fetch path is a step of the pool or leaves it alone.
LEMMA PoolStep == FetchInv /\ [FetchAction]_fetchVars => [Pool!PoolNext]_(Pool!poolVars)
<1> SUFFICES ASSUME FetchInv, [FetchAction]_fetchVars
             PROVE  [Pool!PoolNext]_(Pool!poolVars)
  OBVIOUS
<1>0. /\ FetchTypeOK /\ CallerShape /\ JoinShape /\ LeadShape
      /\ UnitsExact /\ WaitOnlyWhenFull /\ FreedExactly
  BY DEF FetchInv
<1>1. ASSUME lpc' = lpc, res' = res, freed' = freed, UNCHANGED budgetVars
      PROVE  [Pool!PoolNext]_(Pool!poolVars)
  <2>1. Holders' = Holders
    BY <1>1 DEF Holders, HoldsUnit, budgetVars
  <2> QED BY <1>1, <2>1 DEF Pool!poolVars, budgetVars
<1>2. ASSUME NEW c \in Callers,
             \/ Start(c) \/ Hit(c) \/ Miss(c) \/ QuitBeforeJoin(c)
             \/ Admitted(c) \/ QuitWaiting(c) \/ HandOff(c)
      PROVE  [Pool!PoolNext]_(Pool!poolVars)
  <2>1. UNCHANGED <<flightVars, budgetVars>>
    BY <1>2 DEF Start, Hit, Miss, QuitBeforeJoin, Admitted, QuitWaiting, HandOff
  <2> QED BY <1>1, <2>1 DEF flightVars
<1>3. ASSUME NEW c \in Callers, Join(c)
      PROVE  [Pool!PoolNext]_(Pool!poolVars)
  <2>1. lpc[c] = "none"
    BY <1>0, <1>3, FetchAssumption DEF Join, CallerShape, JoinShape
  <2>2. /\ lpc' = lpc \/ lpc' = [lpc EXCEPT ![c] = "acquire"]
        /\ res' = res /\ freed' = freed /\ UNCHANGED budgetVars
    BY <1>3 DEF Join, Lead, Follow
  <2>3. Holders' = Holders
    BY <1>0, <2>1, <2>2, FetchAssumption DEF FetchTypeOK, Holders, HoldsUnit, budgetVars
  <2> QED BY <2>2, <2>3 DEF Pool!poolVars, budgetVars
<1>4. ASSUME NEW c \in Callers, Claim(c) \/ Discard(c) \/ Close(c)
      PROVE  [Pool!PoolNext]_(Pool!poolVars)
  <2>1. lpc' = lpc /\ res' = res
    BY <1>4 DEF Claim, Discard, Close
  <2>2. CASE UNCHANGED <<refs, freed, budgetVars>>
    BY <1>1, <2>1, <2>2
  <2>3. CASE ~UNCHANGED <<refs, freed, budgetVars>>
    <3>1. Unref(joined[c])
      BY <1>4, <2>3 DEF Claim, ClaimError, ClaimBuffer, ClaimFile, ClaimPinned,
                        Discard, Close, CloseResult
    <3>2. gpc[c] = "wait" \/ via[c] \in Shared
      BY <1>4, <2>3 DEF Claim, Discard, Close, CloseResult
    <3>3. gpc[c] # "none" /\ joined[c] \in Callers
      BY <1>0, <3>2 DEF FetchTypeOK, CallerShape, Shared
    <3>4. lpc[joined[c]] = "done"
      BY <1>0, <1>4, <3>3 DEF FetchTypeOK, CallerShape, JoinShape, Claim, Discard, Close
    <3>5. c \in Users(joined[c])
      BY <3>2 DEF Users
    <3> QED BY <2>1, <3>1, <3>3, <3>4, <3>5, UnrefPool
  <2> QED BY <2>2, <2>3
<1>5. ASSUME NEW f \in Callers, Acquire(f)
      PROVE  [Pool!PoolNext]_(Pool!poolVars)
  <2>1. /\ lpc[f] = "acquire" /\ lpc' = [lpc EXCEPT ![f] = "budget"]
        /\ res' = res /\ freed' = freed
    BY <1>5 DEF Acquire
  <2>2. f \notin waiting /\ f \notin Holders
    BY <1>0, <2>1, FetchAssumption DEF LeadShape, Holders, HoldsUnit
  <2>3. units = Cardinality(Holders)
    BY <1>0 DEF UnitsExact, Holders
  <2>4. CASE TakeUnit
    <3>1. waiting = {}
      BY <1>0, <2>4, UnitsAssumption DEF TakeUnit, WaitOnlyWhenFull, FetchTypeOK, BudgetTypeOK
    <3>2. Holders' = Holders \cup {f}
      BY <1>0, <2>1, <2>2, <2>4, FetchAssumption DEF FetchTypeOK, Holders, HoldsUnit, TakeUnit
    \* Pool!Cardinality is the instance's copy of Cardinality.
    <3>3. Pool!PoolTake(f)
      BY <2>2, <2>3, <2>4, <3>1, <3>2 DEF Pool!PoolTake, TakeUnit, Cardinality, Pool!Cardinality
    <3> QED BY <3>3, FetchAssumption DEF Pool!PoolNext
  <2>5. CASE JoinQueue(f)
    <3>1. Holders' = Holders
      BY <1>0, <2>1, <2>2, <2>5, FetchAssumption DEF FetchTypeOK, Holders, HoldsUnit, JoinQueue
    <3>2. Pool!PoolWait(f)
      BY <2>2, <2>3, <2>5, <3>1 DEF Pool!PoolWait, JoinQueue, Cardinality, Pool!Cardinality
    <3> QED BY <3>2, FetchAssumption DEF Pool!PoolNext
  <2> QED BY <1>5, <2>4, <2>5 DEF Acquire
<1>6. ASSUME NEW f \in Callers, QueueTimeout(f)
      PROVE  [Pool!PoolNext]_(Pool!poolVars)
  <2>1. /\ lpc[f] = "budget" /\ lpc' = [lpc EXCEPT ![f] = "finish"]
        /\ res' = [res EXCEPT ![f] = "err"] /\ freed' = freed
        /\ f \in waiting /\ LeaveQueue(f)
    BY <1>6 DEF QueueTimeout, QuitQueue
  <2>2. Holders' = Holders
    BY <1>0, <2>1, FetchAssumption DEF FetchTypeOK, LeadShape, Holders, HoldsUnit, LeaveQueue
  <2>3. Pool!PoolQuit(f)
    BY <2>1, <2>2 DEF Pool!PoolQuit, Pool!PoolLeave, LeaveQueue
  <2> QED BY <2>3, FetchAssumption DEF Pool!PoolNext
<1>7. ASSUME NEW f \in Callers, Admit(f) \/ KeepBuffer(f) \/ Finish(f) \/ Publish(f)
      PROVE  [Pool!PoolNext]_(Pool!poolVars)
  <2>1. freed' = freed /\ UNCHANGED budgetVars
    BY <1>7 DEF Admit, KeepBuffer, Finish, Publish
  <2>2. f \notin freed \/ lpc[f] = "done"
    BY <1>0 DEF FreedExactly
  <2>3. Holders' = Holders
    BY <1>0, <1>7, <2>1, <2>2, FetchAssumption
    DEF FetchTypeOK, LeadShape, Holders, HoldsUnit, budgetVars, Admit, KeepBuffer, Finish, Publish
  <2> QED BY <2>1, <2>3 DEF Pool!poolVars, budgetVars
<1>8. ASSUME NEW f \in Callers, DownloadFails(f) \/ StoreChunk(f)
      PROVE  [Pool!PoolNext]_(Pool!poolVars)
  <2>1. /\ ReturnUnit /\ lpc[f] = "download" /\ lpc' = [lpc EXCEPT ![f] = "finish"]
        /\ freed' = freed
        /\ res' = [res EXCEPT ![f] = "err"] \/ res' = [res EXCEPT ![f] = "pin"]
    BY <1>8 DEF DownloadFails, StoreChunk
  <2>2. f \in Holders /\ f \notin Holders'
    BY <1>0, <2>1, FetchAssumption DEF FetchTypeOK, Holders, HoldsUnit
  <2>3. \A g \in Callers \ {f} :
           lpc'[g] = lpc[g] /\ res'[g] = res[g] /\ (g \in freed' <=> g \in freed)
    BY <1>0, <2>1 DEF FetchTypeOK
  <2>4. Pool!PoolReturn(f) \/ \E g \in Callers : Pool!PoolPass(f, g)
    BY <1>0, <2>1, <2>2, <2>3, GiveBack
  <2> QED BY <2>4, FetchAssumption DEF Pool!PoolNext
<1>9. ASSUME \/ \E S \in SUBSET Callers : Cancel(S)
             \/ \E k \in Chunks : Evict(k)
             \/ UNCHANGED fetchVars
      PROVE  [Pool!PoolNext]_(Pool!poolVars)
  <2>1. UNCHANGED <<flightVars, budgetVars>>
    BY <1>9 DEF Cancel, Evict, fetchVars
  <2> QED BY <1>1, <2>1 DEF flightVars
<1> QED
  BY <1>2, <1>3, <1>4, <1>5, <1>6, <1>7, <1>8, <1>9
  DEF FetchAction, FetchStep, CallerStep, ClaimerStep, LeadStep

\* The counting channel of budget.go, used as lead, claim and close use it,
\* implements a pool of Units buffers with owners and a first-come queue.
THEOREM FetchImplementsPool == FetchSpec => ImplementsPool
<1>1. FetchInit => Pool!PoolInit
  BY FetchAssumption DEF FetchInit, BudgetInit, Pool!PoolInit, Holders, HoldsUnit
<1>2. FetchInv /\ [FetchNext]_fetchVars => [Pool!PoolNext]_(Pool!poolVars)
  BY PoolStep, NextIsAction
<1> QED BY <1>1, <1>2, FetchInvariant, PTL DEF FetchSpec, ImplementsPool, Pool!PoolSpec

-----------------------------------------------------------------------------
(* What the budget inherits from the pool                                  *)

\* The proofs about the pool, for the buffers of the fetches.
Buffers == INSTANCE BufferPoolProofs WITH holders <- Holders

\* Whatever implements the pool keeps the pool's promises: PoolInLine and
\* PoolFirstCome, for the owners of the units of chunkBudget.
LEMMA PoolPromises ==
  /\ ImplementsPool => [](Pool!OneLine /\ Pool!HasHead)
  /\ ImplementsPool => FirstComeFirstServed
<1>1. Buffers!IsFiniteSet(Fetches) /\ Units \in Nat
  BY FetchAssumption, UnitsAssumption DEF IsFiniteSet, Buffers!IsFiniteSet
<1>2. Pool!PoolSpec => Buffers!PoolSpec
  <2>1. Pool!PoolInit => Buffers!PoolInit
    BY DEF Pool!PoolInit, Buffers!PoolInit
  <2>2. [Pool!PoolNext]_(Pool!poolVars) => [Buffers!PoolNext]_(Buffers!poolVars)
    BY DEF Pool!PoolNext, Pool!PoolTake, Pool!PoolWait, Pool!PoolQuit, Pool!PoolReturn,
           Pool!PoolPass, Pool!PoolLeave, Pool!poolVars, Pool!Cardinality,
           Buffers!PoolNext, Buffers!PoolTake, Buffers!PoolWait, Buffers!PoolQuit,
           Buffers!PoolReturn, Buffers!PoolPass, Buffers!PoolLeave, Buffers!poolVars,
           Buffers!Cardinality
  <2> QED BY <2>1, <2>2, PTL DEF Pool!PoolSpec, Buffers!PoolSpec
<1>3. Buffers!PoolSpec => [](Buffers!OneLine /\ Buffers!HasHead)
  BY <1>1, Buffers!PoolInLine DEF Buffers!PoolInLine
<1>4. Buffers!PoolSpec => Buffers!FirstCome
  BY <1>1, Buffers!PoolFirstCome DEF Buffers!PoolFirstCome
<1>5. Buffers!OneLine /\ Buffers!HasHead => Pool!OneLine /\ Pool!HasHead
  BY DEF Buffers!OneLine, Buffers!HasHead, Pool!OneLine, Pool!HasHead
<1>6. Buffers!FirstCome => Pool!FirstCome
  BY DEF Buffers!FirstCome, Pool!FirstCome, Buffers!poolVars, Pool!poolVars
<1> QED
  BY <1>2, <1>3, <1>4, <1>5, <1>6, PTL DEF ImplementsPool, FirstComeFirstServed

\* The model's ReturnUnit always finds the sender it has to hand the slot to.
LEMMA FetchQueueHasHead == FetchSpec => [](Pool!OneLine /\ Pool!HasHead)
  BY FetchImplementsPool, PoolPromises, PTL

\* No fetch gets budget before one that has waited longer.
THEOREM FetchFirstCome == FetchSpec => FirstComeFirstServed
  BY FetchImplementsPool, PoolPromises, PTL

-----------------------------------------------------------------------------
(* singleflight and chunkFlight implement the shared result                *)

Phases == [f \in Callers |-> FlightPhase(f)]
UserSets == [f \in Callers |-> Users(f)]

\* Steps that change no phase and no user are not seen by the shared result.
LEMMA SharedUnseen ==
  ASSUME \A g \in Callers : FlightPhase(g)' = FlightPhase(g) /\ Users(g)' = Users(g)
  PROVE  [Flight!SharedNext]_(Flight!sharedVars)
<1>1. Phases' = Phases
  BY DEF Phases
<1>2. UserSets' = UserSets
  BY DEF UserSets
<1> QED BY <1>1, <1>2 DEF Phases, UserSets, Flight!sharedVars

\* A user that unrefs a published flight drops out of the shared result, and
\* the flight is freed just when it was the last one.
LEMMA UnrefDrops ==
  ASSUME FetchInv, NEW c \in Callers, NEW f \in Callers,
         c \in Users(f), lpc[f] = "done", Unref(f), lpc' = lpc,
         Users(f)' = Users(f) \ {c},
         \A g \in Callers \ {f} : Users(g)' = Users(g)
  PROVE  Flight!DropBy(f, c)
<1>0. FetchTypeOK /\ RefsExact /\ FreedExactly
  BY DEF FetchInv
<1>1. refs[f] = Cardinality(Users(f)) /\ f \notin freed /\ Users(f) \in SUBSET Callers
  BY <1>0 DEF RefsExact, FreedExactly, Users
<1>2. refs[f] = 1 <=> Users(f) = {c}
  <2>1. Cardinality(Users(f) \ {c}) = Cardinality(Users(f)) - 1
    BY <1>1, CardOne
  <2>2. Users(f) \ {c} \in SUBSET Callers
    BY <1>1
  <2>3. Cardinality(Users(f) \ {c}) = 0 <=> Users(f) \ {c} = {}
    BY <2>2, CardCallers
  <2>4. Cardinality(Users(f)) \in Nat
    BY <1>1, CardCallers
  <2> QED BY <1>1, <2>1, <2>3, <2>4
<1>3. freed' = IF refs[f] = 1 THEN freed \cup {f} ELSE freed
  BY DEF Unref
<1>4. FlightPhase(f) = "sealed"
  BY <1>1 DEF FlightPhase, Unfinished
<1>5. FlightPhase(f)' = IF Users(f) = {c} THEN "freed" ELSE "sealed"
  BY <1>1, <1>2, <1>3 DEF FlightPhase, Unfinished
<1>6. \A g \in Callers \ {f} : FlightPhase(g)' = FlightPhase(g)
  BY <1>3 DEF FlightPhase
<1>7. Phases' = [Phases EXCEPT ![f] = IF Users(f) = {c} THEN "freed" ELSE @]
  BY <1>4, <1>5, <1>6 DEF Phases
<1>8. UserSets' = [UserSets EXCEPT ![f] = @ \ {c}]
  BY DEF UserSets
<1>9. Phases[f] = "sealed" /\ UserSets[f] = Users(f)
  BY <1>4 DEF Phases, UserSets
<1> QED BY <1>7, <1>8, <1>9 DEF Phases, UserSets, Flight!DropBy

\* Every step of the fetch path is a step of the shared results or leaves
\* them alone.
LEMMA SharedStep == FetchInv /\ [FetchAction]_fetchVars => [Flight!SharedNext]_(Flight!sharedVars)
<1> SUFFICES ASSUME FetchInv, [FetchAction]_fetchVars
             PROVE  [Flight!SharedNext]_(Flight!sharedVars)
  OBVIOUS
<1>0. /\ FetchTypeOK /\ CallerShape /\ JoinShape /\ LeadShape /\ FlightsExact
      /\ FreedExactly
  BY DEF FetchInv
<1>1. ASSUME lpc' = lpc, freed' = freed, \A g \in Callers : Users(g)' = Users(g)
      PROVE  [Flight!SharedNext]_(Flight!sharedVars)
  <2>1. \A g \in Callers : FlightPhase(g)' = FlightPhase(g)
    BY <1>1 DEF FlightPhase
  <2> QED BY <1>1, <2>1, SharedUnseen
<1>2. ASSUME NEW c \in Callers,
             \/ Start(c) \/ Hit(c) \/ Miss(c) \/ QuitBeforeJoin(c)
             \/ Admitted(c) \/ QuitWaiting(c) \/ HandOff(c)
      PROVE  [Flight!SharedNext]_(Flight!sharedVars)
  <2>1. lpc' = lpc /\ freed' = freed
    BY <1>2 DEF Start, Hit, Miss, QuitBeforeJoin, Admitted, QuitWaiting, HandOff, flightVars
  <2>2. \A g \in Callers : Users(g)' = Users(g)
    BY <1>0, <1>2 DEF Start, Hit, Miss, QuitBeforeJoin, Admitted, QuitWaiting, HandOff,
                      Users, Shared, FetchTypeOK, CallerShape
  <2> QED BY <1>1, <2>1, <2>2
<1>3. ASSUME NEW c \in Callers, Join(c)
      PROVE  [Flight!SharedNext]_(Flight!sharedVars)
  <2>0. PICK f \in Callers \cup {None} : f = sf[ChunkOf[c]]
    BY <1>0, FetchAssumption DEF FetchTypeOK
  <2>1. /\ gpc[c] = "none" /\ joined[c] = None /\ via[c] = "none" /\ lpc[c] = "none"
        /\ gpc' = [gpc EXCEPT ![c] = "wait"] /\ via' = via /\ freed' = freed
    BY <1>0, <1>3, FetchAssumption DEF Join, CallerShape, JoinShape
  <2>2. CASE f = None
    <3>1. /\ joined' = [joined EXCEPT ![c] = c] /\ lpc' = [lpc EXCEPT ![c] = "acquire"]
      BY <1>3, <2>0, <2>2 DEF Join, Lead
    <3>2. Users(c)' = {c} /\ \A g \in Callers \ {c} : Users(g)' = Users(g)
      BY <1>0, <2>1, <3>1, FetchAssumption DEF FetchTypeOK, Users, JoinShape, Shared
    <3>3. FlightPhase(c) = "unused" /\ FlightPhase(c)' = "open"
      BY <1>0, <2>1, <3>1 DEF FetchTypeOK, FlightPhase, Unfinished
    <3>4. \A g \in Callers \ {c} : FlightPhase(g)' = FlightPhase(g)
      BY <1>0, <2>1, <3>1 DEF FetchTypeOK, FlightPhase
    <3>5. Phases[c] = "unused" /\ Phases' = [Phases EXCEPT ![c] = "open"]
      BY <3>3, <3>4 DEF Phases
    <3>6. UserSets' = [UserSets EXCEPT ![c] = {c}]
      BY <3>2 DEF UserSets
    <3>7. Flight!OpenBy(c, c)
      BY <3>5, <3>6 DEF Phases, UserSets, Flight!OpenBy
    <3> QED BY <3>7 DEF Flight!SharedNext
  <2>3. CASE f # None
    <3>1. joined' = [joined EXCEPT ![c] = f] /\ lpc' = lpc
      BY <1>3, <2>0, <2>3 DEF Join, Follow
    <3>2. f \in Callers
      BY <2>3
    <3>3. lpc[f] \in Unfinished
      BY <1>0, <2>0, <3>2, FetchAssumption DEF FlightsExact
    <3>4. c \notin Users(f) /\ Users(f)' = Users(f) \cup {c}
      BY <1>0, <2>1, <3>1, <3>2, FetchAssumption DEF FetchTypeOK, Users, Shared
    <3>5. \A g \in Callers \ {f} : Users(g)' = Users(g)
      BY <1>0, <2>1, <3>1, <3>2, FetchAssumption DEF FetchTypeOK, Users, Shared
    <3>6. \A g \in Callers : FlightPhase(g)' = FlightPhase(g)
      BY <2>1, <3>1 DEF FlightPhase
    <3>7. Phases' = Phases /\ Phases[f] = "open"
      BY <3>2, <3>3, <3>6 DEF Phases, FlightPhase, Unfinished
    <3>8. UserSets[f] = Users(f) /\ UserSets' = [UserSets EXCEPT ![f] = @ \cup {c}]
      BY <3>2, <3>4, <3>5 DEF UserSets
    <3>9. Flight!JoinBy(f, c)
      BY <3>4, <3>7, <3>8 DEF Phases, UserSets, Flight!JoinBy
    <3> QED BY <3>2, <3>9 DEF Flight!SharedNext
  <2> QED BY <2>2, <2>3
<1>4. ASSUME NEW c \in Callers, Discard(c) \/ Close(c)
      PROVE  [Flight!SharedNext]_(Flight!sharedVars)
  <2>1. /\ lpc' = lpc /\ joined' = joined /\ via' = [via EXCEPT ![c] = "none"]
        /\ gpc[c] # "wait"
        /\ gpc' = gpc \/ gpc' = [gpc EXCEPT ![c] = "gone"]
    BY <1>0, <1>4 DEF Discard, Close, CloseResult, CallerShape
  <2>2. CASE via[c] \in Shared
    <3>1. Unref(joined[c])
      BY <1>4, <2>2 DEF Discard, Close, CloseResult
    <3>2. gpc[c] \in {"offer", "gone"} /\ joined[c] \in Callers
      BY <1>0, <2>1, <2>2 DEF FetchTypeOK, CallerShape, Shared
    <3>3. lpc[joined[c]] = "done"
      BY <1>0, <3>2 DEF JoinShape
    <3>4. c \in Users(joined[c]) /\ Users(joined[c])' = Users(joined[c]) \ {c}
      BY <1>0, <2>1, <2>2 DEF FetchTypeOK, Users, Shared
    <3>5. \A g \in Callers \ {joined[c]} : Users(g)' = Users(g)
      BY <1>0, <2>1 DEF FetchTypeOK, Users, Shared
    <3>6. Flight!DropBy(joined[c], c)
      BY <2>1, <3>1, <3>2, <3>3, <3>4, <3>5, UnrefDrops
    <3> QED BY <3>2, <3>6 DEF Flight!SharedNext
  <2>3. CASE via[c] \notin Shared
    <3>1. freed' = freed
      BY <1>4, <2>3 DEF Discard, Close, CloseResult
    <3>2. \A g \in Callers : Users(g)' = Users(g)
      BY <1>0, <2>1, <2>3 DEF FetchTypeOK, Users, Shared
    <3> QED BY <1>1, <2>1, <3>1, <3>2
  <2> QED BY <2>2, <2>3
<1>5. ASSUME NEW c \in Callers, Claim(c)
      PROVE  [Flight!SharedNext]_(Flight!sharedVars)
  <2>1. /\ lpc' = lpc /\ joined' = joined /\ gpc[c] = "wait" /\ lpc[joined[c]] = "done"
        /\ gpc' = [gpc EXCEPT ![c] = "offer"]
    BY <1>5 DEF Claim
  <2>2. joined[c] \in Callers
    BY <1>0, <2>1 DEF FetchTypeOK, CallerShape
  <2>3. PICK v \in Shared \cup {"file", "err"} :
          /\ via' = [via EXCEPT ![c] = v]
          /\ IF v \in Shared THEN freed' = freed ELSE Unref(joined[c])
    BY <1>5 DEF Claim, ClaimError, ClaimBuffer, ClaimFile, ClaimPinned, Shared
  <2>4. CASE v \in Shared
    <3>1. \A g \in Callers : Users(g)' = Users(g)
      BY <1>0, <2>1, <2>3, <2>4 DEF FetchTypeOK, Users
    <3> QED BY <1>1, <2>1, <2>3, <2>4, <3>1
  <2>5. CASE v \notin Shared
    <3>1. c \in Users(joined[c]) /\ Users(joined[c])' = Users(joined[c]) \ {c}
      BY <1>0, <2>1, <2>3, <2>5 DEF FetchTypeOK, Users
    <3>2. \A g \in Callers \ {joined[c]} : Users(g)' = Users(g)
      BY <1>0, <2>1, <2>3 DEF FetchTypeOK, Users
    <3>3. Flight!DropBy(joined[c], c)
      BY <2>1, <2>2, <2>3, <2>5, <3>1, <3>2, UnrefDrops
    <3> QED BY <2>2, <3>3 DEF Flight!SharedNext
  <2> QED BY <2>4, <2>5
<1>6. ASSUME NEW f \in Callers, LeadStep(f) \/ QueueTimeout(f)
      PROVE  [Flight!SharedNext]_(Flight!sharedVars)
  <2>1. freed' = freed /\ UNCHANGED callerVars
    BY <1>6 DEF LeadStep, QueueTimeout, Acquire, Admit, DownloadFails, StoreChunk,
                KeepBuffer, Finish, Publish
  <2>2. \A g \in Callers : Users(g)' = Users(g)
    BY <2>1 DEF callerVars, Users
  <2>3. CASE Finish(f)
    <3>1. lpc[f] = "finish" /\ lpc' = [lpc EXCEPT ![f] = "publish"] /\ f \notin freed
      BY <1>0, <2>3 DEF Finish, FreedExactly
    <3>2. FlightPhase(f) = "open" /\ FlightPhase(f)' = "sealed"
      BY <1>0, <2>1, <3>1 DEF FetchTypeOK, FlightPhase, Unfinished
    <3>3. \A g \in Callers \ {f} : FlightPhase(g)' = FlightPhase(g)
      BY <1>0, <2>1, <3>1 DEF FetchTypeOK, FlightPhase
    <3>4. Phases[f] = "open" /\ Phases' = [Phases EXCEPT ![f] = "sealed"]
      BY <3>2, <3>3 DEF Phases
    <3>5. UserSets' = UserSets
      BY <2>2 DEF UserSets
    <3>6. Flight!Seal(f)
      BY <3>4, <3>5 DEF Phases, UserSets, Flight!Seal
    <3> QED BY <3>6 DEF Flight!SharedNext
  <2>4. CASE ~Finish(f)
    <3>1. PICK p \in Unfinished \cup {"done"} :
            /\ lpc' = [lpc EXCEPT ![f] = p]
            /\ IF p = "done" THEN lpc[f] = "publish" ELSE lpc[f] \in Unfinished
      BY <1>6, <2>4 DEF LeadStep, QueueTimeout, Acquire, Admit, DownloadFails, StoreChunk,
                        KeepBuffer, Publish, Unfinished
    <3>2. \A g \in Callers : FlightPhase(g)' = FlightPhase(g)
      BY <1>0, <2>1, <3>1 DEF FetchTypeOK, FlightPhase, Unfinished
    <3> QED BY <2>2, <3>2, SharedUnseen
  <2> QED BY <2>3, <2>4
<1>7. ASSUME \/ \E S \in SUBSET Callers : Cancel(S)
             \/ \E k \in Chunks : Evict(k)
             \/ UNCHANGED fetchVars
      PROVE  [Flight!SharedNext]_(Flight!sharedVars)
  <2>1. UNCHANGED <<gpc, joined, via, flightVars>>
    BY <1>7 DEF Cancel, Evict, fetchVars, callerVars
  <2>2. \A g \in Callers : Users(g)' = Users(g)
    BY <2>1 DEF Users
  <2> QED BY <1>1, <2>1, <2>2 DEF flightVars
<1> QED
  BY <1>2, <1>3, <1>4, <1>5, <1>6, <1>7
  DEF FetchAction, FetchStep, CallerStep, ClaimerStep

\* Two counters, one guarded by singleflight.mu and one atomic, implement a
\* result that is shared by a set of users and freed by the last one.
THEOREM FetchImplementsSharedResult == FetchSpec => ImplementsSharedResult
<1>1. FetchInit => Flight!SharedInit
  <2> SUFFICES ASSUME FetchInit PROVE Flight!SharedInit
    OBVIOUS
  <2>1. \A f \in Callers : FlightPhase(f) = "unused" /\ Users(f) = {}
    BY DEF FetchInit, FlightPhase, Users, Shared
  <2> QED BY <2>1 DEF Flight!SharedInit
<1>2. FetchInv /\ [FetchNext]_fetchVars => [Flight!SharedNext]_(Flight!sharedVars)
  BY SharedStep, NextIsAction
<1> QED BY <1>1, <1>2, FetchInvariant, PTL DEF FetchSpec, ImplementsSharedResult, Flight!SharedSpec

-----------------------------------------------------------------------------
(* What the flights inherit from the shared result                         *)

\* The proofs about shared results, for the flights.
Flights == INSTANCE SharedResultProofs WITH
             Results <- Callers,
             Readers <- Callers,
             phase   <- [f \in Callers |-> FlightPhase(f)],
             users   <- [f \in Callers |-> Users(f)]

\* Whatever implements the shared result keeps its promises:
\* SharedNeverOrphaned and SharedSealedForGood, for the users of a flight.
LEMMA FlightPromises ==
  /\ ImplementsSharedResult => []Flight!NeverOrphaned
  /\ ImplementsSharedResult => FinishedForGood
<1>1. Flight!SharedSpec => Flights!SharedSpec
  <2>1. Flight!SharedInit => Flights!SharedInit
    BY DEF Flight!SharedInit, Flights!SharedInit
  <2>2. [Flight!SharedNext]_(Flight!sharedVars) => [Flights!SharedNext]_(Flights!sharedVars)
    BY DEF Flight!SharedNext, Flight!OpenBy, Flight!JoinBy, Flight!Seal, Flight!DropBy,
           Flight!sharedVars, Flights!SharedNext, Flights!OpenBy, Flights!JoinBy,
           Flights!Seal, Flights!DropBy, Flights!sharedVars
  <2> QED BY <2>1, <2>2, PTL DEF Flight!SharedSpec, Flights!SharedSpec
<1>2. Flights!SharedSpec => []Flights!NeverOrphaned
  BY Flights!SharedNeverOrphaned DEF Flights!SharedNeverOrphaned
<1>3. Flights!SharedSpec => Flights!SealedForGood
  BY Flights!SharedSealedForGood DEF Flights!SharedSealedForGood
<1>4. Flights!NeverOrphaned => Flight!NeverOrphaned
  BY DEF Flights!NeverOrphaned, Flight!NeverOrphaned
<1>5. Flights!SealedForGood => Flight!SealedForGood
  BY DEF Flights!SealedForGood, Flight!SealedForGood, Flights!sharedVars, Flight!sharedVars
<1> QED
  BY <1>1, <1>2, <1>3, <1>4, <1>5, PTL DEF ImplementsSharedResult, FinishedForGood

\* The users are never gone before the count is read, and the count is exact.
LEMMA OrphanedNever == FetchInv /\ Flight!NeverOrphaned => SomeoneFrees
<1> SUFFICES ASSUME FetchInv, Flight!NeverOrphaned,
                    NEW f \in Callers, lpc[f] \in {"publish", "done"}
             PROVE  refs[f] = 0 <=> f \in freed
  BY DEF SomeoneFrees
<1>1. refs[f] = Cardinality(Users(f)) /\ Users(f) \in SUBSET Callers
  BY DEF FetchInv, RefsExact, Users
<1>2. refs[f] = 0 <=> Users(f) = {}
  BY <1>1, CardCallers
<1>3. FlightPhase(f) = IF f \in freed THEN "freed" ELSE "sealed"
  BY DEF FlightPhase, Unfinished
<1>4. Users(f) # {} <=> FlightPhase(f) \in {"open", "sealed"}
  BY DEF Flight!NeverOrphaned
<1> QED BY <1>2, <1>3, <1>4

\* A finished flight always has someone left to free it: claim and close drop
\* the references one by one, and the last one is counted.
THEOREM FetchSomeoneFrees == FetchSpec => []SomeoneFrees
  BY OrphanedNever, FetchInvariant, FetchImplementsSharedResult, FlightPromises, PTL

\* The key is out of the singleflight map before the count is read: nobody
\* joins a finished flight, and what is freed stays freed.
THEOREM FetchFinishedForGood == FetchSpec => FinishedForGood
  BY FetchImplementsSharedResult, FlightPromises, PTL

=============================================================================
