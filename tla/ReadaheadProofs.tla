---------------------------- MODULE ReadaheadProofs ---------------------------
(***************************************************************************)
(* Proofs about Readahead, for every number of slots and every choice of   *)
(* kicks and requests.  A step of the composition is a step of the fetch   *)
(* path or leaves it alone, so what ChunkFetchProofs shows of the fetch    *)
(* path holds with readahead on top of it as well.                         *)
(***************************************************************************)
EXTENDS Readahead, ChunkFetchProofs

-----------------------------------------------------------------------------
(* The inductive invariant                                                 *)

\* Only kicks are ever scheduled, and a kick holds no result, and does not
\* call fetchChunk, before it has its slot.
KickShape ==
  \A k \in Callers :
    /\ kpc[k] # "idle" => k \in kicks
    /\ k \in kicks /\ kpc[k] \notin {"run", "forget", "end"} => cpc[k] = "idle"

\* The kicks that run.
Running == {k \in kicks : kpc[k] = "run"}

ReadaheadInv ==
  /\ FetchInv
  /\ ReadaheadTypeOK
  /\ KickShape
  /\ SlotsExact

\* Both sets of a scenario are sets of callers.
LEMMA ScenarioSets ==
  ASSUME ReadaheadTypeOK
  PROVE  kicks \in SUBSET Callers /\ requests \in SUBSET Callers
         /\ kicks \cap requests = {}
<1> DEFINE s == [kicks |-> kicks, requests |-> requests]
<1>1. s \in Scenarios
  BY DEF ReadaheadTypeOK
<1>2. s \in [kicks : SUBSET Callers, requests : SUBSET Callers] /\ s.kicks \cap s.requests = {}
  BY <1>1, ReadaheadAssumption
<1> QED BY <1>2

-----------------------------------------------------------------------------
(* Steps                                                                   *)

\* Every step of the composition is a step of the fetch path, or none.
LEMMA ReadaheadIsAction ==
  ASSUME ReadaheadTypeOK, [ReadaheadNext]_readaheadVars
  PROVE  [FetchAction]_fetchVars
<1>1. ASSUME NEW c \in Callers, Request(c) \/ (Close(c) /\ UNCHANGED aheadVars)
      PROVE  FetchAction
  <2>1. {c} \in SUBSET Callers
    OBVIOUS
  <2>2. Start(c) \/ Close(c) \/ Cancel({c})
    BY <1>1 DEF Request
  <2> QED BY <2>1, <2>2 DEF FetchAction
<1>2. ASSUME NEW k \in Callers, Kick(k) \/ KickStep(k) \/ Timeout(k)
      PROVE  [FetchAction]_fetchVars
  <2>1. {k} \in SUBSET Callers
    OBVIOUS
  <2>2. UNCHANGED fetchVars \/ Start(k) \/ Cancel({k})
    BY <1>2 DEF Kick, KickStep, Timeout, Dedup, TakeSlot, Saturated, ReturnSlot, Forget
  <2> QED BY <2>1, <2>2 DEF FetchAction
<1> QED
  BY <1>1, <1>2 DEF ReadaheadNext, readaheadVars, FetchAction

\* A kick moves on without touching slots or the in-flight set, between places
\* that count for neither, or within the places that count.
LEMMA KickMoves ==
  ASSUME ReadaheadTypeOK, SlotsExact, NEW k \in Callers, k \in kicks, NEW place,
         kpc' = [kpc EXCEPT ![k] = place],
         UNCHANGED <<kicks, sem, inflight>>,
         kpc[k] = "run" <=> place = "run",
         Scheduled(k) <=> place \in {"slot", "drop", "run", "forget"}
  PROVE  SlotsExact'
<1>1. \A j \in Callers : Scheduled(j)' <=> Scheduled(j)
  BY DEF ReadaheadTypeOK, Scheduled
<1>2. kicks \in SUBSET Callers
  BY ScenarioSets
<1>3. {j \in kicks : kpc[j] = "run"}' = {j \in kicks : kpc[j] = "run"}
  BY <1>2 DEF ReadaheadTypeOK
<1>4. {c \in kicks : Scheduled(c)}' = {c \in kicks : Scheduled(c)}
  BY <1>1, <1>2
<1> QED BY <1>1, <1>2, <1>3, <1>4 DEF SlotsExact

\* Steps of readahead's own keep the slots and the in-flight set exact.
LEMMA SlotsKept ==
  ASSUME ReadaheadInv, ReadaheadNext \/ UNCHANGED readaheadVars
  PROVE  SlotsExact' /\ sem' \in 0..Slots /\ inflight' \subseteq Chunks
<1> USE FetchAssumption, ReadaheadAssumption
<1>0. /\ ReadaheadTypeOK /\ KickShape /\ SlotsExact
      /\ kicks \in SUBSET Callers
  BY ScenarioSets DEF ReadaheadInv
<1>1. ASSUME UNCHANGED aheadVars
      PROVE  SlotsExact' /\ sem' \in 0..Slots /\ inflight' \subseteq Chunks
  BY <1>0, <1>1 DEF aheadVars, SlotsExact, Scheduled, ReadaheadTypeOK
<1>2. ASSUME NEW k \in Callers, Kick(k)
      PROVE  SlotsExact' /\ sem' \in 0..Slots /\ inflight' \subseteq Chunks
  <2>1. PICK place \in {"end", "dedup"} : kpc' = [kpc EXCEPT ![k] = place]
    BY <1>2 DEF Kick, KickTo
  <2>2. k \in kicks /\ kpc[k] = "idle" /\ UNCHANGED <<kicks, sem, inflight>>
    BY <1>2 DEF Kick
  <2>3. SlotsExact'
    BY <1>0, <2>1, <2>2, KickMoves DEF Scheduled
  <2> QED BY <1>0, <2>2, <2>3 DEF ReadaheadTypeOK
<1>3. ASSUME NEW k \in Callers, Dedup(k)
      PROVE  SlotsExact' /\ sem' \in 0..Slots /\ inflight' \subseteq Chunks
  <2>1. k \in kicks /\ kpc[k] = "dedup" /\ UNCHANGED <<kicks, sem>>
    BY <1>0, <1>3 DEF Dedup, KickShape
  <2>2. CASE ChunkOf[k] \in inflight
    <3>1. kpc' = [kpc EXCEPT ![k] = "end"] /\ inflight' = inflight
      BY <1>3, <2>2 DEF Dedup, KickTo
    <3>2. SlotsExact'
      BY <1>0, <2>1, <3>1, KickMoves DEF Scheduled
    <3> QED BY <1>0, <2>1, <3>1, <3>2 DEF ReadaheadTypeOK
  <2>3. CASE ChunkOf[k] \notin inflight
    <3>1. /\ kpc' = [kpc EXCEPT ![k] = "slot"] /\ inflight' = inflight \cup {ChunkOf[k]}
          /\ ChunkOf[k] \in Chunks
      BY <1>3, <2>3 DEF Dedup, KickTo
    <3>2. {c \in kicks : Scheduled(c)}' = {c \in kicks : Scheduled(c)} \cup {k}
      BY <1>0, <2>1, <3>1 DEF ReadaheadTypeOK, Scheduled
    <3>3. {j \in kicks : kpc[j] = "run"}' = {j \in kicks : kpc[j] = "run"}
      BY <1>0, <2>1, <3>1 DEF ReadaheadTypeOK
    <3>4. sem' = Cardinality({j \in kicks : kpc[j] = "run"})'
      BY <1>0, <2>1, <3>3 DEF SlotsExact
    <3>5. inflight' = {ChunkOf[j] : j \in {c \in kicks : Scheduled(c)}'}
      BY <1>0, <3>1, <3>2 DEF SlotsExact
    <3>6. \A j \in kicks : Scheduled(j) => ChunkOf[j] # ChunkOf[k]
      BY <1>0, <2>3 DEF SlotsExact
    <3>7. \A j \in kicks : Scheduled(j)' <=> Scheduled(j) \/ j = k
      BY <1>0, <3>1 DEF ReadaheadTypeOK, Scheduled
    <3>8. \A i, j \in kicks :
            Scheduled(i)' /\ Scheduled(j)' /\ ChunkOf[i] = ChunkOf[j] => i = j
      BY <1>0, <3>6, <3>7 DEF SlotsExact
    <3>9. SlotsExact'
      BY <2>1, <3>4, <3>5, <3>8 DEF SlotsExact
    <3> QED BY <1>0, <2>1, <3>1, <3>9 DEF ReadaheadTypeOK
  <2> QED BY <2>2, <2>3
<1>4. ASSUME NEW k \in Callers, TakeSlot(k)
      PROVE  SlotsExact' /\ sem' \in 0..Slots /\ inflight' \subseteq Chunks
  <2>1. /\ k \in kicks /\ kpc[k] = "slot" /\ UNCHANGED <<kicks, inflight>>
        /\ sem < Slots /\ sem' = sem + 1 /\ kpc' = [kpc EXCEPT ![k] = "run"]
    BY <1>0, <1>4 DEF TakeSlot, KickTo, KickShape
  <2>2. Running' = Running \cup {k} /\ k \notin Running /\ Running \in SUBSET Callers
    BY <1>0, <2>1 DEF Running, ReadaheadTypeOK
  <2>3. Cardinality(Running') = Cardinality(Running) + 1
    BY <2>2, CardOne
  <2>4. sem' = Cardinality({j \in kicks : kpc[j] = "run"})'
    BY <1>0, <2>1, <2>3 DEF SlotsExact, Running
  <2>5. \A j \in kicks : Scheduled(j)' <=> Scheduled(j)
    BY <1>0, <2>1 DEF ReadaheadTypeOK, Scheduled
  <2>6. {c \in kicks : Scheduled(c)}' = {c \in kicks : Scheduled(c)}
    BY <2>1, <2>5
  <2>7. SlotsExact'
    BY <1>0, <2>1, <2>4, <2>5, <2>6 DEF SlotsExact
  <2> QED BY <1>0, <2>1, <2>7 DEF ReadaheadTypeOK
<1>5. ASSUME NEW k \in Callers, Saturated(k)
      PROVE  SlotsExact' /\ sem' \in 0..Slots /\ inflight' \subseteq Chunks
  <2>1. /\ k \in kicks /\ kpc[k] = "slot" /\ UNCHANGED <<kicks, sem, inflight>>
        /\ kpc' = [kpc EXCEPT ![k] = "drop"]
    BY <1>0, <1>5 DEF Saturated, KickTo, KickShape
  <2>2. SlotsExact'
    BY <1>0, <2>1, KickMoves DEF Scheduled
  <2> QED BY <1>0, <2>1, <2>2 DEF ReadaheadTypeOK
<1>6. ASSUME NEW k \in Callers, ReturnSlot(k)
      PROVE  SlotsExact' /\ sem' \in 0..Slots /\ inflight' \subseteq Chunks
  <2>1. /\ k \in kicks /\ kpc[k] = "run" /\ UNCHANGED <<kicks, inflight>>
        /\ sem' = sem - 1 /\ kpc' = [kpc EXCEPT ![k] = "forget"]
    BY <1>0, <1>6 DEF ReturnSlot, KickTo, KickShape
  <2>2. Running' = Running \ {k} /\ k \in Running /\ Running \in SUBSET Callers
    BY <1>0, <2>1 DEF Running, ReadaheadTypeOK
  <2>3. Cardinality(Running') = Cardinality(Running) - 1 /\ Cardinality(Running) > 0
    BY <2>2, CardOne
  <2>4. sem' = Cardinality({j \in kicks : kpc[j] = "run"})' /\ sem > 0
    BY <1>0, <2>1, <2>3 DEF SlotsExact, Running
  <2>5. \A j \in kicks : Scheduled(j)' <=> Scheduled(j)
    BY <1>0, <2>1 DEF ReadaheadTypeOK, Scheduled
  <2>6. {c \in kicks : Scheduled(c)}' = {c \in kicks : Scheduled(c)}
    BY <2>1, <2>5
  <2>7. SlotsExact'
    BY <1>0, <2>1, <2>4, <2>5, <2>6 DEF SlotsExact
  <2> QED BY <1>0, <2>1, <2>4, <2>7 DEF ReadaheadTypeOK
<1>7. ASSUME NEW k \in Callers, Forget(k)
      PROVE  SlotsExact' /\ sem' \in 0..Slots /\ inflight' \subseteq Chunks
  <2>1. /\ k \in kicks /\ kpc[k] \in {"drop", "forget"} /\ UNCHANGED <<kicks, sem>>
        /\ inflight' = inflight \ {ChunkOf[k]} /\ kpc' = [kpc EXCEPT ![k] = "end"]
    BY <1>0, <1>7 DEF Forget, KickTo, KickShape
  <2>2. {j \in kicks : kpc[j] = "run"}' = {j \in kicks : kpc[j] = "run"}
    BY <1>0, <2>1 DEF ReadaheadTypeOK
  <2>3. \A j \in kicks : Scheduled(j)' <=> Scheduled(j) /\ j # k
    BY <1>0, <2>1 DEF ReadaheadTypeOK, Scheduled
  <2>4. \A j \in kicks : Scheduled(j) /\ ChunkOf[j] = ChunkOf[k] => j = k
    BY <1>0, <2>1 DEF SlotsExact, Scheduled
  <2>5. {c \in kicks : Scheduled(c)}' = {c \in kicks : Scheduled(c)} \ {k}
    BY <2>1, <2>3
  <2>6. inflight' = {ChunkOf[j] : j \in {c \in kicks : Scheduled(c)}'}
    BY <1>0, <2>1, <2>4, <2>5 DEF SlotsExact
  <2>7. SlotsExact'
    BY <1>0, <2>1, <2>2, <2>3, <2>6 DEF SlotsExact
  <2> QED BY <1>0, <2>1, <2>7 DEF ReadaheadTypeOK
<1> QED
  BY <1>1, <1>2, <1>3, <1>4, <1>5, <1>6, <1>7
  DEF ReadaheadNext, Request, KickStep, Timeout, readaheadVars

\* Only a kick is scheduled, and it waits for its slot before it fetches.
LEMMA KickShapeKept ==
  ASSUME ReadaheadInv, ReadaheadNext \/ UNCHANGED readaheadVars
  PROVE  /\ KickShape'
         /\ UNCHANGED <<kicks, requests>>
         /\ kpc' \in [Callers -> {"idle", "dedup", "slot", "drop", "run", "forget", "end"}]
<1>0. /\ ReadaheadTypeOK /\ FetchTypeOK /\ KickShape
      /\ kicks \in SUBSET Callers /\ kicks \cap requests = {}
  BY ScenarioSets DEF ReadaheadInv, ReadaheadTypeOK
<1> DEFINE Goal == /\ KickShape'
                   /\ UNCHANGED <<kicks, requests>>
                   /\ kpc' \in [Callers -> {"idle", "dedup", "slot", "drop", "run", "forget", "end"}]
<1>1. ASSUME UNCHANGED aheadVars, \A k \in kicks : cpc[k] = "idle" => cpc'[k] = "idle"
      PROVE  Goal
  BY <1>0, <1>1 DEF aheadVars, KickShape, ReadaheadTypeOK
<1>2. ASSUME FetchStep
      PROVE  \A k \in kicks : cpc[k] = "idle" => cpc'[k] = "idle"
  <2>1. ASSUME NEW c \in Callers, CallerStep(c) \/ ClaimerStep(c)
        PROVE  \A k \in Callers : cpc[k] = "idle" => cpc'[k] = "idle"
    BY <1>0, <2>1 DEF CallerStep, ClaimerStep, Hit, Miss, Missed, QuitBeforeJoin, Join, Admitted,
                      QuitWaiting, Claim, HandOff, Discard, FetchTypeOK
  <2>2. ASSUME NEW f \in Callers, LeadStep(f) \/ QueueTimeout(f)
        PROVE  UNCHANGED cpc
    BY <2>2 DEF LeadStep, QueueTimeout, Acquire, Admit, DownloadFails, StoreChunk,
                KeepBuffer, Finish, Publish, callerVars
  <2>3. ASSUME NEW k \in Chunks, Evict(k)
        PROVE  UNCHANGED cpc
    BY <2>3 DEF Evict, callerVars
  <2> QED BY <1>0, <1>2, <2>1, <2>2, <2>3 DEF FetchStep
<1>3. ASSUME NEW c \in Callers, Request(c) \/ (Close(c) /\ UNCHANGED aheadVars)
      PROVE  Goal
  <2>1. \A k \in kicks : cpc[k] = "idle" => cpc'[k] = "idle"
    BY <1>0, <1>3 DEF Request, Start, Cancel, Close, FetchTypeOK
  <2> QED BY <1>1, <1>3, <2>1 DEF Request
<1>4. ASSUME NEW k \in Callers, Kick(k) \/ KickStep(k)
      PROVE  Goal
  <2>1. UNCHANGED cpc \/ (cpc' = [cpc EXCEPT ![k] = "lookup"] /\ TakeSlot(k))
    BY <1>4 DEF Kick, KickStep, Dedup, TakeSlot, Saturated, ReturnSlot, Forget,
                Start, Cancel, fetchVars, callerVars
  <2>2. PICK place \in {"dedup", "slot", "drop", "run", "forget", "end"} :
          /\ kpc' = [kpc EXCEPT ![k] = place]
          /\ place \in {"dedup", "slot", "drop"} => kpc[k] \in {"idle", "dedup", "slot"}
    BY <1>4 DEF Kick, KickStep, Dedup, TakeSlot, Saturated, ReturnSlot, Forget, KickTo
  <2>3. k \in kicks /\ UNCHANGED <<kicks, requests>>
    BY <1>0, <1>4 DEF Kick, KickStep, Dedup, TakeSlot, Saturated, ReturnSlot, Forget, KickShape
  <2>4. TakeSlot(k) => kpc' = [kpc EXCEPT ![k] = "run"]
    BY DEF TakeSlot, KickTo
  <2>5. KickShape'
    BY <1>0, <2>1, <2>2, <2>3, <2>4 DEF KickShape, ReadaheadTypeOK, FetchTypeOK
  <2> QED BY <1>0, <2>2, <2>3, <2>5 DEF ReadaheadTypeOK
<1>5. ASSUME NEW k \in Callers, Timeout(k)
      PROVE  Goal
  BY <1>1, <1>5 DEF Timeout, Cancel
<1>6. ASSUME UNCHANGED readaheadVars
      PROVE  Goal
  BY <1>1, <1>6 DEF readaheadVars, fetchVars, callerVars
<1> QED
  BY <1>1, <1>2, <1>3, <1>4, <1>5, <1>6 DEF ReadaheadNext

\* ReadaheadInv is inductive.
LEMMA ReadaheadStepInv == ReadaheadInv /\ [ReadaheadNext]_readaheadVars => ReadaheadInv'
<1> SUFFICES ASSUME ReadaheadInv, [ReadaheadNext]_readaheadVars
             PROVE  ReadaheadInv'
  OBVIOUS
<1>1. FetchInv'
  <2>1. [FetchAction]_fetchVars
    BY ReadaheadIsAction DEF ReadaheadInv
  <2> QED BY <2>1, StepInv DEF ReadaheadInv
<1>2. SlotsExact' /\ sem' \in 0..Slots /\ inflight' \subseteq Chunks
  BY SlotsKept
<1>3. /\ KickShape'
      /\ UNCHANGED <<kicks, requests>>
      /\ kpc' \in [Callers -> {"idle", "dedup", "slot", "drop", "run", "forget", "end"}]
  BY KickShapeKept
<1>4. ReadaheadTypeOK'
  BY <1>1, <1>2, <1>3 DEF ReadaheadInv, ReadaheadTypeOK, FetchInv
<1> QED BY <1>1, <1>2, <1>3, <1>4 DEF ReadaheadInv

\* Before the first Kick nothing is held and no slot is taken.
LEMMA ReadaheadInitInv == ReadaheadInit => ReadaheadInv
<1> SUFFICES ASSUME ReadaheadInit PROVE ReadaheadInv
  OBVIOUS
<1>1. FetchInv
  BY InitInv DEF ReadaheadInit
<1>2. [kicks |-> kicks, requests |-> requests] \in Scenarios
  <2>1. PICK s \in Scenarios : kicks = s.kicks /\ requests = s.requests
    BY DEF ReadaheadInit
  <2>2. s \in [kicks : SUBSET Callers, requests : SUBSET Callers]
    BY <2>1, ReadaheadAssumption
  <2> QED BY <2>1, <2>2
<1>3. ReadaheadTypeOK
  BY <1>1, <1>2, ReadaheadAssumption DEF ReadaheadInit, ReadaheadTypeOK, FetchInv
<1>4. KickShape
  BY <1>3, ScenarioSets DEF ReadaheadInit, FetchInit, KickShape
<1>5. SlotsExact
  <2>1. {k \in kicks : kpc[k] = "run"} = {} /\ {c \in kicks : Scheduled(c)} = {}
    BY <1>3, ScenarioSets DEF ReadaheadInit, Scheduled
  <2>2. Cardinality({}) = 0
    BY FS_EmptySet
  <2> QED BY <2>1, <2>2 DEF ReadaheadInit, SlotsExact
<1> QED BY <1>1, <1>3, <1>4, <1>5 DEF ReadaheadInv

-----------------------------------------------------------------------------
(* Theorems                                                                *)

\* The invariant of the fetch path, with readahead's goroutines among the
\* callers, and the exact slots and in-flight set.
THEOREM ReadaheadInvariant == ReadaheadSpec => []ReadaheadInv
<1>1. ReadaheadInit => ReadaheadInv
  BY ReadaheadInitInv
<1>2. ReadaheadInv /\ [ReadaheadNext]_readaheadVars => ReadaheadInv'
  BY ReadaheadStepInv
<1> QED BY <1>1, <1>2, PTL DEF ReadaheadSpec

\* Readahead's variables have their types; never more slots are taken than
\* READAHEAD_CONCURRENCY.
THEOREM ReadaheadTypeCorrect == ReadaheadSpec => []ReadaheadTypeOK
<1>1. ReadaheadInv => ReadaheadTypeOK
  BY DEF ReadaheadInv
<1> QED BY <1>1, ReadaheadInvariant, PTL

\* However kicks, timeouts and requests interleave, the semaphore counts the
\* goroutines that run and each chunk in the in-flight set has its one kick.
THEOREM ReadaheadSlotsExact == ReadaheadSpec => []SlotsExact
<1>1. ReadaheadInv => SlotsExact
  BY DEF ReadaheadInv
<1> QED BY <1>1, ReadaheadInvariant, PTL

\* With prefetches among the callers, cut off by their timeouts, the budget
\* still is a pool whose buffers have owners.
THEOREM ReadaheadImplementsPool == ReadaheadSpec => ImplementsPool
<1>1. ReadaheadInit => Pool!PoolInit
  BY FetchAssumption DEF ReadaheadInit, FetchInit, BudgetInit, Pool!PoolInit, Holders, HoldsUnit
<1>2. ReadaheadInv /\ [ReadaheadNext]_readaheadVars => [Pool!PoolNext]_(Pool!poolVars)
  BY ReadaheadIsAction, PoolStep DEF ReadaheadInv
<1> QED BY <1>1, <1>2, ReadaheadInvariant, PTL DEF ReadaheadSpec, ImplementsPool, Pool!PoolSpec

\* So a prefetch gets its unit after the requests that queued before it.
THEOREM ReadaheadFirstCome == ReadaheadSpec => FirstComeFirstServed
  BY ReadaheadImplementsPool, PoolPromises, PTL

\* Prefetches and requests together never hold more than Units chunk buffers.
THEOREM ReadaheadBuffersCapped == ReadaheadSpec => []BuffersCapped
<1>1. ReadaheadInv => BuffersCapped
  BY InvBuffersCapped DEF ReadaheadInv
<1> QED BY <1>1, ReadaheadInvariant, PTL

\* And a flight that requests and prefetches share is a shared result, freed
\* by the last of them to drop out.
THEOREM ReadaheadImplementsSharedResult == ReadaheadSpec => ImplementsSharedResult
<1>1. ReadaheadInit => Flight!SharedInit
  <2> SUFFICES ASSUME ReadaheadInit PROVE Flight!SharedInit
    OBVIOUS
  <2>1. \A f \in Callers : FlightPhase(f) = "unused" /\ Users(f) = {}
    BY DEF ReadaheadInit, FetchInit, FlightPhase, Users, Shared
  <2> QED BY <2>1 DEF Flight!SharedInit
<1>2. ReadaheadInv /\ [ReadaheadNext]_readaheadVars => [Flight!SharedNext]_(Flight!sharedVars)
  BY ReadaheadIsAction, SharedStep DEF ReadaheadInv
<1> QED BY <1>1, <1>2, ReadaheadInvariant, PTL DEF ReadaheadSpec, ImplementsSharedResult, Flight!SharedSpec

\* So a flight that outlives the prefetch that led it is still freed by the last
\* of its users, and is not joined or freed again.
THEOREM ReadaheadSomeoneFrees == ReadaheadSpec => []SomeoneFrees /\ FinishedForGood
<1>1. ReadaheadInv /\ Flight!NeverOrphaned => SomeoneFrees
  BY OrphanedNever DEF ReadaheadInv
<1> QED BY <1>1, ReadaheadInvariant, ReadaheadImplementsSharedResult, FlightPromises, PTL

=============================================================================
