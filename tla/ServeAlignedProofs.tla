-------------------------- MODULE ServeAlignedProofs --------------------------
(***************************************************************************)
(* Proofs about ServeAligned, for every finite set of requests, numbers of *)
(* chunks, window and budget.  A step of the composition is a step of the  *)
(* fetch path or leaves it alone, so that ChunkFetchProofs' invariant      *)
(* holds here too; the rest of the invariant is about one request at a     *)
(* time.                                                                   *)
(***************************************************************************)
EXTENDS ServeAligned, ChunkFetchProofs

-----------------------------------------------------------------------------
(* The inductive invariant                                                 *)

\* A fetch is admitted from its unit on, a caller past the admission wait has
\* seen that, and one that returned uncancelled has left no claimer behind.
AdmitShape ==
  /\ \A f \in Callers :
       /\ f \in admitted => lpc[f] \in {"download", "finish", "publish", "done"}
       /\ lpc[f] = "done" => f \in admitted
  /\ \A c \in Callers :
       /\ cpc[c] = "out" => joined[c] \in admitted
       /\ cpc[c] = "end" /\ c \notin cancelled => gpc[c] \in {"none", "gone"}

\* The context is that of the request: all its callers are cancelled or none.
CancelShape(r) == CtxDone(r) \/ \A i \in Idx(r) : <<r, i>> \notin cancelled

\* A producer and its call of fetchChunk.
ProducerShape(r) ==
  \A i \in Idx(r) :
    /\ prod[<<r, i>>] = "none" <=> cpc[<<r, i>>] = "idle"
    /\ prod[<<r, i>>] = "held" => cpc[<<r, i>>] = "holding" /\ via[<<r, i>>] = "buffer"
    /\ prod[<<r, i>>] \in {"sent", "taken"} => cpc[<<r, i>>] \in {"holding", "end"}
    /\ prod[<<r, i>>] = "taken" /\ cpc[<<r, i>>] = "holding" =>
         via[<<r, i>>] = "err" \/ (rpc[r] = "write" /\ i = cur[r])

\* Producers are started in order, the next one when the last is admitted.
DispatchShape(r) ==
  /\ didx[r] <= NChunks[r]
  /\ dpc[r] \in {"slot", "admit"} => didx[r] < NChunks[r]
  /\ dpc[r] = "idle" => didx[r] = 0
  /\ \A i \in Idx(r) :
       /\ i < didx[r] => cpc[<<r, i>>] \in {"out", "holding", "end"}
       /\ i > didx[r] => prod[<<r, i>>] = "none"
       /\ i = didx[r] /\ dpc[r] \in {"idle", "slot"} => prod[<<r, i>>] = "none"

\* Chunks are taken, written and closed in order, and the way out of the
\* request leaves no producer behind and no result open.
ConsumerShape(r) ==
  /\ rpc[r] = "idle" <=> dpc[r] = "idle"
  /\ rpc[r] = "idle" => cur[r] = 0
  /\ cur[r] <= NChunks[r]
  /\ rpc[r] \in {"wait", "write"} => cur[r] < NChunks[r]
  /\ rpc[r] = "join" => cur[r] = NChunks[r]
  /\ \A i \in Idx(r) : i < cur[r] => prod[<<r, i>>] = "taken" /\ cpc[<<r, i>>] = "end"
  /\ rpc[r] = "write" => /\ prod[<<r, cur[r]>>] = "taken"
                         /\ cpc[<<r, cur[r]>>] = "holding"
                         /\ via[<<r, cur[r]>>] # "err"
  /\ rpc[r] \in {"drain", "done"} => AllDone(r)
  /\ rpc[r] = "done" => InHand(r) = {}

\* The status is committed with the first chunk.
StatusShape(r) ==
  /\ status[r] = "ok" => prod[<<r, 0>>] = "taken"
  /\ cur[r] > 0 \/ rpc[r] \in {"write", "join"} => status[r] = "ok"
  /\ rpc[r] = "done" => status[r] # "none"

\* The buffered chunks the guard has counted and whose write has not ended.
Counted(r) == {i \in Idx(r) : /\ cpc[<<r, i>>] = "holding" /\ via[<<r, i>>] = "buffer"
                              /\ prod[<<r, i>>] # "fetch"}

\* Up to an abort the guard's count is exact, and the deadline is there
\* during a write just if there is a counted buffer.
GuardShape(r) ==
  /\ r \in writing <=> rpc[r] = "write"
  /\ rpc[r] \in {"idle", "wait", "write"} => held[r] = Cardinality(Counted(r))
  /\ r \in armed <=> rpc[r] = "write" /\ Counted(r) # {}

\* The chunks that occupy a slot: started, and not yet written.
Open(r) == {i \in Idx(r) : i >= cur[r] /\ prod[<<r, i>>] # "none"}

SlotShape(r) == slots[r] = Cardinality(Open(r))

RequestInv(r) ==
  /\ ProducerShape(r)
  /\ DispatchShape(r)
  /\ ConsumerShape(r)
  /\ StatusShape(r)
  /\ GuardShape(r)
  /\ SlotShape(r)

ServeInv ==
  /\ FetchInv
  /\ ServeTypeOK
  /\ AdmitShape
  /\ \A r \in Requests : CancelShape(r) /\ RequestInv(r)

-----------------------------------------------------------------------------
(* Callers and chunks                                                      *)

\* A caller is a chunk of a request.
LEMMA CallerPairs ==
  /\ \A r \in Requests : \A i \in Idx(r) : <<r, i>> \in Callers /\ <<r, i>> \in CallersOf(r)
  /\ \A r \in Requests : CallersOf(r) \in SUBSET Callers
  /\ \A r \in Requests : 0 \in Idx(r) /\ Idx(r) \in SUBSET Nat /\ NChunks[r] \in Nat
  /\ \A r \in Requests, i \in Nat : i < NChunks[r] <=> i \in Idx(r)
<1>1. \A r \in Requests : NChunks[r] \in Nat \ {0}
  BY ServeAssumption
<1>2. \A r \in Requests : {r} \X Idx(r) \in SUBSET Callers
  BY ServeAssumption DEF Idx
<1>3. \A r \in Requests : \A i \in Idx(r) : <<r, i>> \in {r} \X Idx(r)
  OBVIOUS
<1>4. \A r \in Requests : 0 \in Idx(r) /\ Idx(r) \in SUBSET Nat
  BY <1>1 DEF Idx
<1>5. \A r \in Requests, i \in Nat : i < NChunks[r] <=> i \in Idx(r)
  BY <1>1 DEF Idx
<1> QED BY <1>1, <1>2, <1>3, <1>4, <1>5 DEF CallersOf

\* A request has finitely many chunks.
LEMMA CardChunks ==
  ASSUME NEW r \in Requests, NEW S \in SUBSET Idx(r)
  PROVE  /\ IsFiniteSet(S)
         /\ Cardinality(S) \in Nat
         /\ Cardinality(S) > 0 <=> S # {}
         /\ \A i : i \notin S => Cardinality(S \cup {i}) = Cardinality(S) + 1
         /\ \A i \in S : Cardinality(S \ {i}) = Cardinality(S) - 1
<1>1. IsFiniteSet(Idx(r))
  <2>1. NChunks[r] - 1 \in Int
    BY CallerPairs
  <2> QED BY <2>1, FS_Interval DEF Idx
<1>2. IsFiniteSet(S)
  BY <1>1, FS_Subset
<1>3. Cardinality(S) \in Nat /\ (Cardinality(S) = 0 <=> S = {})
  BY <1>2, FS_CardinalityType, FS_EmptySet
<1>4. \A i : i \notin S => Cardinality(S \cup {i}) = Cardinality(S) + 1
  BY <1>2, FS_AddElement
<1>5. \A i \in S : Cardinality(S \ {i}) = Cardinality(S) - 1
  BY <1>2, FS_RemoveElement
<1> QED BY <1>2, <1>3, <1>4, <1>5

-----------------------------------------------------------------------------
(* What a step may do to a request that takes no part in it                *)

\* The request's own goroutines stand still.
Untouched(r) ==
  /\ rpc'[r] = rpc[r] /\ cur'[r] = cur[r] /\ status'[r] = status[r]
  /\ dpc'[r] = dpc[r] /\ didx'[r] = didx[r] /\ slots'[r] = slots[r]
  /\ held'[r] = held[r]
  /\ r \in writing' <=> r \in writing
  /\ r \in armed' <=> r \in armed
  /\ \A i \in Idx(r) : prod'[<<r, i>>] = prod[<<r, i>>]

\* fetchChunk goes on for the caller c: nothing starts and nothing is closed.
Goes(c) ==
  /\ cpc[c] \in {"idle", "end"} => cpc'[c] = cpc[c]
  /\ cpc[c] = "holding" => cpc'[c] = "holding" /\ via'[c] = via[c]
  /\ cpc[c] = "out" => cpc'[c] \in {"out", "holding", "end"}
  /\ cpc[c] # "idle" => cpc'[c] # "idle"

\* The steps the fetch path takes by itself are such.
LEMMA FetchGoes ==
  ASSUME FetchInv, FetchStep
  PROVE  \A c \in Callers : Goes(c)
<1>0. FetchTypeOK /\ CallerShape
  BY DEF FetchInv
<1>1. ASSUME NEW c \in Callers, CallerStep(c)
      PROVE  \A d \in Callers : Goes(d)
  BY <1>0, <1>1 DEF CallerStep, Hit, Miss, Missed, QuitBeforeJoin, Join, Admitted, QuitWaiting,
                    FetchTypeOK, Goes
<1>2. ASSUME NEW c \in Callers, ClaimerStep(c)
      PROVE  \A d \in Callers : Goes(d)
  <2>1. gpc[c] \in {"wait", "offer"} /\ cpc[c] # "holding"
    BY <1>0, <1>2 DEF ClaimerStep, Claim, HandOff, Discard, CallerShape
  <2>2. cpc' = cpc \/ (cpc[c] = "out" /\ cpc' = [cpc EXCEPT ![c] = "holding"])
    BY <1>2 DEF ClaimerStep, Claim, HandOff, Discard
  <2>3. via' = via \/ \E v : via' = [via EXCEPT ![c] = v]
    BY <1>2 DEF ClaimerStep, Claim, HandOff, Discard, CloseResult,
                ClaimError, ClaimBuffer, ClaimFile, ClaimPinned
  <2> QED BY <1>0, <2>1, <2>2, <2>3 DEF FetchTypeOK, Goes
<1>3. ASSUME NEW f \in Callers, LeadStep(f) \/ QueueTimeout(f)
      PROVE  UNCHANGED <<cpc, via>>
  BY <1>3 DEF LeadStep, QueueTimeout, Acquire, Admit, DownloadFails, StoreChunk,
              KeepBuffer, Finish, Publish, callerVars
<1>4. ASSUME NEW k \in Chunks, Evict(k)
      PROVE  UNCHANGED <<cpc, via>>
  BY <1>4 DEF Evict, callerVars
<1>5. UNCHANGED <<cpc, via>> => \A c \in Callers : Goes(c)
  BY DEF Goes
<1> QED BY <1>1, <1>2, <1>3, <1>4, <1>5 DEF FetchStep

\* The invariant of a request that stands still while its fetches go on.
LEMMA RequestUntouched ==
  ASSUME ServeTypeOK, NEW r \in Requests, RequestInv(r), Untouched(r),
         \A i \in Idx(r) : Goes(<<r, i>>)
  PROVE  RequestInv(r)'
<1>0. /\ ProducerShape(r) /\ DispatchShape(r) /\ ConsumerShape(r) /\ StatusShape(r)
      /\ GuardShape(r) /\ SlotShape(r)
  BY DEF RequestInv
<1>1. /\ 0 \in Idx(r) /\ Idx(r) \in SUBSET Nat /\ NChunks[r] \in Nat
      /\ \A i \in Idx(r) : <<r, i>> \in Callers
      /\ cur[r] \in Nat /\ (cur[r] < NChunks[r] => cur[r] \in Idx(r))
  BY CallerPairs DEF ServeTypeOK
<1>2. ProducerShape(r)'
  BY <1>0, <1>1 DEF ProducerShape, Untouched, Goes
<1>3. DispatchShape(r)'
  BY <1>0, <1>1 DEF ProducerShape, DispatchShape, Untouched, Goes
<1>4. AllDone(r) => AllDone(r)'
  BY DEF AllDone, Untouched
<1>5. AllDone(r) /\ InHand(r) = {} => InHand(r)' = {}
  <2> SUFFICES ASSUME AllDone(r), InHand(r) = {}, NEW i \in Idx(r),
                      cpc'[<<r, i>>] = "holding", via'[<<r, i>>] # "err"
               PROVE  FALSE
    BY DEF InHand
  <2>1. cpc[<<r, i>>] \in {"idle", "holding", "end"}
    BY <1>0, <1>1 DEF AllDone, ProducerShape, ServeTypeOK
  <2>2. cpc[<<r, i>>] = "holding" /\ via[<<r, i>>] # "err"
    BY <2>1 DEF Goes
  <2> QED BY <2>2 DEF InHand
<1>6. ConsumerShape(r)'
  BY <1>0, <1>1, <1>4, <1>5 DEF ConsumerShape, Untouched, Goes
<1>7. StatusShape(r)'
  BY <1>0, <1>1 DEF StatusShape, Untouched
<1>8. Counted(r)' = Counted(r)
  BY <1>0, <1>1 DEF Counted, ProducerShape, Untouched, Goes, ServeTypeOK
<1>9. GuardShape(r)'
  BY <1>0, <1>8 DEF GuardShape, Untouched
<1>10. Open(r)' = Open(r)
  BY DEF Open, Untouched
<1>11. SlotShape(r)'
  BY <1>0, <1>10 DEF SlotShape, Untouched
<1> QED BY <1>2, <1>3, <1>6, <1>7, <1>9, <1>11 DEF RequestInv

-----------------------------------------------------------------------------
(* What a request's own steps do                                           *)

RequestStep(r) ==
  \/ Arrive(r) \/ ClientGone(r) \/ DispatcherStep(r) \/ ConsumerStep(r) \/ WriteFails(r)
  \/ \E i \in Idx(r) : ProducerStep(r, i)

\* A step of one request is not seen by another.
LEMMA OthersUntouched ==
  ASSUME ServeTypeOK, NEW r \in Requests, RequestStep(r), NEW s \in Requests, s # r
  PROVE  Untouched(s) /\ \A i \in Idx(s) : Goes(<<s, i>>)
<1>0. \A x, i : <<r, x>> # <<s, i>>
  OBVIOUS
<1>1. \A i \in Idx(s) : <<s, i>> \in Callers
  BY CallerPairs
<1>2. ASSUME NEW x, cpc' = cpc \/ \E v : cpc' = [cpc EXCEPT ![<<r, x>>] = v],
             via' = via \/ \E v : via' = [via EXCEPT ![<<r, x>>] = v]
      PROVE  \A i \in Idx(s) : Goes(<<s, i>>)
  BY <1>0, <1>1, <1>2 DEF Goes, ServeTypeOK, FetchTypeOK
<1>3. CASE Arrive(r)
  <2>1. UNCHANGED <<cpc, via>>
    BY <1>3 DEF Arrive, fetchVars, callerVars
  <2>2. Untouched(s)
    BY <1>3 DEF Arrive, ServeTypeOK, guardVars, Untouched
  <2> QED BY <1>2, <2>1, <2>2
<1>4. CASE ClientGone(r)
  <2>1. UNCHANGED <<cpc, via>>
    BY <1>4 DEF ClientGone, Cancel
  <2>2. Untouched(s)
    BY <1>4 DEF ClientGone, guardVars, serveVars, Untouched
  <2> QED BY <1>2, <2>1, <2>2
<1>5. CASE Dispatch(r)
  <2>1. cpc' = [cpc EXCEPT ![<<r, didx[r]>>] = "lookup"] /\ via' = via
    BY <1>5 DEF Dispatch, Start
  <2>2. prod' = [prod EXCEPT ![<<r, didx[r]>>] = "fetch"]
    BY <1>5 DEF Dispatch
  <2>3. \A i \in Idx(s) : prod'[<<s, i>>] = prod[<<s, i>>]
    BY <1>0, <1>1, <2>2 DEF ServeTypeOK
  <2>4. Untouched(s)
    BY <1>5, <2>3 DEF Dispatch, ServeTypeOK, guardVars, Untouched
  <2>5. \A i \in Idx(s) : Goes(<<s, i>>)
    BY <1>2, <2>1
  <2> QED BY <2>4, <2>5
<1>6. CASE Advance(r) \/ DispatcherQuits(r)
  <2>1. UNCHANGED <<cpc, via>>
    BY <1>6 DEF Advance, NextChunk, DispatcherQuits, fetchVars, callerVars
  <2>2. Untouched(s)
    BY <1>6 DEF Advance, NextChunk, DispatcherQuits, ServeTypeOK, guardVars, Untouched
  <2> QED BY <1>2, <2>1, <2>2
<1>7. ASSUME NEW x \in Idx(r), ProducerStep(r, x)
      PROVE  Untouched(s) /\ \A i \in Idx(s) : Goes(<<s, i>>)
  <2>1. UNCHANGED <<cpc, via>>
    BY <1>7 DEF ProducerStep, CountBuffer, Deliver, fetchVars, callerVars
  <2>2. \E v : prod' = [prod EXCEPT ![<<r, x>>] = v]
    BY <1>7 DEF ProducerStep, CountBuffer, Deliver
  <2>3. \A i \in Idx(s) : prod'[<<s, i>>] = prod[<<s, i>>]
    BY <1>0, <1>1, <2>2 DEF ServeTypeOK
  <2>4. Untouched(s)
    BY <1>7, <2>3 DEF ProducerStep, CountBuffer, Deliver, GuardHold, Arm, ServeTypeOK,
                      GuardTypeOK, guardVars, Untouched
  <2> QED BY <1>2, <2>1, <2>4
<1>8. CASE Receive(r) \/ ReceiveError(r) \/ ConsumerQuits(r)
  <2>1. UNCHANGED <<cpc, via>>
    BY <1>8 DEF Receive, ReceiveError, ConsumerQuits, fetchVars, callerVars
  <2>2. prod' = prod \/ \E v : prod' = [prod EXCEPT ![<<r, cur[r]>>] = v]
    BY <1>8 DEF Receive, ReceiveError, ConsumerQuits
  <2>3. \A i \in Idx(s) : prod'[<<s, i>>] = prod[<<s, i>>]
    BY <1>0, <1>1, <2>2 DEF ServeTypeOK
  <2>4. Untouched(s)
    BY <1>8, <2>3 DEF Receive, ReceiveError, ConsumerQuits, GuardBegin, Arm, ServeTypeOK,
                      GuardTypeOK, guardVars, Untouched
  <2> QED BY <1>2, <2>1, <2>4
<1>9. CASE Written(r) \/ WriteFails(r)
  <2>1. /\ \E v : cpc' = [cpc EXCEPT ![<<r, cur[r]>>] = v]
        /\ \E v : via' = [via EXCEPT ![<<r, cur[r]>>] = v]
    BY <1>9 DEF Written, WriteFails, EndWrite, Close, CloseResult
  <2>2. Untouched(s)
    BY <1>9 DEF Written, WriteFails, EndWrite, GuardEnd, ServeTypeOK, GuardTypeOK, Untouched
  <2>3. \A i \in Idx(s) : Goes(<<s, i>>)
    BY <1>2, <2>1
  <2> QED BY <2>2, <2>3
<1>10. CASE Abort(r) \/ Unwind(r) \/ Drained(r) \/ Served(r)
  <2>1. UNCHANGED <<cpc, via>>
    BY <1>10 DEF Abort, Unwind, Drained, Served, Cancel, fetchVars, callerVars
  <2>2. Untouched(s)
    BY <1>10 DEF Abort, Unwind, Drained, Served, ServeTypeOK, guardVars, Untouched
  <2> QED BY <1>2, <2>1, <2>2
<1>11. ASSUME NEW x \in Idx(r), Drain(r, x)
       PROVE  Untouched(s) /\ \A i \in Idx(s) : Goes(<<s, i>>)
  <2>1. /\ cpc' = cpc \/ \E v : cpc' = [cpc EXCEPT ![<<r, x>>] = v]
        /\ via' = via \/ \E v : via' = [via EXCEPT ![<<r, x>>] = v]
    BY <1>11 DEF Drain, Close, CloseResult, fetchVars, callerVars
  <2>2. \A i \in Idx(s) : prod'[<<s, i>>] = prod[<<s, i>>]
    BY <1>0, <1>1, <1>11 DEF Drain, ServeTypeOK
  <2>3. Untouched(s)
    BY <1>11, <2>2 DEF Drain, ServeTypeOK, guardVars, Untouched
  <2>4. \A i \in Idx(s) : Goes(<<s, i>>)
    BY <1>2, <2>1
  <2> QED BY <2>3, <2>4
<1> QED
  BY <1>3, <1>4, <1>5, <1>6, <1>7, <1>8, <1>9, <1>10, <1>11
  DEF RequestStep, DispatcherStep, ConsumerStep

\* Numbers that the steps of a request turn on.
LEMMA RequestFacts ==
  ASSUME ServeTypeOK, NEW r \in Requests, RequestInv(r)
  PROVE  /\ ProducerShape(r) /\ DispatchShape(r) /\ ConsumerShape(r) /\ StatusShape(r)
         /\ GuardShape(r) /\ SlotShape(r)
         /\ 0 \in Idx(r) /\ Idx(r) \in SUBSET Nat /\ NChunks[r] \in Nat \ {0}
         /\ \A i \in Idx(r) : <<r, i>> \in Callers /\ i < NChunks[r]
         /\ cur[r] \in Nat /\ (cur[r] < NChunks[r] => cur[r] \in Idx(r))
         /\ didx[r] \in Nat /\ (didx[r] < NChunks[r] => didx[r] \in Idx(r))
         /\ \A i \in Idx(r) : prod[<<r, i>>] \in {"none", "fetch", "held", "sent", "taken"}
<1>1. NChunks[r] \in Nat \ {0}
  BY ServeAssumption
<1> QED BY <1>1, CallerPairs DEF RequestInv, ServeTypeOK

\* The request arrives.
LEMMA ArriveKeeps ==
  ASSUME ServeTypeOK, NEW r \in Requests, RequestInv(r), Arrive(r)
  PROVE  RequestInv(r)'
<1>0. /\ rpc[r] = "idle" /\ rpc'[r] = "wait" /\ dpc[r] = "idle" /\ dpc'[r] = "slot"
      /\ UNCHANGED <<cpc, via, held, writing, armed, cur, status, didx, slots, prod>>
  BY RequestFacts DEF Arrive, ServeTypeOK, ConsumerShape, fetchVars, callerVars, guardVars
<1>1. ProducerShape(r)'
  BY <1>0, RequestFacts DEF ProducerShape
<1>2. DispatchShape(r)'
  BY <1>0, RequestFacts DEF DispatchShape
<1>3. ConsumerShape(r)'
  BY <1>0, RequestFacts DEF ConsumerShape
<1>4. StatusShape(r)'
  BY <1>0, RequestFacts DEF StatusShape
<1>5. Counted(r)' = Counted(r) /\ Open(r)' = Open(r)
  BY <1>0 DEF Counted, Open
<1>6. GuardShape(r)' /\ SlotShape(r)'
  BY <1>0, <1>5, RequestFacts DEF GuardShape, SlotShape
<1> QED BY <1>1, <1>2, <1>3, <1>4, <1>6 DEF RequestInv

\* The dispatcher starts a producer.
LEMMA DispatchKeeps ==
  ASSUME ServeTypeOK, NEW r \in Requests, RequestInv(r), Dispatch(r)
  PROVE  RequestInv(r)' /\ slots'[r] \in 0..Window
<1> DEFINE d == didx[r]
<1>0. /\ dpc[r] = "slot" /\ dpc'[r] = "admit"
      /\ d \in Idx(r) /\ prod[<<r, d>>] = "none" /\ rpc[r] # "idle"
      /\ slots[r] < Window /\ slots'[r] = slots[r] + 1
      /\ UNCHANGED <<via, held, writing, armed, rpc, cur, status, didx>>
  <2>1. /\ dpc[r] = "slot" /\ dpc'[r] = "admit"
        /\ slots[r] < Window /\ slots'[r] = slots[r] + 1
        /\ UNCHANGED <<via, held, writing, armed, rpc, cur, status, didx>>
    BY DEF Dispatch, Start, ServeTypeOK, guardVars
  <2>2. d \in Idx(r) /\ prod[<<r, d>>] = "none"
    BY <2>1, RequestFacts DEF DispatchShape
  <2>3. rpc[r] # "idle"
    BY <2>1, RequestFacts DEF ConsumerShape
  <2> QED BY <2>1, <2>2, <2>3
<1>1. /\ \A i \in Idx(r) : prod'[<<r, i>>] = IF i = d THEN "fetch" ELSE prod[<<r, i>>]
      /\ \A i \in Idx(r) : cpc'[<<r, i>>] = IF i = d THEN "lookup" ELSE cpc[<<r, i>>]
  <2>1. prod' = [prod EXCEPT ![<<r, d>>] = "fetch"] /\ cpc' = [cpc EXCEPT ![<<r, d>>] = "lookup"]
    BY DEF Dispatch, Start
  <2> QED BY <2>1, RequestFacts DEF ServeTypeOK, FetchTypeOK
<1>2. ProducerShape(r)'
  BY <1>0, <1>1, RequestFacts DEF ProducerShape
<1>3. DispatchShape(r)'
  BY <1>0, <1>1, RequestFacts DEF DispatchShape
<1>4. d >= cur[r]
  <2>1. ~(d < cur[r])
    BY <1>0, RequestFacts DEF ConsumerShape
  <2>2. d \in Nat /\ cur[r] \in Nat
    BY RequestFacts
  <2> QED BY <2>1, <2>2
<1>5. ConsumerShape(r)'
  <2>1. ~AllDone(r)
    BY <1>0 DEF AllDone
  <2>2. rpc[r] \notin {"drain", "done"}
    BY <2>1, RequestFacts DEF ConsumerShape
  <2>3. rpc[r] = "write" => cur[r] # d
    BY <1>0, RequestFacts DEF ConsumerShape
  <2> QED BY <1>0, <1>1, <1>4, <2>2, <2>3, RequestFacts DEF ConsumerShape
<1>6. StatusShape(r)'
  BY <1>0, <1>1, RequestFacts DEF StatusShape
<1>7. Counted(r)' = Counted(r)
  BY <1>0, <1>1, RequestFacts DEF Counted, ProducerShape
<1>8. GuardShape(r)'
  BY <1>0, <1>7, RequestFacts DEF GuardShape
<1>9. Open(r)' = Open(r) \cup {d} /\ d \notin Open(r) /\ Open(r) \in SUBSET Idx(r)
  BY <1>0, <1>1, <1>4, RequestFacts DEF Open
<1>10. SlotShape(r)'
  <2>1. Cardinality(Open(r)') = Cardinality(Open(r)) + 1
    BY <1>9, CardChunks
  <2> QED BY <1>0, <2>1, RequestFacts DEF SlotShape
<1>11. slots'[r] \in 0..Window
  BY <1>0, ServeAssumption DEF ServeTypeOK
<1> QED BY <1>2, <1>3, <1>5, <1>6, <1>8, <1>10, <1>11 DEF RequestInv

\* The dispatcher goes on to the next chunk, or ends.
LEMMA AdvanceKeeps ==
  ASSUME ServeTypeOK, NEW r \in Requests, RequestInv(r), Advance(r) \/ DispatcherQuits(r)
  PROVE  RequestInv(r)'
<1>0. /\ dpc[r] \in {"slot", "admit"} /\ rpc[r] # "idle" /\ didx[r] \in Idx(r)
      /\ UNCHANGED <<cpc, via, held, writing, armed, rpc, cur, status, slots, prod>>
  BY RequestFacts
  DEF Advance, NextChunk, DispatcherQuits, ServeTypeOK, DispatchShape, ConsumerShape,
      fetchVars, callerVars, guardVars
<1>1. \/ dpc'[r] = "exit" /\ didx'[r] = didx[r]
      \/ /\ cpc[<<r, didx[r]>>] \in {"out", "holding", "end"}
         /\ didx'[r] = didx[r] + 1
         /\ dpc'[r] = IF didx[r] + 1 < NChunks[r] THEN "slot" ELSE "exit"
         /\ dpc[r] = "admit"
  BY DEF Advance, NextChunk, DispatcherQuits, ServeTypeOK
<1>2. ProducerShape(r)'
  BY <1>0, RequestFacts DEF ProducerShape
<1>3. DispatchShape(r)'
  BY <1>0, <1>1, RequestFacts DEF DispatchShape
<1>4. ConsumerShape(r)'
  <2>1. rpc[r] \notin {"drain", "done"}
    BY <1>0, RequestFacts DEF ConsumerShape, AllDone
  <2> QED BY <1>0, <1>1, <2>1, RequestFacts DEF ConsumerShape
<1>5. StatusShape(r)'
  BY <1>0, RequestFacts DEF StatusShape
<1>6. Counted(r)' = Counted(r) /\ Open(r)' = Open(r)
  BY <1>0 DEF Counted, Open
<1>7. GuardShape(r)' /\ SlotShape(r)'
  BY <1>0, <1>6, RequestFacts DEF GuardShape, SlotShape
<1> QED BY <1>2, <1>3, <1>4, <1>5, <1>7 DEF RequestInv

\* A producer counts its buffer, or delivers its result.
LEMMA ProducerKeeps ==
  ASSUME ServeTypeOK, NEW r \in Requests, RequestInv(r), NEW x \in Idx(r), ProducerStep(r, x)
  PROVE  RequestInv(r)'
<1>0. UNCHANGED <<cpc, via, rpc, cur, status, dpc, didx, slots>>
  BY DEF ProducerStep, CountBuffer, Deliver, fetchVars, callerVars
<1>1. PICK v \in {"held", "sent"} :
        \A i \in Idx(r) : prod'[<<r, i>>] = IF i = x THEN v ELSE prod[<<r, i>>]
  <2>1. PICK v \in {"held", "sent"} : prod' = [prod EXCEPT ![<<r, x>>] = v]
    BY DEF ProducerStep, CountBuffer, Deliver
  <2> QED BY <2>1, RequestFacts DEF ServeTypeOK
<1>2. /\ prod[<<r, x>>] \in {"fetch", "held"}
      /\ cpc[<<r, x>>] \in {"holding", "end"}
  BY RequestFacts DEF ProducerStep, CountBuffer, Deliver, ProducerShape, ResultOf
<1>3. rpc[r] \notin {"drain", "done"}
  BY <1>2, RequestFacts DEF ConsumerShape, AllDone
<1>4. v = "held" => cpc[<<r, x>>] = "holding" /\ via[<<r, x>>] = "buffer"
  <2>1. CASE CountBuffer(r, x)
    BY <2>1 DEF CountBuffer, ResultOf
  <2>2. CASE Deliver(r, x)
    <3>1. prod' = [prod EXCEPT ![<<r, x>>] = "sent"]
      BY <2>2 DEF Deliver
    <3> QED BY <1>1, <3>1, RequestFacts DEF ServeTypeOK
  <2> QED BY <2>1, <2>2 DEF ProducerStep
<1>5. ProducerShape(r)'
  BY <1>0, <1>1, <1>2, <1>4, RequestFacts DEF ProducerShape
<1>6. DispatchShape(r)'
  BY <1>0, <1>1, <1>2, RequestFacts DEF DispatchShape
<1>7. ConsumerShape(r)'
  BY <1>0, <1>1, <1>2, <1>3, RequestFacts DEF ConsumerShape
<1>8. StatusShape(r)'
  BY <1>0, <1>1, <1>2, RequestFacts DEF StatusShape
<1>9. Open(r)' = Open(r)
  BY <1>0, <1>1, <1>2 DEF Open
<1>10. SlotShape(r)'
  BY <1>0, <1>9, RequestFacts DEF SlotShape
<1>11. GuardShape(r)'
  <2>1. CASE CountBuffer(r, x)
    <3>1. /\ prod[<<r, x>>] = "fetch" /\ cpc[<<r, x>>] = "holding" /\ via[<<r, x>>] = "buffer"
          /\ held'[r] = held[r] + 1 /\ writing' = writing
          /\ r \in armed' <=> r \in armed \/ r \in writing
      BY <2>1 DEF CountBuffer, ResultOf, GuardHold, Arm, ServeTypeOK, GuardTypeOK
    <3>2. Counted(r)' = Counted(r) \cup {x} /\ x \notin Counted(r) /\ Counted(r) \in SUBSET Idx(r)
      BY <1>0, <1>1, <3>1 DEF Counted
    <3>3. Cardinality(Counted(r)') = Cardinality(Counted(r)) + 1
      BY <3>2, CardChunks
    <3> QED BY <1>0, <3>1, <3>2, <3>3, RequestFacts DEF GuardShape
  <2>2. CASE Deliver(r, x)
    <3>1. UNCHANGED <<held, writing, armed>>
      BY <2>2 DEF Deliver, guardVars
    <3>2. prod[<<r, x>>] = "fetch" => ~(cpc[<<r, x>>] = "holding" /\ via[<<r, x>>] = "buffer")
      BY <2>2 DEF Deliver, ResultOf
    <3>3. Counted(r)' = Counted(r)
      BY <1>0, <1>1, <1>2, <3>2 DEF Counted
    <3> QED BY <1>0, <3>1, <3>3, RequestFacts DEF GuardShape
  <2> QED BY <2>1, <2>2 DEF ProducerStep
<1> QED BY <1>5, <1>6, <1>7, <1>8, <1>10, <1>11 DEF RequestInv

\* The consumer takes the next chunk.
LEMMA ReceiveKeeps ==
  ASSUME ServeTypeOK, NEW r \in Requests, RequestInv(r), Receive(r) \/ ReceiveError(r)
  PROVE  RequestInv(r)'
<1> DEFINE x == cur[r]
<1>0. /\ rpc[r] = "wait" /\ x \in Idx(r) /\ prod[<<r, x>>] = "sent"
      /\ UNCHANGED <<cpc, via, held, cur, dpc, didx, slots>>
  <2>1. /\ rpc[r] = "wait" /\ prod[<<r, x>>] = "sent"
        /\ UNCHANGED <<cpc, via, held, cur, dpc, didx, slots>>
    BY DEF Receive, ReceiveError, GuardBegin, fetchVars, callerVars, guardVars
  <2> QED BY <2>1, RequestFacts DEF ConsumerShape
<1>1. \A i \in Idx(r) : prod'[<<r, i>>] = IF i = x THEN "taken" ELSE prod[<<r, i>>]
  <2>1. prod' = [prod EXCEPT ![<<r, x>>] = "taken"]
    BY DEF Receive, ReceiveError
  <2> QED BY <2>1, RequestFacts DEF ServeTypeOK
<1>2. \/ /\ Receive(r) /\ rpc'[r] = "write" /\ status'[r] = "ok"
         /\ cpc[<<r, x>>] = "holding" /\ via[<<r, x>>] # "err"
      \/ /\ ReceiveError(r) /\ rpc'[r] = "abort" /\ status'[r] = status[r]
         /\ cpc[<<r, x>>] = "holding" => via[<<r, x>>] = "err"
  <2>1. CASE Receive(r)
    <3>1. rpc'[r] = "write" /\ status'[r] = "ok"
      BY <2>1 DEF Receive, ServeTypeOK
    <3>2. ResultOf(<<r, x>>) # "err"
      BY <2>1 DEF Receive
    <3> QED BY <2>1, <3>1, <3>2 DEF ResultOf
  <2>2. CASE ReceiveError(r)
    <3>1. rpc'[r] = "abort" /\ status'[r] = status[r]
      BY <2>2 DEF ReceiveError, ServeTypeOK
    <3>2. ResultOf(<<r, x>>) = "err"
      BY <2>2 DEF ReceiveError
    <3> QED BY <2>2, <3>1, <3>2 DEF ResultOf
  <2> QED BY <2>1, <2>2
<1>3. ProducerShape(r)'
  BY <1>0, <1>1, <1>2, RequestFacts DEF ProducerShape
<1>4. DispatchShape(r)'
  BY <1>0, <1>1, RequestFacts DEF DispatchShape
<1>5. ConsumerShape(r)'
  BY <1>0, <1>1, <1>2, RequestFacts DEF ConsumerShape
<1>6. StatusShape(r)'
  <2>1. cur[r] > 0 => status[r] = "ok"
    BY RequestFacts DEF StatusShape
  <2>2. status[r] = "ok" => prod'[<<r, 0>>] = "taken"
    BY <1>1, RequestFacts DEF StatusShape
  <2>3. x = 0 => prod'[<<r, 0>>] = "taken"
    BY <1>1, RequestFacts
  <2>4. x = 0 \/ x > 0
    BY RequestFacts
  <2> QED BY <1>0, <1>2, <2>1, <2>2, <2>3, <2>4 DEF StatusShape
<1>7. Counted(r)' = Counted(r) /\ Open(r)' = Open(r)
  BY <1>0, <1>1 DEF Counted, Open
<1>8. SlotShape(r)'
  BY <1>0, <1>7, RequestFacts DEF SlotShape
<1>9. GuardShape(r)'
  <2>1. r \notin writing /\ r \notin armed /\ held[r] = Cardinality(Counted(r))
    BY <1>0, RequestFacts DEF GuardShape
  <2>2. held[r] > 0 <=> Counted(r) # {}
    <3>1. Counted(r) \in SUBSET Idx(r)
      BY DEF Counted
    <3> QED BY <2>1, <3>1, CardChunks
  <2>3. CASE Receive(r) /\ rpc'[r] = "write"
    <3>1. r \in writing' /\ (r \in armed' <=> held[r] > 0)
      BY <2>1, <2>3 DEF Receive, GuardBegin, Arm
    <3> QED BY <1>0, <1>7, <2>1, <2>2, <2>3, <3>1 DEF GuardShape
  <2>4. CASE ReceiveError(r) /\ rpc'[r] = "abort"
    <3>1. UNCHANGED <<writing, armed>>
      BY <2>4 DEF ReceiveError, guardVars
    <3> QED BY <2>1, <2>4, <3>1 DEF GuardShape
  <2> QED BY <1>2, <2>3, <2>4
<1> QED BY <1>3, <1>4, <1>5, <1>6, <1>8, <1>9 DEF RequestInv

\* A chunk write ends.
LEMMA WriteKeeps ==
  ASSUME ServeTypeOK, NEW r \in Requests, RequestInv(r), Written(r) \/ WriteFails(r)
  PROVE  RequestInv(r)' /\ slots'[r] \in 0..Window /\ held'[r] \in Nat
<1> DEFINE x == cur[r]
<1>0. /\ rpc[r] = "write" /\ EndWrite(r)
      /\ UNCHANGED <<status, dpc, didx, prod>>
  BY DEF Written, WriteFails, EndWrite
<1>1. /\ x \in Idx(r) /\ prod[<<r, x>>] = "taken" /\ cpc[<<r, x>>] = "holding"
      /\ dpc[r] # "idle" /\ status[r] = "ok"
  BY <1>0, RequestFacts DEF ConsumerShape, StatusShape
<1>2. /\ \A i \in Idx(r) : cpc'[<<r, i>>] = IF i = x THEN "end" ELSE cpc[<<r, i>>]
      /\ \A i \in Idx(r) : via'[<<r, i>>] = IF i = x THEN "none" ELSE via[<<r, i>>]
  <2>1. cpc' = [cpc EXCEPT ![<<r, x>>] = "end"] /\ via' = [via EXCEPT ![<<r, x>>] = "none"]
    BY <1>0 DEF EndWrite, Close, CloseResult
  <2> QED BY <2>1, RequestFacts DEF ServeTypeOK, FetchTypeOK
<1>3. /\ r \notin writing' /\ r \notin armed'
      /\ held'[r] = IF via[<<r, x>>] = "buffer" THEN held[r] - 1 ELSE held[r]
  BY <1>0 DEF EndWrite, GuardEnd, ServeTypeOK, GuardTypeOK
<1>4. \/ /\ slots'[r] = slots[r] - 1 /\ cur'[r] = x + 1
         /\ rpc'[r] = IF x + 1 < NChunks[r] THEN "wait" ELSE "join"
      \/ slots'[r] = slots[r] /\ cur'[r] = x /\ rpc'[r] = "abort"
  BY DEF Written, WriteFails, ServeTypeOK
<1>5. ProducerShape(r)'
  BY <1>0, <1>1, <1>2, <1>4, RequestFacts DEF ProducerShape
<1>6. DispatchShape(r)'
  BY <1>0, <1>2, RequestFacts DEF DispatchShape
<1>7. ConsumerShape(r)'
  <2>1. x \in Nat /\ x < NChunks[r] /\ NChunks[r] \in Nat
    BY <1>1, RequestFacts
  <2>2. \A i \in Idx(r) : i < x + 1 => i < x \/ i = x
    BY <2>1, RequestFacts
  <2>3. \A i \in Idx(r) : i < cur'[r] => prod'[<<r, i>>] = "taken" /\ cpc'[<<r, i>>] = "end"
    BY <1>0, <1>1, <1>2, <1>4, <2>2, RequestFacts DEF ConsumerShape
  <2>4. x + 1 <= NChunks[r] /\ (~(x + 1 < NChunks[r]) => x + 1 = NChunks[r])
    BY <2>1
  <2> QED BY <1>0, <1>1, <1>4, <2>1, <2>3, <2>4 DEF ConsumerShape
<1>8. StatusShape(r)'
  BY <1>0, <1>1, <1>4, RequestFacts DEF StatusShape
<1>9. Counted(r) \in SUBSET Idx(r) /\ held[r] = Cardinality(Counted(r)) /\ held[r] \in Nat
  <2>1. Counted(r) \in SUBSET Idx(r)
    BY DEF Counted
  <2>2. held[r] = Cardinality(Counted(r))
    BY <1>0, RequestFacts DEF GuardShape
  <2> QED BY <2>1, <2>2, CardChunks
<1>10. /\ held'[r] = Cardinality(Counted(r)')
       /\ held'[r] \in Nat
  <2>1. CASE via[<<r, x>>] = "buffer"
    <3>1. x \in Counted(r) /\ Counted(r)' = Counted(r) \ {x}
      BY <1>0, <1>1, <1>2, <2>1 DEF Counted
    <3>2. Cardinality(Counted(r)') = Cardinality(Counted(r)) - 1 /\ Cardinality(Counted(r)) > 0
      BY <1>9, <3>1, CardChunks
    <3> QED BY <1>3, <1>9, <2>1, <3>2
  <2>2. CASE via[<<r, x>>] # "buffer"
    <3>1. Counted(r)' = Counted(r)
      BY <1>0, <1>1, <1>2, <2>2 DEF Counted
    <3> QED BY <1>3, <1>9, <2>2, <3>1
  <2> QED BY <2>1, <2>2
<1>11. GuardShape(r)'
  BY <1>3, <1>4, <1>10 DEF GuardShape
<1>12. SlotShape(r)' /\ slots'[r] \in 0..Window
  <2>1. Open(r) \in SUBSET Idx(r) /\ x \in Open(r)
    BY <1>1, RequestFacts DEF Open
  <2>2. slots[r] = Cardinality(Open(r)) /\ slots[r] \in 0..Window /\ slots[r] > 0
    BY <2>1, RequestFacts, CardChunks DEF SlotShape, ServeTypeOK
  <2>3. CASE cur'[r] = x + 1 /\ slots'[r] = slots[r] - 1
    <3>1. \A i \in Idx(r) : i >= x + 1 <=> i >= x /\ i # x
      BY RequestFacts
    <3>2. Open(r)' = Open(r) \ {x}
      BY <1>0, <2>3, <3>1 DEF Open
    <3>3. Cardinality(Open(r)') = Cardinality(Open(r)) - 1
      BY <2>1, <3>2, CardChunks
    <3> QED BY <2>2, <2>3, <3>3, ServeAssumption DEF SlotShape
  <2>4. CASE cur'[r] = x /\ slots'[r] = slots[r]
    <3>1. Open(r)' = Open(r)
      BY <1>0, <2>4 DEF Open
    <3> QED BY <2>2, <2>4, <3>1 DEF SlotShape
  <2> QED BY <1>4, <2>3, <2>4
<1> QED BY <1>5, <1>6, <1>7, <1>8, <1>10, <1>11, <1>12 DEF RequestInv

\* The consumer gives up, waits for the others, and ends.
LEMMA LeaveKeeps ==
  ASSUME ServeTypeOK, NEW r \in Requests, RequestInv(r),
         ConsumerQuits(r) \/ Abort(r) \/ Unwind(r) \/ Drained(r) \/ Served(r)
  PROVE  RequestInv(r)'
<1>0. /\ UNCHANGED <<cpc, via, held, writing, armed, cur, dpc, didx, slots, prod>>
      /\ rpc[r] \in {"wait", "abort", "unwind", "drain", "join"}
      /\ rpc'[r] \in {"abort", "unwind", "drain", "done"}
  BY DEF ConsumerQuits, Abort, Unwind, Drained, Served, Cancel, fetchVars, callerVars, guardVars,
         ServeTypeOK
<1>1. rpc'[r] \in {"drain", "done"} => AllDone(r)
  <2>1. CASE ConsumerQuits(r) \/ Abort(r)
    BY <2>1 DEF ConsumerQuits, Abort, ServeTypeOK
  <2>2. CASE Unwind(r) \/ Served(r)
    BY <2>2 DEF Unwind, Served
  <2>3. CASE Drained(r)
    BY <2>3, RequestFacts DEF Drained, ConsumerShape
  <2> QED BY <2>1, <2>2, <2>3
<1>2. rpc'[r] = "done" => InHand(r) = {} /\ status'[r] # "none"
  <2>1. CASE Drained(r)
    <3>1. AllDone(r) /\ rpc[r] = "drain" /\ \A i \in Idx(r) : prod[<<r, i>>] # "sent"
      BY <2>1, RequestFacts DEF Drained, ConsumerShape
    <3>2. \A i \in Idx(r) : prod[<<r, i>>] \in {"none", "taken"}
      BY <3>1, RequestFacts DEF AllDone
    <3>3. InHand(r) = {}
      BY <3>1, <3>2, RequestFacts DEF InHand, ProducerShape
    <3>4. status'[r] # "none"
      BY <2>1 DEF Drained, ServeTypeOK
    <3> QED BY <3>3, <3>4
  <2>2. CASE Served(r)
    <3>1. rpc[r] = "join" /\ status'[r] = status[r]
      BY <2>2 DEF Served
    <3>2. \A i \in Idx(r) : cpc[<<r, i>>] = "end"
      BY <3>1, RequestFacts DEF ConsumerShape
    <3>3. status[r] = "ok"
      BY <3>1, RequestFacts DEF StatusShape
    <3> QED BY <3>1, <3>2, <3>3 DEF InHand
  <2>3. CASE ConsumerQuits(r) \/ Abort(r) \/ Unwind(r)
    BY <2>3 DEF ConsumerQuits, Abort, Unwind, ServeTypeOK
  <2> QED BY <2>1, <2>2, <2>3
<1>3. ProducerShape(r)' /\ DispatchShape(r)'
  BY <1>0, RequestFacts DEF ProducerShape, DispatchShape
<1>4. AllDone(r)' = AllDone(r) /\ InHand(r)' = InHand(r)
  BY <1>0 DEF AllDone, InHand
<1>5. ConsumerShape(r)'
  BY <1>0, <1>1, <1>2, <1>4, RequestFacts DEF ConsumerShape
<1>6. StatusShape(r)'
  <2>1. status'[r] = status[r] \/ (status[r] = "none" /\ status'[r] = "error")
    BY DEF ConsumerQuits, Abort, Unwind, Drained, Served, ServeTypeOK
  <2> QED BY <1>0, <1>2, <2>1, RequestFacts DEF StatusShape
<1>7. Counted(r)' = Counted(r) /\ Open(r)' = Open(r)
  BY <1>0 DEF Counted, Open
<1>8. GuardShape(r)' /\ SlotShape(r)'
  BY <1>0, <1>7, RequestFacts DEF GuardShape, SlotShape
<1> QED BY <1>3, <1>5, <1>6, <1>8 DEF RequestInv

\* cleanupPending closes a result that was delivered and never taken.
LEMMA DrainKeeps ==
  ASSUME ServeTypeOK, NEW r \in Requests, RequestInv(r), NEW x \in Idx(r), Drain(r, x)
  PROVE  RequestInv(r)'
<1>0. /\ rpc[r] = "drain" /\ prod[<<r, x>>] = "sent" /\ cpc[<<r, x>>] \in {"holding", "end"}
      /\ UNCHANGED <<held, writing, armed, rpc, cur, status, dpc, didx, slots>>
  BY RequestFacts DEF Drain, ProducerShape, guardVars
<1>1. /\ \A i \in Idx(r) : prod'[<<r, i>>] = IF i = x THEN "taken" ELSE prod[<<r, i>>]
      /\ \A i \in Idx(r) : cpc'[<<r, i>>] = IF i = x THEN "end" ELSE cpc[<<r, i>>]
      /\ \A i \in Idx(r) : i # x => via'[<<r, i>>] = via[<<r, i>>]
  <2>1. prod' = [prod EXCEPT ![<<r, x>>] = "taken"]
    BY DEF Drain
  <2>2. CASE cpc[<<r, x>>] = "holding"
    <3>1. cpc' = [cpc EXCEPT ![<<r, x>>] = "end"] /\ via' = [via EXCEPT ![<<r, x>>] = "none"]
      BY <2>2 DEF Drain, Close, CloseResult
    <3> QED BY <2>1, <3>1, RequestFacts DEF ServeTypeOK, FetchTypeOK
  <2>3. CASE cpc[<<r, x>>] # "holding"
    <3>1. cpc' = cpc /\ via' = via
      BY <2>3 DEF Drain, fetchVars, callerVars
    <3> QED BY <1>0, <2>1, <2>3, <3>1, RequestFacts DEF ServeTypeOK
  <2> QED BY <2>2, <2>3
<1>2. ProducerShape(r)'
  BY <1>0, <1>1, RequestFacts DEF ProducerShape
<1>3. DispatchShape(r)'
  BY <1>0, <1>1, RequestFacts DEF DispatchShape
<1>4. AllDone(r)'
  <2>1. AllDone(r)
    BY <1>0, RequestFacts DEF ConsumerShape
  <2> QED BY <1>0, <1>1, <2>1 DEF AllDone
<1>5. ConsumerShape(r)'
  BY <1>0, <1>1, <1>4, RequestFacts DEF ConsumerShape
<1>6. StatusShape(r)'
  BY <1>0, <1>1, RequestFacts DEF StatusShape
<1>7. GuardShape(r)'
  BY <1>0, RequestFacts DEF GuardShape
<1>8. Open(r)' = Open(r)
  BY <1>0, <1>1 DEF Open
<1>9. SlotShape(r)'
  BY <1>0, <1>8, RequestFacts DEF SlotShape
<1> QED BY <1>2, <1>3, <1>5, <1>6, <1>7, <1>9 DEF RequestInv

-----------------------------------------------------------------------------
(* The composition                                                         *)

\* Every step is a step of the fetch path, or none.
LEMMA ServeIsAction ==
  ASSUME ServeInv, [ServeNext]_allVars
  PROVE  [FetchAction]_fetchVars
<1>0. ServeTypeOK /\ \A r \in Requests : RequestInv(r)
  BY DEF ServeInv
<1>1. ASSUME NEW r \in Requests, RequestStep(r)
      PROVE  [FetchAction]_fetchVars
  <2>0. /\ CallersOf(r) \in SUBSET Callers
        /\ \A i \in Idx(r) : <<r, i>> \in Callers
    BY CallerPairs
  <2>1. CASE Dispatch(r)
    <3>1. Start(<<r, didx[r]>>) /\ dpc[r] = "slot"
      BY <2>1 DEF Dispatch
    <3>2. <<r, didx[r]>> \in Callers
      BY <1>0, <3>1, RequestFacts DEF DispatchShape
    <3> QED BY <3>1, <3>2 DEF FetchAction
  <2>2. CASE Written(r) \/ WriteFails(r)
    <3>1. Close(<<r, cur[r]>>) /\ rpc[r] = "write"
      BY <2>2 DEF Written, WriteFails, EndWrite
    <3>2. <<r, cur[r]>> \in Callers
      BY <1>0, <3>1, RequestFacts DEF ConsumerShape
    <3> QED BY <3>1, <3>2 DEF FetchAction
  <2>3. CASE ClientGone(r) \/ Abort(r) \/ Served(r)
    BY <2>0, <2>3 DEF ClientGone, Abort, Served, FetchAction
  <2>4. ASSUME NEW i \in Idx(r), Drain(r, i)
        PROVE  [FetchAction]_fetchVars
    BY <2>0, <2>4 DEF Drain, FetchAction
  <2>5. ASSUME NEW i \in Idx(r), ProducerStep(r, i)
        PROVE  [FetchAction]_fetchVars
    BY <2>5 DEF ProducerStep, CountBuffer, Deliver
  <2>6. CASE \/ Arrive(r) \/ Advance(r) \/ DispatcherQuits(r) \/ Receive(r) \/ ReceiveError(r)
             \/ ConsumerQuits(r) \/ Unwind(r) \/ Drained(r)
    BY <2>6 DEF Arrive, Advance, NextChunk, DispatcherQuits, Receive, ReceiveError,
                ConsumerQuits, Unwind, Drained
  <2> QED
    BY <1>1, <2>1, <2>2, <2>3, <2>4, <2>5, <2>6 DEF RequestStep, DispatcherStep, ConsumerStep
<1> QED
  BY <1>1 DEF ServeNext, RequestStep, allVars, FetchAction

\* A fetch that a caller has seen admitted stays admitted, whatever happens.
LEMMA AdmitKept ==
  ASSUME FetchInv, AdmitShape, [FetchAction]_fetchVars
  PROVE  AdmitShape'
<1>0. FetchTypeOK /\ CallerShape /\ JoinShape
  BY DEF FetchInv
<1>1. ASSUME NEW c \in Callers,
             \/ Start(c) \/ Hit(c) \/ Miss(c) \/ QuitBeforeJoin(c) \/ Admitted(c)
             \/ QuitWaiting(c) \/ HandOff(c)
      PROVE  AdmitShape'
  <2>1. UNCHANGED <<joined, cancelled, lpc, admitted>>
    BY <1>1 DEF Start, Hit, Miss, QuitBeforeJoin, Admitted, QuitWaiting, HandOff, flightVars
  <2>2. \A d \in Callers :
          /\ cpc'[d] = "out" => joined[d] \in admitted
          /\ cpc'[d] = "end" /\ d \notin cancelled => gpc'[d] \in {"none", "gone"}
    BY <1>0, <1>1 DEF Start, Hit, Miss, QuitBeforeJoin, Admitted, QuitWaiting, HandOff,
                      AdmitShape, FetchTypeOK
  <2> QED BY <2>1, <2>2 DEF AdmitShape
<1>2. ASSUME NEW c \in Callers, Join(c)
      PROVE  AdmitShape'
  <2>1. /\ cpc' = [cpc EXCEPT ![c] = "admit"] /\ gpc' = [gpc EXCEPT ![c] = "wait"]
        /\ UNCHANGED <<cancelled, admitted>>
        /\ \E f : joined' = [joined EXCEPT ![c] = f]
    BY <1>2 DEF Join, Lead, Follow
  <2>2. lpc' = lpc \/ lpc' = [lpc EXCEPT ![c] = "acquire"]
    BY <1>2 DEF Join, Lead, Follow
  <2>3. lpc[c] = "none"
    BY <1>0, <1>2, FetchAssumption DEF Join, CallerShape, JoinShape
  <2>4. c \notin admitted
    BY <2>3 DEF AdmitShape
  <2>5. \A f \in Callers :
          /\ f \in admitted' => lpc'[f] \in {"download", "finish", "publish", "done"}
          /\ lpc'[f] = "done" => f \in admitted'
    BY <1>0, <2>1, <2>2, <2>3, <2>4 DEF AdmitShape, FetchTypeOK
  <2>6. \A d \in Callers :
          /\ cpc'[d] = "out" => joined'[d] \in admitted'
          /\ cpc'[d] = "end" /\ d \notin cancelled' => gpc'[d] \in {"none", "gone"}
    BY <1>0, <2>1 DEF AdmitShape, FetchTypeOK
  <2> QED BY <2>5, <2>6 DEF AdmitShape
<1>3. ASSUME NEW c \in Callers, Claim(c) \/ Discard(c) \/ Close(c)
      PROVE  AdmitShape'
  <2>1. UNCHANGED <<joined, cancelled, lpc, admitted>>
    BY <1>3 DEF Claim, Discard, Close
  <2>2. \A d \in Callers :
          /\ cpc'[d] = "out" => joined[d] \in admitted
          /\ cpc'[d] = "end" /\ d \notin cancelled => gpc'[d] \in {"none", "gone"}
    <3>1. CASE Claim(c)
      BY <1>0, <3>1 DEF Claim, AdmitShape, FetchTypeOK
    <3>2. CASE Discard(c)
      BY <1>0, <3>2 DEF Discard, AdmitShape, FetchTypeOK
    <3>3. CASE Close(c)
      BY <1>0, <3>3 DEF Close, AdmitShape, CallerShape, FetchTypeOK
    <3> QED BY <1>3, <3>1, <3>2, <3>3
  <2> QED BY <2>1, <2>2 DEF AdmitShape
<1>4. ASSUME NEW f \in Callers, LeadStep(f) \/ QueueTimeout(f)
      PROVE  AdmitShape'
  <2>1. UNCHANGED <<cpc, gpc, joined, cancelled>> /\ admitted \subseteq admitted'
    BY <1>4 DEF LeadStep, QueueTimeout, Acquire, Admit, DownloadFails, StoreChunk,
                KeepBuffer, Finish, Publish, callerVars
  <2>2. \A g \in Callers :
          /\ g \in admitted' => lpc'[g] \in {"download", "finish", "publish", "done"}
          /\ lpc'[g] = "done" => g \in admitted'
    BY <1>0, <1>4 DEF LeadStep, QueueTimeout, Acquire, Admit, DownloadFails, StoreChunk,
                      KeepBuffer, Finish, Publish, AdmitShape, FetchTypeOK
  <2> QED BY <2>1, <2>2 DEF AdmitShape
<1>5. ASSUME \/ \E S \in SUBSET Callers : Cancel(S)
             \/ \E k \in Chunks : Evict(k)
             \/ UNCHANGED fetchVars
      PROVE  AdmitShape'
  <2>1. UNCHANGED <<cpc, gpc, joined, lpc, admitted>> /\ cancelled \subseteq cancelled'
    BY <1>5 DEF Cancel, Evict, fetchVars, callerVars, flightVars
  <2> QED BY <2>1 DEF AdmitShape
<1> QED
  BY <1>1, <1>2, <1>3, <1>4, <1>5
  DEF FetchAction, FetchStep, CallerStep, ClaimerStep

\* A request's context is done for all its callers at once.
LEMMA CancelKept ==
  ASSUME ServeTypeOK, \A r \in Requests : CancelShape(r), [ServeNext]_allVars
  PROVE  \A r \in Requests : CancelShape(r)'
<1>1. cancelled' = cancelled \/ \E r \in Requests : cancelled' = cancelled \cup CallersOf(r)
  <2>1. ASSUME FetchStep PROVE cancelled' = cancelled
    BY <2>1 DEF FetchStep, CallerStep, ClaimerStep, LeadStep, QueueTimeout, Evict,
                Hit, Miss, QuitBeforeJoin, Join, Admitted, QuitWaiting, Claim, HandOff, Discard,
                Acquire, Admit, DownloadFails, StoreChunk, KeepBuffer, Finish, Publish, callerVars
  <2>2. ASSUME NEW r \in Requests, RequestStep(r)
        PROVE  cancelled' = cancelled \/ cancelled' = cancelled \cup CallersOf(r)
    <3>1. CASE ClientGone(r) \/ Abort(r) \/ Served(r)
      BY <3>1 DEF ClientGone, Abort, Served, Cancel
    <3>2. CASE Arrive(r) \/ DispatcherStep(r)
      BY <3>2 DEF Arrive, DispatcherStep, Dispatch, Start, Advance, NextChunk, DispatcherQuits,
                  fetchVars, callerVars
    <3>3. CASE \E i \in Idx(r) : ProducerStep(r, i) \/ Drain(r, i)
      BY <3>3 DEF ProducerStep, CountBuffer, Deliver, Drain, Close, fetchVars, callerVars
    <3>4. CASE \/ Receive(r) \/ ReceiveError(r) \/ ConsumerQuits(r) \/ Unwind(r) \/ Drained(r)
               \/ Written(r) \/ WriteFails(r)
      BY <3>4 DEF Receive, ReceiveError, ConsumerQuits, Unwind, Drained, Written, WriteFails,
                  EndWrite, Close, fetchVars, callerVars
    <3> QED BY <2>2, <3>1, <3>2, <3>3, <3>4 DEF RequestStep, ConsumerStep
  <2> QED
    BY <2>1, <2>2 DEF ServeNext, RequestStep, allVars, fetchVars, callerVars
<1>2. TAKE s \in Requests
<1>3. CASE cancelled' = cancelled
  BY <1>3 DEF CancelShape, CtxDone
<1>4. ASSUME NEW r \in Requests, cancelled' = cancelled \cup CallersOf(r)
      PROVE  CancelShape(s)'
  <2>1. CASE s = r
    BY <1>4, <2>1 DEF CancelShape, CtxDone
  <2>2. CASE s # r
    <3>1. \A i \in Idx(s) : <<s, i>> \notin CallersOf(r)
      BY <2>2 DEF CallersOf
    <3> QED BY <1>4, <3>1 DEF CancelShape, CtxDone
  <2> QED BY <2>1, <2>2
<1> QED BY <1>1, <1>3, <1>4

\* A request's step keeps its own part of the invariant, and types.
LEMMA OwnStepKeeps ==
  ASSUME ServeTypeOK, NEW r \in Requests, RequestInv(r), RequestStep(r)
  PROVE  RequestInv(r)' /\ slots'[r] \in 0..Window /\ held'[r] \in Nat
<1>0. slots[r] \in 0..Window /\ held[r] \in Nat
  BY DEF ServeTypeOK, GuardTypeOK
<1>1. CASE Arrive(r)
  BY <1>0, <1>1, ArriveKeeps DEF Arrive, guardVars
<1>2. CASE ClientGone(r)
  <2>1. Untouched(r) /\ \A i \in Idx(r) : Goes(<<r, i>>)
    BY <1>2 DEF ClientGone, Cancel, guardVars, serveVars, Untouched, Goes
  <2> QED BY <1>0, <1>2, <2>1, RequestUntouched DEF ClientGone, guardVars, serveVars
<1>3. CASE Dispatch(r)
  BY <1>0, <1>3, DispatchKeeps DEF Dispatch, guardVars
<1>4. CASE Advance(r) \/ DispatcherQuits(r)
  BY <1>0, <1>4, AdvanceKeeps DEF Advance, NextChunk, DispatcherQuits, guardVars
<1>5. ASSUME NEW i \in Idx(r), ProducerStep(r, i)
      PROVE  RequestInv(r)' /\ slots'[r] \in 0..Window /\ held'[r] \in Nat
  <2>1. slots' = slots /\ (held' = held \/ held' = [held EXCEPT ![r] = @ + 1])
    BY <1>5 DEF ProducerStep, CountBuffer, Deliver, GuardHold, guardVars
  <2>2. held'[r] \in Nat
    BY <1>0, <2>1 DEF ServeTypeOK, GuardTypeOK
  <2> QED BY <1>0, <1>5, <2>1, <2>2, ProducerKeeps
<1>6. CASE Receive(r) \/ ReceiveError(r)
  BY <1>0, <1>6, ReceiveKeeps DEF Receive, ReceiveError, GuardBegin, guardVars
<1>7. CASE Written(r) \/ WriteFails(r)
  BY <1>7, WriteKeeps
<1>8. CASE ConsumerQuits(r) \/ Abort(r) \/ Unwind(r) \/ Drained(r) \/ Served(r)
  BY <1>0, <1>8, LeaveKeeps DEF ConsumerQuits, Abort, Unwind, Drained, Served, guardVars
<1>9. ASSUME NEW i \in Idx(r), Drain(r, i)
      PROVE  RequestInv(r)' /\ slots'[r] \in 0..Window /\ held'[r] \in Nat
  BY <1>0, <1>9, DrainKeeps DEF Drain, guardVars
<1> QED
  BY <1>1, <1>2, <1>3, <1>4, <1>5, <1>6, <1>7, <1>8, <1>9
  DEF RequestStep, DispatcherStep, ConsumerStep

\* The variables of the composition keep their types.
LEMMA ServeTypesKept ==
  ASSUME ServeTypeOK, NEW r \in Requests, RequestStep(r), FetchTypeOK',
         slots'[r] \in 0..Window, held'[r] \in Nat
  PROVE  ServeTypeOK'
<1>1. /\ rpc' = rpc \/ \E v \in {"wait", "write", "abort", "unwind", "drain", "join", "done"} :
                         rpc' = [rpc EXCEPT ![r] = v]
      /\ cur' = cur \/ cur' = [cur EXCEPT ![r] = @ + 1]
      /\ status' = status \/ \E v \in {"none", "ok", "error"} : status' = [status EXCEPT ![r] = v]
  BY DEF RequestStep, DispatcherStep, ConsumerStep, ProducerStep, Arrive, ClientGone, Dispatch,
         Advance, NextChunk, DispatcherQuits, CountBuffer, Deliver, Receive, ReceiveError,
         ConsumerQuits, Written, WriteFails, Abort, Unwind, Drain, Drained, Served, serveVars,
         ServeTypeOK
<1>2. /\ dpc' = dpc \/ \E v \in {"slot", "admit", "exit"} : dpc' = [dpc EXCEPT ![r] = v]
      /\ didx' = didx \/ didx' = [didx EXCEPT ![r] = @ + 1]
      /\ slots' = slots \/ \E v : slots' = [slots EXCEPT ![r] = v]
  BY DEF RequestStep, DispatcherStep, ConsumerStep, ProducerStep, Arrive, ClientGone, Dispatch,
         Advance, NextChunk, DispatcherQuits, CountBuffer, Deliver, Receive, ReceiveError,
         ConsumerQuits, Written, WriteFails, Abort, Unwind, Drain, Drained, Served, serveVars
<1>3. prod' = prod \/ \E x, v : /\ v \in {"fetch", "held", "sent", "taken"}
                                /\ prod' = [prod EXCEPT ![x] = v]
  BY DEF RequestStep, DispatcherStep, ConsumerStep, ProducerStep, Arrive, ClientGone, Dispatch,
         Advance, NextChunk, DispatcherQuits, CountBuffer, Deliver, Receive, ReceiveError,
         ConsumerQuits, Written, WriteFails, Abort, Unwind, Drain, Drained, Served, serveVars
<1>4. /\ held' = held \/ \E v : held' = [held EXCEPT ![r] = v]
      /\ writing' \in {writing, writing \cup {r}, writing \ {r}}
      /\ armed' \in {armed, armed \cup {r}, armed \ {r}}
  BY DEF RequestStep, DispatcherStep, ConsumerStep, ProducerStep, Arrive, ClientGone, Dispatch,
         Advance, NextChunk, DispatcherQuits, CountBuffer, Deliver, Receive, ReceiveError,
         ConsumerQuits, Written, WriteFails, Abort, Unwind, Drain, Drained, Served, guardVars,
         EndWrite, GuardHold, GuardBegin, GuardEnd, Arm
<1>5. rpc' \in [Requests -> {"idle", "wait", "write", "abort", "unwind", "drain", "join", "done"}]
  BY <1>1 DEF ServeTypeOK
<1>6. cur' \in [Requests -> Nat] /\ didx' \in [Requests -> Nat]
  BY <1>1, <1>2 DEF ServeTypeOK
<1>7. status' \in [Requests -> {"none", "ok", "error"}]
  BY <1>1 DEF ServeTypeOK
<1>8. dpc' \in [Requests -> {"idle", "slot", "admit", "exit"}]
  BY <1>2 DEF ServeTypeOK
<1>9. slots' \in [Requests -> 0..Window]
  BY <1>2 DEF ServeTypeOK
<1>10. prod' \in [Callers -> {"none", "fetch", "held", "sent", "taken"}]
  BY <1>3 DEF ServeTypeOK
<1>11. GuardTypeOK'
  BY <1>4 DEF ServeTypeOK, GuardTypeOK
<1> QED BY <1>5, <1>6, <1>7, <1>8, <1>9, <1>10, <1>11 DEF ServeTypeOK

\* ServeInv is inductive.
LEMMA ServeStepInv == ServeInv /\ [ServeNext]_allVars => ServeInv'
<1> SUFFICES ASSUME ServeInv, [ServeNext]_allVars
             PROVE  ServeInv'
  OBVIOUS
<1>0. /\ FetchInv /\ ServeTypeOK /\ AdmitShape
      /\ \A r \in Requests : CancelShape(r) /\ RequestInv(r)
  BY DEF ServeInv
<1>1. [FetchAction]_fetchVars
  BY ServeIsAction
<1>2. FetchInv' /\ AdmitShape'
  BY <1>0, <1>1, StepInv, AdmitKept
<1>3. FetchTypeOK'
  BY <1>2 DEF FetchInv
<1>4. \A r \in Requests : CancelShape(r)'
  BY <1>0, CancelKept
<1>5. ASSUME NEW r \in Requests, RequestStep(r)
      PROVE  ServeTypeOK' /\ \A s \in Requests : RequestInv(s)'
  <2>1. RequestInv(r)' /\ slots'[r] \in 0..Window /\ held'[r] \in Nat
    BY <1>0, <1>5, OwnStepKeeps
  <2>2. ServeTypeOK'
    BY <1>0, <1>3, <1>5, <2>1, ServeTypesKept
  <2>3. ASSUME NEW s \in Requests, s # r
        PROVE  RequestInv(s)'
    <3>1. Untouched(s) /\ \A i \in Idx(s) : Goes(<<s, i>>)
      BY <1>0, <1>5, <2>3, OthersUntouched
    <3> QED BY <1>0, <3>1, RequestUntouched
  <2> QED BY <2>1, <2>2, <2>3
<1>6. ASSUME FetchStep \/ UNCHANGED fetchVars, UNCHANGED <<guardVars, serveVars>>
      PROVE  ServeTypeOK' /\ \A s \in Requests : RequestInv(s)'
  <2>1. ServeTypeOK'
    BY <1>0, <1>3, <1>6 DEF ServeTypeOK, GuardTypeOK, guardVars, serveVars
  <2>2. \A c \in Callers : Goes(c)
    <3>1. UNCHANGED fetchVars => \A c \in Callers : Goes(c)
      BY DEF fetchVars, callerVars, Goes
    <3> QED BY <1>0, <1>6, <3>1, FetchGoes
  <2>3. ASSUME NEW s \in Requests
        PROVE  RequestInv(s)'
    <3>1. Untouched(s)
      BY <1>6 DEF Untouched, guardVars, serveVars
    <3>2. \A i \in Idx(s) : Goes(<<s, i>>)
      BY <2>2, CallerPairs
    <3> QED BY <1>0, <3>1, <3>2, RequestUntouched
  <2> QED BY <2>1, <2>3
<1>7. ServeTypeOK' /\ \A s \in Requests : RequestInv(s)'
  BY <1>5, <1>6 DEF ServeNext, RequestStep, allVars
<1> QED BY <1>2, <1>4, <1>7 DEF ServeInv

\* Before the first request nothing is dispatched, held or armed.
LEMMA ServeInitInv == ServeInit => ServeInv
<1> SUFFICES ASSUME ServeInit PROVE ServeInv
  OBVIOUS
<1>1. FetchInv
  BY InitInv DEF ServeInit
<1>2. ServeTypeOK
  BY <1>1, ServeAssumption DEF ServeInit, GuardInit, ServeTypeOK, GuardTypeOK, FetchInv
<1>3. AdmitShape
  BY DEF ServeInit, FetchInit, AdmitShape
<1>4. ASSUME NEW r \in Requests
      PROVE  CancelShape(r) /\ RequestInv(r)
  <2>0. /\ 0 \in Idx(r) /\ Idx(r) \in SUBSET Nat /\ NChunks[r] \in Nat \ {0}
        /\ \A i \in Idx(r) : <<r, i>> \in Callers
    BY CallerPairs, ServeAssumption
  <2>1. /\ rpc[r] = "idle" /\ cur[r] = 0 /\ status[r] = "none" /\ dpc[r] = "idle"
        /\ didx[r] = 0 /\ slots[r] = 0 /\ held[r] = 0 /\ writing = {} /\ armed = {}
        /\ cancelled = {}
        /\ \A i \in Idx(r) : prod[<<r, i>>] = "none" /\ cpc[<<r, i>>] = "idle"
    BY <2>0 DEF ServeInit, GuardInit, FetchInit
  <2>2. Counted(r) = {} /\ Open(r) = {} /\ Cardinality({}) = 0
    BY <2>1, FS_EmptySet DEF Counted, Open
  <2>3. ProducerShape(r) /\ DispatchShape(r)
    BY <2>0, <2>1 DEF ProducerShape, DispatchShape
  <2>4. ConsumerShape(r) /\ StatusShape(r)
    BY <2>0, <2>1 DEF ConsumerShape, StatusShape
  <2>5. GuardShape(r) /\ SlotShape(r)
    BY <2>1, <2>2 DEF GuardShape, SlotShape
  <2>6. CancelShape(r)
    BY <2>1 DEF CancelShape
  <2> QED BY <2>3, <2>4, <2>5, <2>6 DEF RequestInv
<1> QED BY <1>1, <1>2, <1>3, <1>4 DEF ServeInv

-----------------------------------------------------------------------------
(* What the invariant says                                                 *)

\* The status is decided by what the consumer has written.
LEMMA InvStatusHonest == ServeInv => StatusHonest
<1>1. ServeInv => \A r \in Requests : StatusShape(r)
  BY DEF ServeInv, RequestInv
<1> QED BY <1>1 DEF StatusShape, StatusHonest

\* A request that is over has taken up every chunk it dispatched.
LEMMA InvNothingLeft == ServeInv => NothingLeftBehind
<1>1. ServeInv => \A r \in Requests : ConsumerShape(r)
  BY DEF ServeInv, RequestInv
<1> QED BY <1>1 DEF ConsumerShape, NothingLeftBehind

\* The guard is armed for the writes, and for no one that is not writing.
LEMMA InvGuards == ServeInv => GuardCovers /\ GuardSpares
<1> SUFFICES ASSUME ServeInv PROVE GuardCovers /\ GuardSpares
  OBVIOUS
<1>1. /\ \A r \in Requests : GuardShape(r)
      /\ writing \in SUBSET Requests /\ armed \in SUBSET Requests
  BY DEF ServeInv, RequestInv, ServeTypeOK, GuardTypeOK
<1>2. GuardCovers
  BY <1>1 DEF GuardCovers, GuardShape, Counted, InHand
<1>3. GuardSpares
  BY <1>1 DEF GuardSpares, GuardShape, Counted, InHand
<1> QED BY <1>2, <1>3

\* The chunks in hand lie between the consumer and the dispatcher, which are at
\* most a window apart.
LEMMA InvWindowBound == ServeInv => WindowBound
<1> SUFFICES ASSUME ServeInv, NEW r \in Requests PROVE Cardinality(InHand(r)) <= Window
  BY DEF WindowBound
<1>0. ServeTypeOK /\ RequestInv(r)
  BY DEF ServeInv
<1>1. InHand(r) \in SUBSET Open(r) /\ Open(r) \in SUBSET Idx(r)
  <2>1. ASSUME NEW i \in InHand(r) PROVE i \in Open(r)
    <3>1. i \in Idx(r) /\ cpc[<<r, i>>] = "holding"
      BY DEF InHand
    <3>2. prod[<<r, i>>] # "none" /\ ~(i < cur[r])
      BY <1>0, <3>1, RequestFacts DEF ProducerShape, ConsumerShape
    <3>3. i \in Nat /\ cur[r] \in Nat
      BY <1>0, <3>1, RequestFacts
    <3> QED BY <3>1, <3>2, <3>3 DEF Open
  <2> QED BY <2>1 DEF Open
<1>2. IsFiniteSet(Open(r)) /\ Cardinality(Open(r)) \in Nat
  BY <1>1, CardChunks
<1>3. Cardinality(InHand(r)) <= Cardinality(Open(r)) /\ Cardinality(InHand(r)) \in Nat
  BY <1>1, <1>2, FS_Subset, FS_CardinalityType
<1>4. Cardinality(Open(r)) <= Window
  BY <1>0, RequestFacts, ServeAssumption DEF SlotShape, ServeTypeOK
<1>5. Window \in Nat
  BY ServeAssumption
<1> QED BY <1>2, <1>3, <1>4, <1>5

\* Units are reserved in the order of the chunks.
LEMMA InvHeadFirst == ServeInv => HeadFirst
<1> SUFFICES ASSUME ServeInv, NEW r \in Requests, NEW i \in Idx(r), NEW j \in Idx(r),
                    i < j, PinsUnit(r, j), ~CtxDone(r)
             PROVE  prod[<<r, i>>] # "none" /\ ~WaitsForUnit(r, i)
  BY DEF HeadFirst
<1>0. /\ FetchTypeOK /\ CallerShape /\ JoinShape /\ LeadShape /\ AdmitShape
      /\ ServeTypeOK /\ RequestInv(r) /\ CancelShape(r)
  BY DEF ServeInv, FetchInv
<1> DEFINE c == <<r, i>>
<1>1. c \in Callers /\ <<r, j>> \in Callers /\ i \in Nat /\ j \in Nat /\ didx[r] \in Nat
  BY <1>0, RequestFacts
\* The later producer is started, so the dispatcher is past the earlier one.
<1>2. i < didx[r]
  <2>1. cpc[<<r, j>>] # "idle"
    BY <1>0, <1>1 DEF PinsUnit, CallerShape
  <2>2. prod[<<r, j>>] # "none"
    BY <1>0, <2>1, RequestFacts DEF ProducerShape
  <2>3. ~(j > didx[r])
    BY <1>0, <2>2, RequestFacts DEF DispatchShape
  <2> QED BY <1>1, <2>3
<1>3. cpc[c] \in {"out", "holding", "end"}
  BY <1>0, <1>2, RequestFacts DEF DispatchShape
<1>4. prod[c] # "none"
  BY <1>0, <1>3, RequestFacts DEF ProducerShape
<1>5. c \notin cancelled
  BY <1>0 DEF CancelShape
\* It returned by itself, or has seen its fetch admitted.
<1>6. ASSUME joined[c] # None PROVE joined[c] \in admitted
  <2>1. joined[c] \in Callers /\ gpc[c] # "none"
    BY <1>0, <1>1, <1>6 DEF FetchTypeOK, CallerShape
  <2>2. CASE cpc[c] = "out"
    BY <1>0, <1>1, <2>2 DEF AdmitShape
  <2>3. CASE cpc[c] \in {"holding", "end"}
    <3>1. gpc[c] = "gone"
      BY <1>0, <1>1, <1>5, <2>1, <2>3 DEF FetchTypeOK, CallerShape, AdmitShape
    <3>2. lpc[joined[c]] = "done"
      BY <1>0, <1>1, <3>1 DEF JoinShape
    <3> QED BY <1>0, <2>1, <3>2 DEF AdmitShape
  <2> QED BY <1>3, <2>2, <2>3
<1>7. ~WaitsForUnit(r, i)
  <2> SUFFICES ASSUME joined[c] # None
               PROVE  lpc[joined[c]] # "acquire" /\ joined[c] \notin waiting
    BY DEF WaitsForUnit
  <2>1. joined[c] \in Callers /\ joined[c] \in admitted
    BY <1>0, <1>1, <1>6 DEF FetchTypeOK
  <2>2. lpc[joined[c]] \in {"download", "finish", "publish", "done"}
    BY <1>0, <2>1 DEF AdmitShape
  <2> QED BY <1>0, <2>1, <2>2 DEF LeadShape
<1> QED BY <1>4, <1>7

-----------------------------------------------------------------------------
(* No budget deadlock                                                      *)

\* A claimer is gone before its caller has the result only if the context is
\* done.
GoneShape ==
  \A c \in Callers : gpc[c] = "gone" /\ cpc[c] \in {"admit", "out"} => c \in cancelled

\* A result that reads a pinned file comes from a flight that keeps no buffer.
PinShape == \A c \in Callers : via[c] = "pinned" => res[joined[c]] = "pin"

\* The consumer takes chunks in order until it gives up, and then the context
\* is done before it waits for the goroutines.
TakeShape(r) ==
  /\ rpc[r] \in {"idle", "wait"} =>
       \A i \in Idx(r) : i >= cur[r] => prod[<<r, i>>] # "taken"
  /\ rpc[r] = "write" =>
       \A i \in Idx(r) : i > cur[r] => prod[<<r, i>>] # "taken"
  /\ rpc[r] = "unwind" => CtxDone(r)

MoveInv == GoneShape /\ PinShape /\ \A r \in Requests : TakeShape(r)

\* What the fetch path does keeps the first.
LEMMA GoneKept ==
  ASSUME FetchInv, GoneShape, [FetchAction]_fetchVars
  PROVE  GoneShape'
<1>0. FetchTypeOK /\ CallerShape
  BY DEF FetchInv
<1>1. ASSUME NEW c \in Callers,
             \/ Start(c) \/ Hit(c) \/ Miss(c) \/ QuitBeforeJoin(c) \/ Admitted(c)
             \/ QuitWaiting(c) \/ HandOff(c) \/ Join(c)
      PROVE  GoneShape'
  BY <1>0, <1>1
  DEF GoneShape, FetchTypeOK, CallerShape, Start, Hit, Miss, QuitBeforeJoin, Admitted,
      QuitWaiting, HandOff, Join
<1>2. ASSUME NEW c \in Callers, Claim(c) \/ Discard(c) \/ Close(c)
      PROVE  GoneShape'
  BY <1>0, <1>2 DEF GoneShape, FetchTypeOK, Claim, Discard, Close
<1>3. ASSUME NEW f \in Callers, LeadStep(f) \/ QueueTimeout(f)
      PROVE  GoneShape'
  BY <1>3
  DEF GoneShape, LeadStep, QueueTimeout, Acquire, Admit, DownloadFails, StoreChunk,
      KeepBuffer, Finish, Publish, callerVars
<1>4. ASSUME \/ \E S \in SUBSET Callers : Cancel(S)
             \/ \E k \in Chunks : Evict(k)
             \/ UNCHANGED fetchVars
      PROVE  GoneShape'
  BY <1>4 DEF GoneShape, Cancel, Evict, fetchVars, callerVars
<1> QED BY <1>1, <1>2, <1>3, <1>4 DEF FetchAction, FetchStep, CallerStep, ClaimerStep

\* And the second: the outcome of a flight that is done does not change.
LEMMA PinKept ==
  ASSUME FetchInv, PinShape, [FetchAction]_fetchVars
  PROVE  PinShape'
<1>0. FetchTypeOK /\ CallerShape /\ JoinShape
  BY DEF FetchInv
<1>1. ASSUME NEW c \in Callers, via[c] = "pinned"
      PROVE  joined[c] \in Callers /\ lpc[joined[c]] = "done"
  BY <1>0, <1>1 DEF FetchTypeOK, CallerShape, JoinShape
<1>2. ASSUME NEW c \in Callers, via'[c] = "pinned"
      PROVE  \/ via[c] = "pinned" /\ joined'[c] = joined[c]
             \/ /\ lpc[joined[c]] = "done" /\ res[joined[c]] = "pin"
                /\ joined[c] \in Callers /\ joined'[c] = joined[c]
  <2>0. via \in [Callers -> Shared \cup {"none", "hit", "file", "err"}]
        /\ joined \in [Callers -> Callers \cup {None}]
    BY <1>0 DEF FetchTypeOK
  <2>1. ASSUME NEW d \in Callers, Join(d) PROVE via[c] = "pinned" /\ joined'[c] = joined[c]
    <3>1. via[d] = "none" /\ via' = via /\ c # d
      BY <1>0, <1>2, <2>1 DEF CallerShape, Join
    <3>2. \E f : joined' = [joined EXCEPT ![d] = f]
      BY <2>1 DEF Join, Lead, Follow
    <3> QED BY <1>2, <2>0, <3>1, <3>2
  <2>2. ASSUME NEW d \in Callers,
               \/ Start(d) \/ Hit(d) \/ Miss(d) \/ QuitBeforeJoin(d) \/ Admitted(d)
               \/ QuitWaiting(d) \/ HandOff(d)
        PROVE  via[c] = "pinned" /\ joined'[c] = joined[c]
    BY <1>2, <2>0, <2>2
    DEF Start, Hit, Miss, QuitBeforeJoin, Admitted, QuitWaiting, HandOff
  <2>3. ASSUME NEW d \in Callers, Discard(d) \/ Close(d)
        PROVE  via[c] = "pinned" /\ joined'[c] = joined[c]
    BY <1>2, <2>0, <2>3 DEF Discard, Close, CloseResult
  <2>4. ASSUME NEW d \in Callers, Claim(d)
        PROVE  \/ via[c] = "pinned" /\ joined'[c] = joined[c]
               \/ /\ lpc[joined[c]] = "done" /\ res[joined[c]] = "pin"
                  /\ joined[c] \in Callers /\ joined'[c] = joined[c]
    <3>1. joined' = joined /\ lpc[joined[d]] = "done" /\ gpc[d] = "wait"
      BY <2>4 DEF Claim
    <3>2. joined[d] \in Callers
      BY <1>0, <3>1 DEF FetchTypeOK, CallerShape
    <3>3. \/ via' = [via EXCEPT ![d] = "pinned"] /\ res[joined[d]] = "pin"
          \/ \E v \in {"err", "buffer", "file"} : via' = [via EXCEPT ![d] = v]
      BY <2>4 DEF Claim, ClaimError, ClaimBuffer, ClaimFile, ClaimPinned
    <3> QED BY <1>2, <2>0, <3>1, <3>2, <3>3
  <2>5. ASSUME NEW f \in Callers, LeadStep(f) \/ QueueTimeout(f)
        PROVE  via[c] = "pinned" /\ joined'[c] = joined[c]
    BY <1>2, <2>5
    DEF LeadStep, QueueTimeout, Acquire, Admit, DownloadFails, StoreChunk, KeepBuffer, Finish,
        Publish, callerVars
  <2>6. ASSUME \/ \E S \in SUBSET Callers : Cancel(S)
               \/ \E k \in Chunks : Evict(k)
               \/ UNCHANGED fetchVars
        PROVE  via[c] = "pinned" /\ joined'[c] = joined[c]
    BY <1>2, <2>6 DEF Cancel, Evict, fetchVars, callerVars
  <2> QED
    BY <2>1, <2>2, <2>3, <2>4, <2>5, <2>6 DEF FetchAction, FetchStep, CallerStep, ClaimerStep
<1>3. ASSUME NEW f \in Callers, lpc[f] = "done" PROVE res'[f] = res[f]
  BY <1>0, <1>3
  DEF FetchTypeOK, FetchAction, FetchStep, CallerStep, ClaimerStep, LeadStep, QueueTimeout,
      Start, Hit, Miss, QuitBeforeJoin, Join, Admitted, QuitWaiting, Claim, HandOff, Discard,
      Close, Acquire, Admit, DownloadFails, StoreChunk, KeepBuffer, Finish, Publish, Evict,
      Cancel, fetchVars, flightVars
<1> QED BY <1>1, <1>2, <1>3 DEF PinShape

\* A context that is done stays done.
LEMMA CancelledGrows ==
  ASSUME [FetchAction]_fetchVars, NEW r \in Requests, CtxDone(r)
  PROVE  CtxDone(r)'
<1>1. cancelled \subseteq cancelled'
  BY DEF FetchAction, FetchStep, CallerStep, ClaimerStep, LeadStep, QueueTimeout, Start, Hit,
         Miss, QuitBeforeJoin, Join, Admitted, QuitWaiting, Claim, HandOff, Discard, Close,
         Acquire, Admit, DownloadFails, StoreChunk, KeepBuffer, Finish, Publish, Evict,
         Cancel, fetchVars, callerVars
<1> QED BY <1>1 DEF CtxDone, CallersOf, Idx

\* A request's own steps keep the third.
LEMMA TakeKept ==
  ASSUME ServeTypeOK, NEW r \in Requests, RequestInv(r), TakeShape(r), RequestStep(r),
         CtxDone(r) => CtxDone(r)'
  PROVE  TakeShape(r)'
<1>0. /\ Idx(r) \in SUBSET Nat /\ cur[r] \in Nat
      /\ \A i \in Idx(r) : <<r, i>> \in Callers
      /\ prod \in [Callers -> {"none", "fetch", "held", "sent", "taken"}]
      /\ rpc \in [Requests -> {"idle", "wait", "write", "abort", "unwind", "drain", "join", "done"}]
      /\ cur \in [Requests -> Nat]
  BY RequestFacts DEF ServeTypeOK
<1>1. CASE Arrive(r) \/ ClientGone(r) \/ Advance(r) \/ DispatcherQuits(r)
  <2>1. /\ cur' = cur /\ prod' = prod
        /\ rpc'[r] = rpc[r] \/ (rpc[r] = "idle" /\ rpc'[r] = "wait")
    BY <1>0, <1>1 DEF Arrive, ClientGone, Advance, DispatcherQuits, NextChunk, serveVars
  <2> QED BY <2>1 DEF TakeShape
<1>2. CASE Dispatch(r) \/ \E i \in Idx(r) : ProducerStep(r, i)
  <2>1. cur' = cur /\ rpc' = rpc
    BY <1>2 DEF Dispatch, ProducerStep, CountBuffer, Deliver
  <2>2. \/ prod' = [prod EXCEPT ![<<r, didx[r]>>] = "fetch"]
        \/ \E i \in Idx(r) : \/ prod' = [prod EXCEPT ![<<r, i>>] = "held"]
                            \/ prod' = [prod EXCEPT ![<<r, i>>] = "sent"]
    BY <1>2 DEF Dispatch, ProducerStep, CountBuffer, Deliver
  <2>3. \A i \in Idx(r) : prod'[<<r, i>>] = "taken" => prod[<<r, i>>] = "taken"
    BY <1>0, <2>2
  <2> QED BY <2>1, <2>3 DEF TakeShape
<1>3. CASE Receive(r)
  <2>1. /\ cur' = cur /\ rpc[r] = "wait" /\ rpc'[r] = "write"
        /\ prod' = [prod EXCEPT ![<<r, cur[r]>>] = "taken"]
    BY <1>0, <1>3 DEF Receive
  <2>2. \A i \in Idx(r) : i > cur[r] => prod'[<<r, i>>] = prod[<<r, i>>] /\ i >= cur[r]
    <3>1. ASSUME NEW i \in Idx(r), i > cur[r] PROVE i # cur[r] /\ i >= cur[r]
      BY <1>0, <3>1
    <3>2. \A i \in Idx(r) : i > cur[r] => <<r, i>> # <<r, cur[r]>>
      BY <3>1
    <3> QED BY <1>0, <2>1, <3>1, <3>2
  <2> QED BY <2>1, <2>2 DEF TakeShape
<1>4. CASE ReceiveError(r) \/ ConsumerQuits(r) \/ WriteFails(r)
  <2>1. rpc'[r] = "abort"
    BY <1>0, <1>4 DEF ReceiveError, ConsumerQuits, WriteFails
  <2> QED BY <2>1 DEF TakeShape
<1>5. CASE Written(r)
  <2>1. /\ rpc[r] = "write" /\ cur'[r] = cur[r] + 1 /\ prod' = prod
        /\ rpc'[r] \in {"wait", "join"}
    BY <1>0, <1>5 DEF Written, EndWrite
  <2>2. \A i \in Idx(r) : i >= cur'[r] => i > cur[r]
    BY <1>0, <2>1
  <2> QED BY <2>1, <2>2 DEF TakeShape
<1>6. CASE Abort(r)
  <2>1. rpc'[r] = "unwind" /\ cancelled' = cancelled \cup CallersOf(r)
    BY <1>0, <1>6 DEF Abort, Cancel
  <2>2. CtxDone(r)'
    BY <2>1 DEF CtxDone, CallersOf, Idx
  <2> QED BY <2>1, <2>2 DEF TakeShape
<1>7. CASE Unwind(r) \/ Drained(r) \/ Served(r) \/ \E i \in Idx(r) : Drain(r, i)
  <2>1. rpc'[r] \in {"drain", "done"}
    BY <1>0, <1>7 DEF Unwind, Drained, Served, Drain
  <2> QED BY <2>1 DEF TakeShape
<1> QED
  BY <1>1, <1>2, <1>3, <1>4, <1>5, <1>6, <1>7 DEF RequestStep, DispatcherStep, ConsumerStep

\* Every step keeps all three.
LEMMA MoveStepInv == ServeInv /\ MoveInv /\ [ServeNext]_allVars => MoveInv'
<1> SUFFICES ASSUME ServeInv, MoveInv, [ServeNext]_allVars PROVE MoveInv'
  OBVIOUS
<1>0. /\ FetchInv /\ ServeTypeOK /\ GoneShape /\ PinShape
      /\ \A r \in Requests : RequestInv(r) /\ TakeShape(r)
  BY DEF ServeInv, MoveInv
<1>1. [FetchAction]_fetchVars
  BY ServeIsAction
<1>2. GoneShape' /\ PinShape'
  BY <1>0, <1>1, GoneKept, PinKept
<1>3. ASSUME NEW s \in Requests, Untouched(s) PROVE TakeShape(s)'
  <2>1. CtxDone(s) => CtxDone(s)'
    BY <1>1, CancelledGrows
  <2> QED BY <1>0, <1>3, <2>1 DEF Untouched, TakeShape
<1>4. ASSUME NEW r \in Requests, RequestStep(r) PROVE \A s \in Requests : TakeShape(s)'
  <2>1. TakeShape(r)'
    BY <1>0, <1>1, <1>4, CancelledGrows, TakeKept
  <2>2. ASSUME NEW s \in Requests, s # r PROVE TakeShape(s)'
    BY <1>0, <1>3, <1>4, <2>2, OthersUntouched
  <2> QED BY <2>1, <2>2
<1>5. ASSUME UNCHANGED <<guardVars, serveVars>> PROVE \A s \in Requests : TakeShape(s)'
  BY <1>3, <1>5 DEF Untouched, guardVars, serveVars
<1>6. \A s \in Requests : TakeShape(s)'
  BY <1>4, <1>5 DEF ServeNext, RequestStep, allVars
<1> QED BY <1>2, <1>6 DEF MoveInv

\* A chunk the dispatcher has passed goes on: its fetch has its unit, so that
\* the lead, the claimer or the caller moves, or it has been delivered.
LEMMA PassedMoves ==
  ASSUME ServeInv, MoveInv, NEW r \in Requests, NEW j \in Idx(r), j < didx[r]
  PROVE  ChunkMoves(<<r, j>>) \/ prod[<<r, j>>] \in {"sent", "taken"}
<1> DEFINE c == <<r, j>>
<1>0. /\ FetchTypeOK /\ CallerShape /\ AdmitShape /\ GoneShape
      /\ ServeTypeOK /\ RequestInv(r)
  BY DEF ServeInv, FetchInv, MoveInv
<1>1. c \in Callers /\ cpc[c] \in {"out", "holding", "end"}
  BY <1>0, RequestFacts DEF DispatchShape
<1>2. prod[c] \in {"fetch", "held", "sent", "taken"}
  <2>1. prod[c] \in {"none", "fetch", "held", "sent", "taken"}
    BY <1>0, <1>1 DEF ServeTypeOK
  <2>2. prod[c] # "none"
    BY <1>0, <1>1, RequestFacts DEF ProducerShape
  <2> QED BY <2>1, <2>2
<1>3. CASE cpc[c] = "out"
  <2>1. gpc[c] \in {"wait", "offer", "gone"} /\ joined[c] \in admitted /\ joined[c] \in Callers
    BY <1>0, <1>1, <1>3 DEF FetchTypeOK, CallerShape, AdmitShape
  <2>2. lpc[joined[c]] \in {"download", "finish", "publish", "done"}
    BY <1>0, <2>1 DEF AdmitShape
  <2>3. gpc[c] = "gone" => c \in cancelled
    BY <1>0, <1>1, <1>3 DEF GoneShape
  <2> QED BY <1>3, <2>1, <2>2, <2>3 DEF ChunkMoves, LeadMoves
<1>4. CASE cpc[c] \in {"holding", "end"}
  BY <1>2, <1>4 DEF ChunkMoves
<1> QED BY <1>1, <1>3, <1>4

\* An abort that waits for the goroutines waits for one that moves.
LEMMA UnwindMoves ==
  ASSUME ServeInv, MoveInv, NEW r \in Requests, NEW i \in Idx(r), rpc[r] = "unwind"
  PROVE  RequestMoves(r, i)
<1>0. /\ ServeTypeOK /\ RequestInv(r) /\ TakeShape(r)
  BY DEF ServeInv, MoveInv
<1>1. CtxDone(r)
  BY <1>0 DEF TakeShape
<1>2. CASE dpc[r] # "exit"
  BY <1>1, <1>2 DEF RequestMoves
<1>3. CASE dpc[r] = "exit" /\ ~AllDone(r)
  <2>1. PICK j \in Idx(r) : prod[<<r, j>>] \in {"fetch", "held"}
    BY <1>3 DEF AllDone
  <2>2. <<r, j>> \in Callers /\ <<r, j>> \in cancelled
    BY <1>0, <1>1, CallerPairs DEF CtxDone
  <2>3. cpc[<<r, j>>] \in {"lookup", "join", "admit", "out", "holding", "end"}
    <3>1. cpc[<<r, j>>] # "idle"
      BY <1>0, <2>1, RequestFacts DEF ProducerShape
    <3> QED BY <1>0, <2>2, <3>1 DEF ServeTypeOK, FetchTypeOK
  <2>4. ChunkMoves(<<r, j>>)
    BY <2>1, <2>2, <2>3 DEF ChunkMoves
  <2> QED BY <2>4 DEF RequestMoves
<1>4. CASE AllDone(r)
  BY <1>4 DEF RequestMoves, ConsumerMoves
<1> QED BY <1>2, <1>3, <1>4

\* A buffer in pending, or being written, is waited for by a consumer that
\* moves, or that waits for an earlier chunk that does.
LEMMA DeliveredMoves ==
  ASSUME ServeInv, MoveInv, NEW r \in Requests, NEW i \in Idx(r),
         cpc[<<r, i>>] = "holding", via[<<r, i>>] = "buffer", prod[<<r, i>>] \in {"sent", "taken"}
  PROVE  RequestMoves(r, i)
<1>0. /\ ServeTypeOK /\ RequestInv(r) /\ TakeShape(r)
  BY DEF ServeInv, MoveInv
<1>1. i \in Nat /\ cur[r] \in Nat /\ didx[r] \in Nat /\ ~(i < cur[r]) /\ ~(i > didx[r])
  BY <1>0, RequestFacts DEF ConsumerShape, DispatchShape
<1>2. i \in Counted(r) /\ i \in InHand(r)
  BY DEF Counted, InHand
<1>3. rpc[r] \in {"wait", "write", "abort", "unwind", "drain"}
  <2>1. rpc[r] # "idle"
    <3>1. ASSUME rpc[r] = "idle" PROVE FALSE
      <4>1. dpc[r] = "idle" /\ didx[r] = 0
        BY <1>0, <3>1, RequestFacts DEF ConsumerShape, DispatchShape
      <4>2. i = didx[r]
        BY <1>1, <4>1
      <4> QED BY <1>0, <4>1, <4>2, RequestFacts DEF DispatchShape
    <3> QED BY <3>1
  <2>2. rpc[r] # "done"
    BY <1>0, <1>2, RequestFacts DEF ConsumerShape
  <2>3. rpc[r] # "join"
    BY <1>0, <1>1, RequestFacts DEF ConsumerShape
  <2> QED BY <1>0, <2>1, <2>2, <2>3 DEF ServeTypeOK
<1>4. CASE rpc[r] = "write"
  BY <1>0, <1>2, <1>4, RequestFacts DEF GuardShape, RequestMoves, ConsumerMoves
<1>5. CASE rpc[r] \in {"abort", "drain"}
  BY <1>5 DEF RequestMoves, ConsumerMoves
<1>6. CASE rpc[r] = "unwind"
  BY <1>6, UnwindMoves
<1>7. CASE rpc[r] = "wait"
  <2>1. cur[r] \in Idx(r) /\ prod[<<r, cur[r]>>] # "taken" /\ prod[<<r, i>>] # "taken"
    BY <1>0, <1>1, <1>7, RequestFacts DEF TakeShape, ConsumerShape
  <2>2. CASE cur[r] = i
    BY <1>7, <2>1, <2>2 DEF RequestMoves, ConsumerMoves
  <2>3. CASE cur[r] < i
    <3>1. cur[r] < didx[r] /\ cur[r] <= i
      BY <1>1, <2>3
    <3>2. ChunkMoves(<<r, cur[r]>>) \/ prod[<<r, cur[r]>>] = "sent"
      BY <2>1, <3>1, PassedMoves
    <3> QED BY <1>7, <2>1, <3>1, <3>2 DEF RequestMoves, ConsumerMoves
  <2> QED BY <1>1, <2>2, <2>3
<1> QED BY <1>3, <1>4, <1>5, <1>6, <1>7

\* So every owner of a unit is on its way to giving it up.
LEMMA InvOwnersMove == ServeInv /\ MoveInv => OwnersMove
<1> SUFFICES ASSUME ServeInv, MoveInv, NEW f \in Callers, HoldsUnit(f), ~LeadMoves(f)
             PROVE  Users(f) # {} /\ \A c \in Users(f) : RequestMoves(c[1], c[2])
  BY DEF OwnersMove
<1>0. /\ FetchTypeOK /\ CallerShape /\ JoinShape /\ LeadShape /\ FreedExactly /\ AdmitShape
      /\ ServeTypeOK /\ PinShape /\ \A r \in Requests : RequestInv(r)
  BY DEF ServeInv, FetchInv, MoveInv
<1>1. res[f] = "buf" /\ f \notin freed /\ lpc[f] = "done"
  BY <1>0 DEF HoldsUnit, LeadMoves, FetchTypeOK, LeadShape
<1>2. Users(f) # {}
  BY <1>0, <1>1 DEF FreedExactly
<1>3. ASSUME NEW c \in Users(f) PROVE RequestMoves(c[1], c[2])
  <2>1. c \in Callers /\ joined[c] = f /\ (gpc[c] = "wait" \/ via[c] \in Shared)
    BY DEF Users
  <2>2a. PICK r \in Requests : c \in {r} \X Idx(r)
    BY <2>1, ServeAssumption DEF Idx
  <2>2. PICK i \in Idx(r) : c = <<r, i>>
    BY <2>2a
  <2>3. ASSUME ChunkMoves(c) PROVE RequestMoves(r, i)
    BY <2>2, <2>3, CallerPairs DEF RequestMoves
  <2>4. CASE gpc[c] = "wait"
    BY <1>1, <2>1, <2>2, <2>3, <2>4 DEF ChunkMoves
  <2>5. CASE gpc[c] = "offer"
    <3>1. cpc[c] \in {"admit", "out", "end"} /\ f \in admitted
      BY <1>0, <1>1, <2>1, <2>5 DEF CallerShape, AdmitShape
    <3>2. cpc[c] = "end" => c \in cancelled
      BY <1>0, <2>1, <2>5 DEF AdmitShape
    <3> QED BY <2>1, <2>2, <2>3, <2>5, <3>1, <3>2 DEF ChunkMoves
  <2>6. CASE gpc[c] \notin {"wait", "offer"}
    <3>1. via[c] \in Shared /\ gpc[c] = "gone" /\ cpc[c] = "holding"
      BY <1>0, <2>1, <2>6 DEF FetchTypeOK, CallerShape, Shared
    <3>2. via[c] = "buffer"
      BY <1>0, <1>1, <2>1, <3>1 DEF PinShape, Shared
    <3>3. prod[c] \in {"fetch", "held", "sent", "taken"}
      <4>1. prod[c] # "none"
        BY <1>0, <2>2, <3>1, RequestFacts DEF ProducerShape
      <4> QED BY <1>0, <2>1, <4>1 DEF ServeTypeOK
    <3>4. CASE prod[c] \in {"fetch", "held"}
      BY <2>2, <2>3, <3>1, <3>4 DEF ChunkMoves
    <3>5. CASE prod[c] \in {"sent", "taken"}
      BY <2>2, <3>1, <3>2, <3>5, DeliveredMoves
    <3> QED BY <2>2, <3>3, <3>4, <3>5
  <2> QED BY <2>1, <2>2, <2>4, <2>5, <2>6
<1> QED BY <1>2, <1>3

-----------------------------------------------------------------------------
(* Theorems                                                                *)

\* The invariant of the fetch path with the producers of all requests as its
\* callers, and of each request.
THEOREM ServeInvariant == ServeSpec => []ServeInv
<1>1. ServeInit => ServeInv
  BY ServeInitInv
<1>2. ServeInv /\ [ServeNext]_allVars => ServeInv'
  BY ServeStepInv
<1> QED BY <1>1, <1>2, PTL DEF ServeSpec

\* The variables of the fetch path, the write guard and serveAligned have
\* their types; never more slots are taken than the window has.
THEOREM ServeTypeCorrect == ServeSpec => []ServeTypeOK
<1>1. ServeInv => ServeTypeOK
  BY DEF ServeInv
<1> QED BY <1>1, ServeInvariant, PTL

\* The argument against a budget deadlock holds: a request that pins a unit
\* for a chunk waits for no unit for an earlier one, unless it is torn down.
THEOREM ServeHeadFirst == ServeSpec => []HeadFirst
<1> QED BY InvHeadFirst, ServeInvariant, PTL

\* So no budget deadlock: whoever owns a unit is on its way to giving it up
\* without another unit and without the client, whatever the number of
\* requests, chunks, units and slots and whatever clients stop reading.
THEOREM ServeOwnersMove == ServeSpec => []OwnersMove
<1>1. ServeInit => MoveInv
  <2> SUFFICES ASSUME ServeInit PROVE MoveInv
    OBVIOUS
  <2>1. GoneShape /\ PinShape
    BY DEF ServeInit, FetchInit, GoneShape, PinShape
  <2>2. ASSUME NEW r \in Requests PROVE TakeShape(r)
    <3>1. rpc[r] = "idle" /\ \A i \in Idx(r) : prod[<<r, i>>] # "taken"
      BY CallerPairs DEF ServeInit
    <3> QED BY <3>1 DEF TakeShape
  <2> QED BY <2>1, <2>2 DEF MoveInv
<1>2. ServeInv /\ MoveInv /\ [ServeNext]_allVars => MoveInv'
  BY MoveStepInv
<1>3. ServeInv /\ MoveInv => OwnersMove
  BY InvOwnersMove
<1> QED BY <1>1, <1>2, <1>3, ServeInvariant, PTL DEF ServeSpec

\* No chunk write of a request with a counted buffer runs without a deadline,
\* although producers count theirs while the consumer writes; and a deadline is
\* on the connection only during a write and only for the sake of a buffer.
THEOREM ServeGuardExact == ServeSpec => []GuardExact
<1>1. ServeInv => GuardExact
  BY InvGuards DEF GuardExact
<1> QED BY <1>1, ServeInvariant, PTL

\* A request never holds more results than its window.
THEOREM ServeWindowBound == ServeSpec => []WindowBound
<1> QED BY InvWindowBound, ServeInvariant, PTL

\* Every way out of serveAligned closes all results, and leaves no goroutine
\* of the request behind.
THEOREM ServeNothingLeftBehind == ServeSpec => []NothingLeftBehind
<1> QED BY InvNothingLeft, ServeInvariant, PTL

\* The status goes with the first chunk, is never changed to an error after
\* it, and every request is answered.
THEOREM ServeStatusHonest == ServeSpec => []StatusHonest
<1> QED BY InvStatusHonest, ServeInvariant, PTL

\* With the producers of concurrent requests as callers, the budget still is
\* a pool whose buffers have owners and that serves its queue in order.
THEOREM ServeImplementsPool == ServeSpec => ImplementsPool
<1>1. ServeInit => Pool!PoolInit
  BY FetchAssumption DEF ServeInit, FetchInit, BudgetInit, Pool!PoolInit, Holders, HoldsUnit
<1>2. ServeInv /\ [ServeNext]_allVars => [Pool!PoolNext]_(Pool!poolVars)
  BY ServeIsAction, PoolStep DEF ServeInv
<1> QED BY <1>1, <1>2, ServeInvariant, PTL DEF ServeSpec, ImplementsPool, Pool!PoolSpec

\* So the requests inherit the pool's queue: no fetch of one request overtakes
\* one of another.
THEOREM ServeFirstCome == ServeSpec => FirstComeFirstServed
  BY ServeImplementsPool, PoolPromises, PTL

\* All requests together, their windows full and their clients slow, never hold
\* more than Units chunk buffers.
THEOREM ServeBuffersCapped == ServeSpec => []BuffersCapped
<1>1. ServeInv => BuffersCapped
  BY InvBuffersCapped DEF ServeInv
<1> QED BY <1>1, ServeInvariant, PTL

\* And flights that requests share are shared results: the write, the drain
\* and the discard of an aborted request drop their users exactly once.
THEOREM ServeImplementsSharedResult == ServeSpec => ImplementsSharedResult
<1>1. ServeInit => Flight!SharedInit
  <2> SUFFICES ASSUME ServeInit PROVE Flight!SharedInit
    OBVIOUS
  <2>1. \A f \in Callers : FlightPhase(f) = "unused" /\ Users(f) = {}
    BY DEF ServeInit, FetchInit, FlightPhase, Users, Shared
  <2> QED BY <2>1 DEF Flight!SharedInit
<1>2. ServeInv /\ [ServeNext]_allVars => [Flight!SharedNext]_(Flight!sharedVars)
  BY ServeIsAction, SharedStep DEF ServeInv
<1> QED BY <1>1, <1>2, ServeInvariant, PTL DEF ServeSpec, ImplementsSharedResult, Flight!SharedSpec

\* So every flight of a request, written, drained or abandoned, has someone left
\* to free it until it is freed, and is not joined or freed again.
THEOREM ServeSomeoneFrees == ServeSpec => []SomeoneFrees /\ FinishedForGood
<1>1. ServeInv /\ Flight!NeverOrphaned => SomeoneFrees
  BY OrphanedNever DEF ServeInv
<1> QED BY <1>1, ServeInvariant, ServeImplementsSharedResult, FlightPromises, PTL

=============================================================================
