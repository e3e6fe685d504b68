----------------------------- MODULE ServeAligned -----------------------------
(***************************************************************************)
(* Serving a range (services/fetcher.go: serveAligned), on top of          *)
(* ChunkFetch and WriteGuard.  A request r covers chunks 0..NChunks[r]-1   *)
(* of its object.  Its goroutines:                                         *)
(*   - the dispatcher starts one producer per chunk, in order, at most     *)
(*     Window ahead of the consumer, and starts the next one only after    *)
(*     the last one's fetch no longer waits for budget;                    *)
(*   - the producer of chunk i calls fetchChunk - it is the caller <<r, i>>*)
(*     of ChunkFetch - and puts the result into pending[i];                *)
(*   - the consumer, the handler itself, takes the chunks in order, writes *)
(*     and closes them, and on any failure aborts: it cancels the context, *)
(*     waits for the others, and closes what is left in pending.           *)
(* Clients may go away, and the ones in Paused never read.                 *)
(***************************************************************************)
EXTENDS ChunkFetch, WriteGuard

CONSTANTS
  NChunks,    \* nChunks of each request
  Window,     \* max(FETCH_WORKERS, 4) in the code: how far producers run ahead
  Paused,     \* requests whose client keeps the connection and reads nothing
  Leavers     \* requests whose client may go away, or whose writes may fail

ASSUME ServeAssumption ==
  /\ NChunks \in [Requests -> Nat \ {0}]
  /\ Window \in Nat \ {0}
  /\ Callers = UNION {{r} \X (0..NChunks[r]-1) : r \in Requests}
  /\ Paused \in SUBSET Requests
  /\ Leavers \in SUBSET Requests

VARIABLES
  rpc,        \* where each request's consumer is
  cur,        \* the chunk the consumer is at
  status,     \* the status the response was committed with
  dpc,        \* where each request's dispatcher is
  didx,       \* the chunk the dispatcher is at
  slots,      \* slots taken
  prod        \* where each producer, and the result it fetched, is

serveVars == <<rpc, cur, status, dpc, didx, slots, prod>>
allVars   == <<fetchVars, guardVars, serveVars>>

Idx(r) == 0..NChunks[r]-1

ServeTypeOK ==
  /\ FetchTypeOK
  /\ GuardTypeOK
  /\ rpc \in [Requests -> {"idle", "wait", "write", "abort", "unwind", "drain", "join", "done"}]
  /\ cur \in [Requests -> Nat]
  /\ status \in [Requests -> {"none", "ok", "error"}]
  /\ dpc \in [Requests -> {"idle", "slot", "admit", "exit"}]
  /\ didx \in [Requests -> Nat]
  /\ slots \in [Requests -> 0..Window]
  /\ prod \in [Callers -> {"none", "fetch", "held", "sent", "taken"}]

ServeInit ==
  /\ FetchInit
  /\ GuardInit
  /\ rpc = [r \in Requests |-> "idle"]
  /\ cur = [r \in Requests |-> 0]
  /\ status = [r \in Requests |-> "none"]
  /\ dpc = [r \in Requests |-> "idle"]
  /\ didx = [r \in Requests |-> 0]
  /\ slots = [r \in Requests |-> 0]
  /\ prod = [c \in Callers |-> "none"]

-----------------------------------------------------------------------------

\* The context of a request is shared by all its producers.
CallersOf(r) == {r} \X Idx(r)
CtxDone(r) == CallersOf(r) \subseteq cancelled

\* What fetchChunk returned to the producer c.
ResultOf(c) == IF cpc[c] = "holding" THEN via[c] ELSE "err"

\* The request arrives; its dispatcher starts.
Arrive(r) ==
  /\ rpc[r] = "idle"
  /\ rpc' = [rpc EXCEPT ![r] = "wait"]
  /\ dpc' = [dpc EXCEPT ![r] = "slot"]
  /\ UNCHANGED <<fetchVars, guardVars, cur, status, didx, slots, prod>>

\* The client closes the connection: net/http cancels the request context.
ClientGone(r) ==
  /\ r \in Leavers
  /\ rpc[r] \notin {"idle", "done"}
  /\ ~CtxDone(r)
  /\ Cancel(CallersOf(r))
  /\ UNCHANGED <<guardVars, serveVars>>

-----------------------------------------------------------------------------
(* The dispatcher                                                          *)

\* A plausible slip: the producer is started without taking a slot.
Dispatch_Unslotted(r) ==
  /\ dpc[r] = "slot"
  /\ slots[r] < Window
  /\ ~CtxDone(r)
  /\ prod' = [prod EXCEPT ![<<r, didx[r]>>] = "fetch"]
  /\ dpc' = [dpc EXCEPT ![r] = "admit"]
  /\ Start(<<r, didx[r]>>)
  /\ UNCHANGED <<guardVars, rpc, cur, status, didx, slots>>

\* A slot is free: take it and start the producer of the next chunk.
Dispatch(r) ==
  /\ dpc[r] = "slot"
  /\ slots[r] < Window
  /\ ~CtxDone(r)
  /\ slots' = [slots EXCEPT ![r] = @ + 1]
  /\ prod' = [prod EXCEPT ![<<r, didx[r]>>] = "fetch"]
  /\ dpc' = [dpc EXCEPT ![r] = "admit"]
  /\ Start(<<r, didx[r]>>)
  /\ UNCHANGED <<guardVars, rpc, cur, status, didx>>

\* The loop goes on to the next chunk, or ends.
NextChunk(r) ==
  /\ didx' = [didx EXCEPT ![r] = @ + 1]
  /\ dpc' = [dpc EXCEPT ![r] = IF didx[r] + 1 < NChunks[r] THEN "slot" ELSE "exit"]
  /\ UNCHANGED <<fetchVars, guardVars, rpc, cur, status, slots, prod>>

\* A plausible slip: the dispatcher does not wait for the admission.
Advance_Eager(r) ==
  /\ dpc[r] = "admit"
  /\ NextChunk(r)

\* fetchChunk called its admit hook: a hit, a fetch with its unit, a return.
Advance(r) ==
  /\ dpc[r] = "admit"
  /\ cpc[<<r, didx[r]>>] \in {"out", "holding", "end"}
  /\ NextChunk(r)

\* Both selects of the loop, and the check after the first, end it.
DispatcherQuits(r) ==
  /\ dpc[r] \in {"slot", "admit"}
  /\ CtxDone(r)
  /\ dpc' = [dpc EXCEPT ![r] = "exit"]
  /\ UNCHANGED <<fetchVars, guardVars, rpc, cur, status, didx, slots, prod>>

-----------------------------------------------------------------------------
(* Producers                                                               *)

\* fetchChunk returned a buffered chunk: it is counted before the hand-off.
CountBuffer(r, i) ==
  /\ prod[<<r, i>>] = "fetch"
  /\ ResultOf(<<r, i>>) = "buffer"
  /\ prod' = [prod EXCEPT ![<<r, i>>] = "held"]
  /\ GuardHold(r)
  /\ UNCHANGED <<fetchVars, rpc, cur, status, dpc, didx, slots>>

\* The result goes into pending[i], which has room for it.
Deliver(r, i) ==
  /\ \/ prod[<<r, i>>] = "held"
     \/ /\ prod[<<r, i>>] = "fetch"
        /\ cpc[<<r, i>>] \in {"holding", "end"}
        /\ ResultOf(<<r, i>>) # "buffer"
  /\ prod' = [prod EXCEPT ![<<r, i>>] = "sent"]
  /\ UNCHANGED <<fetchVars, guardVars, rpc, cur, status, dpc, didx, slots>>

-----------------------------------------------------------------------------
(* The consumer                                                            *)

\* The next chunk is there and good: commit the status with the first one,
\* and start writing.
Receive(r) ==
  /\ rpc[r] = "wait"
  /\ prod[<<r, cur[r]>>] = "sent"
  /\ ResultOf(<<r, cur[r]>>) # "err"
  /\ prod' = [prod EXCEPT ![<<r, cur[r]>>] = "taken"]
  /\ rpc' = [rpc EXCEPT ![r] = "write"]
  /\ status' = [status EXCEPT ![r] = "ok"]
  /\ GuardBegin(r)
  /\ UNCHANGED <<fetchVars, cur, dpc, didx, slots>>

\* The next chunk is there and failed.
ReceiveError(r) ==
  /\ rpc[r] = "wait"
  /\ prod[<<r, cur[r]>>] = "sent"
  /\ ResultOf(<<r, cur[r]>>) = "err"
  /\ prod' = [prod EXCEPT ![<<r, cur[r]>>] = "taken"]
  /\ rpc' = [rpc EXCEPT ![r] = "abort"]
  /\ UNCHANGED <<fetchVars, guardVars, cur, status, dpc, didx, slots>>

\* The request is cancelled while the consumer waits for a chunk.
ConsumerQuits(r) ==
  /\ rpc[r] = "wait"
  /\ CtxDone(r)
  /\ rpc' = [rpc EXCEPT ![r] = "abort"]
  /\ UNCHANGED <<fetchVars, guardVars, cur, status, dpc, didx, slots, prod>>

\* writeChunk ends and the chunk is closed, written or not.
EndWrite(r) ==
  /\ rpc[r] = "write"
  /\ GuardEnd(r, via[<<r, cur[r]>>] = "buffer")
  /\ Close(<<r, cur[r]>>)

\* The client took the chunk: its slot is free, on to the next one.
Written(r) ==
  /\ r \notin Paused
  /\ EndWrite(r)
  /\ slots' = [slots EXCEPT ![r] = @ - 1]
  /\ cur' = [cur EXCEPT ![r] = @ + 1]
  /\ rpc' = [rpc EXCEPT ![r] = IF cur[r] + 1 < NChunks[r] THEN "wait" ELSE "join"]
  /\ UNCHANGED <<status, dpc, didx, prod>>

\* The write fails.
WriteFails(r) ==
  /\ EndWrite(r)
  /\ rpc' = [rpc EXCEPT ![r] = "abort"]
  /\ UNCHANGED <<cur, status, dpc, didx, slots, prod>>

\* wg.Wait returns: the dispatcher and all producers are done.
AllDone(r) ==
  /\ dpc[r] = "exit"
  /\ \A i \in Idx(r) : prod[<<r, i>>] \notin {"fetch", "held"}

\* abort, cancel().
Abort(r) ==
  /\ rpc[r] = "abort"
  /\ Cancel(CallersOf(r))
  /\ rpc' = [rpc EXCEPT ![r] = "unwind"]
  /\ UNCHANGED <<guardVars, cur, status, dpc, didx, slots, prod>>

\* A plausible slip: pending is drained without waiting for the producers.
Unwind_Early(r) ==
  /\ rpc[r] = "unwind"
  /\ rpc' = [rpc EXCEPT ![r] = "drain"]
  /\ UNCHANGED <<fetchVars, guardVars, cur, status, dpc, didx, slots, prod>>

\* abort, wg.Wait().
Unwind(r) ==
  /\ rpc[r] = "unwind"
  /\ AllDone(r)
  /\ rpc' = [rpc EXCEPT ![r] = "drain"]
  /\ UNCHANGED <<fetchVars, guardVars, cur, status, dpc, didx, slots, prod>>

\* cleanupPending closes what was delivered and never taken.
Drain(r, i) ==
  /\ rpc[r] = "drain"
  /\ prod[<<r, i>>] = "sent"
  /\ prod' = [prod EXCEPT ![<<r, i>>] = "taken"]
  /\ IF cpc[<<r, i>>] = "holding" THEN Close(<<r, i>>) ELSE UNCHANGED fetchVars
  /\ UNCHANGED <<guardVars, rpc, cur, status, dpc, didx, slots>>

\* A plausible slip: every failure is answered with an error status.
Drained_Answers(r) ==
  /\ rpc[r] = "drain"
  /\ \A i \in Idx(r) : prod[<<r, i>>] # "sent"
  /\ rpc' = [rpc EXCEPT ![r] = "done"]
  /\ status' = [status EXCEPT ![r] = "error"]
  /\ UNCHANGED <<fetchVars, guardVars, cur, dpc, didx, slots, prod>>

\* Nothing is pending: a failure before the status was committed is answered
\* with an error, a later one can only end the response.
Drained(r) ==
  /\ rpc[r] = "drain"
  /\ \A i \in Idx(r) : prod[<<r, i>>] # "sent"
  /\ rpc' = [rpc EXCEPT ![r] = "done"]
  /\ status' = [status EXCEPT ![r] = IF @ = "none" THEN "error" ELSE @]
  /\ UNCHANGED <<fetchVars, guardVars, cur, dpc, didx, slots, prod>>

\* The last chunk is written: wait for the goroutines, cancel, return.
Served(r) ==
  /\ rpc[r] = "join"
  /\ AllDone(r)
  /\ Cancel(CallersOf(r))
  /\ rpc' = [rpc EXCEPT ![r] = "done"]
  /\ UNCHANGED <<guardVars, cur, status, dpc, didx, slots, prod>>

-----------------------------------------------------------------------------

DispatcherStep(r) == Dispatch(r) \/ Advance(r) \/ DispatcherQuits(r)
ProducerStep(r, i) == CountBuffer(r, i) \/ Deliver(r, i)
\* A write certainly fails when the connection is gone or its deadline passes.
ConsumerStep(r) ==
  \/ Receive(r) \/ ReceiveError(r) \/ ConsumerQuits(r)
  \/ Written(r) \/ ((CtxDone(r) \/ r \in armed) /\ WriteFails(r))
  \/ Abort(r) \/ Unwind(r) \/ Drained(r) \/ Served(r)
  \/ \E i \in Idx(r) : Drain(r, i)

\* Every flight is freed, and every request is over or waits for a client
\* that has stopped reading.
ServeQuiet ==
  /\ \A r \in Requests : rpc[r] = "done" \/ (r \in Paused /\ rpc[r] = "write" /\ r \notin armed)
  /\ \A c \in Callers : gpc[c] \in {"none", "gone"} /\ (lpc[c] # "none" => c \in freed)

ServeNext ==
  \/ FetchStep /\ UNCHANGED <<guardVars, serveVars>>
  \/ \E r \in Requests :
       \/ Arrive(r) \/ ClientGone(r) \/ DispatcherStep(r) \/ ConsumerStep(r)
       \/ r \in Leavers /\ WriteFails(r)
       \/ \E i \in Idx(r) : ProducerStep(r, i)
  \/ ServeQuiet /\ UNCHANGED allVars

ServeSpec == ServeInit /\ [][ServeNext]_allVars

\* Goroutines run, downloads end, a reading client takes what it is sent, and
\* an armed deadline passes.
ServeFairness ==
  /\ \A c \in Callers :
       /\ WF_allVars(CallerStep(c) /\ UNCHANGED <<guardVars, serveVars>>)
       /\ WF_allVars(ClaimerStep(c) /\ UNCHANGED <<guardVars, serveVars>>)
       /\ WF_allVars(LeadStep(c) /\ UNCHANGED <<guardVars, serveVars>>)
  /\ \A r \in Requests :
       /\ WF_allVars(DispatcherStep(r))
       /\ WF_allVars(ConsumerStep(r))
       /\ \A i \in Idx(r) : WF_allVars(ProducerStep(r, i))

FairServeSpec == ServeSpec /\ ServeFairness

-----------------------------------------------------------------------------
(* Safety                                                                  *)

\* Chunks whose result the request has been given and has not closed yet.
InHand(r) == {i \in Idx(r) : cpc[<<r, i>>] = "holding" /\ via[<<r, i>>] # "err"}

\* The request keeps a budget unit taken for chunk i.
PinsUnit(r, i) == joined[<<r, i>>] # None /\ HoldsUnit(joined[<<r, i>>])

\* The fetch of chunk i still has to get its unit.
WaitsForUnit(r, i) ==
  /\ joined[<<r, i>>] # None
  /\ \/ lpc[joined[<<r, i>>]] = "acquire"
     \/ joined[<<r, i>>] \in waiting

\* The argument against a budget deadlock in serveAligned: a request that
\* pins a unit for a chunk has no earlier chunk that is not started or that
\* still waits for one, unless it is already being torn down.
HeadFirst ==
  \A r \in Requests : \A i, j \in Idx(r) :
    i < j /\ PinsUnit(r, j) /\ ~CtxDone(r) =>
      prod[<<r, i>>] # "none" /\ ~WaitsForUnit(r, i)

\* Who can go on without a unit of the budget and without the client: a lead
\* that has its unit, a call of fetchChunk, its claimer, its producer, and a
\* consumer, which ends a write by itself only at its deadline.
LeadMoves(f) ==
  \/ lpc[f] = "budget" /\ f \notin waiting
  \/ lpc[f] \in {"download", "finish", "publish"}

ChunkMoves(c) ==
  \/ cpc[c] \in {"lookup", "join"}
  \/ cpc[c] = "admit" /\ joined[c] \in admitted
  \/ cpc[c] \in {"admit", "out"} /\ c \in cancelled
  \/ gpc[c] = "wait" /\ LeadMoves(joined[c])
  \/ gpc[c] = "wait" /\ lpc[joined[c]] = "done"
  \/ gpc[c] = "offer" /\ (cpc[c] = "out" \/ c \in cancelled)
  \/ prod[c] = "held"
  \/ prod[c] = "fetch" /\ cpc[c] \in {"holding", "end"}

ConsumerMoves(r) ==
  \/ rpc[r] = "wait" /\ (prod[<<r, cur[r]>>] = "sent" \/ CtxDone(r))
  \/ rpc[r] = "write" /\ r \in armed
  \/ rpc[r] \in {"abort", "drain"} \/ (rpc[r] = "unwind" /\ AllDone(r))

\* Chunk i of r, the chunks before it, the consumer, or who the abort waits for.
RequestMoves(r, i) ==
  \/ ConsumerMoves(r)
  \/ \E j \in Idx(r) : (j <= i \/ rpc[r] = "unwind") /\ ChunkMoves(<<r, j>>)
  \/ rpc[r] = "unwind" /\ dpc[r] # "exit" /\ CtxDone(r)

\* No budget deadlock: whoever owns a unit is on its way to giving it up.  Its
\* lead can go on, or for every user of its buffer something can that this
\* user waits for, though no other unit comes free and no client reads.
OwnersMove ==
  \A f \in Callers : HoldsUnit(f) =>
    \/ LeadMoves(f)
    \/ Users(f) # {} /\ \A c \in Users(f) : RequestMoves(c[1], c[2])

\* While a request holds a buffered chunk that was counted, no write of its
\* consumer runs without a deadline: a client that stops reading cannot keep
\* a budget unit for ever.
GuardCovers ==
  \A r \in writing :
    (\E i \in InHand(r) : via[<<r, i>>] = "buffer" /\ prod[<<r, i>>] # "fetch") => r \in armed

\* And only then: a request that holds no buffer is never cut, and no
\* deadline is left on the connection between chunk writes.
GuardSpares ==
  \A r \in armed :
    r \in writing /\ \E i \in InHand(r) : via[<<r, i>>] = "buffer"

\* The deadline is on exactly when the budget needs it, however the count, the
\* start and the end of a write interleave.
GuardExact == GuardCovers /\ GuardSpares

\* A request never holds more results than its window has slots.
WindowBound == \A r \in Requests : Cardinality(InHand(r)) <= Window

\* When the handler returns, every result delivered to it has been closed,
\* on every way out of serveAligned.
NothingLeftBehind ==
  \A r \in Requests : rpc[r] = "done" => InHand(r) = {} /\ AllDone(r)

\* The status is committed with chunk 0 and not before, no failure after that
\* turns a response that has sent bytes into an error, and whatever happens
\* every request is answered.
StatusHonest ==
  \A r \in Requests :
    /\ status[r] = "ok" => prod[<<r, 0>>] = "taken"
    /\ cur[r] > 0 => status[r] = "ok"
    /\ rpc[r] = "done" => status[r] # "none"

-----------------------------------------------------------------------------
(* Liveness                                                                *)

\* With no deadline on the queue, requests that fill the budget with buffers
\* never block each other for good, even when some clients stop reading:
\* every fetch that queues for a unit gets one.
EveryFetchGetsBudget ==
  \A f \in Callers : lpc[f] = "acquire" ~> lpc[f] = "download"

\* A request whose client reads, or goes away, comes to an end.
RequestsEnd ==
  \A r \in Requests \ Paused : rpc[r] # "idle" ~> rpc[r] = "done"

=============================================================================
