------------------------------ MODULE ChunkFetch ------------------------------
(***************************************************************************)
(* Fetching one chunk (services/fetcher.go: fetchChunk and lead;           *)
(* services/singleflight.go; services/chunk.go: chunkFlight, chunkResult). *)
(*                                                                         *)
(* A caller is one invocation of fetchChunk.  It looks in the disk cache,  *)
(* and on a miss joins the in-flight fetch of its chunk or starts one.  A  *)
(* fetch is run by a detached goroutine, `lead', and is named here by the  *)
(* caller that started it.  Three kinds of goroutine interleave:           *)
(*   - callers, which wait for the fetch but give up when their context is *)
(*     cancelled;                                                          *)
(*   - leads, which take a budget unit, download, store, and publish;      *)
(*   - claimers, one per caller that joined, which outlive their caller    *)
(*     and turn the published flight into that caller's result.            *)
(* The published flight is shared: it counts references, and the last one  *)
(* dropped closes its file or returns its buffer's budget unit.            *)
(*                                                                         *)
(* A chunk is the pair of an aligned offset and an object version (sfKey); *)
(* its bytes are left out.                                                 *)
(***************************************************************************)
EXTENDS ChunkBudget

CONSTANTS
  Callers,        \* invocations of fetchChunk
  Chunks,         \* chunk identities: key, aligned offset, ETag
  ChunkOf,        \* the chunk each caller asks for
  Cached,         \* chunks an earlier process may have left in the cache
  PutResults,     \* what DiskCache.Put may do: "pin" (stored), "buf" (not)
  QueueTimeouts,  \* may a fetch's deadline pass while it waits for budget?
  LookupFails,    \* may DiskCache.Get fail on a chunk that is there?
  None            \* no fetch

ASSUME FetchAssumption ==
  /\ IsFiniteSet(Callers)
  /\ Fetches = Callers
  /\ None \notin Callers
  /\ ChunkOf \in [Callers -> Chunks]
  /\ Cached \in SUBSET Chunks
  /\ PutResults \in SUBSET {"pin", "buf"}
  /\ QueueTimeouts \in BOOLEAN
  /\ LookupFails \in BOOLEAN

VARIABLES
  onDisk,     \* chunks whose file is at its path in the cache
  cpc,        \* where each caller is in fetchChunk
  gpc,        \* where each caller's claimer goroutine is
  joined,     \* the fetch each caller joined (itself when it leads)
  via,        \* the result made for each caller and not yet closed
  cancelled,  \* callers whose context is done
  sf,         \* singleflight.m: the fetch open for joining, per chunk
  lpc,        \* where each fetch's lead goroutine is
  res,        \* the outcome a lead has put into its chunkFlight
  waiters,    \* sfCall.waiters
  refs,       \* chunkFlight.refs
  admitted,   \* fetches whose sfCall.admitted channel is closed
  freed       \* fetches whose chunkFlight.free has run

callerVars == <<cpc, gpc, joined, via, cancelled>>
flightVars == <<sf, lpc, res, waiters, refs, admitted, freed>>
fetchVars  == <<onDisk, callerVars, flightVars, budgetVars>>

\* A result that reads state shared with other callers carries a reference.
Shared == {"pinned", "buffer"}

FetchTypeOK ==
  /\ BudgetTypeOK
  /\ onDisk \in SUBSET Chunks
  /\ cpc \in [Callers -> {"idle", "lookup", "join", "admit", "out", "holding", "end"}]
  /\ gpc \in [Callers -> {"none", "wait", "offer", "gone"}]
  /\ joined \in [Callers -> Callers \cup {None}]
  /\ via \in [Callers -> Shared \cup {"none", "hit", "file", "err"}]
  /\ cancelled \in SUBSET Callers
  /\ sf \in [Chunks -> Callers \cup {None}]
  /\ lpc \in [Callers -> {"none", "acquire", "budget", "download", "finish", "publish", "done"}]
  /\ res \in [Callers -> {"none", "err", "pin", "buf"}]
  /\ waiters \in [Callers -> Nat]
  /\ refs \in [Callers -> Nat]
  /\ admitted \in SUBSET Callers
  /\ freed \in SUBSET Callers

FetchInit ==
  /\ BudgetInit
  /\ onDisk \in SUBSET Cached
  /\ cpc = [c \in Callers |-> "idle"]
  /\ gpc = [c \in Callers |-> "none"]
  /\ joined = [c \in Callers |-> None]
  /\ via = [c \in Callers |-> "none"]
  /\ cancelled = {}
  /\ sf = [k \in Chunks |-> None]
  /\ lpc = [c \in Callers |-> "none"]
  /\ res = [c \in Callers |-> "none"]
  /\ waiters = [c \in Callers |-> 0]
  /\ refs = [c \in Callers |-> 0]
  /\ admitted = {}
  /\ freed = {}

-----------------------------------------------------------------------------
(* The shared flight: chunk.go                                             *)

\* A plausible slip: the free hook closes the pin but forgets the buffer.
Unref_KeepsUnit(f) ==
  /\ refs' = [refs EXCEPT ![f] = @ - 1]
  /\ freed' = IF refs[f] = 1 THEN freed \cup {f} ELSE freed
  /\ UNCHANGED budgetVars

\* chunkFlight.unref: the caller that drops the last reference runs free,
\* which closes the pin or returns the buffer's budget unit.
Unref(f) ==
  /\ refs' = [refs EXCEPT ![f] = @ - 1]
  /\ freed' = IF refs[f] = 1 THEN freed \cup {f} ELSE freed
  /\ IF refs[f] = 1 /\ res[f] = "buf" THEN ReturnUnit ELSE UNCHANGED budgetVars

\* chunkResult.close: drops c's reference if its result carries one.
CloseResult(c) ==
  /\ via' = [via EXCEPT ![c] = "none"]
  /\ IF via[c] \in Shared
       THEN Unref(joined[c])
       ELSE UNCHANGED <<refs, freed, budgetVars>>

-----------------------------------------------------------------------------
(* Callers: fetchChunk                                                     *)

\* The invocation begins.
Start(c) ==
  /\ cpc[c] = "idle"
  /\ cpc' = [cpc EXCEPT ![c] = "lookup"]
  /\ UNCHANGED <<onDisk, gpc, joined, via, cancelled, flightVars, budgetVars>>

\* The context of the callers in S is done: the client went away, the
\* request is over, or a readahead's timeout passed.
Cancel(S) ==
  /\ cancelled' = cancelled \cup S
  /\ UNCHANGED <<onDisk, cpc, gpc, joined, via, flightVars, budgetVars>>

\* DiskCache.Get finds the file: c gets a handle of its own.
Hit(c) ==
  /\ cpc[c] = "lookup"
  /\ ChunkOf[c] \in onDisk
  /\ cpc' = [cpc EXCEPT ![c] = "holding"]
  /\ via' = [via EXCEPT ![c] = "hit"]
  /\ UNCHANGED <<onDisk, gpc, joined, cancelled, flightVars, budgetVars>>

\* DiskCache.Get does not, or fails: a failed lookup is served like a miss.
Missed(c) ==
  /\ cpc[c] = "lookup"
  /\ ChunkOf[c] \in onDisk => LookupFails

\* A caller that missed goes on to join.
Miss(c) ==
  /\ Missed(c)
  /\ c \notin cancelled
  /\ cpc' = [cpc EXCEPT ![c] = "join"]
  /\ UNCHANGED <<onDisk, gpc, joined, via, cancelled, flightVars, budgetVars>>

\* The check of the context between the lookup and the join: a caller whose
\* context is done by then starts nothing.
QuitBeforeJoin(c) ==
  /\ Missed(c) \/ cpc[c] = "join"
  /\ c \in cancelled
  /\ cpc' = [cpc EXCEPT ![c] = "end"]
  /\ UNCHANGED <<onDisk, gpc, joined, via, cancelled, flightVars, budgetVars>>

\* A plausible slip: a joiner is not counted.
Follow_Uncounted(c, f) ==
  /\ joined' = [joined EXCEPT ![c] = f]
  /\ UNCHANGED <<sf, lpc, waiters>>

\* singleflight.join finds fetch f in flight.
Follow(c, f) ==
  /\ joined' = [joined EXCEPT ![c] = f]
  /\ waiters' = [waiters EXCEPT ![f] = @ + 1]
  /\ UNCHANGED <<sf, lpc>>

\* singleflight.join registers a new fetch and fetchChunk starts its lead.
Lead(c) ==
  /\ joined' = [joined EXCEPT ![c] = c]
  /\ waiters' = [waiters EXCEPT ![c] = 1]
  /\ sf' = [sf EXCEPT ![ChunkOf[c]] = c]
  /\ lpc' = [lpc EXCEPT ![c] = "acquire"]

\* The join runs under singleflight.mu.  Either way a claimer is started for
\* the caller and the caller waits for the fetch to be admitted.  A context
\* that is done since the check does not keep a caller from joining.
Join(c) ==
  /\ cpc[c] = "join"
  /\ LET f == sf[ChunkOf[c]]
     IN  IF f = None THEN Lead(c) ELSE Follow(c, f)
  /\ gpc' = [gpc EXCEPT ![c] = "wait"]
  /\ cpc' = [cpc EXCEPT ![c] = "admit"]
  /\ UNCHANGED <<onDisk, via, cancelled, res, refs, admitted, freed, budgetVars>>

\* The fetch no longer waits for budget: c calls its admit hook.
Admitted(c) ==
  /\ cpc[c] = "admit"
  /\ joined[c] \in admitted
  /\ cpc' = [cpc EXCEPT ![c] = "out"]
  /\ UNCHANGED <<onDisk, gpc, joined, via, cancelled, flightVars, budgetVars>>

\* Both waits of fetchChunk end when the context is done.
QuitWaiting(c) ==
  /\ cpc[c] \in {"admit", "out"}
  /\ c \in cancelled
  /\ cpc' = [cpc EXCEPT ![c] = "end"]
  /\ UNCHANGED <<onDisk, gpc, joined, via, cancelled, flightVars, budgetVars>>

\* The consumer of a result closes it once it has been written or dropped.
Close(c) ==
  /\ cpc[c] = "holding"
  /\ cpc' = [cpc EXCEPT ![c] = "end"]
  /\ CloseResult(c)
  /\ UNCHANGED <<onDisk, gpc, joined, cancelled, sf, lpc, res, waiters, admitted>>

-----------------------------------------------------------------------------
(* Claimers: the goroutine fetchChunk leaves behind                        *)

\* chunkFlight.claim on a failed fetch: the reference goes at once.
ClaimError(c) ==
  /\ res[joined[c]] = "err"
  /\ via' = [via EXCEPT ![c] = "err"]
  /\ Unref(joined[c])

\* claim on an uncached chunk: the result carries the reference.
ClaimBuffer(c) ==
  /\ res[joined[c]] = "buf"
  /\ via' = [via EXCEPT ![c] = "buffer"]
  /\ UNCHANGED <<refs, freed, budgetVars>>

\* claim on a cached chunk, its path still there: a handle of c's own.
ClaimFile(c) ==
  /\ res[joined[c]] = "pin"
  /\ ChunkOf[c] \in onDisk
  /\ via' = [via EXCEPT ![c] = "file"]
  /\ Unref(joined[c])

\* A plausible slip: a pinned section taken without keeping the reference.
ClaimPinned_Dropped(c) ==
  /\ res[joined[c]] = "pin"
  /\ via' = [via EXCEPT ![c] = "pinned"]
  /\ Unref(joined[c])

\* claim on a cached chunk whose path was evicted, or would not open: the
\* result reads the pinned inode and carries the reference.
ClaimPinned(c) ==
  /\ res[joined[c]] = "pin"
  /\ via' = [via EXCEPT ![c] = "pinned"]
  /\ UNCHANGED <<refs, freed, budgetVars>>

\* The claimer wakes when sfCall.done is closed, and claims.
Claim(c) ==
  /\ gpc[c] = "wait"
  /\ lpc[joined[c]] = "done"
  /\ gpc' = [gpc EXCEPT ![c] = "offer"]
  /\ ClaimError(c) \/ ClaimBuffer(c) \/ ClaimFile(c) \/ ClaimPinned(c)
  /\ UNCHANGED <<onDisk, cpc, joined, cancelled, sf, lpc, res, waiters, admitted>>

\* The unbuffered handoff: the caller receives the result and owns it.
HandOff(c) ==
  /\ gpc[c] = "offer"
  /\ cpc[c] = "out"
  /\ gpc' = [gpc EXCEPT ![c] = "gone"]
  /\ cpc' = [cpc EXCEPT ![c] = "holding"]
  /\ UNCHANGED <<onDisk, joined, via, cancelled, flightVars, budgetVars>>

\* A plausible slip: the claimer of an aborted caller just returns.
Discard_Leaks(c) ==
  /\ gpc[c] = "offer"
  /\ c \in cancelled
  /\ gpc' = [gpc EXCEPT ![c] = "gone"]
  /\ UNCHANGED <<onDisk, cpc, joined, via, cancelled, flightVars, budgetVars>>

\* Or the context is done, and the claimer closes the result itself.
Discard(c) ==
  /\ gpc[c] = "offer"
  /\ c \in cancelled
  /\ gpc' = [gpc EXCEPT ![c] = "gone"]
  /\ CloseResult(c)
  /\ UNCHANGED <<onDisk, cpc, joined, cancelled, sf, lpc, res, waiters, admitted>>

-----------------------------------------------------------------------------
(* Leads: the detached fetch                                               *)

\* lead asks for a budget unit: it takes one, or queues.
Acquire(f) ==
  /\ lpc[f] = "acquire"
  /\ lpc' = [lpc EXCEPT ![f] = "budget"]
  /\ TakeUnit \/ JoinQueue(f)
  /\ UNCHANGED <<onDisk, callerVars, sf, res, waiters, refs, admitted, freed>>

\* The fetch deadline passes in the queue: the flight fails.
QueueTimeout(f) ==
  /\ QueueTimeouts
  /\ lpc[f] = "budget"
  /\ QuitQueue(f)
  /\ lpc' = [lpc EXCEPT ![f] = "finish"]
  /\ res' = [res EXCEPT ![f] = "err"]
  /\ UNCHANGED <<onDisk, callerVars, sf, waiters, refs, admitted, freed>>

\* The unit is lead's: it admits the callers and allocates the buffer.
Admit(f) ==
  /\ lpc[f] = "budget"
  /\ f \notin waiting
  /\ lpc' = [lpc EXCEPT ![f] = "download"]
  /\ admitted' = admitted \cup {f}
  /\ UNCHANGED <<onDisk, callerVars, sf, res, waiters, refs, freed, budgetVars>>

\* A plausible slip: an early return that forgets the unit.
DownloadFails_Leaks(f) ==
  /\ lpc[f] = "download"
  /\ lpc' = [lpc EXCEPT ![f] = "finish"]
  /\ res' = [res EXCEPT ![f] = "err"]
  /\ UNCHANGED <<onDisk, callerVars, sf, waiters, refs, admitted, freed, budgetVars>>

\* download fails: upstream error, short body, changed ETag, or deadline.
DownloadFails(f) ==
  /\ lpc[f] = "download"
  /\ ReturnUnit
  /\ lpc' = [lpc EXCEPT ![f] = "finish"]
  /\ res' = [res EXCEPT ![f] = "err"]
  /\ UNCHANGED <<onDisk, callerVars, sf, waiters, refs, admitted, freed>>

\* download succeeds and DiskCache.Put stores the chunk: the file is there,
\* the flight keeps its handle, the buffer and its unit go now.
StoreChunk(f) ==
  /\ lpc[f] = "download"
  /\ "pin" \in PutResults
  /\ onDisk' = onDisk \cup {ChunkOf[f]}
  /\ ReturnUnit
  /\ lpc' = [lpc EXCEPT ![f] = "finish"]
  /\ res' = [res EXCEPT ![f] = "pin"]
  /\ UNCHANGED <<callerVars, sf, waiters, refs, admitted, freed>>

\* A plausible slip: the unit goes back although the buffer stays in use.
KeepBuffer_Returned(f) ==
  /\ lpc[f] = "download"
  /\ "buf" \in PutResults
  /\ ReturnUnit
  /\ lpc' = [lpc EXCEPT ![f] = "finish"]
  /\ res' = [res EXCEPT ![f] = "buf"]
  /\ UNCHANGED <<onDisk, callerVars, sf, waiters, refs, admitted, freed>>

\* download succeeds but the cache is off or Put fails: the flight keeps the
\* buffer, and the unit with it.
KeepBuffer(f) ==
  /\ lpc[f] = "download"
  /\ "buf" \in PutResults
  /\ lpc' = [lpc EXCEPT ![f] = "finish"]
  /\ res' = [res EXCEPT ![f] = "buf"]
  /\ UNCHANGED <<onDisk, callerVars, sf, waiters, refs, admitted, freed, budgetVars>>

\* A plausible slip: the count is read and the key left in the map.
Finish_KeepsKey(f) ==
  /\ lpc[f] = "finish"
  /\ refs' = [refs EXCEPT ![f] = waiters[f]]
  /\ lpc' = [lpc EXCEPT ![f] = "publish"]
  /\ UNCHANGED <<onDisk, callerVars, sf, res, waiters, admitted, freed, budgetVars>>

\* singleflight.finish under the lock: joining ends, the count is final.
Finish(f) ==
  /\ lpc[f] = "finish"
  /\ sf' = [sf EXCEPT ![ChunkOf[f]] = None]
  /\ refs' = [refs EXCEPT ![f] = waiters[f]]
  /\ lpc' = [lpc EXCEPT ![f] = "publish"]
  /\ UNCHANGED <<onDisk, callerVars, res, waiters, admitted, freed, budgetVars>>

\* A plausible slip: a flight that never got budget is not admitted.
Publish_Unadmitted(f) ==
  /\ lpc[f] = "publish"
  /\ lpc' = [lpc EXCEPT ![f] = "done"]
  /\ UNCHANGED <<onDisk, callerVars, sf, res, waiters, refs, admitted, freed, budgetVars>>

\* singleflight.finish after the unlock: admit, publish, close done.
Publish(f) ==
  /\ lpc[f] = "publish"
  /\ lpc' = [lpc EXCEPT ![f] = "done"]
  /\ admitted' = admitted \cup {f}
  /\ UNCHANGED <<onDisk, callerVars, sf, res, waiters, refs, freed, budgetVars>>

\* The evictor unlinks a chunk's file; open handles keep its bytes.
Evict(k) ==
  /\ k \in onDisk
  /\ onDisk' = onDisk \ {k}
  /\ UNCHANGED <<callerVars, flightVars, budgetVars>>

-----------------------------------------------------------------------------

CallerStep(c) ==
  \/ Hit(c) \/ Miss(c) \/ QuitBeforeJoin(c) \/ Join(c)
  \/ Admitted(c) \/ QuitWaiting(c)

ClaimerStep(c) == Claim(c) \/ HandOff(c) \/ Discard(c)

\* The steps of a lead that wait for nothing but its own goroutine and a
\* download bounded by CHUNK_FETCH_TIMEOUT.
LeadStep(f) ==
  \/ Acquire(f) \/ Admit(f)
  \/ DownloadFails(f) \/ StoreChunk(f) \/ KeepBuffer(f)
  \/ Finish(f) \/ Publish(f)

\* Everything that runs by itself once a caller has started.
FetchStep ==
  \/ \E c \in Callers : CallerStep(c) \/ ClaimerStep(c)
  \/ \E f \in Callers : LeadStep(f) \/ QueueTimeout(f)
  \/ \E k \in Chunks : Evict(k)

\* All callers have returned and all flights are freed: nothing is left to do.
Quiet ==
  /\ \A c \in Callers : cpc[c] = "end" /\ gpc[c] \in {"none", "gone"}
  /\ \A f \in Callers : lpc[f] # "none" => f \in freed

FetchNext ==
  \/ FetchStep
  \/ \E c \in Callers : Start(c) \/ Close(c) \/ (c \notin cancelled /\ Cancel({c}))
  \/ Quiet /\ UNCHANGED fetchVars

FetchSpec == FetchInit /\ [][FetchNext]_fetchVars

-----------------------------------------------------------------------------
(* Safety                                                                  *)

\* The callers that still count on flight f: their claimer has not claimed
\* yet, or their result reads the flight's file or buffer.
Users(f) ==
  {c \in Callers : joined[c] = f /\ (gpc[c] = "wait" \/ via[c] \in Shared)}

\* A fetch is unfinished until finish has taken its key out of the map.
Unfinished == {"acquire", "budget", "download", "finish"}

\* f owns a unit from acquire until its buffer is dropped.
HoldsUnit(f) ==
  \/ lpc[f] = "budget" /\ f \notin waiting
  \/ lpc[f] = "download"
  \/ res[f] = "buf" /\ f \notin freed

\* The two counters are exact: sfCall.waiters counts the callers that joined
\* (join races with finish, and callers abort at any point), and from finish
\* on chunkFlight.refs counts the callers that may still use the flight.
RefsExact ==
  \A f \in Callers :
    /\ lpc[f] \in Unfinished => waiters[f] = Cardinality(Users(f))
    /\ lpc[f] \in {"publish", "done"} => refs[f] = Cardinality(Users(f))

\* chunkFlight.free runs when, and as soon as, the last user of a published
\* flight is gone: nobody reads a closed pin or a released buffer, and no
\* pin or buffer outlives its users.
FreedExactly ==
  \A f \in Callers :
    f \in freed <=> (lpc[f] = "done" /\ Users(f) = {})

\* The budget's anonymous count equals the fetches that own a buffer: no path
\* through lead, claim and close returns a unit twice or forgets it.
UnitsExact ==
  units = Cardinality({f \in Fetches : HoldsUnit(f)})

\* The chunk buffers in memory: allocated by lead before its download, kept by
\* a flight that could not be stored for as long as somebody reads it.
LiveBuffers ==
  {f \in Fetches : lpc[f] = "download" \/ (res[f] = "buf" /\ f \notin freed)}

\* The heap never holds more than Units chunk buffers, however long aborted and
\* slow callers keep a shared one alive (FETCH_CONCURRENCY caps live chunk bytes).
BuffersCapped == Cardinality(LiveBuffers) <= Units

\* No fetch queues for budget while a unit is free.
WaitOnlyWhenFull == waiting # {} => units = Units

\* singleflight.m holds exactly the unfinished fetches, each under its own
\* chunk: at most one download of a chunk at any time, and no caller can join
\* a flight whose reference count is already final.
FlightsExact ==
  \A k \in Chunks, f \in Callers :
    sf[k] = f <=> (ChunkOf[f] = k /\ lpc[f] \in Unfinished)

-----------------------------------------------------------------------------
(* Refinement                                                              *)

Holders == {f \in Fetches : HoldsUnit(f)}

Pool == INSTANCE BufferPool WITH holders <- Holders

\* The counting channel implements a pool whose buffers have owners, and that
\* passes a returned buffer to the fetch that has waited longest.
ImplementsPool == Pool!PoolSpec

\* While a fetch waits for budget, no fetch that asked later gets a unit.
FirstComeFirstServed == Pool!FirstCome

FlightPhase(f) ==
  IF lpc[f] = "none" THEN "unused"
  ELSE IF lpc[f] \in Unfinished THEN "open"
  ELSE IF f \in freed THEN "freed" ELSE "sealed"

Flight == INSTANCE SharedResult WITH
            Results <- Callers,
            Readers <- Callers,
            phase   <- [f \in Callers |-> FlightPhase(f)],
            users   <- [f \in Callers |-> Users(f)]

\* singleflight and chunkFlight together implement a result shared by a set
\* of users, freed by the last one to drop out.
ImplementsSharedResult == Flight!SharedSpec

\* finish never reads a count of zero, and the count of a finished flight gets
\* to zero just when free runs: nobody left to run it would be a leak.
SomeoneFrees ==
  \A f \in Callers :
    lpc[f] \in {"publish", "done"} => (refs[f] = 0 <=> f \in freed)

\* After finish nobody joins a flight, and free runs once.
FinishedForGood == Flight!SealedForGood

-----------------------------------------------------------------------------
(* Liveness                                                                *)

\* Every fetch ends with its handle closed or its buffer returned, whether
\* its callers stayed, aborted, or failed.
FlightsFreed == \A f \in Callers : lpc[f] # "none" ~> f \in freed

\* Every invocation of fetchChunk returns and its result gets closed.
CallersEnd == \A c \in Callers : cpc[c] # "idle" ~> cpc[c] = "end"

-----------------------------------------------------------------------------
(* A promise the code does not keep                                        *)

\* Concurrent misses of one chunk collapse to one upstream GET: a fetch is
\* started only for a chunk that is not in the cache.  A caller that missed
\* before another fetch's Put, and joins after its finish, starts a second.
LeadsOnlyMissing ==
  [][\A f \in Callers :
        lpc[f] = "none" /\ lpc'[f] = "acquire" => ChunkOf[f] \notin onDisk]_fetchVars

=============================================================================
