# TLA+ models of s3-cache

s3-cache is an HTTP proxy in front of an S3 bucket. It serves objects in
aligned chunks, keeps the chunks on local disk, and fetches missing ones from
upstream. These modules model all of it that has state or arithmetic: fetching
a chunk, sharing it, assembling a response, fetching ahead, which bytes a range
means, naming cached chunks by object version, and the files on disk with their
eviction. TLC checks them on small instances; TLAPS proves their safety for
instances of any size.

## The system

| part | state | operations | used by |
|---|---|---|---|
| `Web` (`web.go`) | – | parse key and range, call `Fetcher.Get`/`Head` | clients |
| `Fetcher.Get`, `serveAligned` (`fetcher.go`) | per request: slots, `pending[i]`, context | dispatcher, one producer per chunk, consumer, `abort` | Web |
| write guard (`write_guard.go`) | `held`, `writing`, `armed` | `hold`, `begin`, `end` | producers, consumer |
| `fetchChunk`, `lead` (`fetcher.go`) | – | lookup, join, wait; detached download | producers, readahead |
| singleflight (`singleflight.go`) | `m`, `waiters`, `admitted`, `done` | `join`, `finish` | `fetchChunk`, `lead` |
| shared results (`chunk.go`) | `refs`, `pin`, `buf` | `claim`, `unref`, `close` | claimers, consumers |
| budget (`budget.go`) | a buffered channel | `acquire`, `release` | `lead`, `unref` |
| HEAD cache (`head_cache.go`) | entry and time per key | `get`, `put`, `drop` | `headObject`, `download` |
| disk cache (`cache.go`) | chunk files, marker per shard | `Get`, `Put`, `versionedSince` | `fetchChunk`, `lead`, readahead |
| evictor (`eviction.go`) | – | walk, sort, remove | timer |
| readahead (`readahead.go`) | semaphore, `inflight` | `Kick`, `schedule` | `serveAligned` |

A request runs a dispatcher, a producer per chunk and a consumer. A producer
calls `fetchChunk`; on a miss that joins or starts a flight, whose `lead`
goroutine is detached from every request, and leaves a claimer goroutine that
outlives an aborted caller. The only things shared between requests are the
singleflight map, the flights, the budget, the HEAD cache and the disk.

What is hard here:

- a flight is used by callers that come, go and abort while it is finished,
  claimed and evicted; two counters, one under a lock and one atomic, decide
  when its file is closed or its buffer returned;
- the budget is anonymous: a unit forgotten or returned twice is just a wrong
  number;
- a request may wait for budget while it holds budget, so requests could
  deadlock; and a client that stops reading could hold a unit for ever;
- an object can be replaced between the HEAD and the GETs of a response, and
  caches outlive the version they were filled from;
- the evictor works from an old walk, without a lock, on directories and files
  that are being made and read; the process can be killed at any system call;
- a readahead ends at its timeout, the fetch it started does not;
- requests and readahead work out the extent of a chunk separately and file it
  under the same name.

What makes each part correct:

- budget: as many units taken as there are buffers, never more buffers than
  units, first come, first served, nobody waits while a unit is free;
- singleflight and shared results: one download of a chunk at a time, a file or
  buffer released with its last user and never before, aborted callers
  included;
- `fetchChunk`: returns, at once if its context ends;
- `serveAligned`: requests cannot block each other on the budget, nothing is
  left open when it returns, the status does not promise what failed;
- write guard: a deadline exactly while buffers are held and written;
- HEAD cache, disk cache: bytes only under the version they belong to, and a
  re-upload is noticed in the end;
- disk cache: a file is whole or absent, nothing is left lying about;
- evictor: takes the least recently used first, gets the shard under its cap,
  and takes nothing from a Put on its way, unless that has stalled for
  `tmpMaxAge`;
- readahead: bounded, at most one per chunk, and never blocked for good;
- ranges: the bytes asked for, no others, in order.

`PROJECT.json` lists these as hazards, each at its line, with the properties
that watch them.

## Modules

| module | models | extends |
|---|---|---|
| `ChunkBudget` | `budget.go` | |
| `ChunkFetch` | `fetchChunk`, `lead`, `singleflight.go`, `chunk.go` | `ChunkBudget` |
| `BufferPool` | what the budget promises: buffers with owners, first come, first served | |
| `SharedResult` | what singleflight and reference counts promise: a set of users, freed by the last | |
| `ChunkStore` | what the disk cache promises: chunks whole or absent, Gets and Puts at one moment | |
| `WriteGuard` | `write_guard.go` | |
| `ServeAligned` | `serveAligned` | `ChunkFetch`, `WriteGuard` |
| `Readahead` | `readahead.go`: `schedule` and its goroutine | `ChunkFetch` |
| `RangeServe` | `handle`, `parseRange`, `Head`, `Get`, the arithmetic and headers of `serveAligned`, `writeSlice`, `Kick` | |
| `DiskCache` | `cache.go` and `eviction.go`, system call by system call | |
| `ObjectVersions` | `headObject`, `head_cache.go`, `download`'s condition, names and markers of `cache.go` | |
| `ChunkFetchProofs`, `ServeAlignedProofs`, `ReadaheadProofs`, `RangeServeProofs`, `DiskCacheProofs`, `ObjectVersionsProofs`, `BufferPoolProofs`, `SharedResultProofs` | theorems about the module of that name | that module; `ServeAlignedProofs` and `ReadaheadProofs` also `ChunkFetchProofs`, which instantiates the last two |
| `MCChunkFetch`, `MCServeAligned`, `MCReadahead`, `MCDiskCache`, `MCObjectVersions` | instances for TLC (`RangeServe` is its own) | |

Every module has comments that say which function an action stands for. A
definition whose name has a suffix (`Follow_Uncounted`) is a plausible slip of
the definition it precedes: put in its place, it breaks a property.

**ChunkFetch.** A caller is one call of `fetchChunk`. `cpc` is its place in
the function, `gpc` that of its claimer, `lpc` that of the lead of the fetch it
started (a fetch is named by the caller that started it). `sf` is the
singleflight map, `waiters` and `refs` are the two counters, `res` and `via`
the outcome of a flight and of a claim. Steps are as large as the code's
atomic steps: the lookup, the check of the context, `join` and the first half of
`finish` under the mutex, the publication after it, `claim`, the hand-off,
`close`; a context may end between any two of them. Bytes are left out: a
chunk is an identity (key, offset, ETag) and the disk a set of chunks, from
which the evictor may remove any at any time. `download` is its outcome, `Put`
stores the chunk or does not.

**ServeAligned.** A producer is the caller `<<r, i>>` of `ChunkFetch`. `dpc`,
`prod` and `rpc` are the places of dispatcher, producers and consumer; the
context of a request is the set of its callers in `cancelled`. `Paused`
requests have a client that keeps the connection and reads nothing; `Leavers`
may lose their client or fail a write at any time. An armed deadline can cut a
write at any time: its length does not matter to what is checked.

**ObjectVersions.** One key, versions numbered by upload. Files are a function
from chunk and name to the version whose bytes they hold; name 0 is the one
used before versioning. The HEAD entry's TTL passes at any time. Time is only
needed to date uploads against the marker, and passes between uploads: ticks,
`Second` of them to a second; the marker keeps ticks, Last-Modified seconds. A
marker may be unreadable or impossible to make while the shard holds no chunk
from before versioning; with such chunks, only if `MarkerFails` (the code then
trusts them, as it says). S3 is assumed to send ETag and Last-Modified, as it
does. A restart loses memory and keeps the disk.

**Readahead.** A kick is one call of `schedule`: `kpc` is its place, and once
it has a slot it is a caller of `ChunkFetch`, in a flight with whoever else
wants the chunk. `Scenarios` says which callers are kicks and which requests.
`sem` and `inflight` are the semaphore and the dedup set; the timeout is a
cancellation that may come at any time.

**RangeServe.** One object; a byte is its offset, a chunk file its length,
named by offset only. A request is parsed, resolved against the size, and its
chunks come one by one, from a file or from upstream; `body` collects what
`writeSlice` sends; a download that cannot get all the bytes it asks for fails
(`download`). Readahead goroutines, evictions and restarts change `files`
behind it. `Wanted` is what a Range header means, stated without the code's
arithmetic. Requests come one after the other, as concurrency does not touch
offsets.

**DiskCache.** One shard. `dirs`, `file`, `mtime`, `marker` and `tmps` are the
file system; `pc` and `job` the places of the threads in `Get` and `Put` and of
`Main` in `ensureMarkers`; `ev` that of the evictor, with the records of its
walk. `Stat`, `Mkdir`, `CreateTemp`, `Write`, `Rename`, `Discard`, `Touch` are
one call each; the walk passes one path at a time, in any order; `List` and
`Rmdir` are the two calls of `removeIfEmpty`. `Discard` may not get rid of the
temporary file either, as its error is ignored: the file then belongs to no one,
like those a kill leaves. A fault is a call that fails, a
kill (`Kill`), or a write that takes longer than `tmpMaxAge` (`Age` of a file
in use); a failing `Discard` is part of the fault that led to it. `used`,
`hist` and `lost` are not in the code: the first two record what the properties
of a sweep compare with, `lost` that reading or making the marker has failed. `ChunkStore` is the cache as `ChunkFetch` has it, a set
of chunks from which the evictor may take any at any time: that `DiskCache`
implements it is what justifies that abstraction. A Put takes effect with its
rename, a Get with its open; a miss, the marker and the directories are
invisible.

## Runs

| run | instance | shows |
|---|---|---|
| `FetchSafety` | 3 callers, 2 of one chunk; 1 unit; all outcomes | types; counters, freeing, budget, singleflight map exact; never more chunk buffers in memory than units |
| `ReadaheadEnds` | 4 mixes of kicks and requests, 2 callers each; 1 slot, 1 unit; fair | types; slots and in-flight set exact; implements `SharedResult`; every flight freed, every call and kick ends |
| `ServeBudget` | 2 requests × 2 uncached chunks, one in common, 1 unit, no deadlines | types; a later chunk pins no budget before an earlier one; whoever owns a unit can go on to giving it up; implements `BufferPool` |
| `ServeOne` | 1 request × 3 chunks, window 2, all outcomes | deadline exactly while buffers are held and written; window; clean-up; status |
| `ServePaused` | 2 requests, one client stops reading, fair | the other is served, every fetch gets budget |
| `Versions` | 2 requests, 1 chunk, 2 versions; chunks from before versioning, or a failing marker; fair | types; no mixing in files; the marker separates old chunks from a re-uploaded object, but for one uploaded in the marker's second; a re-upload is served in the end |
| `DiskSweep` | 2 threads, 2 chunks in two directories, 3 calls, 1 fault, room for the smaller one; fair | directories consistent; files whole or absent; no temporary file forgotten; marker first; a sweep's bound and order; only recorded files go; implements `ChunkStore`; orphans reaped; back under the cap |
| `RangeExact` | every header on objects of 0 to 5 bytes, chunks of 2, 1 chunk ahead | types; body, headers, status as asked |
| `FetchCollapse`, `LegacyStale`, `HeadRefuted`, `NoInvalidation` | | violations, below |

**Bounds.** One budget unit makes every second fetch queue; three callers are
enough for a leader, a follower and a competitor, and for a queue of two. Two
requests are enough for the budget cycle, which needs one to hold what the
other waits for; three chunks with a window of two make the window bind. In
ObjectVersions two versions and two requests suffice for an old and a new one
and for one request overtaking the other; ticks 3 and 4, with two to a second,
lie on either side of a second's end, so that an upload is in the marker's tick,
in its second, or after it. One chunk is enough there: `Separated` compares each
chunk with the version its request was promised, so a response that mixes two
chunks has one that is wrong by itself; chunks share nothing but that version,
and the theorem is for any number of them. In DiskCache one chunk fits under the cap, the other and both
together do not; one fault is what the properties allow for
(two failures at once are not something the code handles); three calls are
enough to store both chunks and use one again during the sweep. In RangeServe
sizes around two chunks, and numbers one past the end, meet every boundary.
`MaxVersion`, `MaxClock`, `MaxUses` and `MaxFaults` are the only caps in
guards; everything else is finite because callers, requests, chunks and sizes
are. `Window` is 2 where the code has at least 4, so that it binds with three
chunks. `RangeServe` leaves out the width of integers: offsets are far below
2^63.

**Symmetry** is used only in runs without liveness, over callers of the same
chunk or over requests.

**Deadlock** is checked in every run: when nothing is left to do, the
specifications of fetching and serving stutter explicitly, and only if every
flight is freed.

**Fairness.** Weak fairness on each goroutine's steps: Go schedules runnable
goroutines, and a channel operation that stays possible happens. Downloads end
because `lead` gives them a deadline; consumers close what they take. Nothing
is fair about arrivals, kicks, cancellations, queue timeouts, evictions. A
client that reads takes its data, an armed deadline passes. `Versions` assumes
that a TTL passes and, with strong fairness, that upstream does not fail every
HEAD for ever: during an outage the old version is served by design.
`DiskSweep` assumes that the process starts, that the evictor's system calls
return and that its ticker ticks, and nothing of Gets and Puts: a stuck one keeps
neither orphans nor a full shard. Strong fairness on the ageing of orphans, since
it can only be observed between two sweeps.

## Disagreements with comments and docs

- `FetchCollapse`: "concurrent identical chunk misses collapse to one upstream
  GET" (the repository's README). The cache is not looked at again after the
  join, so a caller that looked before a fetch stored the chunk and joins after
  it finished fetches once more. It costs a GET.
- `LegacyStale`: chunks from before versioning are said to be trusted only for
  objects "unchanged since they were cached" (`cache.go`). An object re-uploaded
  after its chunk was cached and before the marker was made is older than the
  marker, and gets the old bytes under its new ETag. A second way to the same
  end is in `Versions`: the marker has nanoseconds and Last-Modified has none, so
  a re-upload after the marker, in its second, counts as older. There
  `OneVersion` fails; `Separated` says that this is the only way left when the
  old chunks were right at the first start.
- `NoInvalidation`: "There is no ETag invalidation — bust the cache by deleting
  the shard files or by changing the key" (the repository's README, which assumes
  content "immutable per key", as does the help text of `HEAD_CACHE_TTL`). Chunks
  are named by ETag, so a re-uploaded object misses although its old files are
  there; the comment at `objVersion` says that keys are not immutable.
  `ReuploadServed` is what the code does instead, once the HEAD entry has expired.
- `HeadRefuted`: after a 412 "the next request sees the new one". A HEAD
  answered before the re-upload may be cached after the drop, while the
  request that got the 412 is still there.
- No run, as it is one line: `bytes=-0` is unsatisfiable by RFC 9110, as a
  comment in `parseRange` says, but is answered with 400 like a malformed range
  and not with 416. `RangeValid` leaves it out of the ranges with a due 416.
- No run, as it follows from two lines: `READAHEAD_CONCURRENCY` is the "max
  concurrent readahead fetches", but a slot is returned at the readahead's
  timeout, and the fetch goes on to its own. `SlotsExact` is about the
  goroutines, which the slots do bound.

## Proofs

`ChunkFetchProofs` proves, for any finite set of callers and any budget, each
invariant of `FetchSafety` and both refinements. The inductive invariant
`FetchInv` adds to them three facts on shape: a caller has joined a flight
exactly when it has a claimer (`JoinShape`), a caller's result and its place go
together (`CallerShape`), a lead's outcome and its place go together, and its
own caller is among its users until it is published (`LeadShape`). They are
needed because exactness of the counters is not preserved on its own: `Unref`
of a flight frees it at one, so the user that unrefs must be one of those
counted; and a returned unit reaches the oldest waiting fetch, which must be
one that is at the budget. One lemma per group of actions shows preservation;
`GiveBack` and `DropUser` carry the arithmetic on cardinalities. The
refinements use the same lemmas: a step that changes owners or users is one of
the abstract steps, every other one a stutter. What the abstract specifications
give in turn is proved about them, once, and for every system that implements
them: `BufferPoolProofs` that a pool never has more owners than units, that its
queue is one line, that the line has a head (`LineHasHead`: an order on a finite
set has a least element, the one step by well-foundedness) and that nobody is
overtaken; `SharedResultProofs` that a result has users just until it is freed,
and that sealing is final. `ChunkFetchProofs` instantiates both modules and
reads the promises off the refinements (`PoolPromises`, `FlightPromises`), with
the set of owners and the phase of a flight, which the code does not store,
put in; `ServeAlignedProofs` and `ReadaheadProofs` do it for the compositions.
That the queue has a head (`FetchQueueHasHead`) is what makes the model's
`ReturnUnit` possible with senders queued. `BuffersCapped` follows from
`UnitsExact`: a buffer in memory has its unit (`InvBuffersCapped`). Assumptions: `UnitsAssumption`
(what `validateFetcherConfig` enforces) and `FetchAssumption` (types of the
parameters).

`ObjectVersionsProofs` proves that files are true to their names for any
parameters (`VersionFiledTrue`): a fetch holds the version it was started for
because the GET was conditional. That responses are of one version is proved
without chunks from before versioning (`VersionOneVersion`), and with them, but
for uploads in the marker's second, on the condition `LegacySafe`, which excludes
what `LegacyStale` shows (`VersionSeparated`). The argument is that every
re-upload is dated after the marker (`Dated`), the marker is remembered as made
(`Marked`), requests only serve versions since the first start (`Known`), and
that Last-Modified before the marker, for an upload after it, puts both into one
second (`SameSecond`), in which they stay (`MarkerSecondStays`).

`ReadaheadProofs` and `ServeAlignedProofs` are about the two compositions. In
both, every step is a step of the fetch path or leaves it alone
(`ReadaheadIsAction`, `ServeIsAction`), so `FetchInv` and the refinements hold
there by the lemmas of `ChunkFetchProofs`; those allow any set of contexts to
end in one step, which is what the end of a request's context is. On top:

- `ReadaheadInv` adds that a kick calls `fetchChunk` only with its slot
  (`KickShape`). `SlotsExact` is preserved because `TakeSlot` and `ReturnSlot`
  each move exactly one kick in or out of the running ones, timeouts or not.
- `ServeInv` adds one invariant per request, `RequestInv`, with a part for each
  goroutine: producers and their calls (`ProducerShape`), the dispatcher, whose
  chunks up to the one at hand are past admission (`DispatchShape`), the
  consumer, behind whom everything is closed (`ConsumerShape`), the status, the
  guard's count (`GuardShape`) and the slots (`SlotShape`). `HeadFirst` needs
  one more fact across modules, `AdmitShape`: a caller past the admission wait
  has a fetch that was admitted, so that it does not wait for a unit.
  `GuardExact` is not inductive: a deadline is armed by whoever comes second,
  `begin` or `hold`, so the count must be exact up to an abort. A step of one
  request does not touch another's part; one lemma per action, and one that
  carries `RequestInv` over every step of the fetch path on its own.
- `OwnersMove` is the absence of a budget deadlock as an invariant, for any
  number of requests, chunks, units and slots and any clients that stop
  reading. `LeadMoves`, `ChunkMoves` and `ConsumerMoves` are the guards of the
  steps of a lead, of a call with its claimer and producer, and of a consumer
  that depend neither on another unit nor on the client; they stand for
  `ENABLED`, which the prover does not have. Why it holds: the flight of a unit
  that is not with its lead has a user (`FreedExactly`); a user whose chunk is
  still on its way moves by itself; one whose chunk is in `pending` or being
  written waits for the consumer, which writes under a deadline (`GuardShape`),
  or aborts, or waits for an earlier chunk, and that one is past admission
  (`DispatchShape`) and so owns its unit already (`PassedMoves`). Without
  `Advance`'s wait the last step fails. The proof needs `MoveInv` besides
  `ServeInv`: a claimer goes before its caller only if the context is done, a
  result that reads a file pins no buffer, and the consumer takes chunks in
  order and has cancelled before it waits for the goroutines of an abort
  (`UnwindMoves`). That owners *do* give their units up follows under fairness;
  this last step is `EveryFetchGetsBudget`, checked by TLC.

`DiskCacheProofs` proves the safety properties of `DiskSweep` for any finite
set of chunks and any threads, directories, uses and faults. `DiskInv` adds who
may hold the marker's lock and what it knows (`LockShape`), that a thread has
at most one temporary file, complete when it is renamed (`TmpShape`), that a
marker unknown is one lost (`MarkerShape`), and for the sweep, what a walk that takes many steps has recorded compared with what is
there (`SweepShape`): a file is recorded, or not yet passed, or added since;
recorded files are gone, failed or still to try; what is gone was used no later
than what is left. `CountShape` says that the evictor's running total is the
size of the recorded files it has not removed, for which sizes are counted as
cardinalities (`BytesFinite`, `BytesAdd`). Frame lemmas
say what a step that leaves the lock, the temporary files or the sweep alone
preserves, so that the lemma of an action is about what it changes.
`DiskImplementsStore` needs one more fact, `JobShape`: who writes a chunk's
file does so for the Put that was called. All steps of a thread but the rename
of a Put are shown to be `Steady`: they go on with the call or return, and the
store does not change; the rename is the moment of the Put because its
temporary file is complete (`TmpShape`), the open that of the Get because a
file found is whole (`WholeOrAbsent`).
Assumption: `DiskAssumption` (types; an object's directory is not a prefix's).

`RangeServeProofs` is arithmetic, for objects of any size. `RangeInv` says that
the span `Get` computes is the set of bytes the header means (`SpanShape`, by
cases on the header in `ResolveWanted`), that headers are the span's
(`RespShape`), and that chunks, files and readahead stay within the object
(`ChunkShape`); it holds for any chunk sizes, also when they change between
restarts, and gives types and headers. The status needs one more fact, that a
request past `handle` is one with a due answer (`Taken`, `DueShape`). The bytes need `ExactInv`: files
have the extent of their chunk, and the body ends where the chunk at hand
begins (`BodyShape`). It is proved with `ChunkSizes = {n}` as hypothesis of the
theorems: a file has no chunk size in its name, and the flag's help text says
that a change "requires draining cache".

**Only model-checked.** Liveness (`EveryFetchGetsBudget`, `RequestsEnd`,
`FlightsFreed`, `CallsEnd`, `ReuploadServed`, `OrphansReaped`, `BackUnderCap`)
is not within the prover's reach. Every other property of a passing run is a theorem.

## Not modelled, and the plan

Of the four violations one goes away under a hypothesis on the constants that is
proved to be enough, `LegacySafe`, and one is a matter of the documentation. The
other two would need a change of the code (a second look at the cache after the
join, a HEAD entry that remembers when it was asked for), which is not stated
here. A next
step would be to replace the set of chunks of `ChunkFetch` by `ChunkStore`
itself, and to check the whole proxy on top of it.

Not modelled:

- the choice among several shards (`listShards`, `distributeByHash`): a pure
  function of the key's hash and the number of shards, and shards share
  nothing; adding one makes some keys miss;
- the cap of the HEAD cache over several keys: for one key its effect is
  `HeadShed`;
- what a power loss does to a file that was renamed and not synced: it depends
  on the file system, and the code does nothing about it;
- shutdown: `Close` hands over to an external graceful server; what it cuts is
  cut like a client's departure, or a kill;
- metrics, flag registration and wiring (`metrics.go`, `configure.go`,
  `main.go`: no state that is read back), content types and header formatting,
  the S3 client.
