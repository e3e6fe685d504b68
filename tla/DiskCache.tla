------------------------------ MODULE DiskCache -------------------------------
(***************************************************************************)
(* The files of one shard: Get, Put and the version marker of cache.go,    *)
(* system call by system call, against the sweep of eviction.go.           *)
(*                                                                         *)
(* Threads are the goroutines that call Get and Put; Main is the one that  *)
(* starts the process.  The process may be killed at any point and comes   *)
(* back to the disk as it was left.  A failing system call, a kill and a   *)
(* write that stalls for tmpMaxAge are faults, at most MaxFaults of them.  *)
(* What bytes a file should hold is ObjectVersions' matter: here a file is *)
(* all of its chunk or a part of it.                                       *)
(***************************************************************************)
EXTENDS Integers, Sequences, FiniteSets

CONSTANTS
  Threads, Main, Nobody,
  Chunks,
  Objects, Prefixes,   \* the directories <sha1> and <sha1[:2]>
  DirOf,               \* the object directory of a chunk
  PrefixOf,            \* the prefix directory of an object directory
  SizeOf,              \* the size of a chunk's file
  MaxBytes,            \* EVICTION_MAX_BYTES_PER_SHARD
  MaxUses,             \* bound on calls of Get and Put
  MaxFaults            \* bound on faults

ASSUME DiskAssumption ==
  /\ Main \notin Threads /\ Nobody \notin Threads \cup {Main}
  /\ IsFiniteSet(Chunks) /\ Chunks # {}
  /\ DirOf \in [Chunks -> Objects]
  /\ PrefixOf \in [Objects -> Prefixes]
  /\ Objects \cap Prefixes = {}
  /\ {"shard", "root"} \cap (Objects \cup Prefixes) = {}
  /\ SizeOf \in [Chunks -> Nat \ {0}]
  /\ MaxBytes \in Nat \ {0}
  /\ MaxUses \in Nat /\ MaxFaults \in Nat

VARIABLES
  dirs,     \* the directories that exist
  file,     \* each chunk's file: absent, a part of the chunk, or whole
  mtime,    \* its modification time
  marker,   \* the time in the marker file, 0 without one, or Torn
  tmps,     \* temporary files: owner, directory, contents, time, old enough?
  up,       \* has the process started?
  pc,       \* where each thread is
  job,      \* what it is doing: Get or Put of a chunk, or the start
  make,     \* the directories its MkdirAll has still to make
  making,   \* who is reading or making the marker, under DiskCache.mu
  since,    \* DiskCache.since: the marker's time, Unknown or Unread
  ev,       \* where the evictor is
  seen,     \* the paths its walk has passed
  rec,      \* the modification times it has recorded, 0 for none
  cand,     \* the recorded files it has not tried to remove
  total,    \* its count of bytes
  tidy,     \* directories removeIfEmpty may still remove, innermost first
  clock, uses, faults,
  lost,     \* has reading or making the marker ever failed? (not in the code)
  used,     \* when each chunk was last used (not in the code)
  hist      \* what has happened since the sweep began (not in the code)

diskVars    == <<dirs, file, mtime, marker, tmps>>
threadVars  == <<up, pc, job, make, making, since, lost>>
evictorVars == <<ev, seen, rec, cand, total, tidy>>
counters    == <<clock, uses, faults>>
cacheVars   == <<diskVars, threadVars, evictorVars, counters, used, hist>>

Dirs == {"shard", "root"} \cup Prefixes \cup Objects

Parent(d) == IF d \in Objects THEN PrefixOf[d] ELSE IF d \in Prefixes THEN "root" ELSE "shard"

Torn == -1      \* a marker file cut short
Unread == -1    \* the marker has not been read
Unknown == 0    \* there was no reading or making it

Procs == Threads \cup {Main}

TmpFiles == [owner : Procs \cup {Nobody}, dir : Dirs, data : {"part", "whole"},
             time : Nat, old : BOOLEAN]

\* Types; and a directory, a file or a temporary file is in a directory.
DiskTypeOK ==
  /\ dirs \subseteq Dirs
  /\ file \in [Chunks -> {"none", "part", "whole"}]
  /\ mtime \in [Chunks -> Nat]
  /\ marker \in Nat \cup {Torn}
  /\ tmps \subseteq TmpFiles
  /\ pc \in [Procs -> {"boot", "idle", "marker", "read", "stat", "mkdir", "temp",
                       "write", "rename", "discard", "touch"}]
  /\ job \in [Procs -> [kind : {"start", "get", "put"}, chunk : Chunks]]
  /\ make \in [Procs -> SUBSET Dirs]
  /\ making \subseteq Procs
  /\ since \in Nat \cup {Unread}
  /\ lost \in BOOLEAN
  /\ ev \in {"idle", "walk", "evict", "list", "rmdir", "done"}
  /\ total \in Nat
  /\ \A d \in dirs \ {"shard"} : Parent(d) \in dirs
  /\ \A c \in Chunks : file[c] # "none" => DirOf[c] \in dirs
  /\ \A t \in tmps : t.dir \in dirs

NoHist == [added |-> {}, touched |-> {}, failed |-> {}, gone |-> {}]

Start == [kind |-> "start", chunk |-> CHOOSE c \in Chunks : TRUE]

\* The process as it starts, with nothing remembered.
Booted ==
  [pc   |-> [p \in Procs |-> IF p = Main THEN "boot" ELSE "idle"],
   job  |-> [p \in Procs |-> Start],
   make |-> [p \in Procs |-> {}],
   rec  |-> [c \in Chunks |-> 0]]

\* A new node: the shard may be mounted already.
DiskInit ==
  /\ dirs \in {{}, {"shard"}}
  /\ file = [c \in Chunks |-> "none"]
  /\ mtime = [c \in Chunks |-> 0]
  /\ marker = 0 /\ tmps = {}
  /\ up = FALSE
  /\ pc = Booted.pc /\ job = Booted.job /\ make = Booted.make
  /\ making = {} /\ since = Unread /\ lost = FALSE
  /\ ev = "idle" /\ seen = {} /\ rec = Booted.rec /\ cand = {} /\ total = 0 /\ tidy = <<>>
  /\ clock = 0 /\ uses = 0 /\ faults = 0
  /\ used = [c \in Chunks |-> 0]
  /\ hist = NoHist

\* A system call fails.
Fault == faults < MaxFaults /\ faults' = faults + 1

\* The thread goes on; idle, it has forgotten what it did.
Goto(p, place) ==
  /\ pc' = [pc EXCEPT ![p] = place]
  /\ job' = IF place = "idle" THEN [job EXCEPT ![p] = Start] ELSE job

-----------------------------------------------------------------------------
(* markerTime and readOrCreateMarker                                       *)

\* The thread goes on with what it wanted the marker for.
Proceed(p) ==
  /\ Goto(p, IF job[p].kind = "put" THEN "stat" ELSE "idle")
  /\ up' = (up \/ p = Main)

\* The result, unknown included, is remembered, and the lock given back.
Learn(p, t) ==
  since' = t /\ lost' = (lost \/ t = Unknown) /\ making' = making \ {p} /\ Proceed(p)

\* ensureMarkers: no shard, no marker to make.
Boot ==
  /\ pc[Main] = "boot"
  /\ IF "shard" \in dirs THEN Goto(Main, "marker") /\ up' = up
                         ELSE Goto(Main, "idle") /\ up' = TRUE
  /\ UNCHANGED <<diskVars, make, making, since, lost, evictorVars, counters, used, hist>>

\* markerTime: what is remembered, or the lock, to read the file.
AskMarker(p) ==
  /\ pc[p] = "marker"
  /\ \/ since # Unread /\ Proceed(p) /\ UNCHANGED making
     \/ since = Unread /\ making = {} /\ making' = {p} /\ Goto(p, "read") /\ UNCHANGED up
  /\ UNCHANGED <<diskVars, make, since, lost, evictorVars, counters, used, hist>>

\* The marker is read; if there is none its directory is made.
ReadMarker(p) ==
  /\ pc[p] = "read"
  /\ \/ /\ marker # 0
        /\ Learn(p, IF marker = Torn THEN Unknown ELSE marker)
        /\ UNCHANGED <<dirs, faults>>
     \/ /\ marker = 0
        /\ dirs' = dirs \cup {"shard", "root"}
        /\ Goto(p, "temp")
        /\ UNCHANGED <<up, making, since, lost, faults>>
     \/ Fault /\ Learn(p, Unknown) /\ UNCHANGED dirs
  /\ UNCHANGED <<file, mtime, marker, tmps, make, evictorVars,
                 clock, uses, used, hist>>

-----------------------------------------------------------------------------
(* Put                                                                     *)

\* A plausible slip: no one cares about the marker.
versionedSince_Skipped(next) == next

\* The marker's time is remembered, or asked for on the way.
versionedSince(next) == IF since # Unread THEN next ELSE "marker"

\* Put begins; path makes a shard if there is none.
PutStart(p, c) ==
  /\ up /\ pc[p] = "idle" /\ uses < MaxUses
  /\ uses' = uses + 1
  /\ job' = [job EXCEPT ![p] = [kind |-> "put", chunk |-> c]]
  /\ dirs' = dirs \cup {"shard"}
  /\ pc' = [pc EXCEPT ![p] = versionedSince("stat")]
  /\ UNCHANGED <<file, mtime, marker, tmps, up, make, making, since, lost, evictorVars,
                 clock, faults, used, hist>>

\* The directories on the way to a chunk that do not exist.
Missing(c) == {"shard", "root", PrefixOf[DirOf[c]], DirOf[c]} \ dirs

\* MkdirAll looks which directories are missing ...
Stat(p) ==
  /\ pc[p] = "stat"
  /\ make' = [make EXCEPT ![p] = Missing(job[p].chunk)]
  /\ Goto(p, "mkdir")
  /\ UNCHANGED <<diskVars, up, making, since, lost, evictorVars, counters, used, hist>>

\* ... and makes one after the other, the outermost first, unless the one
\* above has gone again.
Mkdir(p) ==
  /\ pc[p] = "mkdir"
  /\ \/ make[p] = {} /\ Goto(p, "temp") /\ UNCHANGED <<dirs, make>>
     \/ \E d \in make[p] :
          /\ d = "shard" \/ Parent(d) \notin make[p]
          /\ IF d = "shard" \/ Parent(d) \in dirs
               THEN /\ dirs' = dirs \cup {d}
                    /\ make' = [make EXCEPT ![p] = @ \ {d}]
                    /\ UNCHANGED <<pc, job>>
               ELSE /\ make' = [make EXCEPT ![p] = {}]
                    /\ Goto(p, "idle")
                    /\ UNCHANGED dirs
  /\ UNCHANGED <<file, mtime, marker, tmps, up, making, since, lost, evictorVars,
                 counters, used, hist>>

Own(p) == {t \in tmps : t.owner = p}

\* An error: Put returns it, the marker's time stays unknown.
GiveUp(p) ==
  IF p \in making THEN Learn(p, Unknown) ELSE Goto(p, "idle") /\ UNCHANGED <<up, making, since, lost>>

\* CreateTemp, in the directory the file is to be in.
CreateTemp(p) ==
  LET d == IF p \in making THEN "root" ELSE DirOf[job[p].chunk] IN
  /\ pc[p] = "temp"
  /\ \/ /\ d \in dirs
        /\ tmps' = tmps \cup {[owner |-> p, dir |-> d, data |-> "part", time |-> 0, old |-> FALSE]}
        /\ Goto(p, "write")
        /\ UNCHANGED <<up, making, since, lost, faults>>
     \/ d \notin dirs /\ GiveUp(p) /\ UNCHANGED <<tmps, faults>>
     \/ Fault /\ GiveUp(p) /\ UNCHANGED tmps
  /\ UNCHANGED <<dirs, file, mtime, marker, make, evictorVars,
                 clock, uses, used, hist>>

\* A plausible slip: the error of the write is not looked at.
Write_Unchecked(p) ==
  /\ pc[p] = "write"
  /\ clock' = clock + 1
  /\ Goto(p, "rename")
  /\ \/ /\ tmps' = (tmps \ Own(p)) \cup {[t EXCEPT !.data = "whole", !.time = clock'] : t \in Own(p)}
        /\ UNCHANGED faults
     \/ Fault /\ UNCHANGED tmps
  /\ UNCHANGED <<dirs, file, mtime, marker, up, make, making, since, lost,
                 evictorVars, uses, used, hist>>

\* The bytes are written; if the evictor has reaped the file they have no name.
Write(p) ==
  /\ pc[p] = "write"
  /\ \/ /\ clock' = clock + 1
        /\ tmps' = (tmps \ Own(p)) \cup {[t EXCEPT !.data = "whole", !.time = clock'] : t \in Own(p)}
        /\ Goto(p, "rename")
        /\ UNCHANGED faults
     \/ Fault /\ Goto(p, "discard") /\ UNCHANGED <<tmps, clock>>
  /\ UNCHANGED <<dirs, file, mtime, marker, up, make, making, since, lost,
                 evictorVars, uses, used, hist>>

\* A sweep goes on while a chunk is used.
Note(c) ==
  hist' = IF ev = "idle" THEN hist
          ELSE [touched |-> hist.touched \cup {c},
                added   |-> IF file[c] = "none" /\ file'[c] # "none"
                              THEN hist.added \cup {c} ELSE hist.added,
                failed  |-> hist.failed, gone |-> hist.gone]

\* The chunk's file is replaced; its writer, and whoever has opened the one
\* before, read on whatever becomes of the name.
StoreChunk(p, t) ==
  LET c == job[p].chunk IN
  /\ file' = [file EXCEPT ![c] = t.data]
  /\ mtime' = [mtime EXCEPT ![c] = t.time]
  /\ used' = [used EXCEPT ![c] = t.time]
  /\ Note(c)
  /\ Goto(p, "idle")
  /\ UNCHANGED <<marker, up, making, since, lost>>

\* The temporary file gets its name.
Rename(p) ==
  /\ pc[p] = "rename"
  /\ \/ \E t \in Own(p) :
          /\ tmps' = tmps \ {t}
          /\ IF p \in making
               THEN /\ marker' = IF t.data = "whole" THEN t.time ELSE Torn
                    /\ Learn(p, t.time)
                    /\ UNCHANGED <<file, mtime, used, hist>>
               ELSE StoreChunk(p, t)
          /\ UNCHANGED faults
     \/ /\ \/ Own(p) = {} /\ UNCHANGED faults
           \/ Fault
        /\ Goto(p, "discard")
        /\ UNCHANGED <<file, mtime, marker, tmps, up, making, since, lost, used, hist>>
  /\ UNCHANGED <<dirs, make, evictorVars, clock, uses>>

\* A plausible slip: after an error the temporary file stays.
Discard_Forgotten(p) ==
  /\ pc[p] = "discard"
  /\ GiveUp(p)
  /\ UNCHANGED <<diskVars, make, evictorVars, counters, used, hist>>

\* A plausible slip: after an error the chunk's name is removed as well.
Discard_Named(p) ==
  /\ pc[p] = "discard"
  /\ tmps' = tmps \ Own(p)
  /\ file' = IF p \in making THEN file ELSE [file EXCEPT ![job[p].chunk] = "none"]
  /\ GiveUp(p)
  /\ UNCHANGED <<dirs, mtime, marker, make, evictorVars, counters, used, hist>>

\* After an error the temporary file is removed.  The error of the removal is
\* ignored: what has failed the file may fail that too, and then it stays, no
\* one's.
Discard(p) ==
  /\ pc[p] = "discard"
  /\ \/ tmps' = tmps \ Own(p)
     \/ tmps' = (tmps \ Own(p)) \cup {[t EXCEPT !.owner = Nobody] : t \in Own(p)}
  /\ GiveUp(p)
  /\ UNCHANGED <<dirs, file, mtime, marker, make, evictorVars, counters, used, hist>>

-----------------------------------------------------------------------------
(* Get                                                                     *)

\* Get opens the chunk's file; a miss asks for the marker, for the sake of
\* chunks named without a version.
GetStart(p, c) ==
  /\ up /\ pc[p] = "idle" /\ uses < MaxUses
  /\ uses' = uses + 1
  /\ dirs' = dirs \cup {"shard"}
  /\ LET next == IF file[c] # "none" THEN "touch" ELSE versionedSince("idle") IN
     /\ pc' = [pc EXCEPT ![p] = next]
     /\ job' = IF next = "idle" THEN job ELSE [job EXCEPT ![p] = [kind |-> "get", chunk |-> c]]
  /\ UNCHANGED <<file, mtime, marker, tmps, up, make, making, since, lost, evictorVars,
                 clock, faults, used, hist>>

\* A plausible slip: a hit leaves the modification time alone.
Touched_Never(c) == mtime[c]

\* Chtimes.
Touched(c) == clock'

\* The file is touched, if it still has its name.
Touch(p) ==
  LET c == job[p].chunk IN
  /\ pc[p] = "touch"
  /\ clock' = clock + 1
  /\ mtime' = IF file[c] = "none" THEN mtime ELSE [mtime EXCEPT ![c] = Touched(c)]
  /\ used' = [used EXCEPT ![c] = clock']
  /\ UNCHANGED file
  /\ Note(c)
  /\ Goto(p, "idle")
  /\ UNCHANGED <<dirs, marker, tmps, up, make, making, since, lost,
                 evictorVars, uses, faults>>

ThreadStep(p) ==
  \/ AskMarker(p) \/ ReadMarker(p) \/ Stat(p) \/ Mkdir(p) \/ CreateTemp(p)
  \/ Write(p) \/ Rename(p) \/ Discard(p) \/ Touch(p)

-----------------------------------------------------------------------------
(* sweepShard and removeIfEmpty                                            *)

\* The ticker ticks.
SweepStart ==
  /\ up /\ ev = "idle" /\ "shard" \in dirs
  /\ ev' = "walk"
  /\ UNCHANGED <<diskVars, threadVars, seen, rec, cand, total, tidy, counters, used, hist>>

\* The walk comes to a path, whenever that is, and takes its size and time.
Walk(c) ==
  /\ ev = "walk" /\ c \notin seen
  /\ seen' = seen \cup {c}
  /\ IF file[c] = "none" THEN UNCHANGED <<rec, total>>
     ELSE /\ rec' = [rec EXCEPT ![c] = mtime[c]]
          /\ total' = total + SizeOf[c]
  /\ UNCHANGED <<diskVars, threadVars, ev, cand, tidy, counters, used, hist>>

\* A plausible slip: only the temporary files of chunks are recognised.
Stale_ChunksOnly(t) == t.old /\ t.dir # "root"

\* A temporary file that was old when the sweep began.
Stale(t) == t.old

\* The walk comes to such a file.
Reap(t) ==
  /\ ev = "walk" /\ Stale(t)
  /\ \/ tmps' = tmps \ {t} /\ UNCHANGED faults
     \/ Fault /\ tmps' = (tmps \ {t}) \cup {[t EXCEPT !.old = FALSE]}
  /\ UNCHANGED <<dirs, file, mtime, marker, threadVars, evictorVars, clock, uses, used, hist>>

Recorded == {c \in Chunks : rec[c] > 0}

\* The walk is over.
WalkEnd ==
  /\ ev = "walk" /\ seen = Chunks /\ \A t \in tmps : ~Stale(t)
  /\ cand' = IF total <= MaxBytes THEN {} ELSE Recorded
  /\ ev' = IF total <= MaxBytes THEN "done" ELSE "evict"
  /\ UNCHANGED <<diskVars, threadVars, seen, rec, total, tidy, counters, used, hist>>

Target == MaxBytes - MaxBytes \div 10

\* A plausible slip: the comparison the wrong way round.
Enough_Inverted == total >= Target

Enough == total <= Target

\* Enough has been removed, or everything has been tried.
SweepEnd ==
  /\ ev = "evict" /\ (Enough \/ cand = {})
  /\ ev' = "done" /\ cand' = {}
  /\ UNCHANGED <<diskVars, threadVars, seen, rec, total, tidy, counters, used, hist>>

\* The sweep has set its metrics, and the evictor waits for the next tick.
Sleep ==
  /\ ev = "done"
  /\ ev' = "idle"
  /\ seen' = {} /\ rec' = Booted.rec /\ total' = 0 /\ tidy' = <<>>
  /\ hist' = NoHist
  /\ used' = [c \in Chunks |-> IF file[c] = "none" THEN 0 ELSE used[c]]
  /\ UNCHANGED <<diskVars, threadVars, cand, counters>>

\* A plausible slip: the bytes are counted as freed whether they are or not.
Freed_Always(c, ok) == SizeOf[c]

\* The bytes a removal counts for.
Freed(c, ok) == IF ok THEN SizeOf[c] ELSE 0

\* The file recorded with the oldest time is removed, whatever it is by now.
Evict(c) ==
  /\ ev = "evict" /\ ~Enough
  /\ c \in cand /\ \A o \in cand : rec[c] <= rec[o]
  /\ cand' = cand \ {c}
  /\ \/ /\ file[c] # "none"
        /\ file' = [file EXCEPT ![c] = "none"] /\ mtime' = [mtime EXCEPT ![c] = 0]
        /\ total' = total - Freed(c, TRUE)
        /\ tidy' = <<DirOf[c], PrefixOf[DirOf[c]]>>
        /\ ev' = "list"
        /\ hist' = [hist EXCEPT !.gone = @ \cup {c}, !.added = @ \ {c}]
        /\ UNCHANGED faults
     \/ /\ Fault
        /\ total' = total - Freed(c, FALSE)
        /\ hist' = [hist EXCEPT !.failed = @ \cup {c}]
        /\ UNCHANGED <<file, mtime, tidy, ev>>
  /\ UNCHANGED <<dirs, marker, tmps, threadVars, seen, rec, clock, uses, used>>

InDir(d) == {c \in Chunks : DirOf[c] = d /\ file[c] # "none"}

Empty(d) ==
  /\ InDir(d) = {}
  /\ \A t \in tmps : t.dir # d
  /\ \A sub \in dirs \ {"shard"} : Parent(sub) # d

\* removeIfEmpty lists a directory ...
List ==
  /\ ev = "list"
  /\ ev' = IF Head(tidy) \in dirs /\ Empty(Head(tidy)) THEN "rmdir" ELSE "evict"
  /\ UNCHANGED <<diskVars, threadVars, seen, rec, cand, total, tidy, counters, used, hist>>

\* A plausible slip: the directory found empty is removed with all that is in it.
Rmdir_All ==
  LET d == Head(tidy) IN
  /\ ev = "rmdir"
  /\ dirs' = dirs \ {d}
  /\ file' = [c \in Chunks |-> IF c \in InDir(d) THEN "none" ELSE file[c]]
  /\ tmps' = {t \in tmps : t.dir # d}
  /\ tidy' = Tail(tidy)
  /\ ev' = IF Tail(tidy) = <<>> THEN "evict" ELSE "list"
  /\ UNCHANGED <<mtime, marker, threadVars, seen, rec, cand, total, counters, used, hist>>

\* ... and removes it, if it is still empty, and then the one above.
Rmdir ==
  LET d == Head(tidy) IN
  /\ ev = "rmdir"
  /\ IF Empty(d)
       THEN /\ dirs' = dirs \ {d}
            /\ tidy' = Tail(tidy)
            /\ ev' = IF Tail(tidy) = <<>> THEN "evict" ELSE "list"
       ELSE ev' = "evict" /\ UNCHANGED <<dirs, tidy>>
  /\ UNCHANGED <<file, mtime, marker, tmps, threadVars, seen, rec, cand, total, counters, used, hist>>

EvictorStep ==
  \/ SweepStart \/ WalkEnd \/ SweepEnd \/ Sleep \/ List \/ Rmdir
  \/ \E c \in Chunks : Walk(c) \/ Evict(c)
  \/ \E t \in tmps : Reap(t)

-----------------------------------------------------------------------------
(* Time and kills                                                          *)

\* A temporary file comes of age between two sweeps.
Age(t) ==
  /\ ev # "walk" /\ ~t.old
  /\ tmps' = (tmps \ {t}) \cup {[t EXCEPT !.old = TRUE]}
  /\ IF t.owner = Nobody THEN UNCHANGED faults ELSE Fault
  /\ UNCHANGED <<dirs, file, mtime, marker, threadVars, evictorVars, clock, uses, used, hist>>

OrphanAges == \E t \in tmps : t.owner = Nobody /\ Age(t)

\* The process is killed, and started again.
Kill ==
  /\ Fault
  /\ up' = FALSE
  /\ pc' = Booted.pc /\ job' = Booted.job /\ make' = Booted.make
  /\ making' = {} /\ since' = Unread
  /\ tmps' = {[t EXCEPT !.owner = Nobody] : t \in tmps}
  /\ ev' = "idle" /\ seen' = {} /\ rec' = Booted.rec /\ cand' = {} /\ total' = 0 /\ tidy' = <<>>
  /\ hist' = NoHist
  /\ UNCHANGED <<dirs, file, mtime, marker, lost, clock, uses, used>>

DiskNext ==
  \/ Boot
  \/ \E p \in Threads, c \in Chunks : PutStart(p, c) \/ GetStart(p, c)
  \/ \E p \in Procs : ThreadStep(p)
  \/ EvictorStep
  \/ \E t \in tmps : Age(t)
  \/ Kill

DiskSpec == DiskInit /\ [][DiskNext]_cacheVars

\* The process starts, the evictor's system calls return, the ticker ticks, and
\* time passes for files as well: between sweeps, as old is what the sweep finds
\* when it begins.  Gets and Puts may be stuck for ever.
FairDiskSpec ==
  /\ DiskSpec
  /\ WF_cacheVars(Boot \/ ThreadStep(Main))
  /\ WF_cacheVars(EvictorStep)
  /\ SF_cacheVars(OrphanAges)

-----------------------------------------------------------------------------
(* Properties                                                              *)

\* The bytes of the files of a set of chunks, and how many there are.
BytesOf(S) == UNION {{c} \X (1..SizeOf[c]) : c \in S}

Usage(S) == Cardinality(BytesOf({c \in S : file[c] # "none"}))

\* tmp file and rename: whatever fails and whenever the process is killed, a
\* chunk's file and the marker are whole or not there: none is ever opened torn.
WholeOrAbsent ==
  /\ \A c \in Chunks : file[c] # "part"
  /\ marker # Torn

\* What a thread is doing for its caller: a miss, and the start, ask nothing of
\* the store.
Call(p) ==
  IF job[p].kind = "put" THEN [kind |-> "put", chunk |-> job[p].chunk]
  ELSE IF pc[p] = "touch" THEN [kind |-> "get", chunk |-> job[p].chunk]
  ELSE [kind |-> "idle"]

Store == INSTANCE ChunkStore
  WITH Clients <- Threads, content <- file, call <- [p \in Threads |-> Call(p)]

\* The files are the store the fetch path counts on: system calls of several
\* threads, failures, the sweep and kills, however they interleave, look like
\* Gets and Puts that happen at one moment.
ImplementsStore == Store!StoreSpec

\* A chunk's file goes only as one the walk has recorded, and a temporary file
\* that is not old only by its owner: tidying up directories takes no file from
\* a Put on its way.  (The reaper may: a Put whose write stalls until its file
\* is old loses it.)
TakesOnlyRecorded ==
  [][/\ \A c \in Chunks : file[c] # "none" /\ file'[c] = "none" => rec[c] > 0
     /\ \A t \in tmps \ tmps' :
          \/ t.old
          \/ \E n \in tmps' : [n EXCEPT !.old = t.old, !.owner = t.owner] = t
          \/ t.owner # Nobody /\ pc'[t.owner] # pc[t.owner]]_cacheVars

\* A Put or marker that fails leaves no temporary file: only a kill does, or a
\* removal that fails as well.
NoTmpLeft ==
  \A t \in tmps : IF t.owner = Nobody THEN faults > 0
                  ELSE pc[t.owner] \in {"write", "rename", "discard"}

\* The marker is there before the first chunk named by version, unless reading
\* or making it has failed, and what the process remembers of it is what the
\* next one will read.
MarkerFirst ==
  /\ (\E c \in Chunks : file[c] # "none") => marker # 0 \/ lost
  /\ since > 0 => marker = since

Kept == {c \in Chunks : file[c] # "none"} \ hist.added

\* When a sweep is over, what is left of the files there were when it began is
\* within the cap, and within nine tenths of it if anything was removed,
\* except for files that could not be removed.
SweepBound ==
  ev = "done" =>
    \/ Usage(Kept) <= IF hist.gone = {} THEN MaxBytes ELSE MaxBytes - MaxBytes \div 10
    \/ Kept \subseteq hist.failed

\* Of two files no one has used since the sweep began, it does not remove the
\* one used later and keep the other.
LeastRecentFirst ==
  ev = "done" =>
    \A f \in hist.gone \ hist.touched, g \in Kept \ (hist.touched \cup hist.failed) :
      used[f] <= used[g]

\* What a killed Put, or one that could not clean up, leaves behind goes away.
OrphansReaped == (\E t \in tmps : t.owner = Nobody) ~> (\A t \in tmps : t.owner # Nobody)

\* A shard over its cap comes back under it.
BackUnderCap == (Usage(Chunks) > MaxBytes) ~> (Usage(Chunks) <= MaxBytes)

=============================================================================
