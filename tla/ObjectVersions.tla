---------------------------- MODULE ObjectVersions ----------------------------
(***************************************************************************)
(* Serving an object that is re-uploaded under its key                     *)
(* (services/fetcher.go: headObject, download, openRange;                  *)
(* services/head_cache.go; services/cache.go: path, markers, Get, Put).    *)
(*                                                                         *)
(* One key.  Its object goes through versions 1, 2, ...: each has an ETag  *)
(* of its own, and is named here by its number.  A request learns the      *)
(* version from a cached or a new HEAD, and then wants every chunk of that *)
(* version: from the file named by the version, from a file named before   *)
(* versioning was introduced if the shard's marker says so, or from        *)
(* upstream on condition that the object still has the version.  Fetches   *)
(* are shared by chunk and version and outlive their requests.  Meanwhile  *)
(* the object is replaced, entries expire, files are evicted, the process  *)
(* restarts.                                                               *)
(*                                                                         *)
(* Time is counted in ticks, Second of them to a second.  The marker keeps *)
(* the tick, Last-Modified only the second.                                *)
(***************************************************************************)
EXTENDS Integers

CONSTANTS
  Requests,       \* requests served at the same time; each may come again
  Chunks,         \* the chunks of the object
  MaxVersion,     \* bound on re-uploads
  MaxClock,       \* bound on time
  Second,         \* ticks per second
  FirstTick,      \* the tick of the process's first start
  FirstVersion,   \* the object's version when the process first starts
  LegacyBytes,    \* the version unversioned chunk files hold, 0 if none exist
  MarkerFails     \* may the marker of a shard with unversioned files be unreadable?

ASSUME VersionAssumption ==
  /\ MaxVersion \in Nat \ {0}
  /\ Second \in Nat \ {0}
  /\ FirstTick \in Nat \ {0}
  /\ MaxClock \in Nat /\ FirstTick <= MaxClock
  /\ FirstVersion \in 1..MaxVersion
  /\ LegacyBytes \in 0..FirstVersion
  /\ MarkerFails \in BOOLEAN

VARIABLES
  store,      \* the object's version in S3
  uploaded,   \* the tick each version was uploaded at
  clock,      \* now, as far as uploads and the marker tell
  disk,       \* disk[<<i, n>>]: whose bytes are in chunk i's file of name n
  marker,     \* the time in the shard's marker file, or Absent
  since,      \* DiskCache.since: that time, 0 if unknown, Absent if unread
  headVer,    \* headCache: the version in the key's entry, 0 without one
  headFresh,  \* is the entry within its TTL?
  rpc,        \* where each request is
  ver,        \* the version its HEAD gave it
  cst,        \* where each of its chunks is
  got,        \* whose bytes it was given for each chunk, 0 for none yet
  fst,        \* where the shared fetch of each chunk and version is
  fbytes      \* whose bytes that fetch downloaded

upstream == <<store, uploaded, clock>>
shard    == <<disk, marker, since>>
headVars == <<headVer, headFresh>>
reqVars  == <<rpc, ver, cst, got>>
flight   == <<fst, fbytes>>
versionVars == <<upstream, shard, headVars, reqVars, flight>>

Versions == 1..MaxVersion

\* No marker file, or one not read yet.
Absent == -1

\* The name of a chunk's file carries the ETag; name 0 is the one without.
Names == {0} \cup Versions

VersionTypes ==
  /\ store \in Versions
  /\ uploaded \in [Versions -> Nat]
  /\ clock \in Nat
  /\ disk \in [Chunks \X Names -> Names]
  /\ marker \in Nat \cup {Absent}
  /\ since \in Nat \cup {Absent}
  /\ headVer \in Names
  /\ headFresh \in BOOLEAN
  /\ rpc \in [Requests -> {"idle", "ask", "answered", "fetch"}]
  /\ ver \in [Requests -> Names]
  /\ cst \in [Requests -> [Chunks -> {"todo", "legacy", "miss", "flight", "got", "gone", "err"}]]
  /\ got \in [Requests -> [Chunks -> Names]]
  /\ fst \in [Chunks \X Versions -> {"none", "get", "put", "ok", "gone", "err"}]
  /\ fbytes \in [Chunks \X Versions -> Names]

\* Types; and Get never works on a missing HEAD, which it would dereference.
VersionTypeOK ==
  /\ VersionTypes
  /\ \A r \in Requests : rpc[r] = "fetch" => ver[r] \in Versions

\* No chunk file without a version is left on the shard.
NoLegacy == \A i \in Chunks : disk[<<i, 0>>] = 0

\* The marker may be missing at the start, or unreadable.
MarkerMayFail == MarkerFails \/ NoLegacy

\* Nothing is being served.
NoRequest == [r \in Requests |-> "idle"]
NoVersion == [r \in Requests |-> 0]
NoChunk   == [r \in Requests |-> [i \in Chunks |-> "todo"]]
NoBytes   == [r \in Requests |-> [i \in Chunks |-> 0]]
NoFlight  == [f \in Chunks \X Versions |-> "none"]
NoBuffer  == [f \in Chunks \X Versions |-> 0]

\* The release that introduced versioning starts for the first time, on a
\* shard that may hold chunks named without a version, and makes its marker.
VersionInit ==
  /\ store = FirstVersion
  /\ uploaded = [v \in Versions |-> 0]
  /\ clock = FirstTick
  /\ disk \in [Chunks \X Names -> {0, LegacyBytes}]
  /\ \A i \in Chunks, v \in Versions : disk[<<i, v>>] = 0
  /\ \/ marker = clock /\ since = clock
     \/ MarkerMayFail /\ marker = Absent /\ since \in {Absent, 0}
  /\ headVer = 0 /\ headFresh = FALSE
  /\ rpc = NoRequest /\ ver = NoVersion
  /\ cst = NoChunk /\ got = NoBytes
  /\ fst = NoFlight /\ fbytes = NoBuffer

-----------------------------------------------------------------------------
(* S3                                                                      *)

\* Last-Modified, as an HTTP header gives it.
Modified(v) == (uploaded[v] \div Second) * Second

\* The object is replaced under its key, in this tick or a later one.
Upload ==
  /\ store < MaxVersion
  /\ store' = store + 1
  /\ clock' \in clock..MaxClock
  /\ uploaded' = [uploaded EXCEPT ![store + 1] = clock']
  /\ UNCHANGED <<shard, headVars, reqVars, flight>>

-----------------------------------------------------------------------------
(* The disk cache                                                          *)

\* versionedSince: the marker is read, or made, once; an unknown time is
\* remembered too.
MarkerTime ==
  \/ since # Absent /\ UNCHANGED <<marker, since>>
  \/ since = Absent /\ marker # Absent /\ since' = marker /\ UNCHANGED marker
  \/ since = Absent /\ marker = Absent /\ marker' = clock /\ since' = clock
  \/ since = Absent /\ MarkerMayFail /\ since' = 0 /\ UNCHANGED marker

\* A plausible slip: an old chunk is good for any version.
TrustsLegacy_Always(v, t) == TRUE

\* May a chunk named without a version stand for version v?
TrustsLegacy(v, t) == t = 0 \/ Modified(v) < t

\* The evictor removes any chunk file, and never the marker.
Evict(i, n) ==
  /\ disk[<<i, n>>] # 0
  /\ disk' = [disk EXCEPT ![<<i, n>>] = 0]
  /\ UNCHANGED <<upstream, marker, since, headVars, reqVars, flight>>

-----------------------------------------------------------------------------
(* headObject and the HEAD cache                                           *)

\* The request goes on with version v, at its first chunk lookups.
Adopt(r, v) ==
  /\ rpc' = [rpc EXCEPT ![r] = "fetch"]
  /\ ver' = [ver EXCEPT ![r] = v]

\* A plausible slip: an entry past its TTL still answers.
HeadHit_Stale(r) ==
  /\ rpc[r] = "idle"
  /\ headVer # 0
  /\ Adopt(r, headVer)
  /\ UNCHANGED <<upstream, shard, headVars, cst, got, flight>>

\* A fresh entry answers.
HeadHit(r) ==
  /\ rpc[r] = "idle"
  /\ headVer # 0 /\ headFresh
  /\ Adopt(r, headVer)
  /\ UNCHANGED <<upstream, shard, headVars, cst, got, flight>>

\* Without one, upstream is asked.
HeadMiss(r) ==
  /\ rpc[r] = "idle"
  /\ ~(headVer # 0 /\ headFresh)
  /\ rpc' = [rpc EXCEPT ![r] = "ask"]
  /\ UNCHANGED <<upstream, shard, headVars, ver, cst, got, flight>>

\* Upstream answers with the version it has now.
HeadAnswer(r) ==
  /\ rpc[r] = "ask"
  /\ rpc' = [rpc EXCEPT ![r] = "answered"]
  /\ ver' = [ver EXCEPT ![r] = store]
  /\ UNCHANGED <<upstream, shard, headVars, cst, got, flight>>

\* Later the answer is put into the cache, with a TTL from then.
HeadPut(r) ==
  /\ rpc[r] = "answered"
  /\ headVer' = ver[r] /\ headFresh' = TRUE
  /\ rpc' = [rpc EXCEPT ![r] = "fetch"]
  /\ UNCHANGED <<upstream, shard, ver, cst, got, flight>>

\* A plausible slip: the entry is used without a check that there is one.
HeadFails_Unchecked(r) ==
  /\ rpc[r] = "ask"
  /\ Adopt(r, headVer)
  /\ UNCHANGED <<upstream, shard, headVars, cst, got, flight>>

\* The HEAD fails: an entry of any age will do, otherwise the request fails.
HeadFails(r) ==
  /\ rpc[r] = "ask"
  /\ IF headVer # 0
       THEN Adopt(r, headVer)
       ELSE /\ rpc' = [rpc EXCEPT ![r] = "idle"]
                      /\ UNCHANGED ver
  /\ UNCHANGED <<upstream, shard, headVars, cst, got, flight>>

\* The entry's TTL passes; it stays as a fallback.
HeadExpires ==
  /\ headFresh
  /\ headFresh' = FALSE
  /\ UNCHANGED <<upstream, shard, headVer, reqVars, flight>>

\* headCache.drop: the entry goes, and with it the fallback.
DropHead == headVer' = 0 /\ headFresh' = FALSE

\* The put of another key finds the cache full and sheds this entry.
HeadShed ==
  /\ headVer # 0
  /\ headVer' = 0 /\ headFresh' = FALSE
  /\ UNCHANGED <<upstream, shard, reqVars, flight>>

-----------------------------------------------------------------------------
(* Chunks of a request                                                     *)

SetChunk(r, i, s) == cst' = [cst EXCEPT ![r][i] = s]

\* The request is given the bytes b as its chunk i.
Give(r, i, b) ==
  /\ SetChunk(r, i, "got")
  /\ got' = [got EXCEPT ![r][i] = b]

\* DiskCache.Get opens the file named by the version.
GetVersioned(r, i) ==
  /\ rpc[r] = "fetch" /\ cst[r][i] = "todo"
  /\ IF disk[<<i, ver[r]>>] # 0
       THEN Give(r, i, disk[<<i, ver[r]>>])
       ELSE SetChunk(r, i, "legacy") /\ UNCHANGED got
  /\ UNCHANGED <<upstream, shard, headVars, rpc, ver, flight>>

\* It is not there: Get tries the name without a version, if that is trusted.
GetLegacy(r, i) ==
  /\ cst[r][i] = "legacy"
  /\ MarkerTime
  /\ IF TrustsLegacy(ver[r], since') /\ disk[<<i, 0>>] # 0
       THEN Give(r, i, disk[<<i, 0>>])
       ELSE SetChunk(r, i, "miss") /\ UNCHANGED got
  /\ UNCHANGED <<upstream, disk, headVars, rpc, ver, flight>>

\* The miss joins the fetch of this chunk and version, or starts it.
JoinFlight(r, i) ==
  /\ cst[r][i] = "miss"
  /\ SetChunk(r, i, "flight")
  /\ fst' = [fst EXCEPT ![<<i, ver[r]>>] = IF @ = "none" THEN "get" ELSE @]
  /\ UNCHANGED <<upstream, shard, headVars, rpc, ver, got, fbytes>>

\* The response is complete, has failed, or nobody reads it any more.
EndRequest(r) ==
  /\ rpc[r] = "fetch"
  /\ rpc' = [rpc EXCEPT ![r] = "idle"]
  /\ ver' = [ver EXCEPT ![r] = 0]
  /\ cst' = [cst EXCEPT ![r] = [i \in Chunks |-> "todo"]]
  /\ got' = [got EXCEPT ![r] = [i \in Chunks |-> 0]]
  /\ UNCHANGED <<upstream, shard, headVars, flight>>

-----------------------------------------------------------------------------
(* The shared, detached fetch of chunk i of version v                      *)

\* A plausible slip: the GET is not conditional on the version.
DownloadMatch_Any(v) == TRUE

\* If-Match: upstream serves the bytes only while it has the version.
DownloadMatch(v) == store = v

\* The GET succeeds.
Download(i, v) ==
  /\ fst[<<i, v>>] = "get"
  /\ DownloadMatch(v)
  /\ fst' = [fst EXCEPT ![<<i, v>>] = "put"]
  /\ fbytes' = [fbytes EXCEPT ![<<i, v>>] = store]
  /\ UNCHANGED <<upstream, shard, headVars, reqVars>>

\* 412: the object has changed since the HEAD, whose entry is dropped.
DownloadRefused(i, v) ==
  /\ fst[<<i, v>>] = "get"
  /\ ~DownloadMatch(v)
  /\ fst' = [fst EXCEPT ![<<i, v>>] = "gone"]
  /\ DropHead
  /\ UNCHANGED <<upstream, shard, reqVars, fbytes>>

\* Any other failure: no unit, no connection, a short body.
DownloadFails(i, v) ==
  /\ fst[<<i, v>>] = "get"
  /\ fst' = [fst EXCEPT ![<<i, v>>] = "err"]
  /\ UNCHANGED <<upstream, shard, headVars, reqVars, fbytes>>

\* Put files the bytes under the version asked for, or fails.
Put(i, v) ==
  /\ fst[<<i, v>>] = "put"
  /\ MarkerTime
  /\ \/ disk' = [disk EXCEPT ![<<i, v>>] = fbytes[<<i, v>>]]
     \/ UNCHANGED disk
  /\ fst' = [fst EXCEPT ![<<i, v>>] = "ok"]
  /\ UNCHANGED <<upstream, headVars, reqVars, fbytes>>

\* The fetch is over for everyone who waits for it.
Publish(i, v) ==
  /\ fst[<<i, v>>] \in {"ok", "gone", "err"}
  /\ LET waits(r) == ver[r] = v /\ cst[r][i] = "flight"
         ok == fst[<<i, v>>] = "ok"
     IN  /\ cst' = [r \in Requests |->
                      IF waits(r) THEN [cst[r] EXCEPT ![i] = IF ok THEN "got" ELSE fst[<<i, v>>]]
                                  ELSE cst[r]]
         /\ got' = [r \in Requests |->
                      IF waits(r) /\ ok THEN [got[r] EXCEPT ![i] = fbytes[<<i, v>>]]
                                        ELSE got[r]]
  /\ fst' = [fst EXCEPT ![<<i, v>>] = "none"]
  /\ fbytes' = [fbytes EXCEPT ![<<i, v>>] = 0]
  /\ UNCHANGED <<upstream, shard, headVars, rpc, ver>>

\* The process stops at any point and starts again: memory is lost, the
\* shard is not, and its marker is read at the start if it can be.
Restart ==
  /\ rpc' = NoRequest /\ ver' = NoVersion
  /\ cst' = NoChunk /\ got' = NoBytes
  /\ fst' = NoFlight /\ fbytes' = NoBuffer
  /\ headVer' = 0 /\ headFresh' = FALSE
  /\ \/ marker # Absent /\ since' = marker /\ UNCHANGED marker
     \/ marker = Absent /\ marker' = clock /\ since' = clock
     \/ MarkerMayFail /\ since' \in {Absent, 0} /\ UNCHANGED marker
  /\ UNCHANGED <<upstream, disk>>

-----------------------------------------------------------------------------

RequestStep(r) ==
  \/ HeadHit(r) \/ HeadMiss(r) \/ HeadAnswer(r) \/ HeadPut(r) \/ HeadFails(r)
  \/ EndRequest(r)
  \/ \E i \in Chunks : GetVersioned(r, i) \/ GetLegacy(r, i) \/ JoinFlight(r, i)

FlightStep(i, v) ==
  \/ Download(i, v) \/ DownloadRefused(i, v) \/ DownloadFails(i, v)
  \/ Put(i, v) \/ Publish(i, v)

VersionNext ==
  \/ \E r \in Requests : RequestStep(r)
  \/ \E i \in Chunks, v \in Versions : FlightStep(i, v)
  \/ \E i \in Chunks, n \in Names : Evict(i, n)
  \/ Upload \/ HeadExpires \/ HeadShed \/ Restart

VersionSpec == VersionInit /\ [][VersionNext]_versionVars

\* Goroutines run, responses end, entries expire, and upstream does not fail
\* every HEAD for ever.
VersionFairness ==
  /\ \A r \in Requests :
       /\ SF_versionVars(HeadAnswer(r))
       /\ WF_versionVars(HeadPut(r))
       /\ WF_versionVars(EndRequest(r))
  /\ WF_versionVars(HeadExpires)
  /\ \A i \in Chunks, v \in Versions : WF_versionVars(FlightStep(i, v))

FairVersionSpec == VersionSpec /\ VersionFairness

-----------------------------------------------------------------------------
(* Properties                                                              *)

\* Every byte of a response belongs to the version its HEAD named: no answer
\* mixes two versions or puts one version's bytes under another's ETag.
OneVersion ==
  \A r \in Requests, i \in Chunks : got[r][i] \in {0, ver[r]}

\* Version v was uploaded within the second in which the marker was made, so
\* that its Last-Modified may be before the marker though the upload is not.
MarkerSecond(v) == marker # Absent /\ uploaded[v] \div Second = marker \div Second

\* With chunks left from before versioning, a response has a byte of another
\* version only if its own was uploaded in the second of the marker.
Separated ==
  \A r \in Requests, i \in Chunks : got[r][i] \in {0, ver[r]} \/ MarkerSecond(ver[r])

\* A file named by a version holds that version's bytes, across re-uploads,
\* evictions and restarts, whenever the fetch that wrote it began.
FiledTrue ==
  \A i \in Chunks, v \in Versions : disk[<<i, v>>] \in {0, v}

\* After the last re-upload the old version is served for a while, but not
\* for ever, even from a cache that holds all of it.
ReuploadServed ==
  <>[](\A r \in Requests : rpc[r] = "fetch" => ver[r] = store)

-----------------------------------------------------------------------------
(* Promises the code does not keep                                         *)

\* What is cached of a key is served until its files go, whatever the ETag: a
\* lookup passes over a chunk only if no file of it is on the shard.
NoInvalidation ==
  [][\A r \in Requests, i \in Chunks :
        cst[r][i] = "todo" /\ cst'[r][i] = "legacy" =>
          \A n \in Names : disk[<<i, n>>] = 0]_versionVars

\* After a 412 the next request sees the new version: while a request that
\* got one is still served, no entry answers with its version unasked.
RefutedForgotten ==
  \A r \in Requests, i \in Chunks : cst[r][i] = "gone" => ~(headFresh /\ headVer = ver[r])

=============================================================================
