------------------------- MODULE ObjectVersionsProofs -------------------------
(***************************************************************************)
(* Proofs about ObjectVersions, for any number of requests, chunks and     *)
(* re-uploads.                                                             *)
(*                                                                         *)
(* Files named by a version are right because a download is conditional on *)
(* the version (FlightTrue).  A response is right if, besides, a file      *)
(* named before versioning is opened only for the version it holds, or for *)
(* one uploaded in the marker's own second.  That needs the history of the *)
(* shard: the marker is older than every re-upload (Dated) and remembered  *)
(* as it is (Marked), and requests only ever serve versions from           *)
(* FirstVersion on (Known).  It holds on the condition LegacySafe; the run *)
(* LegacyStale shows what happens without.                                 *)
(***************************************************************************)
EXTENDS ObjectVersions, TLAPS

\* What a fetch has downloaded is the version it was started for.
FlightTrue ==
  \A i \in Chunks, v \in Versions : fst[<<i, v>>] \in {"put", "ok"} => fbytes[<<i, v>>] = v

\* A request works on a version, and its chunks are looked at, only while it
\* is served.
Serving ==
  \A r \in Requests :
    /\ rpc[r] \in {"answered", "fetch"} => ver[r] \in Versions
    /\ \A i \in Chunks : cst[r][i] # "todo" => rpc[r] = "fetch"
    /\ \A i \in Chunks : rpc[r] # "fetch" => got[r][i] = 0

\* The part of the invariant that needs nothing of the shard's past.
FileInv == VersionTypes /\ Serving /\ FlightTrue /\ FiledTrue

\* Under which chunks named before versioning do little harm: there are none,
\* or they hold the version current at the first start and the marker was made
\* then.
LegacySafe ==
  \/ LegacyBytes = 0
  \/ LegacyBytes = FirstVersion /\ ~MarkerFails

\* A byte of another version is from a chunk named before versioning, and is
\* served only for an upload in the second of the marker.
Apart ==
  \A r \in Requests, i \in Chunks :
    got[r][i] \in {0, ver[r]} \/ (LegacyBytes # 0 /\ MarkerSecond(ver[r]))

\* Files named before versioning are never written again.
LegacyKept == \A i \in Chunks : disk[<<i, 0>>] \in {0, LegacyBytes}

\* The versions in use are the ones since the first start.
Known ==
  /\ FirstVersion <= store
  /\ headVer # 0 => headVer \in FirstVersion..store
  /\ \A r \in Requests : rpc[r] \in {"answered", "fetch"} => ver[r] \in FirstVersion..store

\* While it matters the marker exists, is remembered as it is, and is not
\* from the future.
Marked == ~MarkerMayFail => marker \in 1..clock /\ since = marker

\* Re-uploads are not older than the marker.
Dated ==
  ~MarkerMayFail => \A v \in Versions : FirstVersion < v /\ v <= store => marker <= uploaded[v]

VersionInv == FileInv /\ LegacyKept /\ Known /\ Marked /\ Dated /\ Apart

-----------------------------------------------------------------------------

\* The values of an idle process have their types.
LEMMA NothingTyped ==
  /\ NoRequest \in [Requests -> {"idle", "ask", "answered", "fetch"}]
  /\ NoVersion \in [Requests -> Names]
  /\ NoChunk \in [Requests -> [Chunks -> {"todo", "legacy", "miss", "flight", "got", "gone", "err"}]]
  /\ NoBytes \in [Requests -> [Chunks -> Names]]
  /\ NoFlight \in [Chunks \X Versions -> {"none", "get", "put", "ok", "gone", "err"}]
  /\ NoBuffer \in [Chunks \X Versions -> Names]
BY DEF NoRequest, NoVersion, NoChunk, NoBytes, NoFlight, NoBuffer, Names

\* The marker is a time, or there is none.
LEMMA MarkerTyped ==
  ASSUME VersionTypes, MarkerTime
  PROVE  marker' \in Nat \cup {Absent} /\ since' \in Nat \cup {Absent}
BY DEF VersionTypes, MarkerTime

\* Nothing is served and nothing is named by a version at the first start.
LEMMA FileInit == VersionInit => FileInv
<1> SUFFICES ASSUME VersionInit PROVE FileInv
  OBVIOUS
<1> USE VersionAssumption
<1>1. VersionTypes
  <2>0. headFresh \in BOOLEAN
    BY Zenon DEF VersionInit
  <2>1. /\ store \in Versions /\ uploaded \in [Versions -> Nat] /\ clock \in Nat
        /\ headVer \in Names
    BY DEF VersionInit, Versions, Names
  <2>4. marker \in Nat \cup {Absent} /\ since \in Nat \cup {Absent}
    BY <2>1 DEF VersionInit
  <2>2. disk \in [Chunks \X Names -> Names]
    BY DEF VersionInit, Versions, Names
  <2>3. /\ rpc \in [Requests -> {"idle", "ask", "answered", "fetch"}]
        /\ ver \in [Requests -> Names]
        /\ cst \in [Requests -> [Chunks -> {"todo", "legacy", "miss", "flight", "got", "gone", "err"}]]
        /\ got \in [Requests -> [Chunks -> Names]]
        /\ fst \in [Chunks \X Versions -> {"none", "get", "put", "ok", "gone", "err"}]
        /\ fbytes \in [Chunks \X Versions -> Names]
    BY NothingTyped DEF VersionInit
  <2> QED BY <2>0, <2>1, <2>2, <2>3, <2>4 DEF VersionTypes
<1>2. Serving
  BY DEF VersionInit, Serving, NoRequest, NoChunk, NoBytes
<1>3. FlightTrue
  BY DEF VersionInit, FlightTrue, NoFlight
<1>4. FiledTrue
  BY DEF VersionInit, FiledTrue
<1> QED BY <1>1, <1>2, <1>3, <1>4 DEF FileInv

\* The steps of S3, the evictor and the HEAD cache.
LEMMA OutsideKeepsFiles ==
  ASSUME FileInv,
         \/ Upload \/ HeadExpires \/ HeadShed
         \/ \E i \in Chunks, n \in Names : Evict(i, n)
  PROVE  FileInv'
<1> USE VersionAssumption DEF FileInv, Versions, Names
<1>1. CASE Upload
  BY <1>1 DEF Upload, VersionTypes, Serving, FlightTrue, FiledTrue, shard, headVars, reqVars, flight
<1>3. CASE HeadExpires
  BY <1>3 DEF HeadExpires, VersionTypes, Serving, FlightTrue, FiledTrue, shard, upstream, reqVars, flight
<1>4. CASE HeadShed
  BY <1>4 DEF HeadShed, VersionTypes, Serving, FlightTrue, FiledTrue, shard, upstream, reqVars, flight
<1>5. ASSUME NEW i \in Chunks, NEW n \in Names, Evict(i, n)
      PROVE  FileInv'
  BY <1>5 DEF Evict, VersionTypes, Serving, FlightTrue, FiledTrue, headVars, upstream, reqVars, flight
<1> QED BY <1>1, <1>3, <1>4, <1>5

\* The steps of headObject.
LEMMA HeadKeepsFiles ==
  ASSUME FileInv, NEW r \in Requests,
         HeadHit(r) \/ HeadMiss(r) \/ HeadAnswer(r) \/ HeadPut(r) \/ HeadFails(r)
  PROVE  FileInv'
<1> USE VersionAssumption DEF FileInv, Versions, Names, shard, upstream, flight
<1>1. UNCHANGED <<upstream, shard, cst, got, flight>>
  BY DEF HeadHit, HeadMiss, HeadAnswer, HeadPut, HeadFails
<1>2. /\ rpc' \in [Requests -> {"idle", "ask", "answered", "fetch"}]
      /\ ver' \in [Requests -> Names]
      /\ headVer' \in Names /\ headFresh' \in BOOLEAN
  <2>1. CASE HeadHit(r)
    BY <2>1 DEF HeadHit, Adopt, VersionTypes, headVars
  <2>2. CASE HeadMiss(r)
    BY <2>2 DEF HeadMiss, VersionTypes, headVars
  <2>3. CASE HeadAnswer(r)
    BY <2>3 DEF HeadAnswer, VersionTypes, headVars
  <2>4. CASE HeadPut(r)
    BY <2>4 DEF HeadPut, VersionTypes
  <2>5. CASE HeadFails(r)
    BY <2>5 DEF HeadFails, Adopt, VersionTypes, headVars
  <2> QED BY <2>1, <2>2, <2>3, <2>4, <2>5
<1>3. VersionTypes'
  BY <1>1, <1>2 DEF VersionTypes
<1>4. Serving'
  BY <1>1 DEF HeadHit, HeadMiss, HeadAnswer, HeadPut, HeadFails, Adopt, VersionTypes, headVars, Serving
<1>5. FlightTrue' /\ FiledTrue'
  BY <1>1 DEF FlightTrue, FiledTrue
<1> QED BY <1>3, <1>4, <1>5

\* The steps of a request's chunks, and its end.
LEMMA ChunkKeepsFiles ==
  ASSUME FileInv, NEW r \in Requests,
         \/ EndRequest(r)
         \/ \E i \in Chunks : GetVersioned(r, i) \/ GetLegacy(r, i) \/ JoinFlight(r, i)
  PROVE  FileInv'
<1> USE VersionAssumption DEF FileInv, Versions, Names
<1>1. CASE EndRequest(r)
  <2>1. VersionTypes'
    BY <1>1 DEF EndRequest, VersionTypes, shard, upstream, headVars, flight
  <2>2. Serving'
    BY <1>1 DEF EndRequest, VersionTypes, Serving
  <2>3. FlightTrue' /\ FiledTrue'
    BY <1>1 DEF EndRequest, FlightTrue, FiledTrue, shard, flight
  <2> QED BY <2>1, <2>2, <2>3
<1>2. ASSUME NEW i \in Chunks, GetVersioned(r, i)
      PROVE  FileInv'
  <2>0. ver[r] \in Versions /\ disk[<<i, ver[r]>>] \in Names
    BY <1>2 DEF GetVersioned, VersionTypes, Serving
  <2>1. VersionTypes'
    <3>1. UNCHANGED <<upstream, shard, headVars, rpc, ver, flight>>
      BY <1>2 DEF GetVersioned
    <3>2. /\ cst' \in [Requests -> [Chunks -> {"todo", "legacy", "miss", "flight", "got", "gone", "err"}]]
          /\ got' \in [Requests -> [Chunks -> Names]]
      <4>1. CASE Give(r, i, disk[<<i, ver[r]>>])
        BY <2>0, <4>1 DEF Give, SetChunk, VersionTypes
      <4>2. ASSUME NEW s \in {"legacy", "miss"}, SetChunk(r, i, s), UNCHANGED got
            PROVE  /\ cst' \in [Requests -> [Chunks -> {"todo", "legacy", "miss", "flight", "got", "gone", "err"}]]
                   /\ got' \in [Requests -> [Chunks -> Names]]
        BY <4>2 DEF SetChunk, VersionTypes
      <4> QED BY <1>2, <4>1, <4>2 DEF GetVersioned
    <3> QED BY <3>1, <3>2 DEF VersionTypes, shard, upstream, headVars, flight
  <2>2. Serving'
    BY <1>2 DEF GetVersioned, Give, SetChunk, VersionTypes, Serving
  <2>3. FlightTrue' /\ FiledTrue'
    BY <1>2 DEF GetVersioned, FlightTrue, FiledTrue, shard, flight
  <2> QED BY <2>1, <2>2, <2>3
<1>3. ASSUME NEW i \in Chunks, GetLegacy(r, i)
      PROVE  FileInv'
  <2>0. disk[<<i, 0>>] \in Names
    BY DEF VersionTypes
  <2>1. VersionTypes'
    <3>1. UNCHANGED <<upstream, disk, headVars, rpc, ver, flight>> /\ MarkerTime
      BY <1>3 DEF GetLegacy
    <3>2. /\ cst' \in [Requests -> [Chunks -> {"todo", "legacy", "miss", "flight", "got", "gone", "err"}]]
          /\ got' \in [Requests -> [Chunks -> Names]]
      <4>1. CASE Give(r, i, disk[<<i, 0>>])
        BY <2>0, <4>1 DEF Give, SetChunk, VersionTypes
      <4>2. ASSUME NEW s \in {"legacy", "miss"}, SetChunk(r, i, s), UNCHANGED got
            PROVE  /\ cst' \in [Requests -> [Chunks -> {"todo", "legacy", "miss", "flight", "got", "gone", "err"}]]
                   /\ got' \in [Requests -> [Chunks -> Names]]
        BY <4>2 DEF SetChunk, VersionTypes
      <4> QED BY <1>3, <4>1, <4>2 DEF GetLegacy
    <3> QED BY <3>1, <3>2, MarkerTyped DEF VersionTypes, upstream, headVars, flight
  <2>2. Serving'
    BY <1>3 DEF GetLegacy, Give, SetChunk, VersionTypes, Serving
  <2>3. FlightTrue' /\ FiledTrue'
    BY <1>3 DEF GetLegacy, FlightTrue, FiledTrue, flight
  <2> QED BY <2>1, <2>2, <2>3
<1>4. ASSUME NEW i \in Chunks, JoinFlight(r, i)
      PROVE  FileInv'
  <2>1. VersionTypes'
    BY <1>4 DEF JoinFlight, SetChunk, VersionTypes, Serving, shard, upstream, headVars
  <2>2. Serving'
    BY <1>4 DEF JoinFlight, SetChunk, VersionTypes, Serving
  <2>3. FlightTrue' /\ FiledTrue'
    BY <1>4 DEF JoinFlight, VersionTypes, FlightTrue, FiledTrue, shard
  <2> QED BY <2>1, <2>2, <2>3
<1> QED BY <1>1, <1>2, <1>3, <1>4

\* The steps of a shared fetch: what it downloads is what it was asked for,
\* and Put files it under that name.
LEMMA FlightKeepsFiles ==
  ASSUME FileInv, NEW i \in Chunks, NEW v \in Versions, FlightStep(i, v)
  PROVE  FileInv'
<1> USE VersionAssumption DEF FileInv, Versions, Names
<1>1. CASE Download(i, v)
  BY <1>1 DEF Download, DownloadMatch, VersionTypes, Serving, FlightTrue, FiledTrue, shard, upstream, headVars, reqVars
<1>2. CASE DownloadRefused(i, v)
  BY <1>2 DEF DownloadRefused, DropHead, VersionTypes, Serving, FlightTrue, FiledTrue, shard, upstream, reqVars
<1>3. CASE DownloadFails(i, v)
  BY <1>3 DEF DownloadFails, VersionTypes, Serving, FlightTrue, FiledTrue, shard, upstream, headVars, reqVars
<1>4. CASE Put(i, v)
  <2>0. fbytes[<<i, v>>] = v /\ disk \in [Chunks \X Names -> Names]
    BY <1>4 DEF Put, FlightTrue, VersionTypes
  <2>1. VersionTypes'
    <3>1. UNCHANGED <<upstream, headVars, reqVars, fbytes>> /\ MarkerTime
      BY <1>4 DEF Put
    <3>2. disk' \in [Chunks \X Names -> Names]
      BY <1>4, <2>0 DEF Put
    <3>3. fst' \in [Chunks \X Versions -> {"none", "get", "put", "ok", "gone", "err"}]
      BY <1>4 DEF Put, VersionTypes
    <3> QED BY <3>1, <3>2, <3>3, MarkerTyped DEF VersionTypes, upstream, headVars, reqVars
  <2>2. Serving' /\ FlightTrue'
    BY <1>4 DEF Put, VersionTypes, Serving, FlightTrue, reqVars
  <2>3. FiledTrue'
    <3>1. ASSUME NEW j \in Chunks, NEW w \in Versions
          PROVE  disk'[<<j, w>>] \in {disk[<<j, w>>], w}
      <4>1. <<j, w>> \in Chunks \X Names
        OBVIOUS
      <4> QED BY <1>4, <2>0, <4>1 DEF Put
    <3> QED BY <3>1 DEF FiledTrue
  <2> QED BY <2>1, <2>2, <2>3
<1>5. CASE Publish(i, v)
  <2>1. /\ cst' \in [Requests -> [Chunks -> {"todo", "legacy", "miss", "flight", "got", "gone", "err"}]]
        /\ got' \in [Requests -> [Chunks -> Names]]
    BY <1>5 DEF Publish, VersionTypes
  <2>2. VersionTypes'
    BY <1>5, <2>1 DEF Publish, VersionTypes, shard, upstream, headVars
  <2>3. Serving'
    BY <1>5 DEF Publish, VersionTypes, Serving
  <2>4. FlightTrue' /\ FiledTrue'
    BY <1>5 DEF Publish, VersionTypes, FlightTrue, FiledTrue, shard
  <2> QED BY <2>2, <2>3, <2>4
<1> QED BY <1>1, <1>2, <1>3, <1>4, <1>5 DEF FlightStep

\* A restart loses memory and keeps the files.
LEMMA RestartKeepsFiles == ASSUME FileInv, Restart PROVE FileInv'
<1> USE VersionAssumption DEF FileInv, Versions, Names
<1>1. VersionTypes'
  <2>0. headFresh' \in BOOLEAN
    BY Zenon DEF Restart
  <2>1. headVer' \in Names
    BY DEF Restart
  <2>3. marker' \in Nat \cup {Absent} /\ since' \in Nat \cup {Absent}
    BY DEF Restart, VersionTypes
  <2>2. UNCHANGED <<upstream, disk>>
    BY DEF Restart
  <2> QED BY <2>0, <2>1, <2>2, <2>3, NothingTyped DEF Restart, VersionTypes, upstream
<1>2. Serving' /\ FlightTrue' /\ FiledTrue'
  BY DEF Restart, Serving, FlightTrue, FiledTrue, NoRequest, NoChunk, NoBytes, NoFlight
<1> QED BY <1>1, <1>2

\* Every step keeps files and fetches true.
LEMMA FileStep == FileInv /\ [VersionNext]_versionVars => FileInv'
<1> SUFFICES ASSUME FileInv, [VersionNext]_versionVars PROVE FileInv'
  OBVIOUS
<1>1. CASE UNCHANGED versionVars
  BY <1>1 DEF FileInv, VersionTypes, Serving, FlightTrue, FiledTrue, versionVars, upstream, shard, headVars, reqVars, flight
<1>2. ASSUME NEW r \in Requests, RequestStep(r) PROVE FileInv'
  BY <1>2, HeadKeepsFiles, ChunkKeepsFiles DEF RequestStep
<1> QED
  BY <1>1, <1>2, OutsideKeepsFiles, FlightKeepsFiles, RestartKeepsFiles DEF VersionNext

\* The types of the versioned cache, and that no request is served without a
\* HEAD.
THEOREM VersionTypeCorrect == VersionSpec => []VersionTypeOK
<1>1. FileInv => VersionTypeOK BY DEF FileInv, VersionTypeOK, Serving
<1> QED BY <1>1, FileInit, FileStep, PTL DEF VersionSpec

\* A file named by a version holds that version's bytes, whatever is
\* re-uploaded, evicted or restarted in between, and whatever the marker says.
THEOREM VersionFiledTrue == VersionSpec => []FiledTrue
<1>1. FileInv => FiledTrue BY DEF FileInv
<1> QED BY <1>1, FileInit, FileStep, PTL DEF VersionSpec

-----------------------------------------------------------------------------
(* Responses                                                               *)

\* The history of the shard and of the object at the first start.
LEMMA HistoryInit ==
  ASSUME VersionInit
  PROVE  LegacyKept /\ Known /\ Marked /\ Dated /\ Apart
<1> USE VersionAssumption
<1>1. LegacyKept
  BY DEF VersionInit, LegacyKept, Names
<1>2. Known
  BY DEF VersionInit, Known, NoRequest
<1>3. Marked
  BY DEF VersionInit, Marked
<1>4. Dated
  BY DEF VersionInit, Dated, Versions
<1>5. Apart
  BY DEF VersionInit, Apart, NoBytes
<1> QED BY <1>1, <1>2, <1>3, <1>4, <1>5

\* No step writes a file named before versioning.
LEMMA LegacyKeptStep ==
  ASSUME FileInv, LegacyKept, VersionNext
  PROVE  LegacyKept'
<1> USE DEF LegacyKept
<1>1. CASE UNCHANGED disk
  BY <1>1
<1>2. ASSUME NEW i \in Chunks, NEW n \in Names, Evict(i, n) PROVE LegacyKept'
  BY <1>2 DEF Evict, FileInv, VersionTypes, Names
<1>3. ASSUME NEW i \in Chunks, NEW v \in Versions, Put(i, v) PROVE LegacyKept'
  <2>1. ASSUME NEW j \in Chunks PROVE disk'[<<j, 0>>] = disk[<<j, 0>>]
    <3>1. v # 0 /\ <<j, 0>> # <<i, v>>
      BY VersionAssumption DEF Versions
    <3> QED BY <1>3, <3>1 DEF Put, FileInv, VersionTypes, Names
  <2> QED BY <2>1
<1>4. \/ UNCHANGED disk
      \/ \E i \in Chunks, n \in Names : Evict(i, n)
      \/ \E i \in Chunks, v \in Versions : Put(i, v)
  BY DEF VersionNext, RequestStep, FlightStep, shard, HeadHit, HeadMiss, HeadAnswer, HeadPut, HeadFails,
         EndRequest, GetVersioned, GetLegacy, JoinFlight, Download, DownloadRefused, DownloadFails, Publish,
         Upload, HeadExpires, HeadShed, Restart
<1> QED BY <1>1, <1>2, <1>3, <1>4

\* Versions only go up, and a HEAD, cached or not, tells one that was current.
LEMMA KnownStep ==
  ASSUME FileInv, Known, VersionNext
  PROVE  Known'
<1> USE VersionAssumption DEF FileInv, VersionTypes, Versions, Names
<1>1. CASE Upload
  BY <1>1 DEF Upload, Known, headVars, reqVars
<1>2. ASSUME NEW r \in Requests, RequestStep(r) PROVE Known'
  <2>1. UNCHANGED store
    BY <1>2 DEF RequestStep, upstream, HeadHit, HeadMiss, HeadAnswer, HeadPut, HeadFails, EndRequest,
                GetVersioned, GetLegacy, JoinFlight
  <2>2. CASE UNCHANGED <<headVer, rpc, ver>>
    BY <2>1, <2>2 DEF Known
  <2>3. CASE HeadHit(r)
    BY <2>1, <2>3 DEF HeadHit, Adopt, Known, headVars
  <2>4. CASE HeadMiss(r)
    BY <2>1, <2>4 DEF HeadMiss, Known, headVars
  <2>5. CASE HeadAnswer(r)
    BY <2>1, <2>5 DEF HeadAnswer, Known, headVars
  <2>6. CASE HeadPut(r)
    BY <2>1, <2>6 DEF HeadPut, Known
  <2>7. CASE HeadFails(r)
    BY <2>1, <2>7 DEF HeadFails, Adopt, Known, headVars
  <2>8. CASE EndRequest(r)
    BY <2>1, <2>8 DEF EndRequest, Known, headVars
  <2>9. CASE \E i \in Chunks : GetVersioned(r, i) \/ GetLegacy(r, i) \/ JoinFlight(r, i)
    BY <2>2, <2>9 DEF GetVersioned, GetLegacy, JoinFlight, headVars
  <2> QED BY <1>2, <2>3, <2>4, <2>5, <2>6, <2>7, <2>8, <2>9 DEF RequestStep
<1>3. ASSUME NEW i \in Chunks, NEW v \in Versions, FlightStep(i, v) PROVE Known'
  <2>1. UNCHANGED <<store, rpc, ver>> /\ headVer' \in {0, headVer}
    BY <1>3 DEF FlightStep, Download, DownloadRefused, DropHead, DownloadFails, Put, Publish, upstream, headVars, reqVars
  <2> QED BY <2>1 DEF Known
<1>4. CASE \/ HeadExpires \/ HeadShed
           \/ \E i \in Chunks, n \in Names : Evict(i, n)
  <2>1. UNCHANGED <<store, rpc, ver>> /\ headVer' \in {0, headVer}
    BY <1>4 DEF HeadExpires, HeadShed, Evict, upstream, headVars, reqVars
  <2> QED BY <2>1 DEF Known
<1>5. CASE Restart
  BY <1>5 DEF Restart, Known, NoRequest, upstream
<1> QED BY <1>1, <1>2, <1>3, <1>4, <1>5 DEF VersionNext

\* No unversioned file appears, so a marker that may not fail never could.
LEMMA LegacyOnlyGoes ==
  ASSUME FileInv, VersionNext, ~MarkerMayFail'
  PROVE  ~MarkerMayFail
<1> USE VersionAssumption DEF MarkerMayFail, NoLegacy, FileInv, VersionTypes, Versions, Names
<1>1. CASE UNCHANGED disk
  BY <1>1
<1>2. ASSUME NEW i \in Chunks, NEW v \in Versions, Put(i, v) PROVE ~MarkerMayFail
  BY <1>2 DEF Put
<1>3. ASSUME NEW i \in Chunks, NEW n \in Names, Evict(i, n) PROVE ~MarkerMayFail
  BY <1>3 DEF Evict
<1>4. \/ UNCHANGED disk
      \/ \E i \in Chunks, v \in Versions : Put(i, v)
      \/ \E i \in Chunks, n \in Names : Evict(i, n)
  BY DEF VersionNext, RequestStep, FlightStep, HeadHit, HeadMiss, HeadAnswer, HeadPut, HeadFails,
         EndRequest, GetVersioned, GetLegacy, JoinFlight, Download, DownloadRefused, DownloadFails,
         Publish, Upload, HeadExpires, HeadShed, Restart, shard
<1> QED BY <1>1, <1>2, <1>3, <1>4

\* The marker stays as it was made, and later uploads are later than it.
LEMMA MarkedStep ==
  ASSUME FileInv, Known, Marked, Dated, VersionNext
  PROVE  Marked' /\ Dated'
<1> SUFFICES ASSUME ~MarkerMayFail, ~MarkerMayFail' PROVE Marked' /\ Dated'
  BY LegacyOnlyGoes DEF Marked, Dated
<1> USE VersionAssumption DEF FileInv, VersionTypes, Versions
<1>0. marker \in 1..clock /\ since = marker /\ marker # Absent
  BY DEF Marked, Absent
<1>1. CASE Upload
  BY <1>0, <1>1 DEF Upload, Marked, Dated, Known, shard
<1>3. CASE Restart
  <2>1. UNCHANGED <<store, uploaded, clock, marker>> /\ since' = marker
    BY <1>0, <1>3 DEF Restart, upstream
  <2> QED BY <1>0, <2>1 DEF Marked, Dated
<1>4. CASE UNCHANGED <<store, uploaded, clock>> /\ (MarkerTime \/ UNCHANGED <<marker, since>>)
  <2>1. UNCHANGED <<marker, since>>
    BY <1>0, <1>4 DEF MarkerTime
  <2> QED BY <1>4, <2>1 DEF Marked, Dated
<1>5. ASSUME NEW r \in Requests, RequestStep(r) PROVE Marked' /\ Dated'
  <2>1. UNCHANGED upstream /\ (MarkerTime \/ UNCHANGED shard)
    BY <1>5 DEF RequestStep, HeadHit, HeadMiss, HeadAnswer, HeadPut, HeadFails, EndRequest, GetVersioned,
                GetLegacy, JoinFlight
  <2> QED BY <1>4, <2>1 DEF upstream, shard
<1>6. ASSUME NEW i \in Chunks, NEW v \in Versions, FlightStep(i, v) PROVE Marked' /\ Dated'
  <2>1. UNCHANGED upstream /\ (MarkerTime \/ UNCHANGED shard)
    BY <1>6 DEF FlightStep, Download, DownloadRefused, DownloadFails, Put, Publish
  <2> QED BY <1>4, <2>1 DEF upstream, shard
<1>7. CASE HeadExpires \/ HeadShed \/ \E i \in Chunks, n \in Names : Evict(i, n)
  BY <1>4, <1>7 DEF HeadExpires, HeadShed, Evict, upstream, shard
<1> QED BY <1>1, <1>3, <1>5, <1>6, <1>7 DEF VersionNext

\* A marker between the second an upload is dated to and the upload itself is
\* in that second.
LEMMA SameSecond ==
  ASSUME NEW k \in Nat \ {0}, NEW u \in Nat, NEW m \in Nat, (u \div k) * k < m, m <= u
  PROVE  u \div k = m \div k
<1> DEFINE q == u \div k
           p == m \div k
<1>1. q \in Nat /\ p \in Nat
  OBVIOUS
<1>2. u < q * k + k /\ p * k <= m /\ m < p * k + k
  OBVIOUS
<1>3. q * k \in Nat /\ p * k \in Nat
  BY <1>1
<1>4. q * k < p * k + k /\ p * k < q * k + k
  BY <1>2, <1>3
<1> HIDE DEF q, p
<1>5. ASSUME NEW a \in Nat, NEW b \in Nat, a * k < b * k + k PROVE a <= b
  <2> SUFFICES ASSUME b + 1 <= a PROVE FALSE
    OBVIOUS
  <2>1. PICK d \in Nat : a = b + 1 + d
    <3>1. a - (b + 1) \in Nat
      OBVIOUS
    <3> QED BY <3>1
  <2>2. a * k = b * k + k + d * k /\ d * k \in Nat /\ b * k \in Nat
    BY <2>1
  <2> QED BY <1>5, <2>2
<1>6. q = p
  BY <1>1, <1>4, <1>5
<1> QED BY <1>6 DEF q, p

\* A file named before versioning is opened only for the version it holds, or
\* for one uploaded in the second of the marker.
LEMMA LegacyRight ==
  ASSUME LegacySafe, FileInv, LegacyKept, Known, Marked, Dated,
         NEW r \in Requests, NEW i \in Chunks, GetLegacy(r, i),
         TrustsLegacy(ver[r], since'), disk[<<i, 0>>] # 0
  PROVE  disk[<<i, 0>>] = ver[r] \/ (LegacyBytes # 0 /\ MarkerSecond(ver[r])')
<1> USE VersionAssumption
<1>1. disk[<<i, 0>>] = LegacyBytes /\ LegacyBytes # 0
  BY DEF LegacyKept
<1>2. LegacyBytes = FirstVersion /\ ~MarkerFails
  BY <1>1 DEF LegacySafe
<1>3. ver[r] \in FirstVersion..store /\ ver[r] \in Versions
  BY DEF GetLegacy, FileInv, Serving, Known
<1>0. ~MarkerMayFail
  BY <1>2 DEF MarkerMayFail, NoLegacy
<1>4. marker \in 1..clock /\ marker \in Nat /\ since' = marker /\ marker' = marker
  <2>1. marker \in 1..clock /\ since = marker
    BY <1>0 DEF Marked
  <2>2. since # Absent /\ marker \in Nat
    BY <2>1 DEF Absent, FileInv, VersionTypes
  <2> QED BY <2>1, <2>2 DEF GetLegacy, MarkerTime
<1>5. uploaded[ver[r]] \in Nat
  BY <1>3 DEF FileInv, VersionTypes
<1>6. Modified(ver[r]) < marker
  BY <1>4 DEF TrustsLegacy
<1>7. CASE ver[r] = FirstVersion
  BY <1>1, <1>2, <1>7
<1>8. CASE ver[r] # FirstVersion
  <2>1. FirstVersion < ver[r] /\ ver[r] <= store
    BY <1>3, <1>8 DEF FileInv, VersionTypes, Versions
  <2>2. marker <= uploaded[ver[r]]
    BY <1>0, <1>3, <2>1 DEF Dated
  <2>3. uploaded[ver[r]] \div Second = marker \div Second
    <3> DEFINE u == uploaded[ver[r]]
    <3>1. (u \div Second) * Second < marker
      BY <1>6 DEF Modified
    <3> HIDE DEF u
    <3>2. u \in Nat /\ marker <= u
      BY <1>5, <2>2 DEF u
    <3>3. u \div Second = marker \div Second
      BY <1>4, <3>1, <3>2, SameSecond
    <3> QED BY <3>3 DEF u
  <2>4. UNCHANGED <<ver, uploaded>> /\ marker # Absent
    BY <1>4 DEF GetLegacy, upstream, Absent
  <2> QED BY <1>1, <1>4, <2>3, <2>4 DEF MarkerSecond
<1> QED BY <1>7, <1>8

\* A marker that is there stays, and so does the time of an upload.
LEMMA MarkerSecondStays ==
  ASSUME FileInv, VersionNext, NEW v \in Versions, v <= store, MarkerSecond(v)
  PROVE  MarkerSecond(v)'
<1> USE DEF FileInv, VersionTypes, Versions
<1>1. marker # Absent
  BY DEF MarkerSecond
<1>2. marker' = marker
  BY <1>1 DEF VersionNext, RequestStep, FlightStep, shard, HeadHit, HeadMiss, HeadAnswer, HeadPut,
         HeadFails, EndRequest, GetVersioned, GetLegacy, JoinFlight, Download, DownloadRefused,
         DownloadFails, Put, Publish, Upload, HeadExpires, HeadShed, Evict, Restart, MarkerTime
<1>3. uploaded'[v] = uploaded[v]
  <2>1. CASE Upload
    <3>1. v # store + 1
      BY VersionAssumption
    <3> QED BY <2>1, <3>1 DEF Upload
  <2>2. CASE ~Upload
    BY <2>2 DEF VersionNext, RequestStep, FlightStep, upstream, HeadHit, HeadMiss, HeadAnswer,
         HeadPut, HeadFails, EndRequest, GetVersioned, GetLegacy, JoinFlight, Download,
         DownloadRefused, DownloadFails, Put, Publish, HeadExpires, HeadShed, Evict, Restart
  <2> QED BY <2>1, <2>2
<1> QED BY <1>2, <1>3 DEF MarkerSecond

\* Whatever a request is given belongs to its version, or comes from a chunk
\* named before versioning in the one case LegacyRight leaves.
LEMMA ApartStep ==
  ASSUME LegacySafe, FileInv, LegacyKept, Known, Marked, Dated, Apart, VersionNext
  PROVE  Apart'
<1> DEFINE Fits(q, b) == b \in {0, ver[q]} \/ (LegacyBytes # 0 /\ MarkerSecond(ver[q]))
           FitsNow(q, b) == b \in {0, ver'[q]} \/ (LegacyBytes # 0 /\ MarkerSecond(ver[q])')
<1>1. ASSUME NEW q \in Requests, NEW j \in Chunks, ver'[q] = ver[q], got'[q][j] = got[q][j]
      PROVE  FitsNow(q, got'[q][j])
  <2>1. Fits(q, got[q][j])
    BY DEF Apart
  <2>2. CASE got[q][j] \in {0, ver[q]}
    BY <1>1, <2>2
  <2>3. CASE got[q][j] # 0 /\ LegacyBytes # 0 /\ MarkerSecond(ver[q])
    <3>1. rpc[q] = "fetch"
      BY <2>3 DEF FileInv, Serving
    <3>2. ver[q] \in Versions /\ ver[q] <= store
      BY <3>1, VersionAssumption DEF FileInv, Serving, Known, VersionTypes, Versions
    <3>3. MarkerSecond(ver[q])'
      <4>1. PICK v \in Versions : v = ver[q]
        BY <3>2
      <4>2. MarkerSecond(v)
        BY <2>3, <4>1
      <4>3. MarkerSecond(v)'
        BY <3>2, <4>1, <4>2, MarkerSecondStays
      <4> QED BY <1>1, <4>1, <4>3 DEF MarkerSecond
    <3> QED BY <2>3, <3>3
  <2> QED BY <2>1, <2>2, <2>3
<1>2. ASSUME NEW r \in Requests,
             HeadHit(r) \/ HeadAnswer(r) \/ HeadFails(r)
      PROVE  Apart'
  <2>1. UNCHANGED got /\ rpc[r] # "fetch"
    BY <1>2 DEF HeadHit, HeadAnswer, HeadFails
  <2>2. \A j \in Chunks : got[r][j] = 0
    BY <2>1 DEF FileInv, Serving
  <2>3. \A q \in Requests : q # r => ver'[q] = ver[q]
    BY <1>2 DEF HeadHit, HeadAnswer, HeadFails, Adopt, FileInv, VersionTypes
  <2> QED BY <1>1, <2>1, <2>2, <2>3 DEF Apart
<1>3. ASSUME NEW r \in Requests, EndRequest(r) PROVE Apart'
  <2>1. \A q \in Requests, j \in Chunks :
          (ver'[q] = ver[q] /\ got'[q][j] = got[q][j]) \/ got'[q][j] = 0
    BY <1>3 DEF EndRequest, FileInv, VersionTypes
  <2> QED BY <1>1, <2>1 DEF Apart
<1>4. ASSUME NEW r \in Requests, NEW i \in Chunks, NEW b, FitsNow(r, b),
             Give(r, i, b), UNCHANGED ver
      PROVE  Apart'
  <2>1. ASSUME NEW q \in Requests, NEW j \in Chunks PROVE FitsNow(q, got'[q][j])
    <3>1. CASE q = r /\ j = i
      <4>1. got'[q][j] = b
        BY <1>4, <3>1 DEF Give, FileInv, VersionTypes
      <4> QED BY <1>4, <3>1, <4>1
    <3>2. CASE ~(q = r /\ j = i)
      <4>1. got'[q][j] = got[q][j]
        BY <1>4, <3>2 DEF Give, FileInv, VersionTypes
      <4> QED BY <1>1, <1>4, <4>1
    <3> QED BY <3>1, <3>2
  <2> QED BY <2>1 DEF Apart
<1>5. ASSUME NEW r \in Requests, NEW i \in Chunks, GetVersioned(r, i) PROVE Apart'
  <2>1. UNCHANGED ver
    BY <1>5 DEF GetVersioned
  <2>2. disk[<<i, ver[r]>>] \in {0, ver[r]}
    BY <1>5 DEF GetVersioned, FileInv, Serving, FiledTrue
  <2>3. CASE UNCHANGED got
    BY <1>1, <2>1, <2>3 DEF Apart
  <2> QED BY <1>4, <1>5, <2>1, <2>2, <2>3 DEF GetVersioned
<1>6. ASSUME NEW r \in Requests, NEW i \in Chunks, GetLegacy(r, i) PROVE Apart'
  <2>1. UNCHANGED ver
    BY <1>6 DEF GetLegacy
  <2>2. CASE TrustsLegacy(ver[r], since') /\ disk[<<i, 0>>] # 0
    <3>1. FitsNow(r, disk[<<i, 0>>])
      BY <1>6, <2>1, <2>2, LegacyRight
    <3>2. Give(r, i, disk[<<i, 0>>])
      BY <1>6, <2>2 DEF GetLegacy
    <3> QED BY <1>4, <2>1, <3>1, <3>2
  <2>3. CASE ~(TrustsLegacy(ver[r], since') /\ disk[<<i, 0>>] # 0)
    BY <1>1, <1>6, <2>1, <2>3 DEF GetLegacy, Apart
  <2> QED BY <2>2, <2>3
<1>7. ASSUME NEW i \in Chunks, NEW v \in Versions, Publish(i, v) PROVE Apart'
  <2>1. UNCHANGED ver
    BY <1>7 DEF Publish
  <2>2. fst[<<i, v>>] = "ok" => fbytes[<<i, v>>] = v
    BY DEF FileInv, FlightTrue
  <2>3. ASSUME NEW q \in Requests, NEW j \in Chunks
        PROVE  got'[q][j] = got[q][j] \/ got'[q][j] = ver[q]
    BY <1>7, <2>2 DEF Publish, FileInv, VersionTypes
  <2> QED BY <1>1, <2>1, <2>3 DEF Apart
<1>8. CASE Restart
  BY <1>8 DEF Restart, NoBytes, Apart
<1>9. \/ UNCHANGED <<got, ver>> \/ Restart
      \/ \E r \in Requests :
           \/ HeadHit(r) \/ HeadAnswer(r) \/ HeadFails(r) \/ EndRequest(r)
           \/ \E i \in Chunks : GetVersioned(r, i) \/ GetLegacy(r, i)
      \/ \E i \in Chunks, v \in Versions : Publish(i, v)
  BY DEF VersionNext, RequestStep, FlightStep, reqVars, HeadMiss, HeadPut, JoinFlight,
         Download, DownloadRefused, DownloadFails, Put, Evict, Upload, HeadExpires, HeadShed
<1>10. CASE UNCHANGED <<got, ver>>
  BY <1>1, <1>10 DEF Apart
<1> QED BY <1>2, <1>3, <1>5, <1>6, <1>7, <1>8, <1>9, <1>10

\* The invariant of the responses, on the condition LegacySafe.
LEMMA ResponsesApart ==
  ASSUME LegacySafe
  PROVE  VersionSpec => []VersionInv
<1>1. VersionInit => VersionInv
  BY FileInit, HistoryInit DEF VersionInv
<1>2. VersionInv /\ [VersionNext]_versionVars => VersionInv'
  <2> SUFFICES ASSUME VersionInv, [VersionNext]_versionVars PROVE VersionInv'
    OBVIOUS
  <2>1. FileInv'
    BY FileStep DEF VersionInv
  <2>2. CASE VersionNext
    BY <2>1, <2>2, LegacyKeptStep, KnownStep, MarkedStep, ApartStep DEF VersionInv
  <2>3. CASE UNCHANGED versionVars
    BY <2>1, <2>3 DEF VersionInv, LegacyKept, Known, Marked, Dated, MarkerMayFail, NoLegacy, Apart,
                      MarkerSecond, versionVars, upstream, shard,
                      headVars, reqVars, flight
  <2> QED BY <2>2, <2>3
<1> QED BY <1>1, <1>2, PTL DEF VersionSpec

\* With chunks from before versioning that were right when the marker was made,
\* a response has bytes of another version only if its own was uploaded in the
\* second of the marker, however many ticks a second has.
THEOREM VersionSeparated ==
  ASSUME LegacySafe
  PROVE  VersionSpec => []Separated
<1>1. VersionInv => Separated
  BY DEF VersionInv, Apart, Separated
<1> QED BY <1>1, ResponsesApart, PTL

\* Without such chunks no response mixes versions, or sends one version's bytes
\* under another's ETag, whatever happens to the marker.
THEOREM VersionOneVersion ==
  ASSUME LegacyBytes = 0
  PROVE  VersionSpec => []OneVersion
<1>1. VersionInv => OneVersion
  BY DEF VersionInv, Apart, OneVersion
<1> QED BY <1>1, ResponsesApart, PTL DEF LegacySafe

=============================================================================
