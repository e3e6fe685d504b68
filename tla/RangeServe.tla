------------------------------ MODULE RangeServe ------------------------------
(***************************************************************************)
(* Which bytes a response holds: Web.handle and parseRange (web.go), Head, *)
(* Get and the chunk arithmetic of serveAligned (fetcher.go), writeSlice   *)
(* (chunk.go) and the extents readahead fetches (readahead.go).            *)
(*                                                                         *)
(* One object of one version; a byte is its offset.  Requests come one     *)
(* after the other and leave chunk files behind, named by their offset     *)
(* only.  How chunks are fetched and shared is ChunkFetch's and            *)
(* ServeAligned's matter: here a chunk is found, fetched or fails.         *)
(* Offsets are far below 2^63 (S3 objects end at 5 TiB), so that integers  *)
(* are unbounded here.                                                     *)
(***************************************************************************)
EXTENDS Integers, Sequences, FiniteSets

CONSTANTS
  MaxSize,          \* bound on the object's size
  ChunkSizes,       \* the values of CHUNK_SIZE the process is started with
  ReadaheadChunks   \* READAHEAD_CHUNKS

ASSUME RangeAssumption ==
  /\ MaxSize \in Nat
  /\ ChunkSizes # {} /\ ChunkSizes \subseteq Nat \ {0}
  /\ ReadaheadChunks \in Nat

VARIABLES
  size,       \* the object's size, as its HEAD gives it
  chunkSize,  \* Fetcher.chunkSize
  files,      \* files[o]: the size of the chunk file for offset o, 0 if none
  ahead,      \* chunks readahead goroutines have been started for
  pc,         \* where the request is
  req,        \* the request
  span,       \* start and end of the bytes to serve
  at,         \* the chunk the consumer is at
  resp,       \* status and headers of the response
  body        \* the bytes sent

requestVars == <<pc, req, span, at, resp, body>>
cacheVars   == <<size, chunkSize, files, ahead>>
rangeVars   == <<cacheVars, requestVars>>

\* A Range header: absent, malformed (another unit, several ranges, no dash,
\* no numbers), a-b, a- or -a.  A number after a dash may be negative.
RangeHeaders ==
  [kind : {"none", "malformed"}, a : {0}, b : {0}]
    \cup [kind : {"from"}, a : 0..MaxSize+1, b : {0}]
    \cup [kind : {"span"}, a : 0..MaxSize+1, b : -1..MaxSize+1]
    \cup [kind : {"suffix"}, a : -1..MaxSize+1, b : {0}]

RequestInputs == [method : {"GET", "HEAD", "POST"}, key : BOOLEAN, range : RangeHeaders]

NoAnswer == [status |-> 0, length |-> 0, range |-> <<>>, validators |-> FALSE]

RangeTypeOK ==
  /\ size \in 0..MaxSize
  /\ chunkSize \in ChunkSizes
  /\ files \in [0..MaxSize -> 0..MaxSize]
  /\ ahead \in SUBSET (0..MaxSize)
  /\ pc \in {"idle", "head", "chunks", "done", "cut"}
  /\ req \in RequestInputs
  /\ span \in (0..MaxSize) \X (-1..MaxSize)
  /\ at \in 0..MaxSize
  /\ resp.status \in {0, 200, 206, 400, 403, 404, 405, 416, 502}
  /\ resp.length \in 0..MaxSize
  /\ resp.validators \in BOOLEAN
  /\ body \in Seq(0..MaxSize)

AnyRequest == [method |-> "GET", key |-> TRUE, range |-> [kind |-> "none", a |-> 0, b |-> 0]]

RangeInit ==
  /\ size \in 0..MaxSize
  /\ chunkSize \in ChunkSizes
  /\ files = [o \in 0..MaxSize |-> 0]
  /\ ahead = {}
  /\ pc = "idle" /\ req = AnyRequest /\ span = <<0, -1>> /\ at = 0
  /\ resp = NoAnswer /\ body = <<>>

Least(x, y) == IF x < y THEN x ELSE y
Greatest(x, y) == IF x < y THEN y ELSE x

-----------------------------------------------------------------------------
(* web.go                                                                  *)

\* What parseRange makes of a header: the end is -1 if missing, and a suffix
\* is resolved later, when the size is known.
parseRange(h) ==
  CASE h.kind = "none"      -> [ok |-> TRUE, start |-> 0, end |-> -1, suffixLen |-> 0]
    [] h.kind = "malformed" -> [ok |-> FALSE, start |-> 0, end |-> -1, suffixLen |-> 0]
    [] h.kind = "suffix"    -> [ok |-> h.a > 0, start |-> 0, end |-> -1, suffixLen |-> h.a]
    [] h.kind = "from"      -> [ok |-> TRUE, start |-> h.a, end |-> -1, suffixLen |-> 0]
    [] h.kind = "span"      -> [ok |-> h.b >= h.a, start |-> h.a, end |-> h.b, suffixLen |-> 0]

\* The response is an error, and claims no validators.
Fail(status) == resp' = [NoAnswer EXCEPT !.status = status]

\* The request is over, with the body sent so far.
End(place) == pc' = place /\ UNCHANGED <<req, span, at, body>>

\* Web.handle, up to the HEAD.
handle(q) ==
  /\ pc \in {"idle", "done", "cut"}
  /\ req' = q /\ body' = <<>> /\ span' = <<0, -1>> /\ at' = 0
  /\ LET refusal == IF q.method \notin {"GET", "HEAD"} THEN 405
                    ELSE IF ~q.key \/ ~parseRange(q.range).ok THEN 400
                    ELSE 0
     IN  /\ Fail(refusal)
         /\ pc' = IF refusal = 0 THEN "head" ELSE "done"
  /\ UNCHANGED cacheVars

\* The statuses httpErrorFromS3 maps an upstream error to.
httpErrorFromS3 == {403, 404, 502}

\* headObject fails.
HeadFails ==
  /\ pc = "head"
  /\ \E status \in httpErrorFromS3 : Fail(status)
  /\ End("done")
  /\ UNCHANGED cacheVars

\* Fetcher.Head answers a HEAD, which has no body, whatever its range.
ServeHead ==
  /\ pc = "head"
  /\ req.method = "HEAD"
  /\ resp' = [status |-> 200, length |-> size, range |-> <<>>, validators |-> TRUE]
  /\ End("done")
  /\ UNCHANGED cacheVars

-----------------------------------------------------------------------------
(* Fetcher.Get                                                             *)

RangeRequested == req.range.kind # "none"

\* A plausible slip: an end past the object is only clamped if it is missing.
Resolve_Unclamped(p) ==
  IF p.suffixLen > 0
    THEN <<Greatest(size - p.suffixLen, 0), size - 1>>
    ELSE <<p.start, IF p.end < 0 THEN size - 1 ELSE p.end>>

\* The first and last byte to serve, against the object's size.
Resolve(p) ==
  IF p.suffixLen > 0
    THEN <<Greatest(size - p.suffixLen, 0), size - 1>>
    ELSE <<p.start, IF p.end < 0 \/ p.end > size - 1 THEN size - 1 ELSE p.end>>

\* A plausible slip: a range that starts just past the end is let through.
Unsatisfiable_OffByOne(start) == RangeRequested /\ start > size

Unsatisfiable(start) == RangeRequested /\ start >= size

\* A range that starts past the end is refused with the size; an empty object
\* is an empty response; otherwise the chunks are fetched.
Get ==
  /\ pc = "head"
  /\ req.method = "GET"
  /\ LET s == Resolve(parseRange(req.range))
     IN  \/ /\ Unsatisfiable(s[1])
            /\ resp' = [NoAnswer EXCEPT !.status = 416, !.range = <<size>>]
            /\ End("done")
         \/ /\ ~Unsatisfiable(s[1])
            /\ size = 0
            /\ resp' = [status |-> 200, length |-> 0, range |-> <<>>, validators |-> TRUE]
            /\ End("done")
         \/ /\ ~Unsatisfiable(s[1])
            /\ size > 0
            /\ span' = s
            /\ at' = s[1] \div chunkSize
            /\ resp' = [NoAnswer EXCEPT !.validators = TRUE]
            /\ pc' = "chunks"
            /\ UNCHANGED <<req, body>>
  /\ UNCHANGED cacheVars

-----------------------------------------------------------------------------
(* serveAligned and writeSlice                                             *)

Start(c) == c * chunkSize

\* The bytes fetched for chunk c: a full chunk, or up to the object's end.
Extent(c) == Least(Start(c) + chunkSize - 1, size - 1) - Start(c) + 1

LastChunk == span[2] \div chunkSize

\* A plausible slip: the end of the slice is its last byte.
writeSlice_Short(c, n) ==
  LET from == Greatest(span[1] - Start(c), 0)
      to   == IF span[2] < Start(c) + n - 1 THEN span[2] - Start(c) ELSE n
  IN  IF from >= to THEN <<>> ELSE [k \in 1..(to - from) |-> Start(c) + from + k - 1]

\* The bytes of a chunk of n bytes that fall into the span.
writeSlice(c, n) ==
  LET from == Greatest(span[1] - Start(c), 0)
      to   == IF span[2] < Start(c) + n - 1 THEN span[2] - Start(c) + 1 ELSE n
  IN  IF from >= to THEN <<>> ELSE [k \in 1..(to - from) |-> Start(c) + from + k - 1]

\* download gets all the n bytes it asked for from chunk c's start on: a short
\* read is a failure and never reaches the cache.
download(c, n) == Start(c) + n <= size

\* A chunk has come: from its file, whatever that holds, or from upstream, in
\* its extent, and then its file may have been written.
Found(c, n) ==
  \/ files[Start(c)] # 0 /\ n = files[Start(c)] /\ UNCHANGED files
  \/ /\ files[Start(c)] = 0 /\ n = Extent(c) /\ download(c, n)
     /\ UNCHANGED files \/ files' = [files EXCEPT ![Start(c)] = n]

\* The headers are set with the first chunk.
Committed ==
  IF resp.status # 0 THEN resp
  ELSE [status |-> IF RangeRequested THEN 206 ELSE 200,
        length |-> span[2] - span[1] + 1,
        range  |-> IF RangeRequested THEN <<span[1], span[2], size>> ELSE <<>>,
        validators |-> TRUE]

\* The chunks Readahead.Kick schedules: a few past the served range.
Kicked == {c \in LastChunk+1 .. LastChunk+ReadaheadChunks : c <= (size - 1) \div chunkSize}

\* The next chunk is written; after the last one readahead is kicked.
WriteChunk ==
  /\ pc = "chunks"
  /\ \E n \in 1..MaxSize : Found(at, n) /\ body' = body \o writeSlice(at, n)
  /\ resp' = Committed
  /\ IF at < LastChunk
       THEN at' = at + 1 /\ UNCHANGED <<pc, ahead>>
       ELSE pc' = "done" /\ ahead' = ahead \cup Kicked /\ UNCHANGED at
  /\ UNCHANGED <<size, chunkSize, req, span>>

\* The client is gone in the middle of a chunk.
WriteFails ==
  /\ pc = "chunks"
  /\ \E n \in 1..MaxSize :
       /\ Found(at, n)
       /\ \E m \in 0..Len(writeSlice(at, n)) : body' = body \o SubSeq(writeSlice(at, n), 1, m)
  /\ resp' = Committed
  /\ pc' = "cut"
  /\ UNCHANGED <<size, chunkSize, ahead, req, span, at>>

\* A plausible slip: an error keeps the headers set for the content.
ChunkFails_Validated ==
  /\ pc = "chunks"
  /\ \/ /\ resp.status = 0
        /\ \E status \in httpErrorFromS3 : resp' = [resp EXCEPT !.status = status]
        /\ End("done")
     \/ /\ resp.status # 0
        /\ UNCHANGED resp
        /\ End("cut")
  /\ UNCHANGED cacheVars

\* A chunk fails, or the client goes away while it is waited for: an error if
\* nothing has been sent, otherwise the response is cut.
ChunkFails ==
  /\ pc = "chunks"
  /\ \/ /\ resp.status = 0
        /\ \E status \in httpErrorFromS3 : Fail(status)
        /\ End("done")
     \/ /\ resp.status # 0
        /\ UNCHANGED resp
        /\ End("cut")
  /\ UNCHANGED cacheVars

-----------------------------------------------------------------------------
(* What goes on behind the requests                                        *)

\* Readahead.schedule works out the extent of a chunk on its own.
ReadaheadExtent(c) == Least(Start(c) + chunkSize - 1, size - 1) - Start(c) + 1

\* A readahead goroutine ends: it found the chunk, failed, or stored it.
Prefetch(c) ==
  /\ c \in ahead
  /\ ahead' = ahead \ {c}
  /\ \/ UNCHANGED files
     \/ /\ files[Start(c)] = 0 /\ download(c, ReadaheadExtent(c))
        /\ files' = [files EXCEPT ![Start(c)] = ReadaheadExtent(c)]
  /\ UNCHANGED <<size, chunkSize, requestVars>>

\* The evictor removes a chunk file.
Evict(o) ==
  /\ files[o] # 0
  /\ files' = [files EXCEPT ![o] = 0]
  /\ UNCHANGED <<size, chunkSize, ahead, requestVars>>

\* The process stops, and starts with a chunk size of its own; files stay.
Restart ==
  /\ chunkSize' \in ChunkSizes
  /\ ahead' = {}
  /\ pc' = "idle" /\ req' = AnyRequest /\ span' = <<0, -1>> /\ at' = 0
  /\ resp' = NoAnswer /\ body' = <<>>
  /\ UNCHANGED <<size, files>>

RangeNext ==
  \/ \E q \in RequestInputs : handle(q)
  \/ HeadFails \/ ServeHead \/ Get \/ WriteChunk \/ WriteFails \/ ChunkFails
  \/ \E c \in ahead : Prefetch(c)
  \/ \E o \in 0..MaxSize : Evict(o)
  \/ Restart

RangeSpec == RangeInit /\ [][RangeNext]_rangeVars

-----------------------------------------------------------------------------
(* Properties                                                              *)

\* The bytes a request asks for, by the meaning of a range and not by the
\* code's way to it.
Wanted ==
  {o \in 0..size-1 :
     CASE req.range.kind = "from"   -> o >= req.range.a
       [] req.range.kind = "span"   -> o >= req.range.a /\ o <= req.range.b
       [] req.range.kind = "suffix" -> size - o <= req.range.a
       [] OTHER                     -> TRUE}

Succeeded == resp.status \in {200, 206}

\* serveAligned writes the requested span in order: at any time the body is a
\* gapless run of wanted bytes from the first one on, whatever was found in
\* the cache, and a response that is not cut holds all of them.
BodyExact ==
  /\ \A k \in 1..Len(body) :
       /\ body[k] \in Wanted
       /\ IF k = 1 THEN \A o \in Wanted : body[1] <= o ELSE body[k] = body[k-1] + 1
  /\ pc = "done" /\ Succeeded /\ req.method = "GET" => Len(body) = Cardinality(Wanted)

\* The headers, sent before the bytes, describe them: Content-Length is their
\* number and Content-Range the first, the last and the object's size.
HeadersTrue ==
  Succeeded /\ req.method = "GET" =>
    /\ resp.length = Cardinality(Wanted)
    /\ resp.range # <<>> =>
         /\ {resp.range[1], resp.range[2]} \subseteq Wanted
         /\ \A o \in Wanted : resp.range[1] <= o /\ o <= resp.range[2]
         /\ resp.range[3] = size

\* A range the server takes: one range of bytes, its end not before its start,
\* its suffix not empty.  RFC 9110 calls bytes=-0 unsatisfiable, as parseRange
\* notes; it is refused all the same like a malformed one.
RangeValid ==
  CASE req.range.kind = "malformed" -> FALSE
    [] req.range.kind = "span"      -> req.range.a <= req.range.b
    [] req.range.kind = "suffix"    -> req.range.a > 0
    [] OTHER                        -> TRUE

\* The status of a request that upstream does not fail, by what it asks for.
DueStatus ==
  IF req.method \notin {"GET", "HEAD"} THEN 405
  ELSE IF ~req.key \/ ~RangeValid THEN 400
  ELSE IF req.method = "HEAD" \/ ~RangeRequested THEN 200
  ELSE IF Wanted = {} THEN 416 ELSE 206

\* A client tells the end of the object from an error by the status.  Every
\* request that ends has one, and it is the due one: 416 for a valid range
\* just when it has no bytes, then with the size, 206 just when it has some,
\* 200 for a plain GET even when empty.  Only an upstream failure takes its
\* place, and only where upstream was asked; only content has validators.
StatusRight ==
  /\ pc \in {"done", "cut"} => resp.status # 0
  /\ resp.status # 0 =>
       resp.status = DueStatus \/ (DueStatus \notin {400, 405} /\ resp.status \in httpErrorFromS3)
  /\ resp.status = 416 => resp.range = <<size>>
  /\ pc = "done" /\ resp.validators => Succeeded

\* So what goes before the body is right.
AnswerTrue == HeadersTrue /\ StatusRight

=============================================================================
