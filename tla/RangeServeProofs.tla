--------------------------- MODULE RangeServeProofs ---------------------------
(***************************************************************************)
(* Proofs about RangeServe, for objects of any size, any chunk sizes and   *)
(* any depth of readahead.  What concerns the bytes of a response needs a  *)
(* chunk size that stays the same: the theorem says so.                    *)
(***************************************************************************)
EXTENDS RangeServe, FiniteSetTheorems, SequenceTheorems, TLAPS

-----------------------------------------------------------------------------
(* The inductive invariant                                                 *)

\* The bytes of a response are decided: they are being fetched, or on their
\* way to the client.
Serving == pc = "chunks" \/ (Succeeded /\ req.method = "GET")

\* The span is what the request wants, and within the object.
SpanShape ==
  Serving =>
    /\ req.method = "GET"
    /\ span[2] < size /\ span[1] <= span[2] + 1
    /\ size > 0 => span[1] <= span[2]
    /\ Wanted = span[1]..span[2]

\* The response's headers are those of the content, or of an error.
RespShape ==
  /\ resp.status = 0 => pc \in {"idle", "head", "chunks"} /\ resp.length = 0
  /\ pc \in {"idle", "head"} => resp = NoAnswer
  /\ pc = "chunks" => resp.status \in {0, 200, 206} /\ resp.validators /\ size > 0
  /\ pc = "cut" => Succeeded /\ req.method = "GET"
  /\ pc = "done" /\ resp.validators => Succeeded
  /\ Succeeded /\ req.method = "GET" =>
       /\ resp.status = 206 <=> RangeRequested
       /\ RangeRequested => size > 0
       /\ resp.length = span[2] - span[1] + 1
       /\ resp.range = IF RangeRequested THEN <<span[1], span[2], size>> ELSE <<>>
  /\ Succeeded => req.method \in {"GET", "HEAD"}
  /\ Succeeded /\ req.method = "HEAD" => resp.status = 200
  /\ resp.status = 416 => RangeRequested /\ Wanted = {} /\ resp.range = <<size>>

\* The request passes from the first chunk of its span to the last, and files
\* and readahead stay within the object.
ChunkShape ==
  /\ pc = "chunks" => span[1] \div chunkSize <= at /\ at <= LastChunk
  /\ \A o \in 0..MaxSize : files[o] # 0 => o + files[o] <= size
  /\ \A c \in ahead : Start(c) < size

\* parseRange has let the range through, and no bytes are decided yet.
HeadShape ==
  /\ pc \in {"head", "chunks"} => parseRange(req.range).ok
  /\ pc = "head" => span = <<0, -1>> /\ body = <<>>

RangeInv ==
  /\ RangeTypeOK
  /\ SpanShape
  /\ RespShape
  /\ ChunkShape
  /\ HeadShape

\* A chunk file holds the whole extent of its chunk, whoever stored it.
FilesWhole ==
  \A c \in 0..MaxSize : Start(c) < size => files[Start(c)] \in {0, Extent(c)}

\* The bytes sent are the first of the span, up to the chunk at hand.
BodyShape ==
  /\ ~Serving => body = <<>>
  /\ Serving =>
       /\ Len(body) <= span[2] - span[1] + 1
       /\ \A k \in 1..Len(body) : body[k] = span[1] + k - 1
  /\ pc = "chunks" => Len(body) = Greatest(Start(at) - span[1], 0)
  /\ pc = "chunks" /\ resp.status = 0 => body = <<>>
  /\ pc = "done" /\ Succeeded /\ req.method = "GET" => Len(body) = span[2] - span[1] + 1

ExactInv ==
  /\ RangeInv
  /\ FilesWhole
  /\ BodyShape

-----------------------------------------------------------------------------
(* Arithmetic                                                              *)

\* Division rounds down.
LEMMA Division ==
  ASSUME NEW x \in Nat, NEW k \in Nat \ {0}
  PROVE  /\ x \div k \in Nat /\ x \div k <= x
         /\ (x \div k) * k <= x /\ x < (x \div k) * k + k
<1> DEFINE q == x \div k
<1>1. q \in Nat
  OBVIOUS
<1>2. q * k <= x /\ x < q * k + k
  OBVIOUS
<1>3. q <= x
  <2> HIDE DEF q
  <2>1. q * k >= q
    BY <1>1
  <2>2. q * k \in Nat
    BY <1>1
  <2> QED BY <1>1, <1>2, <2>1, <2>2
<1> QED BY <1>1, <1>2, <1>3

\* Multiples of a positive number are at least that number apart.
LEMMA Multiples ==
  ASSUME NEW i \in Nat, NEW j \in Nat, NEW k \in Nat \ {0}, i < j
  PROVE  i * k + k <= j * k
<1>1. PICK d \in Nat : j = i + 1 + d
  <2>1. j - i - 1 \in Nat /\ j = i + 1 + (j - i - 1)
    OBVIOUS
  <2> QED BY <2>1
<1>2. j * k = i * k + k + d * k
  BY <1>1
<1>3. d * k \in Nat /\ i * k \in Nat
  OBVIOUS
<1> QED BY <1>2, <1>3

\* They are in order.
LEMMA MultiplesOrder ==
  ASSUME NEW i \in Nat, NEW j \in Nat, NEW k \in Nat \ {0}
  PROVE  /\ i * k \in Nat /\ i <= i * k
         /\ i <= j => i * k <= j * k
         /\ i * k = j * k => i = j
<1>1. i * k \in Nat /\ j * k \in Nat
  OBVIOUS
<1>2. i <= i * k
  OBVIOUS
<1>3. i < j => i * k + k <= j * k
  BY Multiples
<1>4. j < i => j * k + k <= i * k
  BY Multiples
<1> QED BY <1>1, <1>2, <1>3, <1>4

\* The number of bytes from one offset to another.
LEMMA SpanCount ==
  ASSUME NEW a \in Int, NEW b \in Int, a <= b + 1
  PROVE  Cardinality(a..b) = b - a + 1
BY FS_Interval

\* A run of consecutive numbers is a sequence.
LEMMA RunIsSeq ==
  ASSUME NEW S, NEW n \in Nat, NEW f \in [1..n -> S]
  PROVE  f \in Seq(S) /\ Len(f) = n
OBVIOUS


-----------------------------------------------------------------------------
(* parseRange and Resolve                                                  *)

\* A range header is one of five kinds, with numbers.
LEMMA HeaderKinds ==
  ASSUME RangeTypeOK
  PROVE  /\ req.range.kind \in {"none", "malformed", "from", "span", "suffix"}
         /\ req.range.a \in Int /\ req.range.b \in Int
         /\ req.range.kind \in {"from", "span"} => req.range.a >= 0
         /\ req.method \in {"GET", "HEAD", "POST"}
         /\ size \in Nat /\ size <= MaxSize /\ MaxSize \in Nat
         /\ chunkSize \in Nat \ {0}
<1>1. req.range \in RangeHeaders /\ req.method \in {"GET", "HEAD", "POST"}
  BY DEF RangeTypeOK, RequestInputs
<1>2. MaxSize \in Nat /\ ChunkSizes \subseteq Nat \ {0}
  BY RangeAssumption
<1>3. size \in Nat /\ size <= MaxSize /\ chunkSize \in Nat \ {0}
  BY <1>2 DEF RangeTypeOK
<1> QED BY <1>1, <1>2, <1>3 DEF RangeHeaders

\* Against the object's size, the code's span is what the header means.
LEMMA ResolveWanted ==
  ASSUME RangeTypeOK, parseRange(req.range).ok,
         NEW s, s = Resolve(parseRange(req.range)), ~Unsatisfiable(s[1])
  PROVE  /\ s \in (0..MaxSize) \X (-1..MaxSize)
         /\ s[2] < size /\ s[1] <= s[2] + 1
         /\ size > 0 => s[1] <= s[2]
         /\ size = 0 => ~RangeRequested /\ s = <<0, -1>>
         /\ Wanted = s[1]..s[2]
<1> DEFINE h == req.range
<1>1. /\ h.kind \in {"none", "malformed", "from", "span", "suffix"}
      /\ h.a \in Int /\ h.b \in Int
      /\ h.kind \in {"from", "span"} => h.a >= 0
      /\ size \in Nat /\ size <= MaxSize /\ MaxSize \in Nat
  BY HeaderKinds
<1>2. h.kind # "malformed"
  BY DEF parseRange
<1>3. CASE h.kind = "none"
  <2>1. s = <<0, size - 1>>
    BY <1>1, <1>3 DEF parseRange, Resolve
  <2>2. Wanted = 0..size-1
    BY <1>3 DEF Wanted
  <2> QED BY <1>1, <1>3, <2>1, <2>2 DEF RangeRequested
<1>4. CASE h.kind = "from"
  <2>1. s = <<h.a, size - 1>> /\ h.a < size
    BY <1>1, <1>4 DEF parseRange, Resolve, Unsatisfiable, RangeRequested
  <2>2. Wanted = {o \in 0..size-1 : o >= h.a}
    BY <1>4 DEF Wanted
  <2>3. Wanted = h.a..size-1
    BY <1>1, <1>4, <2>1, <2>2
  <2> QED BY <1>1, <1>4, <2>1, <2>3
<1>5. CASE h.kind = "span"
  <2> DEFINE p == parseRange(h)
  <2>1. p.start = h.a /\ p.end = h.b /\ p.suffixLen = 0
    BY <1>5 DEF parseRange
  <2> HIDE DEF p
  <2>2. s = Resolve(p) /\ ~(s[1] >= size)
    BY <1>5 DEF p, Unsatisfiable, RangeRequested
  <2>3. h.b >= h.a
    BY <1>5 DEF parseRange
  <2>4. h.a <= h.b /\ ~(p.suffixLen > 0) /\ ~(p.end < 0)
    BY <1>1, <1>5, <2>3, <2>1
  <2>5. s = <<h.a, IF h.b > size - 1 THEN size - 1 ELSE h.b>>
    BY <2>1, <2>2, <2>4 DEF Resolve
  <2>6. /\ s = <<h.a, IF h.b > size - 1 THEN size - 1 ELSE h.b>> /\ h.a < size
        /\ h.a <= h.b
    BY <1>1, <2>2, <2>4, <2>5
  <2>7. Wanted = {o \in 0..size-1 : o >= h.a /\ o <= h.b}
    BY <1>5 DEF Wanted
  <2>8. Wanted = s[1]..s[2]
    BY <1>1, <1>5, <2>6, <2>7
  <2> QED BY <1>1, <1>5, <2>6, <2>8
<1>6. CASE h.kind = "suffix"
  <2> DEFINE p == parseRange(h)
  <2>1. p.ok /\ p.ok = (h.a > 0) /\ p.suffixLen = h.a
    BY <1>6 DEF parseRange
  <2> HIDE DEF p
  <2>2. s = Resolve(p) /\ ~(s[1] >= size)
    BY <1>6 DEF p, Unsatisfiable, RangeRequested
  <2>3. s = <<Greatest(size - h.a, 0), size - 1>> /\ h.a > 0
    BY <1>1, <2>1, <2>2 DEF Resolve
  <2>4. /\ s = <<IF size - h.a < 0 THEN 0 ELSE size - h.a, size - 1>>
        /\ h.a > 0 /\ size > 0
    BY <1>1, <2>2, <2>3 DEF Greatest
  <2>5. Wanted = {o \in 0..size-1 : size - o <= h.a}
    BY <1>6 DEF Wanted
  <2>6. Wanted = s[1]..s[2]
    BY <1>1, <1>6, <2>4, <2>5
  <2> QED BY <1>1, <1>6, <2>4, <2>6
<1> QED BY <1>1, <1>2, <1>3, <1>4, <1>5, <1>6

\* A range the code refuses has no bytes.
LEMMA UnsatisfiableEmpty ==
  ASSUME RangeTypeOK, parseRange(req.range).ok,
         NEW s, s = Resolve(parseRange(req.range)), Unsatisfiable(s[1])
  PROVE  RangeRequested /\ Wanted = {}
<1> DEFINE h == req.range
<1>1. /\ h.kind \in {"none", "malformed", "from", "span", "suffix"}
      /\ h.a \in Int /\ h.b \in Int
      /\ h.kind \in {"from", "span"} => h.a >= 0
      /\ size \in Nat
  BY HeaderKinds
<1>2. h.kind # "malformed" /\ h.kind # "none" /\ RangeRequested /\ s[1] >= size
  BY DEF parseRange, Unsatisfiable, RangeRequested
<1>3. CASE h.kind = "from"
  <2>1. h.a >= size
    BY <1>1, <1>2, <1>3 DEF parseRange, Resolve
  <2> QED BY <1>1, <1>2, <1>3, <2>1 DEF Wanted
<1>4. CASE h.kind = "span"
  <2>1. h.a >= size
    BY <1>1, <1>2, <1>4 DEF parseRange, Resolve
  <2> QED BY <1>1, <1>2, <1>4, <2>1 DEF Wanted
<1>5. CASE h.kind = "suffix"
  <2>1. size = 0
    BY <1>1, <1>2, <1>5 DEF parseRange, Resolve, Greatest
  <2> QED BY <1>2, <2>1 DEF Wanted
<1> QED BY <1>1, <1>2, <1>3, <1>4, <1>5

-----------------------------------------------------------------------------
(* Chunks                                                                  *)

\* A chunk that begins within the object has bytes, none past its end.
LEMMA ExtentBounds ==
  ASSUME RangeTypeOK, NEW c \in Nat, Start(c) < size
  PROVE  /\ Start(c) \in 0..MaxSize /\ c \in 0..MaxSize
         /\ Extent(c) \in 1..MaxSize
         /\ Start(c) + Extent(c) <= size
         /\ Start(c) + chunkSize < size => Extent(c) = chunkSize
         /\ Start(c) + Extent(c) = size \/ Extent(c) = chunkSize
         /\ Extent(c) = ReadaheadExtent(c)
<1>1. /\ size \in Nat /\ size <= MaxSize /\ MaxSize \in Nat /\ chunkSize \in Nat \ {0}
  BY HeaderKinds
<1>2. Start(c) \in Nat /\ c <= Start(c)
  BY <1>1, MultiplesOrder DEF Start
<1> QED BY <1>1, <1>2 DEF Extent, ReadaheadExtent, Least

\* The chunk at hand begins in the span, and the span not behind it.
LEMMA AtBounds ==
  ASSUME RangeInv, pc = "chunks"
  PROVE  /\ at \in Nat /\ size > 0
         /\ Start(at) \in Nat /\ Start(at) <= span[2] /\ Start(at) < size
         /\ span[1] \in Nat /\ span[2] \in Nat
         /\ span[1] <= span[2] /\ span[2] < size
         /\ span[1] < Start(at) + chunkSize
         /\ at < LastChunk => Start(at) + chunkSize = Start(at + 1)
                              /\ Start(at) + chunkSize <= span[2]
         /\ at = LastChunk => span[2] < Start(at) + chunkSize
         /\ LastChunk \in Nat
<1> USE DEF RangeInv
<1>1. /\ size \in Nat /\ size <= MaxSize /\ MaxSize \in Nat /\ chunkSize \in Nat \ {0}
  BY HeaderKinds
<1>2. span[1] \in Nat /\ span[2] \in Int /\ at \in Nat
  BY <1>1 DEF RangeTypeOK
<1>3. size > 0 /\ span[1] <= span[2] /\ span[2] < size
  BY DEF SpanShape, RespShape, Serving
<1>4. span[2] \in Nat
  BY <1>2, <1>3
<1> DEFINE i == span[1] \div chunkSize
           j == span[2] \div chunkSize
<1>5. i \in Nat /\ i * chunkSize <= span[1] /\ span[1] < i * chunkSize + chunkSize
  BY <1>1, <1>2, Division
<1>6. j \in Nat /\ j * chunkSize <= span[2] /\ span[2] < j * chunkSize + chunkSize
  BY <1>1, <1>4, Division
<1>7. i <= at /\ at <= j
  BY DEF ChunkShape, LastChunk
<1> HIDE DEF i, j
<1>8. i * chunkSize <= at * chunkSize /\ at * chunkSize <= j * chunkSize
      /\ at * chunkSize \in Nat /\ i * chunkSize \in Nat /\ j * chunkSize \in Nat
  BY <1>1, <1>2, <1>5, <1>6, <1>7, MultiplesOrder
<1>9. at < j => at * chunkSize + chunkSize <= j * chunkSize
  BY <1>1, <1>2, <1>6, Multiples
<1>10. (at + 1) * chunkSize = at * chunkSize + chunkSize
  BY <1>1, <1>2
<1>11. LastChunk = j /\ Start(at) = at * chunkSize /\ Start(at + 1) = (at + 1) * chunkSize
  BY DEF LastChunk, Start, j
<1>12. Start(at) \in Nat /\ Start(at) <= span[2] /\ Start(at) < size
  BY <1>1, <1>3, <1>4, <1>6, <1>8, <1>11
<1>13. span[1] < Start(at) + chunkSize
  BY <1>1, <1>2, <1>5, <1>8, <1>11
<1>14. at < LastChunk => Start(at) + chunkSize = Start(at + 1)
                         /\ Start(at) + chunkSize <= span[2]
  BY <1>1, <1>4, <1>6, <1>8, <1>9, <1>10, <1>11
<1>15. at = LastChunk => span[2] < Start(at) + chunkSize
  BY <1>6, <1>11
<1> QED BY <1>2, <1>3, <1>4, <1>6, <1>11, <1>12, <1>13, <1>14, <1>15

\* A chunk that is found is not empty, nor does it pass the object's end.
LEMMA FoundBounds ==
  ASSUME RangeInv, pc = "chunks", NEW n \in 1..MaxSize, Found(at, n)
  PROVE  /\ Start(at) + n <= size
         /\ files' \in [0..MaxSize -> 0..MaxSize]
         /\ \A o \in 0..MaxSize : files'[o] # 0 => o + files'[o] <= size
<1> USE DEF RangeInv
<1>1. at \in Nat /\ Start(at) < size
  BY AtBounds
<1>2. /\ Start(at) \in 0..MaxSize /\ Extent(at) \in 1..MaxSize
      /\ Start(at) + Extent(at) <= size
  BY <1>1, ExtentBounds
<1>3. files \in [0..MaxSize -> 0..MaxSize]
      /\ \A o \in 0..MaxSize : files[o] # 0 => o + files[o] <= size
  BY DEF RangeTypeOK, ChunkShape
<1>4. n = files[Start(at)] \/ n = Extent(at)
  BY DEF Found
<1>5. Start(at) + n <= size
  BY <1>2, <1>3, <1>4
<1>6. files' = files \/ files' = [files EXCEPT ![Start(at)] = n]
  BY DEF Found
<1>7. CASE files' = files
  BY <1>3, <1>5, <1>7
<1>8. CASE files' = [files EXCEPT ![Start(at)] = n]
  <2>1. n \in 0..MaxSize
    BY HeaderKinds
  <2>2. files' \in [0..MaxSize -> 0..MaxSize]
    BY <1>2, <1>3, <1>8, <2>1
  <2>3. \A o \in 0..MaxSize : files'[o] # 0 => o + files'[o] <= size
    BY <1>2, <1>3, <1>5, <1>8
  <2> QED BY <1>5, <2>2, <2>3
<1> QED BY <1>6, <1>7, <1>8

\* What writeSlice writes: bytes of the object, one after the other.
LEMMA SliceBounds ==
  ASSUME RangeInv, pc = "chunks", NEW n \in 1..MaxSize, Start(at) + n <= size
  PROVE  /\ writeSlice(at, n) \in Seq(0..MaxSize)
         /\ n = Extent(at) =>
              /\ Len(writeSlice(at, n)) = Least(Start(at) + n - 1, span[2])
                                          - Greatest(Start(at), span[1]) + 1
              /\ \A k \in 1..Len(writeSlice(at, n)) :
                   writeSlice(at, n)[k] = Greatest(Start(at), span[1]) + k - 1
<1> USE DEF RangeInv
<1> DEFINE from == Greatest(span[1] - Start(at), 0)
           to   == IF span[2] < Start(at) + n - 1 THEN span[2] - Start(at) + 1 ELSE n
           f    == [k \in 1..(to - from) |-> Start(at) + from + k - 1]
<1>1. /\ size \in Nat /\ size <= MaxSize /\ MaxSize \in Nat /\ chunkSize \in Nat \ {0}
  BY HeaderKinds
<1>2. /\ at \in Nat
      /\ Start(at) \in Nat /\ Start(at) <= span[2] /\ Start(at) < size
      /\ span[1] \in Nat /\ span[2] \in Nat
      /\ span[1] <= span[2] /\ span[2] < size
      /\ span[1] < Start(at) + chunkSize
  BY AtBounds
<1>3. writeSlice(at, n) = IF from >= to THEN <<>> ELSE f
  BY DEF writeSlice
<1>4. from \in Nat /\ to \in Nat /\ to <= n
  BY <1>1, <1>2 DEF Greatest
<1>5. from < to => f \in Seq(0..MaxSize) /\ Len(f) = to - from
  <2> HAVE from < to
  <2>1. to - from \in Nat
    BY <1>4
  <2>2. \A k \in 1..(to - from) : Start(at) + from + k - 1 \in 0..MaxSize
    <3> HIDE DEF from, to
    <3> QED BY <1>1, <1>2, <1>4
  <2>3. f \in [1..(to - from) -> 0..MaxSize]
    BY <2>2
  <2> HIDE DEF f, from, to
  <2> QED BY <2>1, <2>3, RunIsSeq
<1>6. writeSlice(at, n) \in Seq(0..MaxSize)
  <2> HIDE DEF f, from, to
  <2>1. CASE from >= to
    BY <1>3, <2>1, EmptySeq
  <2>2. CASE from < to
    BY <1>3, <1>4, <1>5, <2>2
  <2> QED BY <1>4, <2>1, <2>2
<1>7. ASSUME n = Extent(at)
      PROVE  /\ from < to
             /\ to - from = Least(Start(at) + n - 1, span[2]) - Greatest(Start(at), span[1]) + 1
             /\ Start(at) + from = Greatest(Start(at), span[1])
  <2>1. Start(at) + n = size \/ n = chunkSize
    BY <1>2, <1>7, ExtentBounds
  <2>2. span[1] < Start(at) + n
    BY <1>1, <1>2, <2>1
  <2> QED BY <1>1, <1>2, <2>2 DEF Greatest, Least
<1> HIDE DEF from, to
<1>8. ASSUME n = Extent(at)
      PROVE  /\ writeSlice(at, n) = f /\ Len(f) = to - from
             /\ \A k \in 1..(to - from) : f[k] = Start(at) + from + k - 1
  BY <1>3, <1>4, <1>5, <1>7, <1>8
<1> HIDE DEF f
<1> QED BY <1>6, <1>7, <1>8

-----------------------------------------------------------------------------
(* The steps keep RangeInv                                                 *)

\* The answer has its type.
RespTyped ==
  /\ resp.status \in {0, 200, 206, 400, 403, 404, 405, 416, 502}
  /\ resp.length \in 0..MaxSize
  /\ resp.validators \in BOOLEAN

\* Types, part by part.
LEMMA TypeParts ==
  ASSUME size' \in 0..MaxSize, chunkSize' \in ChunkSizes,
         files' \in [0..MaxSize -> 0..MaxSize], ahead' \in SUBSET (0..MaxSize),
         pc' \in {"idle", "head", "chunks", "done", "cut"}, req' \in RequestInputs,
         span' \in (0..MaxSize) \X (-1..MaxSize), at' \in 0..MaxSize,
         RespTyped', body' \in Seq(0..MaxSize)
  PROVE  RangeTypeOK'
BY Zenon DEF RangeTypeOK, RespTyped

\* An answer with a status the code knows and a length within the object.
LEMMA RespIsTyped ==
  ASSUME resp'.status \in {0, 200, 206, 400, 403, 404, 405, 416, 502},
         resp'.length \in 0..MaxSize,
         resp'.validators = TRUE \/ resp'.validators = FALSE
  PROVE  RespTyped'
BY Zenon DEF RespTyped

\* No request has come.
LEMMA FreshShape ==
  ASSUME pc' = "idle", req' = AnyRequest, span' = <<0, -1>>, at' = 0,
         resp' = NoAnswer, body' = <<>>
  PROVE  /\ SpanShape' /\ RespShape' /\ HeadShape'
         /\ pc' \in {"idle", "head", "chunks", "done", "cut"} /\ req' \in RequestInputs
         /\ span' \in (0..MaxSize) \X (-1..MaxSize) /\ at' \in 0..MaxSize
         /\ RespTyped' /\ body' \in Seq(0..MaxSize)
<1>1. MaxSize \in Nat
  BY RangeAssumption
<1>2. resp'.status = 0 /\ resp'.length = 0 /\ resp'.validators = FALSE
  BY DEF NoAnswer
<1>3. ~Succeeded' /\ ~Serving'
  BY <1>2 DEF Succeeded, Serving
<1>4. req' \in RequestInputs
  BY DEF AnyRequest, RequestInputs, RangeHeaders
<1>5. body' \in Seq(0..MaxSize)
  BY EmptySeq
<1>6. SpanShape' /\ HeadShape'
  BY <1>3 DEF SpanShape, HeadShape
<1>7. RespShape'
  BY <1>2, <1>3 DEF RespShape
<1>8. RespTyped'
  <2>1. resp'.status \in {0, 200, 206, 400, 403, 404, 405, 416, 502}
        /\ resp'.length \in 0..MaxSize
    BY <1>1, <1>2
  <2> QED BY <1>1, <1>2, <2>1, RespIsTyped, Zenon
<1> QED BY <1>1, <1>4, <1>5, <1>6, <1>7, <1>8

\* The process starts for the first time.
LEMMA RangeInitInv ==
  ASSUME RangeInit
  PROVE  RangeInv
<1>1. MaxSize \in Nat
  BY RangeAssumption
<1>2. resp.status = 0 /\ resp.length = 0 /\ resp.validators = FALSE /\ resp = NoAnswer
  BY DEF RangeInit, NoAnswer
<1>3. ~Succeeded /\ ~Serving
  BY <1>2 DEF Succeeded, Serving, RangeInit
<1>4. req \in RequestInputs
  BY DEF AnyRequest, RequestInputs, RangeHeaders, RangeInit
<1>5. body \in Seq(0..MaxSize)
  BY EmptySeq DEF RangeInit
<1>6. SpanShape /\ HeadShape
  BY <1>3 DEF SpanShape, HeadShape, RangeInit
<1>7. RespShape
  BY <1>2, <1>3 DEF RespShape, RangeInit
<1>8. RangeTypeOK
  BY <1>1, <1>2, <1>4, <1>5 DEF RangeTypeOK, RangeInit
<1>9. ChunkShape
  BY DEF ChunkShape, RangeInit
<1> QED BY <1>6, <1>7, <1>8, <1>9 DEF RangeInv

\* Nothing of the cache changes.
LEMMA ChunksFrame ==
  ASSUME RangeInv, UNCHANGED cacheVars, pc' # "chunks"
  PROVE  /\ ChunkShape'
         /\ size' \in 0..MaxSize /\ chunkSize' \in ChunkSizes
         /\ files' \in [0..MaxSize -> 0..MaxSize] /\ ahead' \in SUBSET (0..MaxSize)
<1>1. UNCHANGED <<size, chunkSize, files, ahead>>
  BY DEF cacheVars
<1> QED BY <1>1 DEF RangeInv, RangeTypeOK, ChunkShape, Start

\* A request ends with an error.
LEMMA ErrorEnds ==
  ASSUME RangeInv, UNCHANGED cacheVars, pc' = "done",
         NEW st \in {400, 403, 404, 405, 502}, Fail(st),
         req' \in RequestInputs, span' \in (0..MaxSize) \X (-1..MaxSize),
         at' \in 0..MaxSize, body' \in Seq(0..MaxSize)
  PROVE  RangeInv' /\ ~Serving'
<1>1. resp'.status = st /\ resp'.length = 0 /\ resp'.validators = FALSE
  BY DEF Fail, NoAnswer
<1>2. ~Succeeded' /\ ~Serving'
  BY <1>1 DEF Succeeded, Serving
<1>3. SpanShape' /\ HeadShape'
  BY <1>2 DEF SpanShape, HeadShape
<1>4. RespShape'
  BY <1>1, <1>2 DEF RespShape
<1>5. MaxSize \in Nat
  BY RangeAssumption
<1>6. RespTyped'
  <2>1. resp'.status \in {0, 200, 206, 400, 403, 404, 405, 416, 502}
        /\ resp'.length \in 0..MaxSize
    BY <1>1, <1>5
  <2> QED BY <1>1, <1>5, <2>1, RespIsTyped, Zenon
<1>7. RangeTypeOK' /\ ChunkShape'
  BY <1>6, ChunksFrame, TypeParts
<1> QED BY <1>2, <1>3, <1>4, <1>7 DEF RangeInv

\* A request comes, and is refused or goes on to the HEAD.
LEMMA HandleInv ==
  ASSUME RangeInv, NEW q \in RequestInputs, handle(q)
  PROVE  RangeInv' /\ ~Serving' /\ body' = <<>>
<1> DEFINE refusal == IF q.method \notin {"GET", "HEAD"} THEN 405
                      ELSE IF ~q.key \/ ~parseRange(q.range).ok THEN 400
                      ELSE 0
<1>1. /\ req' = q /\ body' = <<>> /\ span' = <<0, -1>> /\ at' = 0
      /\ UNCHANGED cacheVars
      /\ Fail(refusal) /\ pc' = IF refusal = 0 THEN "head" ELSE "done"
  BY DEF handle
<1>2. /\ span' \in (0..MaxSize) \X (-1..MaxSize) /\ at' \in 0..MaxSize
      /\ body' \in Seq(0..MaxSize)
  BY <1>1, RangeAssumption, EmptySeq
<1>3. CASE refusal # 0
  <2>1. refusal \in {400, 405}
    BY <1>3
  <2> HIDE DEF refusal
  <2> QED BY <1>1, <1>2, <1>3, <2>1, ErrorEnds
<1>4. CASE refusal = 0
  <2>1. parseRange(q.range).ok
    BY <1>4
  <2> HIDE DEF refusal
  <2>2. pc' = "head" /\ resp' = NoAnswer
    BY <1>1, <1>4 DEF Fail, NoAnswer
  <2>3. resp'.status = 0 /\ resp'.length = 0 /\ resp'.validators = FALSE
    BY <2>2 DEF NoAnswer
  <2>4. ~Succeeded' /\ ~Serving'
    BY <2>2, <2>3 DEF Succeeded, Serving
  <2>5. HeadShape' /\ SpanShape'
    BY <1>1, <2>1, <2>4 DEF HeadShape, SpanShape
  <2>6. RespShape'
    BY <2>2, <2>3, <2>4 DEF RespShape
  <2>7. MaxSize \in Nat
    BY RangeAssumption
  <2>8. RespTyped'
    <3>1. resp'.status \in {0, 200, 206, 400, 403, 404, 405, 416, 502}
          /\ resp'.length \in 0..MaxSize
      BY <2>3, <2>7
    <3> QED BY <2>3, <2>7, <3>1, RespIsTyped, Zenon
  <2>9. RangeTypeOK' /\ ChunkShape'
    BY <1>1, <1>2, <2>2, <2>8, ChunksFrame, TypeParts
  <2> QED BY <1>1, <2>4, <2>5, <2>6, <2>9 DEF RangeInv
<1> QED BY <1>3, <1>4

\* headObject fails, or a chunk does before anything is sent.
LEMMA FailsInv ==
  ASSUME RangeInv, NEW st \in httpErrorFromS3, Fail(st), End("done"), UNCHANGED cacheVars
  PROVE  RangeInv' /\ ~Serving' /\ body' = body
<1>1. pc' = "done" /\ UNCHANGED <<req, span, at, body>>
  BY DEF End
<1>2. st \in {400, 403, 404, 405, 502}
  BY DEF httpErrorFromS3
<1>3. /\ req' \in RequestInputs /\ span' \in (0..MaxSize) \X (-1..MaxSize)
      /\ at' \in 0..MaxSize /\ body' \in Seq(0..MaxSize)
  BY <1>1 DEF RangeInv, RangeTypeOK
<1> QED BY <1>1, <1>2, <1>3, ErrorEnds

\* A HEAD is answered.
LEMMA ServeHeadInv ==
  ASSUME RangeInv, ServeHead
  PROVE  RangeInv' /\ ~Serving' /\ body' = body
<1>1. /\ pc' = "done" /\ UNCHANGED <<req, span, at, body>> /\ UNCHANGED cacheVars
      /\ req.method = "HEAD"
      /\ resp' = [status |-> 200, length |-> size, range |-> <<>>, validators |-> TRUE]
  BY DEF ServeHead, End
<1>2. resp'.status = 200 /\ resp'.length = size /\ resp'.validators = TRUE
  BY <1>1
<1>3. Succeeded' /\ ~Serving'
  BY <1>1, <1>2 DEF Succeeded, Serving
<1>4. SpanShape' /\ HeadShape'
  BY <1>1, <1>3 DEF SpanShape, HeadShape
<1>5. RespShape'
  BY <1>1, <1>2, <1>3 DEF RespShape
<1>6. RespTyped'
  <2>1. resp'.status \in {0, 200, 206, 400, 403, 404, 405, 416, 502}
        /\ resp'.length \in 0..MaxSize
    BY <1>2 DEF RangeInv, RangeTypeOK
  <2> QED BY <1>2, <2>1, RespIsTyped, Zenon
<1>7. RangeTypeOK' /\ ChunkShape'
  BY <1>1, <1>6, ChunksFrame, TypeParts DEF RangeInv, RangeTypeOK
<1> QED BY <1>1, <1>3, <1>4, <1>5, <1>7 DEF RangeInv

\* A GET is refused with the size, answered as empty, or goes on to its chunks.
LEMMA GetInv ==
  ASSUME RangeInv, Get
  PROVE  RangeInv'
<1> USE DEF RangeInv
<1>1. pc = "head" /\ req.method = "GET" /\ UNCHANGED cacheVars /\ UNCHANGED <<req, body>>
      /\ parseRange(req.range).ok /\ UNCHANGED size
  BY DEF Get, End, HeadShape, cacheVars
<1>2. Wanted' = Wanted /\ RangeRequested' = RangeRequested
  BY <1>1 DEF Wanted, RangeRequested
<1> DEFINE s == Resolve(parseRange(req.range))
<1>3. MaxSize \in Nat /\ size \in Nat
  BY HeaderKinds
<1>4. req' \in RequestInputs /\ body' \in Seq(0..MaxSize)
      /\ span \in (0..MaxSize) \X (-1..MaxSize) /\ at \in 0..MaxSize
  BY <1>1 DEF RangeTypeOK
<1>5. CASE /\ Unsatisfiable(s[1])
           /\ resp' = [NoAnswer EXCEPT !.status = 416, !.range = <<size>>]
           /\ End("done")
  <2>1. RangeRequested /\ Wanted = {}
    BY <1>1, <1>5, UnsatisfiableEmpty
  <2>2. /\ resp'.status = 416 /\ resp'.length = 0 /\ resp'.validators = FALSE
        /\ resp'.range = <<size>>
    BY <1>5 DEF NoAnswer
  <2>3. pc' = "done" /\ UNCHANGED <<span, at>>
    BY <1>5 DEF End
  <2>4. ~Succeeded' /\ ~Serving'
    BY <2>2, <2>3 DEF Succeeded, Serving
  <2>5. SpanShape' /\ HeadShape'
    BY <2>3, <2>4 DEF SpanShape, HeadShape
  <2>6. RespShape'
    BY <1>1, <1>2, <2>1, <2>2, <2>3, <2>4 DEF RespShape
  <2>7. RespTyped'
    <3>1. resp'.status \in {0, 200, 206, 400, 403, 404, 405, 416, 502}
          /\ resp'.length \in 0..MaxSize
      BY <1>3, <2>2
    <3> QED BY <1>3, <2>2, <3>1, RespIsTyped, Zenon
  <2>8. RangeTypeOK' /\ ChunkShape'
    BY <1>1, <1>4, <2>3, <2>7, ChunksFrame, TypeParts
  <2> QED BY <2>5, <2>6, <2>8
<1>6. CASE /\ ~Unsatisfiable(s[1]) /\ size = 0
           /\ resp' = [status |-> 200, length |-> 0, range |-> <<>>, validators |-> TRUE]
           /\ End("done")
  <2>1. ~RangeRequested /\ Wanted = {}
    <3>1. ~RangeRequested /\ Wanted = s[1]..s[2] /\ s = <<0, -1>>
      BY <1>1, <1>6, ResolveWanted
    <3> QED BY <3>1
  <2>2. /\ resp'.status = 200 /\ resp'.length = 0 /\ resp'.validators = TRUE
        /\ resp'.range = <<>>
    BY <1>6
  <2>3. pc' = "done" /\ UNCHANGED <<span, at>>
    BY <1>6 DEF End
  <2>4. span = <<0, -1>>
    BY <1>1 DEF HeadShape
  <2>5. SpanShape' /\ HeadShape'
    BY <1>1, <1>2, <1>6, <2>1, <2>3, <2>4 DEF SpanShape, HeadShape
  <2>6. RespShape'
    BY <1>1, <1>2, <2>1, <2>2, <2>3, <2>4 DEF RespShape, Succeeded
  <2>7. RespTyped'
    <3>1. resp'.status \in {0, 200, 206, 400, 403, 404, 405, 416, 502}
          /\ resp'.length \in 0..MaxSize
      BY <1>3, <2>2
    <3> QED BY <1>3, <2>2, <3>1, RespIsTyped, Zenon
  <2>8. RangeTypeOK' /\ ChunkShape'
    BY <1>1, <1>4, <2>3, <2>7, ChunksFrame, TypeParts
  <2> QED BY <2>5, <2>6, <2>8
<1>7. CASE /\ ~Unsatisfiable(s[1]) /\ size > 0
           /\ span' = s /\ at' = s[1] \div chunkSize
           /\ resp' = [NoAnswer EXCEPT !.validators = TRUE]
           /\ pc' = "chunks"
  <2>1. /\ s \in (0..MaxSize) \X (-1..MaxSize)
        /\ s[2] < size /\ s[1] <= s[2] + 1
        /\ size > 0 => s[1] <= s[2]
        /\ Wanted = s[1]..s[2]
    BY <1>1, <1>7, ResolveWanted
  <2>2. resp'.status = 0 /\ resp'.length = 0 /\ resp'.validators = TRUE
    BY <1>7 DEF NoAnswer
  <2>3. UNCHANGED <<size, chunkSize, files, ahead>> /\ chunkSize \in Nat \ {0}
    BY <1>1, HeaderKinds DEF cacheVars
  <2> HIDE DEF s
  <2>4. s[1] \in Nat /\ s[2] \in Nat /\ s[1] <= s[2]
    BY <1>3, <1>7, <2>1
  <2>5. SpanShape'
    BY <1>1, <1>2, <1>7, <2>1, <2>3 DEF SpanShape
  <2>6. HeadShape'
    BY <1>1, <1>7 DEF HeadShape
  <2>7. RespShape'
    BY <1>7, <2>2, <2>3 DEF RespShape, Succeeded
  <2>8. at' \in Nat /\ at' <= s[1] /\ at' <= s[2] \div chunkSize
    <3> DEFINE i == s[1] \div chunkSize
               j == s[2] \div chunkSize
    <3>1. i \in Nat /\ i * chunkSize <= s[1] /\ i <= s[1]
      BY <2>3, <2>4, Division
    <3>2. j \in Nat /\ s[2] < j * chunkSize + chunkSize
      BY <2>3, <2>4, Division
    <3> HIDE DEF i, j
    <3>3. j < i => j * chunkSize + chunkSize <= i * chunkSize
      BY <2>3, <3>1, <3>2, Multiples
    <3>4. i * chunkSize \in Nat /\ j * chunkSize \in Nat
      BY <2>3, <3>1, <3>2, MultiplesOrder
    <3>5. i <= j
      BY <2>3, <2>4, <3>1, <3>2, <3>3, <3>4
    <3> QED BY <1>7, <3>1, <3>5 DEF i, j
  <2>9. ChunkShape'
    BY <1>7, <2>3, <2>8 DEF ChunkShape, LastChunk, Start
  <2>10. RespTyped'
    <3>1. resp'.status \in {0, 200, 206, 400, 403, 404, 405, 416, 502}
          /\ resp'.length \in 0..MaxSize
      BY <1>3, <2>2
    <3> QED BY <1>3, <2>2, <3>1, RespIsTyped, Zenon
  <2>11. /\ size' \in 0..MaxSize /\ chunkSize' \in ChunkSizes
         /\ files' \in [0..MaxSize -> 0..MaxSize] /\ ahead' \in SUBSET (0..MaxSize)
    BY <2>3 DEF RangeTypeOK
  <2>12. at' \in 0..MaxSize
    BY <1>3, <2>1, <2>4, <2>8
  <2>13. RangeTypeOK'
    BY <1>4, <1>7, <2>1, <2>10, <2>11, <2>12, TypeParts
  <2> QED BY <2>5, <2>6, <2>7, <2>9, <2>13
<1> QED BY <1>5, <1>6, <1>7 DEF Get

\* The headers are set, with the first chunk or before.
LEMMA CommittedShape ==
  ASSUME RangeInv, pc = "chunks", resp' = Committed, pc' \in {"chunks", "done", "cut"},
         UNCHANGED <<size, req, span>>
  PROVE  /\ SpanShape' /\ RespShape' /\ HeadShape' /\ RespTyped'
         /\ resp'.status \in {200, 206} /\ req.method = "GET" /\ Serving'
<1> USE DEF RangeInv
<1>1. Wanted' = Wanted /\ RangeRequested' = RangeRequested
  BY DEF Wanted, RangeRequested
<1>2. /\ req.method = "GET" /\ size > 0
      /\ span[2] < size /\ span[1] <= span[2] /\ span[1] <= span[2] + 1
      /\ Wanted = span[1]..span[2]
      /\ resp.status \in {0, 200, 206} /\ resp.validators
      /\ parseRange(req.range).ok
  BY DEF SpanShape, RespShape, HeadShape, Serving
<1>3. MaxSize \in Nat /\ size \in Nat /\ size <= MaxSize
  BY HeaderKinds
<1>4. span[1] \in Nat /\ span[2] \in Nat
  BY AtBounds
<1>5. /\ resp'.status \in {200, 206} /\ (resp'.status = 206 <=> RangeRequested)
      /\ resp'.length = span[2] - span[1] + 1
      /\ resp'.range = IF RangeRequested THEN <<span[1], span[2], size>> ELSE <<>>
  <2>1. CASE resp.status = 0
    <3> DEFINE new == [status |-> IF RangeRequested THEN 206 ELSE 200,
                       length |-> span[2] - span[1] + 1,
                       range  |-> IF RangeRequested THEN <<span[1], span[2], size>> ELSE <<>>,
                       validators |-> TRUE]
    <3>1. resp' = new
      BY <2>1 DEF Committed
    <3>2. /\ new.status = IF RangeRequested THEN 206 ELSE 200
          /\ new.length = span[2] - span[1] + 1
          /\ new.range = IF RangeRequested THEN <<span[1], span[2], size>> ELSE <<>>
      OBVIOUS
    <3> HIDE DEF new
    <3>3. new.status \in {200, 206} /\ (new.status = 206 <=> RangeRequested)
      BY <3>2
    <3> QED BY <3>1, <3>2, <3>3
  <2>2. CASE resp.status # 0
    <3>1. resp' = resp /\ resp.status \in {200, 206}
      BY <1>2, <2>2 DEF Committed
    <3>2. /\ resp.status = 206 <=> RangeRequested
          /\ resp.length = span[2] - span[1] + 1
          /\ resp.range = IF RangeRequested THEN <<span[1], span[2], size>> ELSE <<>>
      BY <1>2, <3>1 DEF RespShape, Succeeded
    <3> QED BY <3>1, <3>2
  <2> QED BY <2>1, <2>2
<1>6. resp'.validators = TRUE
  <2>1. CASE resp.status = 0
    BY <2>1 DEF Committed
  <2>2. CASE resp.status # 0
    <3>1. resp' = resp
      BY <2>2 DEF Committed
    <3>2. resp.validators = TRUE
      BY <1>2, Zenon DEF RangeTypeOK
    <3> QED BY <3>1, <3>2
  <2> QED BY <2>1, <2>2
<1>7. Succeeded' /\ Serving'
  BY <1>2, <1>5 DEF Succeeded, Serving
<1>8. SpanShape'
  BY <1>1, <1>2 DEF SpanShape
<1>9. RespShape'
  BY <1>1, <1>2, <1>5, <1>6, <1>7 DEF RespShape
<1>10. HeadShape'
  BY <1>2 DEF HeadShape
<1>11. RespTyped'
  <2>1. resp'.status \in {0, 200, 206, 400, 403, 404, 405, 416, 502}
        /\ resp'.length \in 0..MaxSize
    BY <1>2, <1>3, <1>4, <1>5
  <2> QED BY <1>6, <2>1, RespIsTyped, Zenon
<1> QED BY <1>2, <1>5, <1>7, <1>8, <1>9, <1>10, <1>11

\* Readahead stays within the object.
LEMMA KickedBounds ==
  ASSUME RangeInv, pc = "chunks", NEW c \in Kicked
  PROVE  c \in 0..MaxSize /\ Start(c) < size
<1>1. size \in Nat /\ chunkSize \in Nat \ {0} /\ ReadaheadChunks \in Nat
  BY HeaderKinds, RangeAssumption DEF RangeInv
<1>2. size - 1 \in Nat /\ LastChunk \in Nat
  BY <1>1, AtBounds
<1> DEFINE j == (size - 1) \div chunkSize
<1>3. c \in LastChunk+1 .. LastChunk+ReadaheadChunks /\ c <= j
  BY DEF Kicked
<1>4. c \in Nat
  BY <1>1, <1>2, <1>3
<1>5. j \in Nat /\ j * chunkSize <= size - 1
  BY <1>1, <1>2, Division
<1> HIDE DEF j
<1>6. c * chunkSize <= j * chunkSize /\ c * chunkSize \in Nat /\ j * chunkSize \in Nat
  BY <1>1, <1>3, <1>4, <1>5, MultiplesOrder
<1>7. Start(c) < size
  BY <1>1, <1>5, <1>6 DEF Start
<1> QED BY <1>4, <1>7, ExtentBounds DEF RangeInv

\* A chunk is written.
LEMMA WriteChunkInv ==
  ASSUME RangeInv, WriteChunk
  PROVE  RangeInv'
<1> USE DEF RangeInv
<1>1. /\ pc = "chunks" /\ resp' = Committed /\ UNCHANGED <<size, chunkSize, req, span>>
      /\ \/ at < LastChunk /\ at' = at + 1 /\ UNCHANGED <<pc, ahead>>
         \/ ~(at < LastChunk) /\ pc' = "done" /\ ahead' = ahead \cup Kicked /\ UNCHANGED at
  BY DEF WriteChunk
<1>2. PICK n \in 1..MaxSize : Found(at, n) /\ body' = body \o writeSlice(at, n)
  BY DEF WriteChunk
<1>3. pc' \in {"chunks", "done"}
  BY <1>1
<1>4. SpanShape' /\ RespShape' /\ HeadShape' /\ RespTyped'
  BY <1>1, <1>3, CommittedShape
<1>5. /\ Start(at) + n <= size
      /\ files' \in [0..MaxSize -> 0..MaxSize]
      /\ \A o \in 0..MaxSize : files'[o] # 0 => o + files'[o] <= size
  BY <1>1, <1>2, FoundBounds
<1>6. body' \in Seq(0..MaxSize)
  <2>1. writeSlice(at, n) \in Seq(0..MaxSize) /\ body \in Seq(0..MaxSize)
    BY <1>1, <1>5, SliceBounds DEF RangeTypeOK
  <2> QED BY <1>2, <2>1, ConcatProperties
<1>7. \A c \in ahead' : c \in 0..MaxSize /\ Start(c) < size
  BY <1>1, KickedBounds DEF RangeTypeOK, ChunkShape
<1>8. at \in Nat /\ LastChunk \in Nat /\ at <= LastChunk
      /\ span[1] \div chunkSize <= at /\ LastChunk <= span[2]
      /\ span[1] \div chunkSize \in Nat
  <2>1. /\ chunkSize \in Nat \ {0} /\ at \in Nat /\ span[1] \in Nat /\ span[2] \in Nat
    BY <1>1, AtBounds, HeaderKinds
  <2>2. span[2] \div chunkSize \in Nat /\ span[2] \div chunkSize <= span[2]
    BY <2>1, Division
  <2>3. span[1] \div chunkSize \in Nat
    BY <2>1, Division
  <2> QED BY <1>1, <2>1, <2>2, <2>3 DEF ChunkShape, LastChunk
<1>9. at' \in Nat /\ at' <= LastChunk /\ span[1] \div chunkSize <= at'
  <2> DEFINE i == span[1] \div chunkSize
  <2> HIDE DEF i
  <2>1. i \in Nat /\ i <= at
    BY <1>8 DEF i
  <2>2. at' \in Nat /\ at' <= LastChunk /\ i <= at'
    BY <1>1, <1>8, <2>1
  <2> QED BY <2>2 DEF i
<1>10. LastChunk' = LastChunk /\ \A c : Start(c)' = Start(c)
  BY <1>1 DEF LastChunk, Start
<1>11. ChunkShape'
  BY <1>1, <1>5, <1>7, <1>9, <1>10 DEF ChunkShape
<1>12. at' \in 0..MaxSize
  <2>1. span[2] < size /\ size <= MaxSize /\ size \in Nat /\ MaxSize \in Nat /\ span[2] \in Nat
    BY <1>1, AtBounds, HeaderKinds
  <2> QED BY <1>8, <1>9, <2>1
<1>13. /\ size' \in 0..MaxSize /\ chunkSize' \in ChunkSizes /\ req' \in RequestInputs
       /\ span' \in (0..MaxSize) \X (-1..MaxSize)
  BY <1>1 DEF RangeTypeOK
<1>14. ahead' \in SUBSET (0..MaxSize)
  BY <1>7
<1>15. RangeTypeOK'
  BY <1>3, <1>4, <1>5, <1>6, <1>12, <1>13, <1>14, TypeParts
<1> QED BY <1>4, <1>11, <1>15

\* A chunk is found, and its bytes, or some, sent to no one.
LEMMA WriteFailsInv ==
  ASSUME RangeInv, WriteFails
  PROVE  RangeInv'
<1> USE DEF RangeInv
<1>1. /\ pc = "chunks" /\ resp' = Committed /\ pc' = "cut"
      /\ UNCHANGED <<size, chunkSize, ahead, req, span, at>>
  BY DEF WriteFails
<1>2. PICK n \in 1..MaxSize :
        /\ Found(at, n)
        /\ \E m \in 0..Len(writeSlice(at, n)) : body' = body \o SubSeq(writeSlice(at, n), 1, m)
  BY DEF WriteFails
<1>3. SpanShape' /\ RespShape' /\ HeadShape' /\ RespTyped'
  BY <1>1, CommittedShape
<1>4. /\ Start(at) + n <= size
      /\ files' \in [0..MaxSize -> 0..MaxSize]
      /\ \A o \in 0..MaxSize : files'[o] # 0 => o + files'[o] <= size
  BY <1>1, <1>2, FoundBounds
<1>5. body' \in Seq(0..MaxSize)
  <2> DEFINE w == writeSlice(at, n)
  <2>1. w \in Seq(0..MaxSize) /\ body \in Seq(0..MaxSize)
    BY <1>1, <1>4, SliceBounds DEF RangeTypeOK
  <2>2. PICK m \in 0..Len(w) : body' = body \o SubSeq(w, 1, m)
    BY <1>2
  <2> HIDE DEF w
  <2>3. SubSeq(w, 1, m) \in Seq(0..MaxSize)
    <3>1. Len(w) \in Nat /\ \A i \in 1..Len(w) : w[i] \in 0..MaxSize
      BY <2>1, ElementOfSeq, LenProperties
    <3>2. m \in Int /\ \A i \in 1..m : w[i] \in 0..MaxSize
      BY <3>1
    <3> QED BY <3>2, SubSeqProperties
  <2> QED BY <2>1, <2>2, <2>3, ConcatProperties
<1>6. ChunkShape'
  BY <1>1, <1>4 DEF ChunkShape, Start
<1>7. RangeTypeOK'
  <2>1. /\ size' \in 0..MaxSize /\ chunkSize' \in ChunkSizes /\ req' \in RequestInputs
        /\ span' \in (0..MaxSize) \X (-1..MaxSize) /\ at' \in 0..MaxSize
        /\ ahead' \in SUBSET (0..MaxSize) /\ pc' \in {"idle", "head", "chunks", "done", "cut"}
    BY <1>1 DEF RangeTypeOK
  <2> QED BY <1>3, <1>4, <1>5, <2>1, TypeParts
<1> QED BY <1>3, <1>6, <1>7

\* A chunk fails after the headers are sent.
LEMMA CutInv ==
  ASSUME RangeInv, pc = "chunks", resp.status # 0, UNCHANGED resp, End("cut"), UNCHANGED cacheVars
  PROVE  RangeInv'
<1> USE DEF RangeInv
<1>1. pc' = "cut" /\ UNCHANGED <<req, span, at, body, size>>
  BY DEF End, cacheVars
<1>2. resp' = Committed
  BY DEF Committed
<1>3. SpanShape' /\ RespShape' /\ HeadShape' /\ RespTyped'
  BY <1>1, <1>2, CommittedShape
<1>4. RangeTypeOK' /\ ChunkShape'
  <2>1. /\ req' \in RequestInputs /\ span' \in (0..MaxSize) \X (-1..MaxSize)
        /\ at' \in 0..MaxSize /\ body' \in Seq(0..MaxSize)
        /\ pc' \in {"idle", "head", "chunks", "done", "cut"}
    BY <1>1 DEF RangeTypeOK
  <2> QED BY <1>1, <1>3, <2>1, ChunksFrame, TypeParts
<1> QED BY <1>3, <1>4

\* A file comes or goes behind the requests.
LEMMA BehindInv ==
  ASSUME RangeInv, UNCHANGED <<size, chunkSize, requestVars>>, ahead' \subseteq ahead,
         files' \in [0..MaxSize -> 0..MaxSize],
         \A o \in 0..MaxSize : files'[o] # 0 => o + files'[o] <= size
  PROVE  RangeInv'
<1> USE DEF RangeInv
<1>1. UNCHANGED <<size, chunkSize, pc, req, span, at, resp, body>>
  BY DEF requestVars
<1>2. Wanted' = Wanted /\ RangeRequested' = RangeRequested /\ Succeeded' = Succeeded
  BY <1>1 DEF Wanted, RangeRequested, Succeeded
<1>3. SpanShape'
  BY <1>1, <1>2 DEF SpanShape, Serving
<1>4. RespShape'
  BY <1>1, <1>2 DEF RespShape
<1>5. HeadShape'
  BY <1>1 DEF HeadShape
<1>6. ChunkShape'
  BY <1>1 DEF ChunkShape, LastChunk, Start
<1>7. RespTyped'
  <2>1. resp' = resp
    BY <1>1
  <2>2. RespTyped
    BY Zenon DEF RangeTypeOK, RespTyped
  <2> QED BY <2>1, <2>2 DEF RespTyped
<1>8. RangeTypeOK'
  <2>1. /\ size' \in 0..MaxSize /\ chunkSize' \in ChunkSizes /\ req' \in RequestInputs
        /\ span' \in (0..MaxSize) \X (-1..MaxSize) /\ at' \in 0..MaxSize
        /\ ahead' \in SUBSET (0..MaxSize) /\ pc' \in {"idle", "head", "chunks", "done", "cut"}
        /\ body' \in Seq(0..MaxSize)
    BY <1>1 DEF RangeTypeOK
  <2> QED BY <1>7, <2>1, TypeParts
<1> QED BY <1>3, <1>4, <1>5, <1>6, <1>8

\* Readahead ends, with a chunk stored or not.
LEMMA PrefetchInv ==
  ASSUME RangeInv, NEW c \in ahead, Prefetch(c)
  PROVE  RangeInv'
<1> USE DEF RangeInv
<1>1. /\ UNCHANGED <<size, chunkSize, requestVars>> /\ ahead' \subseteq ahead
      /\ files' = files \/ files' = [files EXCEPT ![Start(c)] = ReadaheadExtent(c)]
  BY DEF Prefetch
<1>2. c \in Nat /\ Start(c) < size
  BY RangeAssumption DEF RangeTypeOK, ChunkShape
<1>3. /\ Start(c) \in 0..MaxSize /\ ReadaheadExtent(c) \in 0..MaxSize
      /\ Start(c) + ReadaheadExtent(c) <= size
  <2>1. /\ Start(c) \in 0..MaxSize /\ Extent(c) \in 1..MaxSize
        /\ Start(c) + Extent(c) <= size /\ Extent(c) = ReadaheadExtent(c)
    BY <1>2, ExtentBounds
  <2>2. MaxSize \in Nat
    BY RangeAssumption
  <2> QED BY <2>1, <2>2
<1>4. files \in [0..MaxSize -> 0..MaxSize]
      /\ \A o \in 0..MaxSize : files[o] # 0 => o + files[o] <= size
  BY DEF RangeTypeOK, ChunkShape
<1>5. files' \in [0..MaxSize -> 0..MaxSize]
  BY <1>1, <1>3, <1>4
<1>6. \A o \in 0..MaxSize : files'[o] # 0 => o + files'[o] <= size
  BY <1>1, <1>3, <1>4
<1> QED BY <1>1, <1>5, <1>6, BehindInv

\* A chunk file is evicted.
LEMMA EvictInv ==
  ASSUME RangeInv, NEW o \in 0..MaxSize, Evict(o)
  PROVE  RangeInv'
<1> USE DEF RangeInv
<1>1. /\ UNCHANGED <<size, chunkSize, requestVars>> /\ ahead' \subseteq ahead
      /\ files' = [files EXCEPT ![o] = 0]
  BY DEF Evict
<1>2. files \in [0..MaxSize -> 0..MaxSize]
      /\ \A i \in 0..MaxSize : files[i] # 0 => i + files[i] <= size
  BY DEF RangeTypeOK, ChunkShape
<1>3. files' \in [0..MaxSize -> 0..MaxSize]
  <2>1. 0 \in 0..MaxSize
    BY RangeAssumption
  <2> QED BY <1>1, <1>2, <2>1
<1>4. \A i \in 0..MaxSize : files'[i] # 0 => i + files'[i] <= size
  BY <1>1, <1>2
<1> QED BY <1>1, <1>3, <1>4, BehindInv

\* The process starts again, perhaps with another chunk size.
LEMMA RestartInv ==
  ASSUME RangeInv, Restart
  PROVE  RangeInv' /\ ~Serving' /\ body' = <<>>
<1>1. /\ chunkSize' \in ChunkSizes /\ ahead' = {} /\ UNCHANGED <<size, files>>
      /\ pc' = "idle" /\ req' = AnyRequest /\ span' = <<0, -1>> /\ at' = 0
      /\ resp' = NoAnswer /\ body' = <<>>
  BY DEF Restart
<1>2. /\ SpanShape' /\ RespShape' /\ HeadShape'
      /\ pc' \in {"idle", "head", "chunks", "done", "cut"} /\ req' \in RequestInputs
      /\ span' \in (0..MaxSize) \X (-1..MaxSize) /\ at' \in 0..MaxSize
      /\ RespTyped' /\ body' \in Seq(0..MaxSize)
  BY <1>1, FreshShape
<1>3. /\ size' \in 0..MaxSize /\ files' \in [0..MaxSize -> 0..MaxSize]
      /\ ahead' \in SUBSET (0..MaxSize)
  BY <1>1 DEF RangeInv, RangeTypeOK
<1>4. RangeTypeOK'
  BY <1>1, <1>2, <1>3, TypeParts
<1>5. ChunkShape'
  BY <1>1 DEF RangeInv, ChunkShape
<1>6. ~Serving'
  BY <1>1 DEF Serving, Succeeded, NoAnswer
<1> QED BY <1>1, <1>2, <1>4, <1>5, <1>6 DEF RangeInv

\* Every step keeps the invariant.
LEMMA RangeNextInv ==
  ASSUME RangeInv, [RangeNext]_rangeVars
  PROVE  RangeInv'
<1>1. ASSUME NEW q \in RequestInputs, handle(q) PROVE RangeInv'
  BY <1>1, HandleInv
<1>2. CASE HeadFails
  BY <1>2, FailsInv DEF HeadFails
<1>3. CASE ServeHead \/ Get \/ WriteChunk \/ WriteFails \/ Restart
  BY <1>3, ServeHeadInv, GetInv, WriteChunkInv, WriteFailsInv, RestartInv
<1>4. CASE ChunkFails
  BY <1>4, FailsInv, CutInv DEF ChunkFails
<1>5. ASSUME NEW c \in ahead, Prefetch(c) PROVE RangeInv'
  BY <1>5, PrefetchInv
<1>6. ASSUME NEW o \in 0..MaxSize, Evict(o) PROVE RangeInv'
  BY <1>6, EvictInv
<1>7. CASE UNCHANGED rangeVars
  <2>1. UNCHANGED <<size, chunkSize, requestVars>> /\ ahead' \subseteq ahead /\ files' = files
    BY <1>7 DEF rangeVars, cacheVars
  <2> QED BY <2>1, BehindInv DEF RangeInv, RangeTypeOK, ChunkShape
<1> QED BY <1>1, <1>2, <1>3, <1>4, <1>5, <1>6, <1>7 DEF RangeNext

\* The invariant holds throughout, whatever chunk sizes the process is started
\* with.
THEOREM RangeInvariant == RangeSpec => []RangeInv
<1>1. RangeInit => RangeInv
  BY RangeInitInv
<1>2. RangeInv /\ [RangeNext]_rangeVars => RangeInv'
  BY RangeNextInv
<1> QED BY <1>1, <1>2, PTL DEF RangeSpec

\* Every variable has its type: no arithmetic of Get, serveAligned, writeSlice
\* and Kick leaves the object, even with chunk files of another chunk size.
THEOREM RangeTypeCorrect == RangeSpec => []RangeTypeOK
<1>1. RangeInv => RangeTypeOK
  BY DEF RangeInv
<1> QED BY <1>1, RangeInvariant, PTL

\* Content-Length and Content-Range, computed by Get before any byte is
\* fetched, are those of the bytes the Range header asks for.
THEOREM RangeHeadersTrue == RangeSpec => []HeadersTrue
<1>1. ASSUME RangeInv PROVE HeadersTrue
  <2> SUFFICES ASSUME Succeeded, req.method = "GET"
               PROVE  /\ resp.length = Cardinality(Wanted)
                      /\ resp.range # <<>> =>
                           /\ {resp.range[1], resp.range[2]} \subseteq Wanted
                           /\ \A o \in Wanted : resp.range[1] <= o /\ o <= resp.range[2]
                           /\ resp.range[3] = size
    BY DEF HeadersTrue
  <2>1. Wanted = span[1]..span[2] /\ span[1] <= span[2] + 1
        /\ (size > 0 => span[1] <= span[2])
    BY <1>1 DEF RangeInv, SpanShape, Serving
  <2>2. /\ RangeRequested => size > 0
        /\ resp.length = span[2] - span[1] + 1
        /\ resp.range = IF RangeRequested THEN <<span[1], span[2], size>> ELSE <<>>
    BY <1>1 DEF RangeInv, RespShape
  <2>3. span[1] \in Int /\ span[2] \in Int
    BY <1>1, RangeAssumption DEF RangeInv, RangeTypeOK
  <2>4. resp.length = Cardinality(Wanted)
    BY <2>1, <2>2, <2>3, SpanCount
  <2>5. CASE RangeRequested
    <3>1. resp.range = <<span[1], span[2], size>> /\ span[1] <= span[2]
      BY <2>1, <2>2, <2>5
    <3> QED BY <2>1, <2>3, <2>4, <3>1
  <2>6. CASE ~RangeRequested
    BY <2>2, <2>4, <2>6
  <2> QED BY <2>5, <2>6
<1> QED BY <1>1, RangeInvariant, PTL

\* The requests that handle passes on, and the statuses the others get.
Taken == req.method \in {"GET", "HEAD"} /\ req.key /\ RangeValid

DueShape ==
  /\ pc \in {"head", "chunks"} => Taken
  /\ resp.status \in {400, 405} => ~Taken /\ resp.status = DueStatus
  /\ resp.status \notin {0, 400, 405} => Taken
  /\ resp.status = 416 \/ pc = "chunks" => req.method = "GET"

\* A refused request gets the status handle has for it.
LEMMA HandleDue ==
  ASSUME RangeInv, NEW q \in RequestInputs, handle(q)
  PROVE  DueShape'
<1>1. req' = q
  BY DEF handle
<1>2. parseRange(q.range).ok <=> RangeValid'
  <2>1. q.range \in RangeHeaders
    BY DEF RequestInputs
  <2>2. /\ q.range.kind \in {"none", "malformed", "from", "span", "suffix"}
        /\ q.range.a \in Int /\ q.range.b \in Int
    BY <2>1, RangeAssumption DEF RangeHeaders
  <2> QED BY <1>1, <2>2 DEF parseRange, RangeValid
<1>3. CASE q.method \notin {"GET", "HEAD"}
  <2>1. resp'.status = 405 /\ pc' = "done"
    BY <1>3 DEF handle, Fail, NoAnswer
  <2> QED BY <1>1, <1>3, <2>1 DEF DueShape, Taken, DueStatus
<1>4. CASE q.method \in {"GET", "HEAD"} /\ (~q.key \/ ~parseRange(q.range).ok)
  <2>1. resp'.status = 400 /\ pc' = "done"
    BY <1>4 DEF handle, Fail, NoAnswer
  <2> QED BY <1>1, <1>2, <1>4, <2>1 DEF DueShape, Taken, DueStatus
<1>5. CASE q.method \in {"GET", "HEAD"} /\ q.key /\ parseRange(q.range).ok
  <2>1. resp'.status = 0 /\ pc' = "head"
    BY <1>5 DEF handle, Fail, NoAnswer
  <2> QED BY <1>1, <1>2, <1>5, <2>1 DEF DueShape, Taken
<1> QED BY <1>3, <1>4, <1>5

\* A request that was passed on stays so, and is not refused any more.
LEMMA TakenDue ==
  ASSUME Taken, req' = req, resp'.status \notin {400, 405},
         resp'.status = 416 \/ pc' = "chunks" => req.method = "GET"
  PROVE  DueShape'
BY DEF DueShape, Taken, RangeValid

\* Every step gives a request its due status, or an upstream failure.
LEMMA DueStep ==
  ASSUME RangeInv, DueShape, [RangeNext]_rangeVars
  PROVE  DueShape'
<1>1. ASSUME NEW st \in httpErrorFromS3, Fail(st), End("done"), Taken PROVE DueShape'
  <2>1. resp'.status \notin {400, 405, 416} /\ pc' = "done" /\ req' = req
    BY <1>1 DEF Fail, NoAnswer, End, httpErrorFromS3
  <2> QED BY <1>1, <2>1, TakenDue
<1>2. CASE HeadFails
  BY <1>1, <1>2 DEF HeadFails, DueShape
<1>3. CASE ServeHead
  <2>1. resp'.status = 200 /\ pc' = "done" /\ req' = req /\ Taken
    BY <1>3 DEF ServeHead, End, DueShape
  <2> QED BY <2>1, TakenDue
<1>4. CASE Get
  <2>1. req' = req /\ Taken /\ req.method = "GET"
    BY <1>4 DEF Get, End, DueShape
  <2> DEFINE refused == [NoAnswer EXCEPT !.status = 416, !.range = <<size>>]
             empty == [status |-> 200, length |-> 0, range |-> <<>>, validators |-> TRUE]
             begun == [NoAnswer EXCEPT !.validators = TRUE]
  <2>2. resp' = refused \/ resp' = empty \/ resp' = begun
    <3> DEFINE s == Resolve(parseRange(req.range))
    <3> HIDE DEF refused, empty, begun
    <3>1. \/ Unsatisfiable(s[1]) /\ resp' = refused
          \/ ~Unsatisfiable(s[1]) /\ size = 0 /\ resp' = empty
          \/ ~Unsatisfiable(s[1]) /\ size > 0 /\ resp' = begun
      BY <1>4, Zenon DEF Get, refused, empty, begun
    <3> QED BY <3>1
  <2>3. refused.status = 416 /\ empty.status = 200 /\ begun.status = 0
    BY DEF NoAnswer
  <2>4. resp'.status \in {0, 200, 416}
    <3> HIDE DEF refused, empty, begun
    <3> QED BY <2>2, <2>3
  <2> QED BY <2>1, <2>4, TakenDue
<1>5. CASE WriteChunk \/ WriteFails
  <2>1. resp' = Committed /\ req' = req /\ pc = "chunks"
    BY <1>5 DEF WriteChunk, WriteFails
  <2>2. resp.status \in {0, 200, 206} /\ Taken /\ req.method = "GET"
    BY <2>1 DEF RangeInv, RespShape, DueShape
  <2>3. resp'.status \in {200, 206}
    BY <2>1, <2>2 DEF Committed
  <2> QED BY <2>1, <2>2, <2>3, TakenDue
<1>6. CASE ChunkFails
  <2>1. pc = "chunks" /\ resp.status \in {0, 200, 206} /\ Taken
    BY <1>6 DEF ChunkFails, RangeInv, RespShape, DueShape
  <2>2. CASE UNCHANGED resp /\ End("cut")
    BY <2>1, <2>2, TakenDue DEF End
  <2> QED BY <1>1, <1>6, <2>1, <2>2 DEF ChunkFails
<1>7. CASE UNCHANGED <<pc, req, resp, size>>
  BY <1>7 DEF DueShape, Taken, RangeValid, DueStatus, RangeRequested, Wanted
<1>8. CASE Restart
  <2>1. pc' = "idle" /\ resp'.status = 0
    BY <1>8 DEF Restart, NoAnswer
  <2> QED BY <2>1 DEF DueShape
<1>9. ASSUME UNCHANGED rangeVars
             \/ (\E c \in ahead : Prefetch(c)) \/ (\E o \in 0..MaxSize : Evict(o))
      PROVE  UNCHANGED <<pc, req, resp, size>>
  BY <1>9 DEF rangeVars, requestVars, cacheVars, Prefetch, Evict
<1> QED
  BY <1>2, <1>3, <1>4, <1>5, <1>6, <1>7, <1>8, <1>9, HandleDue DEF RangeNext

\* The status tells the end of the object from an error: unless upstream fails,
\* Get answers a valid range with 416 just when it has no bytes and with 206
\* just when it has some, and a plain GET with 200; handle refuses every other
\* request; only content claims validators.
THEOREM RangeStatusRight == RangeSpec => []StatusRight
<1>1. RangeInit => DueShape
  BY DEF RangeInit, NoAnswer, DueShape
<1>2. ASSUME RangeInv, DueShape PROVE StatusRight
  <2> USE <1>2
  <2>1. resp.status \in {0, 200, 206, 400, 403, 404, 405, 416, 502}
    BY DEF RangeInv, RangeTypeOK
  <2>2. CASE resp.status = 416
    <3>1. RangeRequested /\ Wanted = {}
      BY <2>2 DEF RangeInv, RespShape
    <3>2. Taken /\ req.method = "GET"
      BY <2>2 DEF DueShape
    <3> QED BY <2>2, <3>1, <3>2 DEF DueStatus, Taken, StatusRight, RangeInv, RespShape
  <2>3. CASE resp.status = 206
    <3>1. Succeeded
      BY <2>3 DEF Succeeded
    <3>2. req.method = "GET"
      BY <2>3, <3>1 DEF RangeInv, RespShape
    <3>3. RangeRequested /\ size > 0
      BY <2>3, <3>1, <3>2 DEF RangeInv, RespShape
    <3>4. Wanted = span[1]..span[2] /\ span[1] <= span[2]
      BY <3>1, <3>2, <3>3 DEF RangeInv, SpanShape, Serving
    <3>5. span[1] \in Int /\ span[2] \in Int
      BY RangeAssumption DEF RangeInv, RangeTypeOK
    <3>6. span[1] \in Wanted
      BY <3>4, <3>5
    <3>7. Taken
      BY <2>3 DEF DueShape
    <3> QED BY <2>3, <3>1, <3>2, <3>3, <3>6, <3>7 DEF DueStatus, Taken, StatusRight
  <2>4. CASE resp.status = 200
    <3>1. Succeeded
      BY <2>4 DEF Succeeded
    <3>2. req.method = "GET" => ~RangeRequested
      BY <2>4, <3>1 DEF RangeInv, RespShape
    <3>3. Taken
      BY <2>4 DEF DueShape
    <3> QED BY <2>4, <3>1, <3>2, <3>3 DEF DueStatus, Taken, StatusRight
  <2>5. CASE resp.status \in {403, 404, 502}
    <3>1. Taken
      BY <2>5 DEF DueShape
    <3>2. DueStatus \notin {400, 405}
      BY <3>1 DEF DueStatus, Taken
    <3>3. pc = "done" /\ resp.validators => Succeeded
      BY DEF RangeInv, RespShape
    <3> QED BY <2>5, <3>2, <3>3 DEF StatusRight, httpErrorFromS3
  <2>6. CASE resp.status \in {0, 400, 405}
    <3>1. pc = "done" /\ resp.validators => Succeeded
      BY DEF RangeInv, RespShape
    <3>2. pc \in {"done", "cut"} => resp.status # 0
      BY DEF RangeInv, RespShape
    <3>3. resp.status \in {400, 405} => resp.status = DueStatus
      BY DEF DueShape
    <3> QED BY <2>6, <3>1, <3>2, <3>3 DEF StatusRight
  <2> QED BY <2>1, <2>2, <2>3, <2>4, <2>5, <2>6
<1>3. RangeInv /\ DueShape /\ [RangeNext]_rangeVars => DueShape'
  BY DueStep
<1> QED BY <1>1, <1>2, <1>3, RangeInvariant, PTL DEF RangeSpec

\* So all that Get says before the first byte is right, for objects of any size
\* and even with chunk files of another chunk size.
THEOREM RangeAnswerTrue == RangeSpec => []AnswerTrue
<1>1. HeadersTrue /\ StatusRight => AnswerTrue
  BY DEF AnswerTrue
<1> QED BY <1>1, RangeHeadersTrue, RangeStatusRight, PTL

-----------------------------------------------------------------------------
(* The bytes, with one chunk size                                          *)

\* The files of chunks found in the cache have their extent.
LEMMA FoundExtent ==
  ASSUME RangeInv, FilesWhole, pc = "chunks", NEW n \in 1..MaxSize, Found(at, n)
  PROVE  n = Extent(at)
<1>1. at \in Nat /\ Start(at) < size
  BY AtBounds
<1>2. at \in 0..MaxSize
  BY <1>1, ExtentBounds DEF RangeInv
<1>3. files[Start(at)] \in {0, Extent(at)}
  BY <1>1, <1>2 DEF FilesWhole
<1> QED BY <1>3 DEF Found

\* A chunk stored in its extent leaves the same bytes at the same offset.
LEMMA StoreSame ==
  ASSUME RangeInv, FilesWhole, NEW c \in Nat, Start(c) < size,
         UNCHANGED <<size, chunkSize>>,
         files' = files \/ files' = [files EXCEPT ![Start(c)] = Extent(c)]
  PROVE  FilesWhole'
<1>1. \A d : Start(d)' = Start(d) /\ Extent(d)' = Extent(d)
  BY DEF Start, Extent, Least
<1>2. Start(c) \in 0..MaxSize /\ files \in [0..MaxSize -> 0..MaxSize]
  BY ExtentBounds DEF RangeInv, RangeTypeOK
<1>3. ASSUME NEW d \in 0..MaxSize, Start(d) < size
      PROVE  files'[Start(d)] \in {0, Extent(d)}
  <2>1. files[Start(d)] \in {0, Extent(d)}
    BY <1>3 DEF FilesWhole
  <2>2. d \in Nat
    BY RangeAssumption
  <2>3. Start(d) \in 0..MaxSize
    BY <1>3, <2>2, ExtentBounds DEF RangeInv
  <2>4. Start(d) = Start(c) => Extent(d) = Extent(c)
    BY DEF Extent
  <2> QED BY <1>2, <2>1, <2>3, <2>4
<1> QED BY <1>1, <1>3 DEF FilesWhole

\* No file changes.
LEMMA FilesSame ==
  ASSUME FilesWhole, UNCHANGED <<size, chunkSize, files>>
  PROVE  FilesWhole'
BY DEF FilesWhole, Start, Extent, Least

\* The chunk at hand, or a part of it, continues the body.
LEMMA BodyGrows ==
  ASSUME RangeInv, BodyShape, pc = "chunks", NEW w \in Seq(0..MaxSize),
         NEW m \in Nat, m <= Len(writeSlice(at, Extent(at))),
         Len(w) = m, \A k \in 1..m : w[k] = writeSlice(at, Extent(at))[k],
         body' = body \o w
  PROVE  /\ Len(body') = Len(body) + m
         /\ Len(body) + m <= span[2] - span[1] + 1
         /\ \A k \in 1..Len(body') : body'[k] = span[1] + k - 1
         /\ m = Len(writeSlice(at, Extent(at))) =>
              /\ at < LastChunk => Len(body') = Greatest(Start(at + 1) - span[1], 0)
              /\ at = LastChunk => Len(body') = span[2] - span[1] + 1
<1> DEFINE n == Extent(at)
           v == writeSlice(at, n)
<1>1. /\ size \in Nat /\ size <= MaxSize /\ MaxSize \in Nat /\ chunkSize \in Nat \ {0}
  BY HeaderKinds DEF RangeInv
<1>2. /\ at \in Nat /\ size > 0
      /\ Start(at) \in Nat /\ Start(at) <= span[2] /\ Start(at) < size
      /\ span[1] \in Nat /\ span[2] \in Nat
      /\ span[1] <= span[2] /\ span[2] < size
      /\ span[1] < Start(at) + chunkSize
      /\ at < LastChunk => Start(at) + chunkSize = Start(at + 1)
                           /\ Start(at) + chunkSize <= span[2]
      /\ at = LastChunk => span[2] < Start(at) + chunkSize
  BY AtBounds
<1>3. /\ n \in 1..MaxSize /\ Start(at) + n <= size
      /\ Start(at) + chunkSize < size => n = chunkSize
      /\ Start(at) + n = size \/ n = chunkSize
  BY <1>2, ExtentBounds DEF RangeInv
<1>4. /\ Len(v) = Least(Start(at) + n - 1, span[2]) - Greatest(Start(at), span[1]) + 1
      /\ \A k \in 1..Len(v) : v[k] = Greatest(Start(at), span[1]) + k - 1
  BY <1>3, SliceBounds
<1>5. /\ body \in Seq(0..MaxSize) /\ Len(body) \in Nat
      /\ Len(body) = Greatest(Start(at) - span[1], 0)
      /\ \A k \in 1..Len(body) : body[k] = span[1] + k - 1
  BY LenProperties DEF RangeInv, RangeTypeOK, BodyShape, Serving
<1>6. /\ Len(body') = Len(body) + m
      /\ \A k \in 1..Len(body) + m :
           body'[k] = IF k <= Len(body) THEN body[k] ELSE w[k - Len(body)]
  BY <1>5, ConcatProperties
<1> DEFINE b == Len(body)
<1>7. b \in Nat /\ b + span[1] = Greatest(Start(at), span[1])
  BY <1>2, <1>5 DEF Greatest
<1>8. \A k \in 1..m : w[k] = v[k]
  OBVIOUS
<1>9. m <= Len(v)
  OBVIOUS
<1> HIDE DEF n, v, b
<1>10. \A k \in 1..m : w[k] = b + span[1] + k - 1
  BY <1>4, <1>7, <1>8, <1>9
<1>11. \A k \in 1..Len(body') : body'[k] = span[1] + k - 1
  <2>1. Len(body') = b + m
    BY <1>6 DEF b
  <2>2. \A k \in 1..b : body'[k] = span[1] + k - 1
    BY <1>5, <1>6, <1>7 DEF b
  <2>3. ASSUME NEW k \in 1..(b + m), k > b PROVE body'[k] = span[1] + k - 1
    <3>1. k - b \in 1..m /\ k \in Int
      BY <1>7, <2>3
    <3>2. body'[k] = w[k - b]
      BY <1>6, <1>7, <2>3 DEF b
    <3>3. w[k - b] = b + span[1] + (k - b) - 1
      BY <1>10, <3>1
    <3>4. b + span[1] + (k - b) - 1 = span[1] + k - 1
      BY <1>2, <1>7, <3>1
    <3> QED BY <3>2, <3>3, <3>4
  <2> QED BY <1>7, <2>1, <2>2, <2>3
<1>12. n \in Nat /\ Len(v) \in Int
  BY <1>1, <1>2, <1>3, <1>4 DEF Least, Greatest
<1>13. /\ b + m <= span[2] - span[1] + 1
       /\ m = Len(v) /\ span[2] <= Start(at) + n - 1 => b + m = span[2] - span[1] + 1
       /\ m = Len(v) /\ Start(at) + n <= span[2] => b + m = (Start(at) + n) - span[1]
  <2> DEFINE x == span[1]
             y == span[2]
             a == Start(at)
             l == Len(v)
  <2>1. x \in Nat /\ y \in Nat /\ a \in Nat /\ n \in Nat /\ b \in Nat /\ l \in Int
    BY <1>2, <1>7, <1>12
  <2>2. b + x = Greatest(a, x) /\ m <= l
    BY <1>7, <1>9
  <2>3. l = Least(a + n - 1, y) - Greatest(a, x) + 1
    BY <1>4
  <2> HIDE DEF x, y, a, l
  <2>4. /\ b + m <= y - x + 1
        /\ m = l /\ y <= a + n - 1 => b + m = y - x + 1
        /\ m = l /\ a + n <= y => b + m = (a + n) - x
    BY <2>1, <2>2, <2>3 DEF Greatest, Least
  <2> QED BY <2>4 DEF x, y, a, l
<1>14. ASSUME m = Len(v), at < LastChunk
       PROVE  b + m = Greatest(Start(at + 1) - span[1], 0)
  <2>1. n = chunkSize
    BY <1>1, <1>2, <1>3, <1>14
  <2>2. Start(at) + n <= span[2] /\ Start(at) + n = Start(at + 1)
    <3>1. Start(at) + chunkSize <= span[2] /\ Start(at) + chunkSize = Start(at + 1)
      BY <1>14, AtBounds
    <3> QED BY <2>1, <3>1
  <2>3. b + m = Start(at + 1) - span[1]
    <3>1. b + m = (Start(at) + n) - span[1]
      BY <1>13, <1>14, <2>2
    <3> QED BY <2>2, <3>1
  <2>4. b + m >= 0
    BY <1>7
  <2>5. b + m \in Int
    BY <1>7
  <2> QED BY <2>3, <2>4, <2>5 DEF Greatest
<1>15. ASSUME m = Len(v), at = LastChunk
       PROVE  b + m = span[2] - span[1] + 1
  <2>1. span[2] <= Start(at) + n - 1
    BY <1>1, <1>2, <1>3, <1>15
  <2> QED BY <1>13, <1>15, <2>1
<1> QED BY <1>6, <1>11, <1>13, <1>14, <1>15 DEF b, v, n

\* A response without content has no bytes.
LEMMA NoBody ==
  ASSUME ~Serving', body' = <<>>
  PROVE  BodyShape'
BY DEF BodyShape, Serving

\* A chunk is written, whole.
LEMMA WriteChunkExact ==
  ASSUME ExactInv, WriteChunk
  PROVE  FilesWhole' /\ BodyShape'
<1> USE DEF ExactInv
<1>1. /\ pc = "chunks" /\ resp' = Committed /\ UNCHANGED <<size, chunkSize, req, span>>
      /\ \/ at < LastChunk /\ at' = at + 1 /\ pc' = "chunks"
         \/ ~(at < LastChunk) /\ pc' = "done" /\ UNCHANGED at
  BY DEF WriteChunk
<1>2. PICK n \in 1..MaxSize : Found(at, n) /\ body' = body \o writeSlice(at, n)
  BY DEF WriteChunk
<1>3. n = Extent(at)
  BY <1>1, <1>2, FoundExtent
<1>4. at \in Nat /\ Start(at) < size /\ LastChunk \in Nat
  BY <1>1, AtBounds
<1>5. FilesWhole'
  BY <1>1, <1>2, <1>3, <1>4, StoreSame DEF Found
<1>6. resp'.status \in {200, 206} /\ Serving'
  BY <1>1, CommittedShape
<1>7. at <= LastChunk
  BY <1>1 DEF RangeInv, ChunkShape
<1> DEFINE w == writeSlice(at, n)
<1>8. w \in Seq(0..MaxSize) /\ Len(w) \in Nat
  <2>1. Start(at) + n <= size
    BY <1>1, <1>2, FoundBounds
  <2>2. w \in Seq(0..MaxSize)
    BY <1>1, <2>1, SliceBounds
  <2> HIDE DEF w
  <2> QED BY <2>2, LenProperties
<1>9. w = writeSlice(at, Extent(at)) /\ body' = body \o w
  BY <1>2, <1>3
<1> HIDE DEF w
<1>10. /\ Len(body') <= span[2] - span[1] + 1
       /\ \A k \in 1..Len(body') : body'[k] = span[1] + k - 1
       /\ at < LastChunk => Len(body') = Greatest(Start(at + 1) - span[1], 0)
       /\ at = LastChunk => Len(body') = span[2] - span[1] + 1
  <2> DEFINE m == Len(w)
             v == writeSlice(at, Extent(at))
  <2>1. m \in Nat /\ m <= Len(v) /\ m = Len(v) /\ Len(w) = m /\ \A k \in 1..m : w[k] = v[k]
    BY <1>8, <1>9
  <2> HIDE DEF m
  <2> QED BY <1>1, <1>8, <1>9, <2>1, BodyGrows
<1>11. CASE at < LastChunk
  <2>1. /\ at' = at + 1 /\ pc' = "chunks" /\ resp'.status # 0
        /\ Start(at)' = Start(at + 1)
    BY <1>1, <1>6, <1>11 DEF Start
  <2>2. Len(body') = Greatest(Start(at + 1) - span[1], 0)
    BY <1>10, <1>11
  <2>3. Len(body') = Greatest(Start(at)' - span'[1], 0)
    BY <1>1, <2>1, <2>2
  <2> QED BY <1>1, <1>5, <1>6, <1>10, <2>1, <2>3 DEF BodyShape, Greatest
<1>12. CASE ~(at < LastChunk)
  <2>1. at = LastChunk /\ pc' = "done"
    BY <1>1, <1>4, <1>7, <1>12
  <2> QED BY <1>1, <1>5, <1>6, <1>10, <2>1 DEF BodyShape
<1> QED BY <1>11, <1>12


\* The client is gone: a part of the chunk is written.
LEMMA WriteFailsExact ==
  ASSUME ExactInv, WriteFails
  PROVE  FilesWhole' /\ BodyShape'
<1> USE DEF ExactInv
<1>1. /\ pc = "chunks" /\ resp' = Committed /\ pc' = "cut"
      /\ UNCHANGED <<size, chunkSize, ahead, req, span, at>>
  BY DEF WriteFails
<1>2. PICK n \in 1..MaxSize :
        /\ Found(at, n)
        /\ \E m \in 0..Len(writeSlice(at, n)) : body' = body \o SubSeq(writeSlice(at, n), 1, m)
  BY DEF WriteFails
<1>3. n = Extent(at)
  BY <1>1, <1>2, FoundExtent
<1>4. at \in Nat /\ Start(at) < size
  BY <1>1, AtBounds
<1>5. FilesWhole'
  BY <1>1, <1>2, <1>3, <1>4, StoreSame DEF Found
<1>6. Serving'
  BY <1>1, CommittedShape
<1> DEFINE v == writeSlice(at, Extent(at))
<1>7. PICK m \in 0..Len(v) : body' = body \o SubSeq(v, 1, m)
  BY <1>2, <1>3
<1>8. v \in Seq(0..MaxSize) /\ Len(v) \in Nat
  <2>1. Extent(at) \in 1..MaxSize /\ Start(at) + Extent(at) <= size
    BY <1>4, ExtentBounds DEF RangeInv
  <2>2. v \in Seq(0..MaxSize)
    BY <1>1, <2>1, SliceBounds
  <2> HIDE DEF v
  <2> QED BY <2>2, LenProperties
<1> DEFINE w == SubSeq(v, 1, m)
<1>9. w \in Seq(0..MaxSize) /\ Len(w) = m /\ \A k \in 1..m : w[k] = v[k]
  <2> HIDE DEF v
  <2>1. \A i \in 1..Len(v) : v[i] \in 0..MaxSize
    BY <1>8, ElementOfSeq
  <2>2. m \in Nat /\ \A i \in 1..m : v[i] \in 0..MaxSize
    BY <1>8, <2>1
  <2>3. /\ w \in Seq(0..MaxSize) /\ Len(w) = m
        /\ \A k \in 1..m : w[k] = v[1 + k - 1]
    BY <2>2, SubSeqProperties
  <2>4. \A k \in 1..m : 1 + k - 1 = k
    BY <2>2
  <2> QED BY <2>3, <2>4
<1>10. m \in Nat /\ m <= Len(v)
  BY <1>8
<1>11. /\ Len(body') <= span[2] - span[1] + 1
       /\ \A k \in 1..Len(body') : body'[k] = span[1] + k - 1
  <2> HIDE DEF w
  <2>1. body' = body \o w
    BY <1>7 DEF w
  <2> QED BY <1>1, <1>9, <1>10, <2>1, BodyGrows
<1> QED BY <1>1, <1>5, <1>6, <1>11 DEF BodyShape

\* A GET is refused, answered as empty, or begins with its first chunk.
LEMMA GetExact ==
  ASSUME ExactInv, Get
  PROVE  FilesWhole' /\ BodyShape'
<1> USE DEF ExactInv
<1>1. /\ pc = "head" /\ req.method = "GET" /\ UNCHANGED <<size, chunkSize, files>>
      /\ UNCHANGED <<req, body>> /\ parseRange(req.range).ok
      /\ span = <<0, -1>> /\ body = <<>>
  BY DEF Get, End, HeadShape, cacheVars, RangeInv
<1>2. FilesWhole'
  BY <1>1, FilesSame
<1>3. body' = <<>> /\ Len(body') = 0
  BY <1>1
<1> DEFINE s == Resolve(parseRange(req.range))
<1>4. CASE /\ resp' = [NoAnswer EXCEPT !.status = 416, !.range = <<size>>]
           /\ End("done")
  <2>1. resp'.status = 416 /\ pc' = "done"
    BY <1>4 DEF NoAnswer, End
  <2> QED BY <1>2, <1>3, <2>1, NoBody DEF Serving, Succeeded
<1>5. CASE /\ size = 0
           /\ resp' = [status |-> 200, length |-> 0, range |-> <<>>, validators |-> TRUE]
           /\ End("done")
  <2>1. resp'.status = 200 /\ pc' = "done" /\ span' = <<0, -1>> /\ req'.method = "GET"
    BY <1>1, <1>5 DEF End
  <2>2. span'[1] = 0 /\ span'[2] = -1
    BY <2>1
  <2>3. Len(body') = span'[2] - span'[1] + 1
    BY <1>3, <2>2
  <2>4. \A k \in 1..Len(body') : body'[k] = span'[1] + k - 1
    BY <1>3
  <2>5. Serving'
    BY <2>1 DEF Serving, Succeeded
  <2> QED BY <1>2, <1>3, <2>1, <2>3, <2>4, <2>5 DEF BodyShape
<1>6. CASE /\ ~Unsatisfiable(s[1]) /\ size > 0
           /\ span' = s /\ at' = s[1] \div chunkSize
           /\ pc' = "chunks"
           /\ resp' = [NoAnswer EXCEPT !.validators = TRUE]
  <2>1. /\ s \in (0..MaxSize) \X (-1..MaxSize) /\ s[1] <= s[2]
    BY <1>1, <1>6, ResolveWanted DEF RangeInv
  <2>2. chunkSize \in Nat \ {0} /\ MaxSize \in Nat
    BY HeaderKinds DEF RangeInv
  <2> HIDE DEF s
  <2>3. s[1] \in Nat /\ s[2] \in Int
    BY <2>1, <2>2
  <2>4. (s[1] \div chunkSize) * chunkSize <= s[1] /\ s[1] \div chunkSize \in Nat
    BY <2>2, <2>3, Division
  <2>5. Start(at)' = (s[1] \div chunkSize) * chunkSize
    BY <1>1, <1>6 DEF Start
  <2> DEFINE i == s[1] \div chunkSize
  <2>6. i * chunkSize \in Nat
    BY <2>2, <2>4
  <2>7. Greatest(Start(at)' - span'[1], 0) = 0
    <3>1. Start(at)' = i * chunkSize /\ i * chunkSize <= s[1] /\ span'[1] = s[1]
      BY <1>6, <2>4, <2>5
    <3> HIDE DEF i
    <3> QED BY <2>3, <2>6, <3>1 DEF Greatest
  <2>8. Len(body') <= span'[2] - span'[1] + 1
    BY <1>3, <1>6, <2>1, <2>3
  <2>9. \A k \in 1..Len(body') : body'[k] = span'[1] + k - 1
    BY <1>3
  <2>10. Serving' /\ pc' = "chunks"
    BY <1>6 DEF Serving
  <2> QED BY <1>2, <1>3, <2>7, <2>8, <2>9, <2>10 DEF BodyShape
<1> QED BY <1>4, <1>5, <1>6 DEF Get

\* Nothing of the request changes.
LEMMA BodyFrame ==
  ASSUME BodyShape, UNCHANGED <<size, chunkSize, requestVars>>
  PROVE  BodyShape'
<1>1. UNCHANGED <<size, chunkSize, pc, req, span, at, resp, body>>
  BY DEF requestVars
<1> QED BY <1>1 DEF BodyShape, Serving, Succeeded, Start

\* Every step keeps the invariant, as long as the process is always started
\* with the same chunk size.
LEMMA ExactNext ==
  ASSUME ExactInv, [RangeNext]_rangeVars, NEW n, ChunkSizes = {n}
  PROVE  ExactInv'
<1> USE DEF ExactInv
<1>1. RangeInv'
  BY RangeNextInv
<1> SUFFICES FilesWhole' /\ BodyShape'
  BY <1>1
<1>2. ASSUME NEW q \in RequestInputs, handle(q) PROVE FilesWhole' /\ BodyShape'
  <2>1. UNCHANGED <<size, chunkSize, files>>
    BY <1>2 DEF handle, cacheVars
  <2>2. ~Serving' /\ body' = <<>>
    BY <1>2, HandleInv
  <2> QED BY <2>1, <2>2, FilesSame, NoBody
<1>3. ASSUME NEW st \in httpErrorFromS3, Fail(st), End("done"), UNCHANGED cacheVars, body = <<>>
      PROVE  FilesWhole' /\ BodyShape'
  <2>1. UNCHANGED <<size, chunkSize, files>>
    BY <1>3 DEF cacheVars
  <2>2. ~Serving' /\ body' = <<>>
    BY <1>3, FailsInv
  <2> QED BY <2>1, <2>2, FilesSame, NoBody
<1>4. CASE HeadFails
  <2>1. body = <<>>
    BY <1>4 DEF HeadFails, RangeInv, HeadShape
  <2> QED BY <1>3, <1>4, <2>1 DEF HeadFails
<1>5. CASE ServeHead
  <2>1. UNCHANGED <<size, chunkSize, files>> /\ body = <<>>
    BY <1>5 DEF ServeHead, cacheVars, RangeInv, HeadShape
  <2>2. ~Serving' /\ body' = <<>>
    BY <1>5, <2>1, ServeHeadInv
  <2> QED BY <2>1, <2>2, FilesSame, NoBody
<1>6. CASE Get \/ WriteChunk \/ WriteFails
  BY <1>6, GetExact, WriteChunkExact, WriteFailsExact
<1>7. CASE ChunkFails
  <2>1. CASE resp.status = 0
    <3>1. body = <<>>
      BY <1>7, <2>1 DEF ChunkFails, BodyShape
    <3> QED BY <1>3, <1>7, <2>1, <3>1 DEF ChunkFails
  <2>2. CASE resp.status # 0
    <3>1. /\ pc = "chunks" /\ pc' = "cut"
          /\ UNCHANGED <<size, chunkSize, files, resp, req, span, at, body>>
      BY <1>7, <2>2 DEF ChunkFails, End, cacheVars
    <3>2. Serving /\ Serving'
      <4>1. resp.status \in {200, 206} /\ req.method = "GET"
        BY <2>2, <3>1 DEF RangeInv, RespShape, SpanShape, Serving
      <4> QED BY <3>1, <4>1 DEF Serving, Succeeded
    <3> QED BY <3>1, <3>2, FilesSame DEF BodyShape
  <2> QED BY <2>1, <2>2
<1>8. ASSUME NEW c \in ahead, Prefetch(c) PROVE FilesWhole' /\ BodyShape'
  <2>1. UNCHANGED <<size, chunkSize, requestVars>>
    BY <1>8 DEF Prefetch
  <2>2. c \in Nat /\ Start(c) < size
    BY RangeAssumption DEF RangeInv, RangeTypeOK, ChunkShape
  <2>3. ReadaheadExtent(c) = Extent(c)
    BY <2>2, ExtentBounds DEF RangeInv
  <2>4. files' = files \/ files' = [files EXCEPT ![Start(c)] = Extent(c)]
    BY <1>8, <2>3 DEF Prefetch
  <2> QED BY <2>1, <2>2, <2>4, StoreSame, BodyFrame
<1>9. ASSUME NEW o \in 0..MaxSize, Evict(o) PROVE FilesWhole' /\ BodyShape'
  <2>1. UNCHANGED <<size, chunkSize, requestVars>> /\ files' = [files EXCEPT ![o] = 0]
    BY <1>9 DEF Evict
  <2>2. files \in [0..MaxSize -> 0..MaxSize]
    BY DEF RangeInv, RangeTypeOK
  <2>3. \A i \in 0..MaxSize : files'[i] = files[i] \/ files'[i] = 0
    BY <2>1, <2>2
  <2>4. FilesWhole'
    <3>1. \A d : Start(d)' = Start(d) /\ Extent(d)' = Extent(d)
      BY <2>1 DEF Start, Extent, Least
    <3>2. ASSUME NEW d \in 0..MaxSize, Start(d) < size
          PROVE  files'[Start(d)] \in {0, Extent(d)}
      <4>1. d \in Nat
        BY RangeAssumption
      <4>2. Start(d) \in 0..MaxSize
        BY <3>2, <4>1, ExtentBounds DEF RangeInv
      <4>3. files[Start(d)] \in {0, Extent(d)}
        BY <3>2 DEF FilesWhole
      <4> QED BY <2>3, <4>2, <4>3
    <3> QED BY <2>1, <3>1, <3>2 DEF FilesWhole
  <2> QED BY <2>1, <2>4, BodyFrame
<1>10. CASE Restart
  <2>1. chunkSize \in ChunkSizes
    BY DEF RangeInv, RangeTypeOK
  <2>2. UNCHANGED <<size, chunkSize, files>>
    BY <1>10, <2>1 DEF Restart
  <2> QED BY <1>10, <2>2, RestartInv, FilesSame, NoBody
<1>11. CASE UNCHANGED rangeVars
  <2>1. UNCHANGED <<size, chunkSize, files, requestVars>>
    BY <1>11 DEF rangeVars, cacheVars
  <2> QED BY <2>1, FilesSame, BodyFrame
<1> QED BY <1>2, <1>4, <1>5, <1>6, <1>7, <1>8, <1>9, <1>10, <1>11 DEF RangeNext

\* The invariant about the bytes holds throughout, if the process is always
\* started with the same chunk size.
THEOREM RangeExactInvariant ==
  ASSUME NEW n, ChunkSizes = {n}
  PROVE  RangeSpec => []ExactInv
<1>1. RangeInit => ExactInv
  <2> SUFFICES ASSUME RangeInit PROVE ExactInv
    OBVIOUS
  <2>1. RangeInv
    BY RangeInitInv
  <2>2. files = [o \in 0..MaxSize |-> 0] /\ pc = "idle" /\ body = <<>> /\ resp.status = 0
    BY DEF RangeInit, NoAnswer
  <2>3. ASSUME NEW c \in 0..MaxSize, Start(c) < size PROVE files[Start(c)] \in {0, Extent(c)}
    <3>1. c \in Nat
      BY RangeAssumption
    <3>2. Start(c) \in 0..MaxSize
      BY <2>1, <2>3, <3>1, ExtentBounds DEF RangeInv
    <3> QED BY <2>2, <3>2
  <2>4. BodyShape
    BY <2>2 DEF BodyShape, Serving, Succeeded
  <2> QED BY <2>1, <2>3, <2>4 DEF ExactInv, FilesWhole
<1>2. ExactInv /\ [RangeNext]_rangeVars => ExactInv'
  BY ExactNext
<1> QED BY <1>1, <1>2, PTL DEF RangeSpec

\* The body that serveAligned and writeSlice put together is at any time a
\* gapless run of the wanted bytes from the first one on, and all of them when
\* the response ends well.
THEOREM RangeBodyExact ==
  ASSUME NEW n, ChunkSizes = {n}
  PROVE  RangeSpec => []BodyExact
<1>1. ASSUME ExactInv PROVE BodyExact
  <2> USE DEF ExactInv
  <2>1. body \in Seq(0..MaxSize) /\ Len(body) \in Nat
    BY <1>1, LenProperties DEF RangeInv, RangeTypeOK
  <2>2. span[1] \in Int /\ span[2] \in Int
    BY <1>1, RangeAssumption DEF RangeInv, RangeTypeOK
  <2>3. CASE ~Serving
    <3>1. Len(body) = 0
      BY <1>1, <2>3 DEF BodyShape
    <3> QED BY <2>3, <3>1 DEF BodyExact, Serving
  <2>4. CASE Serving
    <3>1. Wanted = span[1]..span[2] /\ span[1] <= span[2] + 1
      BY <1>1, <2>4 DEF RangeInv, SpanShape
    <3>2. /\ Len(body) <= span[2] - span[1] + 1
          /\ \A k \in 1..Len(body) : body[k] = span[1] + k - 1
      BY <1>1, <2>4 DEF BodyShape
    <3>3. ASSUME NEW k \in 1..Len(body)
          PROVE  /\ body[k] \in Wanted
                 /\ IF k = 1 THEN \A o \in Wanted : body[1] <= o ELSE body[k] = body[k-1] + 1
      <4>1. k \in Int /\ 1 <= k /\ k <= Len(body) /\ body[k] = span[1] + k - 1
        BY <2>1, <3>2
      <4>2. body[k] \in Wanted
        BY <2>1, <2>2, <3>1, <3>2, <4>1
      <4>3. k = 1 => \A o \in Wanted : body[1] <= o
        BY <2>2, <3>1, <4>1
      <4>4. k # 1 => body[k] = body[k-1] + 1
        <5> SUFFICES ASSUME k # 1 PROVE body[k] = body[k-1] + 1
          OBVIOUS
        <5>1. k - 1 \in 1..Len(body)
          BY <2>1, <4>1
        <5>2. body[k-1] = span[1] + (k - 1) - 1
          BY <3>2, <5>1
        <5> QED BY <2>2, <4>1, <5>2
      <4> QED BY <4>2, <4>3, <4>4
    <3>4. Cardinality(Wanted) = span[2] - span[1] + 1
      BY <2>2, <3>1, SpanCount
    <3>5. pc = "done" /\ Succeeded /\ req.method = "GET" => Len(body) = Cardinality(Wanted)
      BY <1>1, <3>4 DEF BodyShape
    <3> QED BY <3>3, <3>5 DEF BodyExact
  <2> QED BY <2>3, <2>4
<1>2. RangeSpec => []ExactInv
  BY RangeExactInvariant
<1> QED BY <1>1, <1>2, PTL

=============================================================================
