---------------------------- MODULE DiskCacheProofs ---------------------------
(***************************************************************************)
(* Proofs about DiskCache, for any number of threads, chunks, directories, *)
(* uses and faults.                                                        *)
(***************************************************************************)
EXTENDS DiskCache, FiniteSetTheorems, TLAPS

-----------------------------------------------------------------------------
(* The inductive invariant                                                 *)

\* The types DiskTypeOK leaves out.
MoreTypes ==
  /\ seen \subseteq Chunks
  /\ rec \in [Chunks -> Nat]
  /\ cand \subseteq Chunks
  /\ clock \in Nat /\ uses \in Nat /\ faults \in Nat
  /\ used \in [Chunks -> Nat]
  /\ hist \in [added : SUBSET Chunks, touched : SUBSET Chunks,
               failed : SUBSET Chunks, gone : SUBSET Chunks]

\* Where threads are that write a file.
AtWork == {"temp", "write", "rename", "discard"}

\* One thread at a time has the marker's lock, and then nothing is known of the
\* marker; a thread that writes a chunk has learned about it before.
LockShape ==
  /\ \A p, q \in making : p = q
  /\ \A p \in making : pc[p] \in {"read"} \cup AtWork /\ since = Unread
  /\ \A p \in Procs :
       /\ pc[p] = "read" => p \in making
       /\ pc[p] \in {"stat", "mkdir"} \cup AtWork /\ p \notin making => since # Unread
       /\ p \in making /\ pc[p] \in AtWork => "root" \in dirs

\* The directory of the file a thread writes.
WritesTo(p) == IF p \in making THEN "root" ELSE DirOf[job[p].chunk]

\* A thread has one temporary file, in the directory of the file it writes,
\* complete before it is renamed; it loses it only to the evictor, and that
\* only if its write stalls.  What is no one's, a fault has left behind.
TmpShape ==
  /\ \A t, u \in tmps : t.owner = u.owner => t = u \/ t.owner = Nobody
  /\ \A t \in tmps : t.owner = Nobody => faults > 0
  /\ \A t \in tmps : t.owner # Nobody =>
       /\ pc[t.owner] \in {"write", "rename", "discard"}
       /\ t.dir = WritesTo(t.owner)
       /\ pc[t.owner] = "rename" => t.data = "whole" /\ t.time > 0
       /\ t.old => faults > 0
  /\ \A p \in Procs :
       /\ pc[p] \in {"write", "rename"} => Own(p) # {} \/ faults > 0
       /\ pc[p] = "discard" => faults > 0

\* A process that could read or make the marker knows what is in it.
MarkerShape ==
  /\ since = Unknown => lost
  /\ since > 0 => marker = since

\* removeIfEmpty only comes to directories of objects and prefixes.
TidyShape ==
  ev \in {"list", "rmdir"} =>
    \/ \E o \in Objects, x \in Prefixes : tidy = <<o, x>>
    \/ \E x \in Prefixes : tidy = <<x>>

Evicting == {"evict", "list", "rmdir"}

\* The sweep: what is recorded is what it was when the walk passed, what was
\* not there then has been added since, and what is recorded is tried once,
\* the least recent first.
SweepShape ==
  /\ ev = "idle" => hist = NoHist /\ seen = {} /\ \A c \in Chunks : rec[c] = 0
  /\ ev \in {"idle", "walk"} => hist.gone = {} /\ hist.failed = {}
  /\ ev \notin {"idle", "walk"} => seen = Chunks
  /\ ev \notin Evicting => cand = {}
  /\ \A c \in Chunks : file[c] # "none" => mtime[c] = used[c] /\ mtime[c] > 0
  /\ \A c \in Chunks :
       /\ c \in seen /\ file[c] # "none" /\ c \notin hist.added => rec[c] > 0 /\ c \notin hist.gone
       /\ rec[c] > 0 => c \in seen
       /\ rec[c] > 0 /\ c \notin hist.touched => rec[c] = used[c]
  /\ hist.gone \cup hist.failed \cup cand \subseteq Recorded
  /\ cand \cap (hist.gone \cup hist.failed) = {}
  /\ ev \in Evicting => Recorded = hist.gone \cup hist.failed \cup cand
  /\ \A f \in hist.gone, g \in Recorded \ (hist.gone \cup hist.failed) : rec[f] <= rec[g]

\* The evictor's count is that of the files recorded and not removed.
CountShape ==
  /\ total = Cardinality(BytesOf(Recorded \ hist.gone))
  /\ ev = "done" =>
       \/ total <= IF hist.gone = {} THEN MaxBytes ELSE Target
       \/ Recorded \subseteq hist.gone \cup hist.failed

DiskInv ==
  /\ DiskTypeOK
  /\ MoreTypes
  /\ LockShape
  /\ TmpShape
  /\ WholeOrAbsent
  /\ MarkerFirst
  /\ MarkerShape
  /\ TidyShape
  /\ SweepShape
  /\ CountShape

-----------------------------------------------------------------------------
(* Counting bytes                                                          *)

\* The files of a set of chunks have finitely many bytes.
LEMMA BytesFinite ==
  ASSUME NEW S \in SUBSET Chunks
  PROVE  IsFiniteSet(BytesOf(S)) /\ Cardinality(BytesOf(S)) \in Nat
<1> DEFINE B(c) == {c} \X (1..SizeOf[c])
           F == {B(c) : c \in S}
           f == [c \in S |-> B(c)]
<1>1. IsFiniteSet(S)
  BY DiskAssumption, FS_Subset
<1>2. f \in Surjection(S, F)
  BY DEF Surjection
<1>3. IsFiniteSet(F)
  BY <1>1, <1>2, FS_Surjection
<1>4. ASSUME NEW c \in S PROVE IsFiniteSet(B(c))
  <2>1. SizeOf[c] \in Int
    BY DiskAssumption
  <2>2. IsFiniteSet({c})
    BY FS_Singleton, Zenon
  <2>3. IsFiniteSet(1..SizeOf[c])
    <3> DEFINE n == SizeOf[c]
    <3> HIDE DEF n
    <3>1. 1 \in Int /\ n \in Int
      BY <2>1 DEF n
    <3>2. IsFiniteSet(1..n)
      BY <3>1, FS_Interval, Zenon
    <3> QED BY <3>2 DEF n
  <2> QED BY <2>2, <2>3, FS_Product
<1>5. \A T \in F : IsFiniteSet(T)
  BY <1>4
<1>6. IsFiniteSet(BytesOf(S))
  <2>1. BytesOf(S) = UNION F
    BY Zenon DEF BytesOf
  <2> HIDE DEF F
  <2> QED BY <1>3, <1>5, <2>1, FS_UNION
<1> QED BY <1>6, FS_CardinalityType

\* One more file has just its own bytes.
LEMMA BytesAdd ==
  ASSUME NEW S \in SUBSET Chunks, NEW c \in Chunks, c \notin S
  PROVE  Cardinality(BytesOf(S \cup {c})) = Cardinality(BytesOf(S)) + SizeOf[c]
<1> DEFINE B == {c} \X (1..SizeOf[c])
<1>1. BytesOf(S \cup {c}) = BytesOf(S) \cup B
  BY DEF BytesOf
<1>2. BytesOf(S) \cap B = {}
  BY DEF BytesOf
<1>3. SizeOf[c] \in Nat \ {0}
  BY DiskAssumption
<1>4. IsFiniteSet(B) /\ Cardinality(B) = SizeOf[c]
  <2>1. IsFiniteSet({c}) /\ Cardinality({c}) = 1
    BY FS_Singleton
  <2>2. IsFiniteSet(1..SizeOf[c]) /\ Cardinality(1..SizeOf[c]) = SizeOf[c]
    BY <1>3, FS_Interval
  <2>3. IsFiniteSet(B) /\ Cardinality(B) = Cardinality({c}) * Cardinality(1..SizeOf[c])
    BY <2>1, <2>2, FS_Product
  <2> QED BY <1>3, <2>1, <2>2, <2>3
<1>5. IsFiniteSet(BytesOf(S)) /\ Cardinality(BytesOf(S)) \in Nat
  BY BytesFinite
<1> HIDE DEF B
<1>6. Cardinality(BytesOf(S) \cup B)
        = Cardinality(BytesOf(S)) + Cardinality(B) - Cardinality(BytesOf(S) \cap B)
  BY <1>4, <1>5, FS_Union
<1>7. Cardinality(BytesOf(S) \cap B) = 0
  BY <1>2, FS_EmptySet, Zenon
<1>8. Cardinality(BytesOf(S \cup {c})) = Cardinality(BytesOf(S)) + Cardinality(B) - 0
  BY <1>1, <1>6, <1>7
<1> QED BY <1>3, <1>4, <1>5, <1>8

\* Fewer files have no more bytes.
LEMMA BytesSubset ==
  ASSUME NEW S \in SUBSET Chunks, NEW T \in SUBSET S
  PROVE  Cardinality(BytesOf(T)) <= Cardinality(BytesOf(S))
<1>1. BytesOf(T) \in SUBSET BytesOf(S)
  BY DEF BytesOf
<1> QED BY <1>1, BytesFinite, FS_Subset


-----------------------------------------------------------------------------
(* What one thread's step leaves alone                                     *)

Places == {"boot", "idle", "marker", "read", "stat", "mkdir", "temp",
           "write", "rename", "discard", "touch"}

Jobs == [kind : {"start", "get", "put"}, chunk : Chunks]

Writing == {"write", "rename", "discard"}

\* Every thread but p is where it was.
Others(p) == \A q \in Procs : q # p => pc'[q] = pc[q] /\ job'[q] = job[q]

\* Nobody is no thread, and a thread that forgets has a job that is none.
LEMMA ProcFacts ==
  /\ Main \in Procs /\ Nobody \notin Procs
  /\ \A p \in Threads : p \in Procs
  /\ Start \in Jobs
<1>1. Start.chunk \in Chunks
  BY DiskAssumption, Zenon DEF Start
<1> QED BY <1>1, DiskAssumption DEF Procs, Start, Jobs

\* Goto moves its thread alone.
LEMMA GotoMoves ==
  ASSUME DiskTypeOK, NEW p \in Procs, NEW place \in Places, Goto(p, place)
  PROVE  /\ pc' \in [Procs -> Places] /\ job' \in [Procs -> Jobs]
         /\ pc'[p] = place /\ Others(p)
         /\ place # "idle" => job' = job
<1>1. pc \in [Procs -> Places] /\ job \in [Procs -> Jobs]
  BY DEF DiskTypeOK, Places, Jobs
<1> QED BY <1>1, ProcFacts DEF Goto, Others

\* With the marker learned, or given up, a thread goes on to its chunk or ends.
LEMMA LearnMoves ==
  ASSUME DiskTypeOK, NEW p \in Procs, NEW t, Learn(p, t)
  PROVE  /\ pc' \in [Procs -> Places] /\ job' \in [Procs -> Jobs]
         /\ pc'[p] \in {"stat", "idle"} /\ Others(p)
         /\ since' = t /\ making' = making \ {p}
         /\ lost' = (lost \/ t = Unknown) /\ lost' \in BOOLEAN
<1>1. PICK place \in {"stat", "idle"} : Goto(p, place)
  BY DEF Learn, Proceed
<1>2. place \in Places
  BY DEF Places
<1> QED BY <1>1, <1>2, GotoMoves DEF Learn

-----------------------------------------------------------------------------
(* The lock                                                                *)

\* A thread that does not have the lock moves.
LEMMA LockStay ==
  ASSUME DiskTypeOK, LockShape, NEW p \in Procs, Others(p),
         making' = making, since' = since, p \notin making,
         "root" \in dirs => "root" \in dirs',
         pc'[p] # "read",
         pc'[p] \in {"stat", "mkdir"} \cup AtWork => since # Unread
  PROVE  LockShape'
BY DEF LockShape, Others, DiskTypeOK

\* A thread that has it works on the marker.
LEMMA LockWork ==
  ASSUME DiskTypeOK, LockShape, NEW p \in Procs, Others(p),
         making' = making, since' = since, p \in making,
         "root" \in dirs', pc'[p] \in AtWork
  PROVE  LockShape'
<1>1. \A q \in Procs : q # p => q \notin making
  BY DEF LockShape
<1>2. pc'[p] # "read"
  BY DEF AtWork
<1> QED BY <1>1, <1>2 DEF LockShape, Others, DiskTypeOK

\* A thread takes it, no one having read the marker.
LEMMA LockTake ==
  ASSUME DiskTypeOK, LockShape, NEW p \in Procs, Others(p),
         making = {}, making' = {p}, since = Unread, since' = since, pc'[p] = "read"
  PROVE  LockShape'
<1>1. pc'[p] \notin {"stat", "mkdir"} \cup AtWork
  BY DEF AtWork
<1> QED BY <1>1 DEF LockShape, Others

\* A thread gives it back, with something to remember.
LEMMA LockGive ==
  ASSUME DiskTypeOK, LockShape, NEW p \in Procs, Others(p),
         p \in making, making' = making \ {p}, since' \in Nat, pc'[p] \in {"stat", "idle"}
  PROVE  LockShape'
<1>1. \A q \in Procs : q # p => q \notin making
  BY DEF LockShape
<1>2. making' = {}
  BY <1>1 DEF DiskTypeOK
<1>3. since' # Unread
  BY DEF Unread
<1> QED BY <1>1, <1>2, <1>3 DEF LockShape, Others, AtWork

-----------------------------------------------------------------------------
(* Temporary files                                                         *)

\* A thread that has none moves.
LEMMA TmpAway ==
  ASSUME DiskTypeOK, TmpShape, NEW p \in Procs, Others(p),
         faults \in Nat, faults' \in {faults, faults + 1}, tmps' = tmps,
         pc[p] \notin Writing, pc'[p] \notin Writing,
         \A q \in Procs : q # p => (q \in making' <=> q \in making)
  PROVE  TmpShape'
<1>1. faults > 0 => faults' > 0
  OBVIOUS
<1>2. \A t \in tmps : t.owner # Nobody => t.owner \in Procs /\ t.owner # p
  BY DEF TmpShape, DiskTypeOK, TmpFiles, Writing
<1>3. \A q \in Procs : q # p => WritesTo(q)' = WritesTo(q)
  BY DEF WritesTo, Others
<1>4. \A q \in Procs : Own(q)' = Own(q)
  BY DEF Own
<1>5. /\ \A t, u \in tmps' : t.owner = u.owner => t = u \/ t.owner = Nobody
      /\ \A t \in tmps' : t.owner = Nobody => faults' > 0
  BY DEF TmpShape
<1>6. ASSUME NEW t \in tmps', t.owner # Nobody
      PROVE  /\ pc'[t.owner] \in {"write", "rename", "discard"}
             /\ t.dir = WritesTo(t.owner)'
             /\ pc'[t.owner] = "rename" => t.data = "whole" /\ t.time > 0
             /\ t.old => faults' > 0
  BY <1>1, <1>2, <1>3, <1>6 DEF TmpShape, Others
<1>7. ASSUME NEW q \in Procs
      PROVE  /\ pc'[q] \in {"write", "rename"} => Own(q)' # {} \/ faults' > 0
             /\ pc'[q] = "discard" => faults' > 0
  BY <1>1, <1>4, <1>7 DEF TmpShape, Others, Writing
<1> QED BY <1>5, <1>6, <1>7 DEF TmpShape

\* A thread fails, and has still to remove its own.
LEMMA TmpFails ==
  ASSUME DiskTypeOK, TmpShape, NEW p \in Procs, Others(p),
         faults \in Nat, faults' \in {faults, faults + 1}, faults' > 0, tmps' = tmps,
         pc'[p] = "discard", job' = job, making' = making
  PROVE  TmpShape'
<1>1. faults > 0 => faults' > 0
  OBVIOUS
<1>2. \A t \in tmps : t.owner # Nobody => t.owner \in Procs
  BY DEF DiskTypeOK, TmpFiles
<1>3. \A q \in Procs : WritesTo(q)' = WritesTo(q)
  BY DEF WritesTo
<1>4. \A q \in Procs : Own(q)' = Own(q)
  BY DEF Own
<1>5. /\ \A t, u \in tmps' : t.owner = u.owner => t = u \/ t.owner = Nobody
      /\ \A t \in tmps' : t.owner = Nobody => faults' > 0
  BY DEF TmpShape
<1>6. ASSUME NEW t \in tmps', t.owner # Nobody
      PROVE  /\ pc'[t.owner] \in {"write", "rename", "discard"}
             /\ t.dir = WritesTo(t.owner)'
             /\ pc'[t.owner] = "rename" => t.data = "whole" /\ t.time > 0
             /\ t.old => faults' > 0
  BY <1>1, <1>2, <1>3, <1>6 DEF TmpShape, Others
<1>7. ASSUME NEW q \in Procs
      PROVE  /\ pc'[q] \in {"write", "rename"} => Own(q)' # {} \/ faults' > 0
             /\ pc'[q] = "discard" => faults' > 0
  BY <1>1, <1>4, <1>7 DEF TmpShape, Others
<1> QED BY <1>5, <1>6, <1>7 DEF TmpShape

\* A thread is done with its own, renamed or removed.
LEMMA TmpDrop ==
  ASSUME DiskTypeOK, TmpShape, NEW p \in Procs, Others(p),
         faults \in Nat, faults' = faults, tmps' = tmps \ Own(p),
         pc'[p] \notin Writing,
         \A q \in Procs : q # p => (q \in making' <=> q \in making)
  PROVE  TmpShape'
<1>2. \A t \in tmps' : t.owner # Nobody => t.owner \in Procs /\ t.owner # p
  BY DEF DiskTypeOK, TmpFiles, Own
<1>3. \A q \in Procs : q # p => WritesTo(q)' = WritesTo(q)
  BY DEF WritesTo, Others
<1>4. \A q \in Procs : q # p => Own(q)' = Own(q)
  BY DEF Own
<1>5. /\ \A t, u \in tmps' : t.owner = u.owner => t = u \/ t.owner = Nobody
      /\ \A t \in tmps' : t.owner = Nobody => faults' > 0
  BY DEF TmpShape
<1>6. ASSUME NEW t \in tmps', t.owner # Nobody
      PROVE  /\ pc'[t.owner] \in {"write", "rename", "discard"}
             /\ t.dir = WritesTo(t.owner)'
             /\ pc'[t.owner] = "rename" => t.data = "whole" /\ t.time > 0
             /\ t.old => faults' > 0
  BY <1>2, <1>3, <1>6 DEF TmpShape, Others
<1>7. ASSUME NEW q \in Procs
      PROVE  /\ pc'[q] \in {"write", "rename"} => Own(q)' # {} \/ faults' > 0
             /\ pc'[q] = "discard" => faults' > 0
  BY <1>4, <1>7 DEF TmpShape, Others, Writing
<1> QED BY <1>5, <1>6, <1>7 DEF TmpShape

\* A thread is done with its own, which it could not remove.
LEMMA TmpLeft ==
  ASSUME DiskTypeOK, TmpShape, NEW p \in Procs, Others(p),
         faults \in Nat, faults > 0, faults' = faults,
         NEW left, \A t \in left : t.owner = Nobody,
         tmps' = (tmps \ Own(p)) \cup left,
         pc'[p] \notin Writing,
         \A q \in Procs : q # p => (q \in making' <=> q \in making)
  PROVE  TmpShape'
<1>1. \A t \in tmps' : t.owner # Nobody => t \in tmps /\ t.owner \in Procs /\ t.owner # p
  BY DEF DiskTypeOK, TmpFiles, Own
<1>2. \A q \in Procs : q # p => WritesTo(q)' = WritesTo(q)
  BY DEF WritesTo, Others
<1>3. /\ \A t, u \in tmps' : t.owner = u.owner => t = u \/ t.owner = Nobody
      /\ \A t \in tmps' : t.owner = Nobody => faults' > 0
  BY <1>1 DEF TmpShape
<1>4. ASSUME NEW t \in tmps', t.owner # Nobody
      PROVE  /\ pc'[t.owner] \in {"write", "rename", "discard"}
             /\ t.dir = WritesTo(t.owner)'
             /\ pc'[t.owner] = "rename" => t.data = "whole" /\ t.time > 0
             /\ t.old => faults' > 0
  BY <1>1, <1>2, <1>4 DEF TmpShape, Others
<1> QED BY <1>3, <1>4 DEF TmpShape

\* A temporary file is another's version: of the same owner and place, its
\* time or its age has changed.
LEMMA TmpReplace ==
  ASSUME DiskTypeOK, TmpShape, NEW t \in tmps, NEW u \in TmpFiles,
         u.owner = t.owner, u.dir = t.dir,
         t.owner # Nobody /\ pc'[t.owner] = "rename" => u.data = "whole" /\ u.time > 0,
         u.old /\ t.owner # Nobody => faults' > 0,
         tmps' = (tmps \ {t}) \cup {u},
         faults \in Nat, faults' \in {faults, faults + 1},
         job' = job, making' = making,
         \A q \in Procs : q # t.owner => pc'[q] = pc[q],
         t.owner # Nobody => pc'[t.owner] \in {"write", "rename", "discard"},
         t.owner # Nobody /\ pc'[t.owner] = "discard" => faults' > 0
  PROVE  TmpShape'
<1>1. faults > 0 => faults' > 0
  OBVIOUS
<1>2. \A v \in tmps : v.owner # Nobody => v.owner \in Procs
  BY DEF DiskTypeOK, TmpFiles
<1>3. \A q \in Procs : WritesTo(q)' = WritesTo(q)
  BY DEF WritesTo
<1>4. \A q \in Procs : Own(q) # {} => Own(q)' # {}
  <2> TAKE q \in Procs
  <2> HAVE Own(q) # {}
  <2>1. PICK v \in tmps : v.owner = q
    BY DEF Own
  <2>2. v \in tmps' \/ v = t
    OBVIOUS
  <2> QED BY <2>1, <2>2 DEF Own
<1>5. /\ \A v, w \in tmps' : v.owner = w.owner => v = w \/ v.owner = Nobody
      /\ \A v \in tmps' : v.owner = Nobody => faults' > 0
  BY DEF TmpShape
<1>6. ASSUME NEW v \in tmps', v.owner # Nobody
      PROVE  /\ pc'[v.owner] \in {"write", "rename", "discard"}
             /\ v.dir = WritesTo(v.owner)'
             /\ pc'[v.owner] = "rename" => v.data = "whole" /\ v.time > 0
             /\ v.old => faults' > 0
  <2>1. CASE v = u
    BY <1>2, <1>3, <1>6, <2>1 DEF TmpShape
  <2>2. CASE v # u
    <3>1. v \in tmps /\ v # t
      BY <2>2
    <3>2. v.owner # t.owner
      BY <3>1, <1>6 DEF TmpShape
    <3> QED BY <1>1, <1>2, <1>3, <1>6, <3>1, <3>2 DEF TmpShape
  <2> QED BY <2>1, <2>2
<1>7. ASSUME NEW q \in Procs
      PROVE  /\ pc'[q] \in {"write", "rename"} => Own(q)' # {} \/ faults' > 0
             /\ pc'[q] = "discard" => faults' > 0
  <2>1. CASE q = t.owner
    <3>1. Own(q)' # {}
      BY <1>4, <2>1 DEF Own
    <3>2. t.owner # Nobody
      BY <2>1, ProcFacts
    <3> QED BY <3>1, <3>2, <2>1
  <2>2. CASE q # t.owner
    BY <1>1, <1>4, <1>7, <2>2 DEF TmpShape
  <2> QED BY <2>1, <2>2
<1> QED BY <1>5, <1>6, <1>7 DEF TmpShape

\* A file that is old is removed.
LEMMA TmpReaped ==
  ASSUME DiskTypeOK, TmpShape, NEW t \in tmps, t.old, faults' = faults,
         tmps' = tmps \ {t}, UNCHANGED <<pc, job, making>>
  PROVE  TmpShape'
<1>1. \A q \in Procs : Own(q) # {} => Own(q)' # {} \/ faults > 0
  <2> TAKE q \in Procs
  <2> HAVE Own(q) # {}
  <2>1. PICK v \in tmps : v.owner = q
    BY DEF Own
  <2>2. CASE v = t
    BY <2>1, <2>2, ProcFacts DEF TmpShape
  <2>3. CASE v # t
    BY <2>1, <2>3 DEF Own
  <2> QED BY <2>2, <2>3
<1>2. \A q : WritesTo(q)' = WritesTo(q)
  BY DEF WritesTo
<1> QED BY <1>1, <1>2 DEF TmpShape

-----------------------------------------------------------------------------
(* The sweep                                                               *)

\* What neither the files nor the sweep changes with.
LEMMA SweepFrame ==
  ASSUME TidyShape, SweepShape, CountShape,
         UNCHANGED <<file, mtime, evictorVars, used, hist>>
  PROVE  TidyShape' /\ SweepShape' /\ CountShape'
<1>1. UNCHANGED <<file, mtime, ev, seen, rec, cand, total, tidy, used, hist>>
  BY DEF evictorVars
<1>2. TidyShape'
  BY <1>1 DEF TidyShape
<1>3. SweepShape'
  BY <1>1 DEF SweepShape, Recorded, Evicting
<1>4. CountShape'
  <2>1. Recorded' = Recorded
    BY <1>1 DEF Recorded
  <2> QED BY <1>1, <2>1 DEF CountShape, Target
<1> QED BY <1>2, <1>3, <1>4


-----------------------------------------------------------------------------
(* Steps of the threads                                                    *)

\* Types, when threads move and directories or temporary files come.
LEMMA TypesMove ==
  ASSUME DiskTypeOK, UNCHANGED <<file, mtime, marker, ev, total>>,
         pc' \in [Procs -> Places], job' \in [Procs -> Jobs],
         make' \in [Procs -> SUBSET Dirs], making' \subseteq Procs,
         since' \in Nat \cup {Unread}, lost' \in BOOLEAN,
         dirs \subseteq dirs', dirs' \subseteq Dirs,
         \A d \in dirs' \ {"shard"} : Parent(d) \in dirs',
         tmps' \subseteq TmpFiles, \A t \in tmps' : t.dir \in dirs'
  PROVE  DiskTypeOK'
BY DEF DiskTypeOK, Places, Jobs

\* More types: threads do not touch the evictor's variables.
LEMMA MoreTypesMove ==
  ASSUME MoreTypes, UNCHANGED <<evictorVars, used, hist>>,
         clock' \in {clock, clock + 1}, uses' \in {uses, uses + 1},
         faults' \in {faults, faults + 1}
  PROVE  MoreTypes'
BY DEF MoreTypes, evictorVars

\* What is known of the marker stays true.
LEMMA MarkerSame ==
  ASSUME WholeOrAbsent, MarkerFirst, MarkerShape, UNCHANGED <<file, marker, since, lost>>
  PROVE  WholeOrAbsent' /\ MarkerFirst' /\ MarkerShape'
BY DEF WholeOrAbsent, MarkerFirst, MarkerShape

\* A marker that could not be had is lost.
LEMMA MarkerLost ==
  ASSUME WholeOrAbsent, MarkerFirst, MarkerShape,
         UNCHANGED <<file, marker>>, since' = Unknown, lost'
  PROVE  WholeOrAbsent' /\ MarkerFirst' /\ MarkerShape'
BY DEF WholeOrAbsent, MarkerFirst, MarkerShape, Unknown

\* Proceed moves its thread to its chunk or to its end.
LEMMA ProceedMoves ==
  ASSUME DiskTypeOK, NEW p \in Procs, Proceed(p)
  PROVE  /\ pc' \in [Procs -> Places] /\ job' \in [Procs -> Jobs]
         /\ pc'[p] \in {"stat", "idle"} /\ Others(p)
<1>1. PICK place \in {"stat", "idle"} : Goto(p, place)
  BY DEF Proceed
<1>2. place \in Places
  BY DEF Places
<1> QED BY <1>1, <1>2, GotoMoves

\* The process starts.
LEMMA BootInv ==
  ASSUME DiskInv, Boot
  PROVE  DiskInv'
<1> USE DEF DiskInv
<1>1. PICK place \in {"marker", "idle"} : Goto(Main, place)
  BY DEF Boot
<1>2. /\ pc' \in [Procs -> Places] /\ job' \in [Procs -> Jobs]
      /\ pc'[Main] = place /\ Others(Main)
  BY <1>1, GotoMoves, ProcFacts DEF Places
<1>3. UNCHANGED <<dirs, file, mtime, marker, tmps, make, making, since, lost, evictorVars,
                  clock, uses, faults, used, hist>> /\ pc[Main] = "boot"
  BY DEF Boot, diskVars, counters
<1>4. UNCHANGED <<ev, total>>
  BY <1>3 DEF evictorVars
<1>5. DiskTypeOK'
  BY <1>2, <1>3, <1>4, TypesMove DEF DiskTypeOK
<1>6. MoreTypes'
  BY <1>3, MoreTypesMove
<1>7. Main \notin making
  BY <1>3, ProcFacts DEF LockShape, AtWork
<1>8. LockShape'
  BY <1>2, <1>3, <1>7, LockStay, ProcFacts DEF AtWork
<1>9. TmpShape'
  BY <1>2, <1>3, TmpAway, ProcFacts DEF Writing, MoreTypes
<1> QED BY <1>3, <1>5, <1>6, <1>8, <1>9, MarkerSame, SweepFrame

\* A thread that wants the marker's time has it, or takes the lock.
LEMMA AskMarkerInv ==
  ASSUME DiskInv, NEW p \in Procs, AskMarker(p)
  PROVE  DiskInv'
<1> USE DEF DiskInv
<1>1. UNCHANGED <<dirs, file, mtime, marker, tmps, make, since, lost, evictorVars,
                  clock, uses, faults, used, hist>> /\ pc[p] = "marker"
  BY DEF AskMarker, diskVars, counters
<1>2. UNCHANGED <<ev, total>>
  BY <1>1 DEF evictorVars
<1>3. p \notin making
  BY <1>1 DEF LockShape, AtWork
<1>4. /\ pc' \in [Procs -> Places] /\ job' \in [Procs -> Jobs]
      /\ pc'[p] \in {"stat", "idle", "read"} /\ Others(p)
      /\ making' \in {making, {p}}
      /\ \A q \in Procs : q # p => (q \in making' <=> q \in making)
      /\ LockShape'
  <2>1. CASE since # Unread /\ Proceed(p) /\ UNCHANGED making
    <3>1. /\ pc' \in [Procs -> Places] /\ job' \in [Procs -> Jobs]
          /\ pc'[p] \in {"stat", "idle"} /\ Others(p)
      BY <2>1, ProceedMoves
    <3>2. LockShape'
      BY <1>1, <1>3, <2>1, <3>1, LockStay
    <3> QED BY <2>1, <3>1, <3>2
  <2>2. CASE since = Unread /\ making = {} /\ making' = {p} /\ Goto(p, "read")
    <3>1. /\ pc' \in [Procs -> Places] /\ job' \in [Procs -> Jobs]
          /\ pc'[p] = "read" /\ Others(p)
      BY <2>2, GotoMoves DEF Places
    <3>2. LockShape'
      BY <1>1, <2>2, <3>1, LockTake
    <3> QED BY <2>2, <3>1, <3>2
  <2> QED BY <2>1, <2>2 DEF AskMarker
<1>5. DiskTypeOK'
  BY <1>1, <1>2, <1>4, TypesMove DEF DiskTypeOK
<1>6. MoreTypes'
  BY <1>1, MoreTypesMove
<1>7. TmpShape'
  BY <1>1, <1>4, TmpAway DEF Writing, MoreTypes
<1> QED BY <1>1, <1>4, <1>5, <1>6, <1>7, MarkerSame, SweepFrame

\* The marker is read, or its directory made, or neither can be.
LEMMA ReadMarkerInv ==
  ASSUME DiskInv, NEW p \in Procs, ReadMarker(p)
  PROVE  DiskInv'
<1> USE DEF DiskInv
<1>1. /\ UNCHANGED <<file, mtime, marker, tmps, make, evictorVars, clock, uses, used, hist>>
      /\ pc[p] = "read" /\ p \in making
  BY DEF ReadMarker, LockShape
<1>2. UNCHANGED <<ev, total>>
  BY <1>1 DEF evictorVars
<1>3. CASE marker # 0 /\ Learn(p, IF marker = Torn THEN Unknown ELSE marker)
           /\ UNCHANGED <<dirs, faults>>
  <2>1. marker \in Nat /\ marker > 0 /\ Learn(p, marker)
    BY <1>3 DEF DiskTypeOK, WholeOrAbsent
  <2>2. /\ pc' \in [Procs -> Places] /\ job' \in [Procs -> Jobs]
        /\ pc'[p] \in {"stat", "idle"} /\ Others(p)
        /\ since' = marker /\ making' = making \ {p}
        /\ (lost => lost') /\ lost' \in BOOLEAN
    BY <2>1, LearnMoves
  <2>3. LockShape'
    BY <1>1, <2>1, <2>2, LockGive
  <2>4. DiskTypeOK'
    BY <1>1, <1>2, <1>3, <2>1, <2>2, TypesMove DEF DiskTypeOK
  <2>5. MoreTypes'
    BY <1>1, <1>3, MoreTypesMove
  <2>6. TmpShape'
    BY <1>1, <1>3, <2>2, TmpAway DEF Writing, MoreTypes
  <2>7. WholeOrAbsent' /\ MarkerFirst' /\ MarkerShape'
    BY <1>1, <1>3, <2>1, <2>2 DEF WholeOrAbsent, MarkerFirst, MarkerShape, Unknown
  <2> QED BY <1>1, <2>3, <2>4, <2>5, <2>6, <2>7, SweepFrame
<1>4. CASE marker = 0 /\ dirs' = dirs \cup {"shard", "root"} /\ Goto(p, "temp")
           /\ UNCHANGED <<up, making, since, lost, faults>>
  <2>1. /\ pc' \in [Procs -> Places] /\ job' \in [Procs -> Jobs]
        /\ pc'[p] = "temp" /\ Others(p)
    BY <1>4, GotoMoves DEF Places
  <2>2. Parent("root") = "shard" /\ "root" \in Dirs /\ "shard" \in Dirs
    BY DiskAssumption DEF Parent, Dirs
  <2>3. DiskTypeOK'
    <3>1. \A d \in dirs' \ {"shard"} : Parent(d) \in dirs'
      BY <1>4, <2>2 DEF DiskTypeOK
    <3>2. dirs \subseteq dirs' /\ dirs' \subseteq Dirs
      BY <1>4, <2>2 DEF DiskTypeOK
    <3> QED BY <1>1, <1>2, <1>4, <2>1, <3>1, <3>2, TypesMove DEF DiskTypeOK
  <2>4. MoreTypes'
    BY <1>1, <1>4, MoreTypesMove
  <2>5. LockShape'
    BY <1>1, <1>4, <2>1, LockWork DEF AtWork
  <2>6. TmpShape'
    BY <1>1, <1>4, <2>1, TmpAway DEF Writing, MoreTypes
  <2> QED BY <1>1, <1>4, <2>3, <2>4, <2>5, <2>6, MarkerSame, SweepFrame
<1>5. CASE Fault /\ Learn(p, Unknown) /\ UNCHANGED dirs
  <2>1. /\ pc' \in [Procs -> Places] /\ job' \in [Procs -> Jobs]
        /\ pc'[p] \in {"stat", "idle"} /\ Others(p)
        /\ since' = Unknown /\ making' = making \ {p} /\ lost' = TRUE
    BY <1>5, LearnMoves
  <2>2. faults' = faults + 1 /\ faults' > 0
    BY <1>5 DEF Fault, MoreTypes
  <2>3. LockShape'
    BY <1>1, <2>1, LockGive DEF Unknown
  <2>4. DiskTypeOK'
    BY <1>1, <1>2, <1>5, <2>1, TypesMove DEF DiskTypeOK, Unknown
  <2>5. MoreTypes'
    BY <1>1, <2>2, MoreTypesMove
  <2>6. TmpShape'
    BY <1>1, <2>1, <2>2, TmpAway DEF Writing, MoreTypes
  <2> QED BY <1>1, <2>1, <2>2, <2>3, <2>4, <2>5, <2>6, MarkerLost, SweepFrame
<1> QED BY <1>3, <1>4, <1>5 DEF ReadMarker

\* A Put or a Get begins.
LEMMA UseStartInv ==
  ASSUME DiskInv, NEW p \in Threads, NEW c \in Chunks, PutStart(p, c) \/ GetStart(p, c)
  PROVE  DiskInv'
<1> USE DEF DiskInv
<1>1. /\ UNCHANGED <<file, mtime, marker, tmps, make, making, since, lost, evictorVars,
                     clock, faults, used, hist>>
      /\ pc[p] = "idle" /\ p \in Procs
      /\ uses' = uses + 1 /\ dirs' = dirs \cup {"shard"}
  BY ProcFacts DEF PutStart, GetStart
<1>2. UNCHANGED <<ev, total>>
  BY <1>1 DEF evictorVars
<1>3. pc \in [Procs -> Places] /\ job \in [Procs -> Jobs]
  BY DEF DiskTypeOK, Places, Jobs
<1>4. /\ pc' \in [Procs -> Places] /\ job' \in [Procs -> Jobs]
      /\ pc'[p] \in {"stat", "marker", "touch", "idle"} /\ Others(p)
      /\ pc'[p] = "stat" => since # Unread
  <2>1. CASE PutStart(p, c)
    BY <1>1, <1>3, <2>1 DEF PutStart, versionedSince, Places, Jobs, Others
  <2>2. CASE GetStart(p, c)
    BY <1>1, <1>3, <2>2 DEF GetStart, versionedSince, Places, Jobs, Others
  <2> QED BY <2>1, <2>2
<1>5. DiskTypeOK'
  <2>1. \A d \in dirs' \ {"shard"} : Parent(d) \in dirs'
    BY <1>1 DEF DiskTypeOK
  <2>2. dirs \subseteq dirs' /\ dirs' \subseteq Dirs
    BY <1>1 DEF DiskTypeOK, Dirs
  <2> QED BY <1>1, <1>2, <1>4, <2>1, <2>2, TypesMove DEF DiskTypeOK
<1>6. MoreTypes'
  BY <1>1, MoreTypesMove
<1>7. p \notin making
  BY <1>1 DEF LockShape, AtWork
<1>8. LockShape'
  BY <1>1, <1>4, <1>7, LockStay DEF AtWork
<1>9. TmpShape'
  BY <1>1, <1>4, TmpAway DEF Writing, MoreTypes
<1> QED BY <1>1, <1>5, <1>6, <1>8, <1>9, MarkerSame, SweepFrame

\* MkdirAll looks what is missing.
LEMMA StatInv ==
  ASSUME DiskInv, NEW p \in Procs, Stat(p)
  PROVE  DiskInv'
<1> USE DEF DiskInv
<1>1. /\ UNCHANGED <<dirs, file, mtime, marker, tmps, making, since, lost, evictorVars,
                     clock, uses, faults, used, hist>>
      /\ pc[p] = "stat" /\ Goto(p, "mkdir")
      /\ make' = [make EXCEPT ![p] = Missing(job[p].chunk)]
  BY DEF Stat, diskVars, counters
<1>2. UNCHANGED <<ev, total>>
  BY <1>1 DEF evictorVars
<1>3. /\ pc' \in [Procs -> Places] /\ job' \in [Procs -> Jobs]
      /\ pc'[p] = "mkdir" /\ Others(p)
  BY <1>1, GotoMoves DEF Places
<1>4. make' \in [Procs -> SUBSET Dirs]
  <2>1. job[p].chunk \in Chunks
    BY DEF DiskTypeOK
  <2>2. Missing(job[p].chunk) \in SUBSET Dirs
    BY <2>1, DiskAssumption DEF Missing, Dirs
  <2> QED BY <1>1, <2>2 DEF DiskTypeOK
<1>5. DiskTypeOK'
  BY <1>1, <1>2, <1>3, <1>4, TypesMove DEF DiskTypeOK
<1>6. MoreTypes'
  BY <1>1, MoreTypesMove
<1>7. p \notin making /\ since # Unread
  BY <1>1 DEF LockShape, AtWork
<1>8. LockShape'
  BY <1>1, <1>3, <1>7, LockStay DEF AtWork
<1>9. TmpShape'
  BY <1>1, <1>3, TmpAway DEF Writing, MoreTypes
<1> QED BY <1>1, <1>5, <1>6, <1>8, <1>9, MarkerSame, SweepFrame

\* MkdirAll makes a directory, is done, or finds the one above gone.
LEMMA MkdirInv ==
  ASSUME DiskInv, NEW p \in Procs, Mkdir(p)
  PROVE  DiskInv'
<1> USE DEF DiskInv
<1>1. /\ UNCHANGED <<file, mtime, marker, tmps, making, since, lost, evictorVars,
                     clock, uses, faults, used, hist>>
      /\ pc[p] = "mkdir"
  BY DEF Mkdir, counters
<1>2. UNCHANGED <<ev, total>>
  BY <1>1 DEF evictorVars
<1>3. p \notin making /\ since # Unread
  BY <1>1 DEF LockShape, AtWork
<1>4. /\ pc' \in [Procs -> Places] /\ job' \in [Procs -> Jobs]
      /\ pc'[p] \in {"temp", "mkdir", "idle"} /\ Others(p)
      /\ make' \in [Procs -> SUBSET Dirs]
      /\ dirs \subseteq dirs' /\ dirs' \subseteq Dirs
      /\ \A d \in dirs' \ {"shard"} : Parent(d) \in dirs'
  <2>1. CASE make[p] = {} /\ Goto(p, "temp") /\ UNCHANGED <<dirs, make>>
    <3>1. /\ pc' \in [Procs -> Places] /\ job' \in [Procs -> Jobs]
          /\ pc'[p] = "temp" /\ Others(p)
      BY <2>1, GotoMoves DEF Places
    <3> QED BY <2>1, <3>1 DEF DiskTypeOK
  <2>2. ASSUME NEW d \in make[p], d = "shard" \/ Parent(d) \in dirs,
               dirs' = dirs \cup {d}, make' = [make EXCEPT ![p] = @ \ {d}],
               UNCHANGED <<pc, job>>
        PROVE  <1>4!:
    <3>1. d \in Dirs
      BY DEF DiskTypeOK
    <3>2. make' \in [Procs -> SUBSET Dirs]
      BY <2>2 DEF DiskTypeOK
    <3>3. \A e \in dirs' \ {"shard"} : Parent(e) \in dirs'
      BY <2>2 DEF DiskTypeOK
    <3>4. /\ pc' \in [Procs -> Places] /\ job' \in [Procs -> Jobs]
          /\ pc'[p] = "mkdir" /\ Others(p)
      BY <1>1, <2>2 DEF DiskTypeOK, Places, Jobs, Others
    <3> QED BY <2>2, <3>1, <3>2, <3>3, <3>4 DEF DiskTypeOK
  <2>3. CASE make' = [make EXCEPT ![p] = {}] /\ Goto(p, "idle") /\ UNCHANGED dirs
    <3>1. /\ pc' \in [Procs -> Places] /\ job' \in [Procs -> Jobs]
          /\ pc'[p] = "idle" /\ Others(p)
      BY <2>3, GotoMoves DEF Places
    <3>2. make' \in [Procs -> SUBSET Dirs]
      BY <2>3 DEF DiskTypeOK
    <3> QED BY <2>3, <3>1, <3>2 DEF DiskTypeOK
  <2> QED BY <2>1, <2>2, <2>3 DEF Mkdir
<1>5. DiskTypeOK'
  <2>1. making' \subseteq Procs /\ since' \in Nat \cup {Unread} /\ lost' \in BOOLEAN /\ tmps' \subseteq TmpFiles
    BY <1>1 DEF DiskTypeOK
  <2>2. \A t \in tmps' : t.dir \in dirs'
    BY <1>1, <1>4 DEF DiskTypeOK
  <2> QED BY <1>1, <1>2, <1>4, <2>1, <2>2, TypesMove
<1>6. MoreTypes'
  BY <1>1, MoreTypesMove
<1>7. LockShape'
  BY <1>1, <1>3, <1>4, LockStay DEF AtWork
<1>8. TmpShape'
  BY <1>1, <1>4, TmpAway DEF Writing, MoreTypes
<1> QED BY <1>1, <1>5, <1>6, <1>7, <1>8, MarkerSame, SweepFrame


\* A thread that fails at its work leaves it: the lock, if it has it, is given
\* back with the marker unknown.
LEMMA GiveUpMoves ==
  ASSUME DiskInv, NEW p \in Procs, pc[p] \in AtWork, GiveUp(p), dirs' = dirs
  PROVE  /\ pc' \in [Procs -> Places] /\ job' \in [Procs -> Jobs]
         /\ pc'[p] \in {"stat", "idle"} /\ Others(p)
         /\ making' \subseteq Procs
         /\ \A q \in Procs : q # p => (q \in making' <=> q \in making)
         /\ \/ UNCHANGED <<since, lost>>
            \/ since' = Unknown /\ lost' = TRUE
         /\ since' \in Nat \cup {Unread} /\ lost' \in BOOLEAN
         /\ LockShape'
<1> USE DEF DiskInv
<1>1. CASE p \in making
  <2>1. /\ pc' \in [Procs -> Places] /\ job' \in [Procs -> Jobs]
        /\ pc'[p] \in {"stat", "idle"} /\ Others(p)
        /\ since' = Unknown /\ making' = making \ {p} /\ lost' = TRUE
    BY <1>1, LearnMoves DEF GiveUp
  <2>2. LockShape'
    BY <1>1, <2>1, LockGive DEF Unknown
  <2> QED BY <1>1, <2>1, <2>2 DEF DiskTypeOK, Unknown
<1>2. CASE p \notin making
  <2>1. Goto(p, "idle") /\ UNCHANGED <<making, since, lost>>
    BY <1>2 DEF GiveUp
  <2>2. /\ pc' \in [Procs -> Places] /\ job' \in [Procs -> Jobs]
        /\ pc'[p] = "idle" /\ Others(p)
    BY <2>1, GotoMoves DEF Places
  <2>3. LockShape'
    BY <1>2, <2>1, <2>2, LockStay DEF AtWork
  <2> QED BY <2>1, <2>2, <2>3 DEF DiskTypeOK
<1> QED BY <1>1, <1>2

\* A thread at a place of its work, with or without the lock.
LEMMA WorkOn ==
  ASSUME DiskInv, NEW p \in Procs, pc[p] \in AtWork, NEW place \in AtWork,
         Goto(p, place), UNCHANGED <<dirs, making, since, lost>>
  PROVE  /\ pc' \in [Procs -> Places] /\ job' = job
         /\ pc'[p] = place /\ Others(p)
         /\ LockShape'
<1> USE DEF DiskInv
<1>1. place \in Places /\ place # "idle" /\ place \notin {"read", "stat", "mkdir"}
  BY DEF AtWork, Places
<1>2. pc' \in [Procs -> Places] /\ job' = job /\ pc'[p] = place /\ Others(p)
  BY <1>1, GotoMoves
<1>3. CASE p \in making
  BY <1>1, <1>2, <1>3, LockWork DEF LockShape
<1>4. CASE p \notin making
  <2>1. since # Unread
    BY <1>4 DEF LockShape
  <2> QED BY <1>1, <1>2, <1>4, <2>1, LockStay
<1> QED BY <1>2, <1>3, <1>4

\* The temporary file is made, in a directory that is there.
LEMMA CreateTempInv ==
  ASSUME DiskInv, NEW p \in Procs, CreateTemp(p)
  PROVE  DiskInv'
<1> USE DEF DiskInv
<1>1. /\ UNCHANGED <<dirs, file, mtime, marker, make, evictorVars, clock, uses, used, hist>>
      /\ pc[p] = "temp"
  BY DEF CreateTemp
<1>2. UNCHANGED <<ev, total>>
  BY <1>1 DEF evictorVars
<1>3. pc[p] \in AtWork /\ pc[p] \notin Writing
  BY <1>1 DEF AtWork, Writing
<1> DEFINE new == [owner |-> p, dir |-> WritesTo(p), data |-> "part", time |-> 0, old |-> FALSE]
<1>4. CASE /\ WritesTo(p) \in dirs /\ tmps' = tmps \cup {new}
           /\ Goto(p, "write") /\ UNCHANGED <<making, since, lost, faults>>
  <2>1. /\ pc' \in [Procs -> Places] /\ job' = job
        /\ pc'[p] = "write" /\ Others(p)
        /\ LockShape'
    BY <1>1, <1>3, <1>4, WorkOn DEF AtWork
  <2>2. new \in TmpFiles /\ new.dir \in dirs
    BY <1>4 DEF TmpFiles, DiskTypeOK
  <2>3. DiskTypeOK'
    <3>1. tmps' \subseteq TmpFiles /\ \A t \in tmps' : t.dir \in dirs'
      BY <1>1, <1>4, <2>2 DEF DiskTypeOK
    <3>2. /\ job' \in [Procs -> Jobs] /\ make' \in [Procs -> SUBSET Dirs]
          /\ making' \subseteq Procs /\ since' \in Nat \cup {Unread} /\ lost' \in BOOLEAN
          /\ dirs \subseteq dirs' /\ dirs' \subseteq Dirs
          /\ \A d \in dirs' \ {"shard"} : Parent(d) \in dirs'
      BY <1>1, <1>4, <2>1 DEF DiskTypeOK, Jobs
    <3> QED BY <1>1, <1>2, <2>1, <3>1, <3>2, TypesMove
  <2>4. MoreTypes'
    BY <1>1, <1>4, MoreTypesMove
  <2>5. TmpShape'
    <3>1. \A t \in tmps : t.owner # Nobody => t.owner \in Procs /\ t.owner # p
      BY <1>3 DEF TmpShape, DiskTypeOK, TmpFiles, Writing
    <3>2. \A q : WritesTo(q)' = WritesTo(q)
      BY <1>4, <2>1 DEF WritesTo
    <3>3. new.owner = p /\ new.dir = WritesTo(p) /\ ~new.old /\ p # Nobody
      BY ProcFacts
    <3> HIDE DEF new
    <3>4. /\ \A t, u \in tmps' : t.owner = u.owner => t = u \/ t.owner = Nobody
          /\ \A t \in tmps' : t.owner = Nobody => faults' > 0
      BY <1>4, <3>1, <3>3 DEF TmpShape
    <3>5. ASSUME NEW t \in tmps', t.owner # Nobody
          PROVE  /\ pc'[t.owner] \in {"write", "rename", "discard"}
                 /\ t.dir = WritesTo(t.owner)'
                 /\ pc'[t.owner] = "rename" => t.data = "whole" /\ t.time > 0
                 /\ t.old => faults' > 0
      <4>1. CASE t = new
        BY <2>1, <3>2, <3>3, <4>1
      <4>2. CASE t # new
        <5>1. t \in tmps
          BY <1>4, <4>2
        <5> QED BY <1>4, <2>1, <3>1, <3>2, <3>5, <5>1 DEF TmpShape, Others
      <4> QED BY <4>1, <4>2
    <3>6. ASSUME NEW q \in Procs
          PROVE  /\ pc'[q] \in {"write", "rename"} => Own(q)' # {} \/ faults' > 0
                 /\ pc'[q] = "discard" => faults' > 0
      <4>1. CASE q = p
        <5>1. new \in Own(q)'
          BY <1>4, <3>3, <4>1 DEF Own
        <5> QED BY <2>1, <4>1, <5>1
      <4>2. CASE q # p
        <5>1. Own(q) \subseteq Own(q)'
          BY <1>4 DEF Own
        <5>2. pc'[q] = pc[q]
          BY <2>1, <4>2 DEF Others
        <5> QED BY <1>4, <5>1, <5>2 DEF TmpShape
      <4> QED BY <4>1, <4>2
    <3> QED BY <3>4, <3>5, <3>6 DEF TmpShape
  <2> QED BY <1>1, <1>4, <2>1, <2>3, <2>4, <2>5, MarkerSame, SweepFrame
<1>5. ASSUME GiveUp(p), tmps' = tmps, faults' \in {faults, faults + 1}
      PROVE  DiskInv'
  <2>1. /\ pc' \in [Procs -> Places] /\ job' \in [Procs -> Jobs]
        /\ pc'[p] \in {"stat", "idle"} /\ Others(p)
        /\ making' \subseteq Procs
        /\ \A q \in Procs : q # p => (q \in making' <=> q \in making)
        /\ \/ UNCHANGED <<since, lost>>
           \/ since' = Unknown /\ lost' = TRUE
        /\ since' \in Nat \cup {Unread} /\ lost' \in BOOLEAN
        /\ LockShape'
    BY <1>1, <1>3, <1>5, GiveUpMoves
  <2>2. DiskTypeOK'
    BY <1>1, <1>2, <1>5, <2>1, TypesMove DEF DiskTypeOK
  <2>3. MoreTypes'
    BY <1>1, <1>5, MoreTypesMove
  <2>4. TmpShape'
    BY <1>3, <1>5, <2>1, TmpAway DEF Writing, MoreTypes
  <2>5. WholeOrAbsent' /\ MarkerFirst' /\ MarkerShape'
    <3>1. CASE UNCHANGED <<since, lost>>
      BY <1>1, <3>1, MarkerSame
    <3>2. CASE since' = Unknown /\ lost' = TRUE
      BY <1>1, <3>2, MarkerLost
    <3> QED BY <2>1, <3>1, <3>2
  <2> QED BY <1>1, <2>1, <2>2, <2>3, <2>4, <2>5, SweepFrame
<1>6. CASE WritesTo(p) \notin dirs /\ GiveUp(p) /\ UNCHANGED <<tmps, faults>>
  BY <1>5, <1>6
<1>7. CASE Fault /\ GiveUp(p) /\ UNCHANGED tmps
  BY <1>5, <1>7 DEF Fault
<1> QED BY <1>4, <1>6, <1>7 DEF CreateTemp, WritesTo

\* The bytes are written, into a file with a name or one without, or in part.
LEMMA WriteInv ==
  ASSUME DiskInv, NEW p \in Procs, Write(p)
  PROVE  DiskInv'
<1> USE DEF DiskInv
<1>1. /\ UNCHANGED <<dirs, file, mtime, marker, make, making, since, lost, evictorVars,
                     uses, used, hist>>
      /\ pc[p] = "write" /\ pc[p] \in AtWork
  BY DEF Write, AtWork
<1>2. UNCHANGED <<ev, total>>
  BY <1>1 DEF evictorVars
<1>3. ASSUME NEW place \in {"rename", "discard"}, Goto(p, place),
             clock' \in {clock, clock + 1}, faults' \in {faults, faults + 1},
             tmps' \subseteq TmpFiles, \A t \in tmps' : t.dir \in dirs, TmpShape'
      PROVE  DiskInv'
  <2>1. /\ pc' \in [Procs -> Places] /\ job' = job
        /\ pc'[p] = place /\ Others(p) /\ LockShape'
    BY <1>1, <1>3, WorkOn DEF AtWork
  <2>2. DiskTypeOK'
    BY <1>1, <1>2, <1>3, <2>1, TypesMove DEF DiskTypeOK, Jobs
  <2>3. MoreTypes'
    BY <1>1, <1>3, MoreTypesMove
  <2> QED BY <1>1, <1>3, <2>1, <2>2, <2>3, MarkerSame, SweepFrame
<1> DEFINE done(t) == [t EXCEPT !.data = "whole", !.time = clock']
<1> HIDE DEF done
<1>4. CASE /\ clock' = clock + 1
           /\ tmps' = (tmps \ Own(p)) \cup {done(t) : t \in Own(p)}
           /\ Goto(p, "rename") /\ UNCHANGED faults
  <2>1. /\ pc'[p] = "rename" /\ Others(p) /\ job' = job
    BY <1>1, <1>4, WorkOn DEF AtWork
  <2>2. clock' \in Nat /\ clock' > 0 /\ faults \in Nat
    BY <1>4 DEF MoreTypes
  <2>3. \A t \in TmpFiles : /\ done(t) \in TmpFiles
                            /\ done(t).owner = t.owner /\ done(t).dir = t.dir
                            /\ done(t).data = "whole" /\ done(t).time = clock'
                            /\ done(t).old = t.old
    BY <2>2 DEF TmpFiles, done
  <2>4. Own(p) \subseteq tmps /\ tmps \subseteq TmpFiles /\ \A t \in Own(p) : t.owner = p
    BY DEF Own, DiskTypeOK
  <2>5. tmps' \subseteq TmpFiles /\ \A t \in tmps' : t.dir \in dirs
    BY <1>4, <2>3, <2>4 DEF DiskTypeOK
  <2>6. TmpShape'
    <3>1. CASE Own(p) = {}
      <4>1. tmps' = tmps /\ faults > 0
        BY <1>1, <1>4, <3>1 DEF TmpShape
      <4>2. \A q : WritesTo(q)' = WritesTo(q) /\ Own(q)' = Own(q)
        BY <1>1, <2>1, <4>1 DEF WritesTo, Own
      <4>3. \A t \in tmps : t.owner # p
        BY <3>1 DEF Own
      <4>4. \A t \in tmps : t.owner # Nobody => t.owner \in Procs
        BY DEF DiskTypeOK, TmpFiles
      <4>5. \A t \in tmps : t.owner # Nobody => pc'[t.owner] = pc[t.owner]
        BY <2>1, <4>3, <4>4 DEF Others
      <4>6. faults' = faults
        BY <1>4
      <4> QED BY <4>1, <4>2, <4>5, <4>6 DEF TmpShape
    <3>2. ASSUME NEW t \in Own(p) PROVE TmpShape'
      <4>1. t.owner = p /\ p # Nobody /\ t \in tmps /\ t \in TmpFiles
        BY <2>4, ProcFacts
      <4>2. Own(p) = {t}
        BY <4>1 DEF Own, TmpShape
      <4>3. tmps' = (tmps \ {t}) \cup {done(t)}
        BY <1>4, <4>2
      <4>4. done(t) \in TmpFiles /\ done(t).owner = t.owner /\ done(t).dir = t.dir
            /\ done(t).data = "whole" /\ done(t).time > 0 /\ done(t).old = t.old
        BY <2>2, <2>3, <4>1
      <4>5. t.old => faults' > 0
        BY <1>4, <4>1 DEF TmpShape
      <4>6. \A q \in Procs : q # t.owner => pc'[q] = pc[q]
        BY <2>1, <4>1 DEF Others
      <4> QED BY <1>1, <1>4, <2>1, <2>2, <4>1, <4>3, <4>4, <4>5, <4>6, TmpReplace
    <3> QED BY <3>1, <3>2
  <2> QED BY <1>3, <1>4, <2>5, <2>6
<1>5. CASE Fault /\ Goto(p, "discard") /\ UNCHANGED <<tmps, clock>>
  <2>1. /\ pc'[p] = "discard" /\ Others(p) /\ job' = job
    BY <1>1, <1>5, WorkOn DEF AtWork
  <2>2. faults \in Nat /\ faults' = faults + 1 /\ faults' > 0
    BY <1>5 DEF Fault, MoreTypes
  <2>3. TmpShape'
    BY <1>1, <1>5, <2>1, <2>2, TmpFails
  <2> QED BY <1>3, <1>5, <2>2, <2>3 DEF DiskTypeOK
<1> QED BY <1>4, <1>5 DEF Write, done

\* After an error the temporary file goes, or stays and is no one's.
LEMMA DiscardInv ==
  ASSUME DiskInv, NEW p \in Procs, Discard(p)
  PROVE  DiskInv'
<1> USE DEF DiskInv
<1> DEFINE o(t) == [t EXCEPT !.owner = Nobody]
           left == {o(t) : t \in Own(p)}
<1>1. /\ UNCHANGED <<dirs, file, mtime, marker, make, evictorVars,
                     clock, uses, faults, used, hist>>
      /\ pc[p] = "discard" /\ pc[p] \in AtWork /\ GiveUp(p)
      /\ tmps' = tmps \ Own(p) \/ tmps' = (tmps \ Own(p)) \cup left
  BY DEF Discard, AtWork, counters
<1>2. UNCHANGED <<ev, total>>
  BY <1>1 DEF evictorVars
<1>3. faults \in Nat /\ faults > 0
  BY <1>1 DEF TmpShape, MoreTypes
<1>4. /\ pc' \in [Procs -> Places] /\ job' \in [Procs -> Jobs]
      /\ pc'[p] \in {"stat", "idle"} /\ Others(p)
      /\ making' \subseteq Procs
      /\ \A q \in Procs : q # p => (q \in making' <=> q \in making)
      /\ \/ UNCHANGED <<since, lost>>
         \/ since' = Unknown /\ lost' = TRUE
      /\ since' \in Nat \cup {Unread} /\ lost' \in BOOLEAN
      /\ LockShape'
  BY <1>1, GiveUpMoves
<1>5. \A t \in left : t \in TmpFiles /\ t.dir \in dirs /\ t.owner = Nobody
  BY DEF Own, DiskTypeOK, TmpFiles
<1> HIDE DEF o, left
<1>6. DiskTypeOK'
  <2>1. tmps' \subseteq TmpFiles /\ \A t \in tmps' : t.dir \in dirs'
    BY <1>1, <1>5 DEF DiskTypeOK
  <2> QED BY <1>1, <1>2, <1>4, <2>1, TypesMove DEF DiskTypeOK
<1>7. MoreTypes'
  BY <1>1, MoreTypesMove
<1>8. TmpShape'
  <2>1. CASE tmps' = tmps \ Own(p)
    BY <1>1, <1>3, <1>4, <2>1, TmpDrop DEF Writing
  <2>2. CASE tmps' = (tmps \ Own(p)) \cup left
    BY <1>1, <1>3, <1>4, <1>5, <2>2, TmpLeft DEF Writing
  <2> QED BY <1>1, <2>1, <2>2
<1>9. WholeOrAbsent' /\ MarkerFirst' /\ MarkerShape'
  <2>1. CASE UNCHANGED <<since, lost>>
    BY <1>1, <2>1, MarkerSame
  <2>2. CASE since' = Unknown /\ lost' = TRUE
    BY <1>1, <2>2, MarkerLost
  <2> QED BY <1>4, <2>1, <2>2
<1> QED BY <1>1, <1>4, <1>6, <1>7, <1>8, <1>9, SweepFrame


\* A chunk is stored or touched: the sweep's notes say so.
LEMMA UseSweep ==
  ASSUME DiskInv, NEW c \in Chunks, UNCHANGED evictorVars,
         file' \in [Chunks -> {"none", "part", "whole"}],
         mtime' \in [Chunks -> Nat], used' \in [Chunks -> Nat],
         \A o \in Chunks \ {c} : file'[o] = file[o] /\ mtime'[o] = mtime[o] /\ used'[o] = used[o],
         file[c] # "none" => file'[c] # "none",
         file'[c] # "none" => mtime'[c] = used'[c] /\ mtime'[c] > 0,
         Note(c)
  PROVE  TidyShape' /\ SweepShape' /\ CountShape' /\ hist'.gone = hist.gone
         /\ hist' \in [added : SUBSET Chunks, touched : SUBSET Chunks,
                       failed : SUBSET Chunks, gone : SUBSET Chunks]
<1> USE DEF DiskInv
<1>1. UNCHANGED <<ev, seen, rec, cand, total, tidy>>
  BY DEF evictorVars
<1>2. /\ hist'.gone = hist.gone /\ hist'.failed = hist.failed
      /\ hist' \in [added : SUBSET Chunks, touched : SUBSET Chunks,
                    failed : SUBSET Chunks, gone : SUBSET Chunks]
  BY DEF Note, MoreTypes
<1>3. Recorded' = Recorded
  BY <1>1 DEF Recorded
<1>4. TidyShape'
  BY <1>1 DEF TidyShape
<1>5. CountShape'
  BY <1>1, <1>2, <1>3 DEF CountShape, Target
<1>6. CASE ev = "idle"
  <2>1. hist' = hist
    BY <1>6 DEF Note
  <2> QED BY <1>1, <1>2, <1>3, <1>4, <1>5, <1>6, <2>1 DEF SweepShape, Evicting
<1>7. CASE ev # "idle"
  <2>1. /\ hist'.touched = hist.touched \cup {c}
        /\ hist'.added = IF file[c] = "none" /\ file'[c] # "none"
                           THEN hist.added \cup {c} ELSE hist.added
    BY <1>7 DEF Note
  <2>2. \A o \in Chunks : file'[o] # "none" => mtime'[o] = used'[o] /\ mtime'[o] > 0
    BY DEF SweepShape
  <2>3. \A o \in Chunks :
       /\ o \in seen' /\ file'[o] # "none" /\ o \notin hist'.added
            => rec'[o] > 0 /\ o \notin hist'.gone
       /\ rec'[o] > 0 => o \in seen'
       /\ rec'[o] > 0 /\ o \notin hist'.touched => rec'[o] = used'[o]
    BY <1>1, <1>2, <2>1 DEF SweepShape
  <2>4. SweepShape'
    BY <1>1, <1>2, <1>3, <1>7, <2>2, <2>3 DEF SweepShape, Evicting
  <2> QED BY <1>2, <1>4, <1>5, <2>4
<1> QED BY <1>6, <1>7

\* A hit touches its file.
LEMMA TouchInv ==
  ASSUME DiskInv, NEW p \in Procs, Touch(p)
  PROVE  DiskInv'
<1> USE DEF DiskInv
<1> DEFINE c == job[p].chunk
<1>1. /\ UNCHANGED <<dirs, file, marker, tmps, make, making, since, lost, evictorVars, uses, faults>>
      /\ pc[p] = "touch" /\ clock' = clock + 1 /\ Goto(p, "idle") /\ Note(c)
      /\ mtime' = IF file[c] = "none" THEN mtime ELSE [mtime EXCEPT ![c] = clock']
      /\ used' = [used EXCEPT ![c] = clock']
  BY DEF Touch, Touched
<1>2. UNCHANGED <<ev, seen, rec, cand, total, tidy>>
  BY <1>1 DEF evictorVars
<1>3. c \in Chunks
  BY DEF DiskTypeOK
<1> HIDE DEF c
<1>4. clock' \in Nat /\ clock' > 0 /\ faults \in Nat
  BY <1>1 DEF MoreTypes
<1>5. /\ mtime' \in [Chunks -> Nat] /\ used' \in [Chunks -> Nat]
      /\ \A o \in Chunks \ {c} : mtime'[o] = mtime[o] /\ used'[o] = used[o]
      /\ used'[c] = clock' /\ file[c] # "none" => mtime'[c] = clock'
  BY <1>1, <1>3, <1>4 DEF DiskTypeOK, MoreTypes
<1>6. /\ TidyShape' /\ SweepShape' /\ CountShape'
      /\ hist' \in [added : SUBSET Chunks, touched : SUBSET Chunks,
                    failed : SUBSET Chunks, gone : SUBSET Chunks]
  <2>1. file' \in [Chunks -> {"none", "part", "whole"}]
    BY <1>1 DEF DiskTypeOK
  <2>2. file'[c] # "none" => mtime'[c] = used'[c] /\ mtime'[c] > 0
    BY <1>1, <1>4, <1>5
  <2> QED BY <1>1, <1>3, <1>5, <2>1, <2>2, UseSweep
<1>7. /\ pc' \in [Procs -> Places] /\ job' \in [Procs -> Jobs]
      /\ pc'[p] = "idle" /\ Others(p)
  BY <1>1, GotoMoves DEF Places
<1>8. DiskTypeOK'
  BY <1>1, <1>2, <1>5, <1>7 DEF DiskTypeOK, Places, Jobs
<1>9. MoreTypes'
  BY <1>1, <1>2, <1>4, <1>5, <1>6 DEF MoreTypes
<1>10. p \notin making
  BY <1>1 DEF LockShape, AtWork
<1>11. LockShape'
  BY <1>1, <1>7, <1>10, LockStay DEF AtWork
<1>12. TmpShape'
  BY <1>1, <1>4, <1>7, TmpAway DEF Writing
<1> QED BY <1>1, <1>6, <1>8, <1>9, <1>11, <1>12, MarkerSame

\* The temporary file gets the chunk's name or the marker's, or there is none,
\* or it cannot.
LEMMA RenameInv ==
  ASSUME DiskInv, NEW p \in Procs, Rename(p)
  PROVE  DiskInv'
<1> USE DEF DiskInv
<1>1. /\ UNCHANGED <<dirs, make, evictorVars, clock, uses>>
      /\ pc[p] = "rename" /\ pc[p] \in AtWork
  BY DEF Rename, AtWork
<1>2. UNCHANGED <<ev, seen, rec, cand, total, tidy>>
  BY <1>1 DEF evictorVars
<1>3. faults \in Nat
  BY DEF MoreTypes
<1>4. ASSUME NEW t \in Own(p), tmps' = tmps \ {t}, UNCHANGED faults
      PROVE  /\ t \in tmps /\ t.data = "whole" /\ t.time \in Nat /\ t.time > 0
             /\ t.dir = WritesTo(p)
             /\ tmps' = tmps \ Own(p)
             /\ tmps' \subseteq TmpFiles /\ \A u \in tmps' : u.dir \in dirs
  <2>1. t \in tmps /\ t.owner = p /\ p # Nobody
    BY ProcFacts DEF Own
  <2>2. Own(p) = {t}
    BY <2>1 DEF Own, TmpShape
  <2>3. t.data = "whole" /\ t.time > 0 /\ t.dir = WritesTo(p)
    BY <1>1, <2>1 DEF TmpShape
  <2>4. t \in TmpFiles
    BY <2>1 DEF DiskTypeOK
  <2> QED BY <1>4, <2>1, <2>2, <2>3, <2>4 DEF DiskTypeOK, TmpFiles
<1>5. ASSUME NEW t \in Own(p), tmps' = tmps \ {t}, p \in making, marker' = t.time,
             Learn(p, t.time), UNCHANGED <<file, mtime, used, hist, faults>>
      PROVE  DiskInv'
  <2>1. /\ t.time \in Nat /\ t.time > 0 /\ tmps' = tmps \ Own(p)
        /\ tmps' \subseteq TmpFiles /\ \A u \in tmps' : u.dir \in dirs
    BY <1>4, <1>5
  <2>2. /\ pc' \in [Procs -> Places] /\ job' \in [Procs -> Jobs]
        /\ pc'[p] \in {"stat", "idle"} /\ Others(p)
        /\ since' = t.time /\ making' = making \ {p}
        /\ (lost => lost') /\ lost' \in BOOLEAN
    BY <1>5, LearnMoves
  <2>3. DiskTypeOK'
    BY <1>1, <1>2, <1>5, <2>1, <2>2 DEF DiskTypeOK, Places, Jobs
  <2>4. MoreTypes'
    BY <1>1, <1>5, MoreTypesMove
  <2>5. LockShape'
    BY <1>5, <2>1, <2>2, LockGive
  <2>6. TmpShape'
    BY <1>3, <1>5, <2>1, <2>2, TmpDrop DEF Writing
  <2>7. WholeOrAbsent' /\ MarkerFirst' /\ MarkerShape'
    BY <1>5, <2>1, <2>2 DEF WholeOrAbsent, MarkerFirst, MarkerShape, Torn, Unknown
  <2> QED BY <1>1, <1>5, <2>3, <2>4, <2>5, <2>6, <2>7, SweepFrame
<1>6. ASSUME NEW t \in Own(p), tmps' = tmps \ {t}, p \notin making,
             StoreChunk(p, t), UNCHANGED faults
      PROVE  DiskInv'
  <2> DEFINE c == job[p].chunk
  <2>1. /\ t.data = "whole" /\ t.time \in Nat /\ t.time > 0 /\ tmps' = tmps \ Own(p)
        /\ t.dir = DirOf[c] /\ t \in tmps
        /\ tmps' \subseteq TmpFiles /\ \A u \in tmps' : u.dir \in dirs
    BY <1>4, <1>6 DEF WritesTo
  <2>2. /\ file' = [file EXCEPT ![c] = "whole"] /\ mtime' = [mtime EXCEPT ![c] = t.time]
        /\ used' = [used EXCEPT ![c] = t.time] /\ Note(c) /\ Goto(p, "idle")
        /\ UNCHANGED <<marker, making, since, lost>>
    BY <1>6, <2>1 DEF StoreChunk
  <2>3. c \in Chunks
    BY DEF DiskTypeOK
  <2> HIDE DEF c
  <2>4. /\ mtime' \in [Chunks -> Nat] /\ used' \in [Chunks -> Nat]
        /\ file' \in [Chunks -> {"none", "part", "whole"}]
        /\ \A o \in Chunks \ {c} : file'[o] = file[o] /\ mtime'[o] = mtime[o] /\ used'[o] = used[o]
        /\ used'[c] = t.time /\ mtime'[c] = t.time /\ file'[c] = "whole"
    BY <2>1, <2>2, <2>3 DEF DiskTypeOK, MoreTypes
  <2>5. /\ TidyShape' /\ SweepShape' /\ CountShape'
        /\ hist' \in [added : SUBSET Chunks, touched : SUBSET Chunks,
                      failed : SUBSET Chunks, gone : SUBSET Chunks]
    BY <1>1, <2>1, <2>2, <2>3, <2>4, UseSweep
  <2>6. /\ pc' \in [Procs -> Places] /\ job' \in [Procs -> Jobs]
        /\ pc'[p] = "idle" /\ Others(p)
    BY <2>2, GotoMoves DEF Places
  <2>7. DiskTypeOK'
    <3>1. \A o \in Chunks : file'[o] # "none" => DirOf[o] \in dirs'
      BY <1>1, <2>1, <2>3, <2>4 DEF DiskTypeOK
    <3> QED BY <1>1, <1>2, <2>1, <2>2, <2>4, <2>6, <3>1 DEF DiskTypeOK, Places, Jobs
  <2>8. MoreTypes'
    BY <1>1, <1>2, <1>6, <2>4, <2>5 DEF MoreTypes
  <2>9. since # Unread
    BY <1>1, <1>6 DEF LockShape
  <2>10. LockShape'
    BY <1>1, <1>6, <2>2, <2>6, LockStay DEF AtWork
  <2>11. TmpShape'
    BY <1>3, <1>6, <2>1, <2>2, <2>6, TmpDrop DEF Writing
  <2>12. marker # 0 \/ lost
    BY <2>9 DEF MarkerFirst, MarkerShape, DiskTypeOK, Unknown
  <2>13. WholeOrAbsent' /\ MarkerFirst' /\ MarkerShape'
    BY <1>6, <2>2, <2>3, <2>4, <2>12 DEF WholeOrAbsent, MarkerFirst, MarkerShape
  <2> QED BY <2>5, <2>7, <2>8, <2>10, <2>11, <2>13
<1>7. ASSUME faults' \in {faults, faults + 1}, faults' > 0, Goto(p, "discard"),
             UNCHANGED <<file, mtime, marker, tmps, making, since, lost, used, hist>>
      PROVE  DiskInv'
  <2>1. /\ pc' \in [Procs -> Places] /\ job' = job
        /\ pc'[p] = "discard" /\ Others(p) /\ LockShape'
    BY <1>1, <1>7, WorkOn DEF AtWork
  <2>2. DiskTypeOK'
    BY <1>1, <1>2, <1>7, <2>1, TypesMove DEF DiskTypeOK, Jobs
  <2>3. MoreTypes'
    BY <1>1, <1>7, MoreTypesMove
  <2>4. TmpShape'
    BY <1>3, <1>7, <2>1, TmpFails
  <2> QED BY <1>1, <1>7, <2>1, <2>2, <2>3, <2>4, MarkerSame, SweepFrame
<1>8. Own(p) = {} => faults > 0
  BY <1>1 DEF TmpShape
<1>9. Fault => faults' = faults + 1 /\ faults' > 0
  BY <1>3 DEF Fault
<1>10. \A t \in Own(p) : tmps' = tmps \ {t} /\ UNCHANGED faults => t.data = "whole"
  BY <1>4
<1> QED BY <1>5, <1>6, <1>7, <1>8, <1>9, <1>10 DEF Rename


-----------------------------------------------------------------------------
(* Steps of the evictor                                                    *)

\* No files, no bytes.
LEMMA BytesNone == Cardinality(BytesOf({})) = 0
<1>1. BytesOf({}) = {}
  BY DEF BytesOf
<1> QED BY <1>1, FS_EmptySet, Zenon

\* The threads are where they were, and their temporary files too.
LEMMA ThreadsFrame ==
  ASSUME LockShape, TmpShape, MoreTypes, UNCHANGED <<threadVars, tmps>>,
         faults' \in {faults, faults + 1}, "root" \in dirs => "root" \in dirs'
  PROVE  LockShape' /\ TmpShape'
<1>1. UNCHANGED <<pc, job, make, making, since, lost>>
  BY DEF threadVars
<1>2. LockShape'
  BY <1>1 DEF LockShape
<1>3. faults > 0 => faults' > 0
  BY DEF MoreTypes
<1>4. \A q : WritesTo(q)' = WritesTo(q) /\ Own(q)' = Own(q)
  BY <1>1 DEF WritesTo, Own
<1>5. TmpShape'
  BY <1>1, <1>3, <1>4 DEF TmpShape
<1> QED BY <1>2, <1>5

\* A sweep begins.
LEMMA SweepStartInv ==
  ASSUME DiskInv, SweepStart
  PROVE  DiskInv'
<1> USE DEF DiskInv
<1>1. /\ UNCHANGED <<dirs, file, mtime, marker, tmps, seen, rec, cand, total, tidy,
                     clock, uses, faults, used, hist>>
      /\ UNCHANGED threadVars /\ UNCHANGED <<pc, job, make, making, since, lost>>
      /\ ev = "idle" /\ ev' = "walk"
  BY DEF SweepStart, diskVars, threadVars, counters
<1>2. DiskTypeOK' /\ MoreTypes'
  BY <1>1 DEF DiskTypeOK, MoreTypes
<1>3. LockShape' /\ TmpShape'
  BY <1>1, ThreadsFrame
<1>4. WholeOrAbsent' /\ MarkerFirst' /\ MarkerShape'
  BY <1>1, MarkerSame
<1>5. Recorded' = Recorded
  BY <1>1 DEF Recorded
<1>6. SweepShape'
  BY <1>1, <1>5 DEF SweepShape, Evicting, NoHist
<1>7. TidyShape' /\ CountShape'
  BY <1>1, <1>5 DEF TidyShape, CountShape
<1> QED BY <1>2, <1>3, <1>4, <1>6, <1>7

\* The walk comes to a chunk's place, and records the file it finds.
LEMMA WalkInv ==
  ASSUME DiskInv, NEW c \in Chunks, Walk(c)
  PROVE  DiskInv'
<1> USE DEF DiskInv
<1>1. /\ UNCHANGED <<dirs, file, mtime, marker, tmps, ev, cand, tidy,
                     clock, uses, faults, used, hist>>
      /\ UNCHANGED threadVars /\ UNCHANGED <<pc, job, make, making, since, lost>>
      /\ ev = "walk" /\ c \notin seen /\ seen' = seen \cup {c}
      /\ IF file[c] = "none" THEN UNCHANGED <<rec, total>>
         ELSE /\ rec' = [rec EXCEPT ![c] = mtime[c]]
              /\ total' = total + SizeOf[c]
  BY DEF Walk, diskVars, threadVars, counters
<1>2. SizeOf[c] \in Nat
  BY DiskAssumption
<1>3. rec' \in [Chunks -> Nat] /\ total' \in Nat
  BY <1>1, <1>2 DEF DiskTypeOK, MoreTypes
<1>4. DiskTypeOK' /\ MoreTypes'
  BY <1>1, <1>3 DEF DiskTypeOK, MoreTypes
<1>5. LockShape' /\ TmpShape'
  BY <1>1, ThreadsFrame
<1>6. WholeOrAbsent' /\ MarkerFirst' /\ MarkerShape'
  BY <1>1, MarkerSame
<1>7. hist.gone = {} /\ hist.failed = {} /\ cand = {} /\ rec[c] = 0
  BY <1>1 DEF SweepShape, Evicting, MoreTypes
<1>8. \A o \in Chunks \ {c} : rec'[o] = rec[o]
  BY <1>1 DEF MoreTypes
<1>9. rec'[c] = IF file[c] = "none" THEN 0 ELSE mtime[c]
  BY <1>1, <1>7 DEF MoreTypes
<1>10. file[c] # "none" => mtime[c] > 0 /\ mtime[c] = used[c]
  BY DEF SweepShape
<1>11. SweepShape'
  <2>1. \A o \in Chunks :
       /\ o \in seen' /\ file'[o] # "none" /\ o \notin hist'.added
            => rec'[o] > 0 /\ o \notin hist'.gone
       /\ rec'[o] > 0 => o \in seen'
       /\ rec'[o] > 0 /\ o \notin hist'.touched => rec'[o] = used'[o]
    BY <1>1, <1>7, <1>8, <1>9, <1>10 DEF SweepShape
  <2>2. \A o \in Chunks : file'[o] # "none" => mtime'[o] = used'[o] /\ mtime'[o] > 0
    BY <1>1 DEF SweepShape
  <2> QED BY <1>1, <1>7, <2>1, <2>2 DEF SweepShape, Evicting
<1>12. CountShape'
  <2>1. CASE file[c] = "none"
    BY <1>1, <2>1 DEF CountShape, Recorded
  <2>2. CASE file[c] # "none"
    <3>1. Recorded' = Recorded \cup {c} /\ c \notin Recorded
      BY <1>7, <1>8, <1>9, <1>10, <2>2 DEF Recorded
    <3>2. Recorded \in SUBSET Chunks
      BY DEF Recorded
    <3>3. Cardinality(BytesOf(Recorded \cup {c})) = Cardinality(BytesOf(Recorded)) + SizeOf[c]
      BY <3>1, <3>2, BytesAdd
    <3>4. Recorded \ hist.gone = Recorded /\ (Recorded \ hist.gone)' = Recorded \cup {c}
      BY <1>1, <1>7, <3>1
    <3>5. total' = Cardinality(BytesOf((Recorded \ hist.gone)'))
      BY <1>1, <2>2, <3>3, <3>4 DEF CountShape
    <3> QED BY <1>1, <3>5 DEF CountShape
  <2> QED BY <2>1, <2>2
<1>13. TidyShape'
  BY <1>1 DEF TidyShape
<1> QED BY <1>4, <1>5, <1>6, <1>11, <1>12, <1>13

\* The walk comes to a temporary file that is old.
LEMMA ReapInv ==
  ASSUME DiskInv, NEW t \in tmps, Reap(t)
  PROVE  DiskInv'
<1> USE DEF DiskInv
<1>1. /\ UNCHANGED <<dirs, file, mtime, marker, evictorVars, clock, uses, used, hist>>
      /\ UNCHANGED <<pc, job, make, making, since, lost, ev, total>>
      /\ t.old /\ t \in TmpFiles /\ faults \in Nat
  BY DEF Reap, Stale, threadVars, evictorVars, DiskTypeOK, MoreTypes
<1> DEFINE u == [t EXCEPT !.old = FALSE]
<1>2. u \in TmpFiles /\ u.owner = t.owner /\ u.dir = t.dir /\ u.data = t.data
      /\ u.time = t.time /\ ~u.old
  BY <1>1 DEF TmpFiles
<1>3. /\ tmps' = tmps \ {t} \/ tmps' = (tmps \ {t}) \cup {u}
      /\ faults' \in {faults, faults + 1}
  BY DEF Reap, Fault
<1>4. TmpShape'
  <2>1. CASE tmps' = tmps \ {t} /\ UNCHANGED faults
    BY <1>1, <2>1, TmpReaped
  <2>2. CASE Fault /\ tmps' = (tmps \ {t}) \cup {u}
    <3>1. faults' = faults + 1 /\ faults' > 0
      BY <1>1, <2>2 DEF Fault
    <3>2. t.owner # Nobody => pc[t.owner] \in {"write", "rename", "discard"}
            /\ (pc[t.owner] = "rename" => t.data = "whole" /\ t.time > 0)
      BY DEF TmpShape
    <3> HIDE DEF u
    <3> QED BY <1>1, <1>2, <2>2, <3>1, <3>2, TmpReplace
  <2> QED BY <2>1, <2>2 DEF Reap
<1> HIDE DEF u
<1>5. DiskTypeOK'
  <2>1. tmps' \subseteq TmpFiles /\ \A v \in tmps' : v.dir \in dirs'
    BY <1>1, <1>2, <1>3 DEF DiskTypeOK
  <2> QED BY <1>1, <2>1 DEF DiskTypeOK
<1>6. MoreTypes'
  BY <1>1, <1>3, MoreTypesMove
<1>7. LockShape'
  BY <1>1 DEF LockShape
<1> QED BY <1>1, <1>3, <1>4, <1>5, <1>6, <1>7, MarkerSame, SweepFrame

\* The walk is over, and the shard within its cap or not.
LEMMA WalkEndInv ==
  ASSUME DiskInv, WalkEnd
  PROVE  DiskInv'
<1> USE DEF DiskInv
<1>1. /\ UNCHANGED <<dirs, file, mtime, marker, tmps, seen, rec, total, tidy,
                     clock, uses, faults, used, hist>>
      /\ UNCHANGED threadVars /\ UNCHANGED <<pc, job, make, making, since, lost>>
      /\ ev = "walk" /\ seen = Chunks
      /\ cand' = IF total <= MaxBytes THEN {} ELSE Recorded
      /\ ev' = IF total <= MaxBytes THEN "done" ELSE "evict"
  BY DEF WalkEnd, diskVars, threadVars, counters
<1>2. Recorded' = Recorded /\ Recorded \subseteq Chunks
  BY <1>1 DEF Recorded
<1>3. DiskTypeOK' /\ MoreTypes'
  BY <1>1, <1>2 DEF DiskTypeOK, MoreTypes
<1>4. LockShape' /\ TmpShape'
  BY <1>1, ThreadsFrame
<1>5. WholeOrAbsent' /\ MarkerFirst' /\ MarkerShape'
  BY <1>1, MarkerSame
<1>6. hist.gone = {} /\ hist.failed = {}
  BY <1>1 DEF SweepShape
<1>7. SweepShape'
  BY <1>1, <1>2, <1>6 DEF SweepShape, Evicting
<1>8. TidyShape'
  BY <1>1 DEF TidyShape
<1>9. CountShape'
  BY <1>1, <1>2, <1>6 DEF CountShape
<1> QED BY <1>3, <1>4, <1>5, <1>7, <1>8, <1>9

\* The sweep ends: enough is gone, or all has been tried.
LEMMA SweepEndInv ==
  ASSUME DiskInv, SweepEnd
  PROVE  DiskInv'
<1> USE DEF DiskInv
<1>1. /\ UNCHANGED <<dirs, file, mtime, marker, tmps, seen, rec, total, tidy,
                     clock, uses, faults, used, hist>>
      /\ UNCHANGED threadVars /\ UNCHANGED <<pc, job, make, making, since, lost>>
      /\ ev = "evict" /\ ev' = "done" /\ cand' = {}
      /\ total <= Target \/ cand = {}
  BY DEF SweepEnd, Enough, diskVars, threadVars, counters
<1>2. Recorded' = Recorded
  BY <1>1 DEF Recorded
<1>3. DiskTypeOK' /\ MoreTypes'
  BY <1>1, <1>2 DEF DiskTypeOK, MoreTypes
<1>4. LockShape' /\ TmpShape'
  BY <1>1, ThreadsFrame
<1>5. WholeOrAbsent' /\ MarkerFirst' /\ MarkerShape'
  BY <1>1, MarkerSame
<1>6. SweepShape'
  BY <1>1, <1>2 DEF SweepShape, Evicting
<1>7. TidyShape'
  BY <1>1 DEF TidyShape
<1>8. Target <= MaxBytes /\ Target \in Int
  BY DiskAssumption DEF Target
<1>9. total <= Target \/ Recorded \subseteq hist.gone \cup hist.failed
  BY <1>1 DEF SweepShape, Evicting
<1>10. CountShape'
  <2>1. total <= Target => total <= MaxBytes
    BY <1>8, DiskAssumption DEF DiskTypeOK
  <2>2. Target' = Target
    BY DEF Target
  <2> HIDE DEF Target
  <2> QED BY <1>1, <1>2, <1>9, <2>1, <2>2 DEF CountShape
<1> QED BY <1>3, <1>4, <1>5, <1>6, <1>7, <1>10

\* The evictor waits for the next tick.
LEMMA SleepInv ==
  ASSUME DiskInv, Sleep
  PROVE  DiskInv'
<1> USE DEF DiskInv
<1>1. /\ UNCHANGED <<dirs, file, mtime, marker, tmps, cand, clock, uses, faults>>
      /\ UNCHANGED threadVars /\ UNCHANGED <<pc, job, make, making, since, lost>>
      /\ ev = "done" /\ ev' = "idle" /\ seen' = {} /\ total' = 0 /\ tidy' = <<>>
      /\ rec' = [c \in Chunks |-> 0] /\ hist' = NoHist
      /\ used' = [c \in Chunks |-> IF file[c] = "none" THEN 0 ELSE used[c]]
  BY DEF Sleep, Booted, diskVars, threadVars, counters
<1>2. Recorded' = {}
  BY <1>1 DEF Recorded
<1>3. DiskTypeOK' /\ MoreTypes'
  BY <1>1 DEF DiskTypeOK, MoreTypes, NoHist
<1>4. LockShape' /\ TmpShape'
  BY <1>1, ThreadsFrame
<1>5. WholeOrAbsent' /\ MarkerFirst' /\ MarkerShape'
  BY <1>1, MarkerSame
<1>6. cand = {}
  BY <1>1 DEF SweepShape, Evicting
<1>7. SweepShape'
  BY <1>1, <1>2, <1>6 DEF SweepShape, Evicting, NoHist
<1>8. TidyShape'
  BY <1>1 DEF TidyShape
<1>9. CountShape'
  BY <1>1, <1>2, BytesNone DEF CountShape, NoHist
<1> QED BY <1>3, <1>4, <1>5, <1>7, <1>8, <1>9


\* The least recent of the recorded files is removed, or cannot be.
LEMMA EvictInv ==
  ASSUME DiskInv, NEW c \in Chunks, Evict(c)
  PROVE  DiskInv'
<1> USE DEF DiskInv
<1>1. /\ UNCHANGED <<dirs, marker, tmps, seen, rec, clock, uses, used>>
      /\ UNCHANGED threadVars /\ UNCHANGED <<pc, job, make, making, since, lost>>
      /\ ev = "evict" /\ c \in cand /\ cand' = cand \ {c}
      /\ \A o \in cand : rec[c] <= rec[o]
  BY DEF Evict, threadVars
<1>2. Recorded' = Recorded /\ Recorded \subseteq Chunks
  BY <1>1 DEF Recorded
<1>3. /\ c \in Recorded /\ c \notin hist.gone /\ c \notin hist.failed
      /\ Recorded = hist.gone \cup hist.failed \cup cand
  BY <1>1 DEF SweepShape, Evicting
<1>4. SizeOf[c] \in Nat \ {0}
  BY DiskAssumption
<1>5. CASE /\ file' = [file EXCEPT ![c] = "none"] /\ mtime' = [mtime EXCEPT ![c] = 0]
           /\ total' = total - SizeOf[c]
           /\ tidy' = <<DirOf[c], PrefixOf[DirOf[c]]>> /\ ev' = "list"
           /\ hist' = [hist EXCEPT !.gone = @ \cup {c}, !.added = @ \ {c}]
           /\ UNCHANGED faults
  <2>1. /\ file' \in [Chunks -> {"none", "part", "whole"}] /\ mtime' \in [Chunks -> Nat]
        /\ file'[c] = "none"
        /\ \A o \in Chunks \ {c} : file'[o] = file[o] /\ mtime'[o] = mtime[o]
    BY <1>5 DEF DiskTypeOK
  <2>2. /\ hist'.gone = hist.gone \cup {c} /\ hist'.added = hist.added \ {c}
        /\ hist'.touched = hist.touched /\ hist'.failed = hist.failed
        /\ hist' \in [added : SUBSET Chunks, touched : SUBSET Chunks,
                      failed : SUBSET Chunks, gone : SUBSET Chunks]
    BY <1>5 DEF MoreTypes
  <2>3. total = total' + SizeOf[c] /\ total' = Cardinality(BytesOf((Recorded \ hist.gone)'))
        /\ total' \in Nat
    <3> DEFINE S == Recorded \ (hist.gone \cup {c})
    <3>1. S \in SUBSET Chunks /\ c \notin S /\ S \cup {c} = Recorded \ hist.gone
      BY <1>2, <1>3
    <3>2. (Recorded \ hist.gone)' = S
      BY <1>2, <2>2
    <3> HIDE DEF S
    <3>3. Cardinality(BytesOf(S \cup {c})) = Cardinality(BytesOf(S)) + SizeOf[c]
      BY <3>1, BytesAdd
    <3>4. Cardinality(BytesOf(S)) \in Nat
      BY <3>1, BytesFinite
    <3>5. total = Cardinality(BytesOf(S)) + SizeOf[c]
      BY <3>1, <3>3 DEF CountShape
    <3>6. total' = Cardinality(BytesOf(S))
      BY <1>4, <1>5, <3>4, <3>5
    <3> QED BY <3>2, <3>4, <3>5, <3>6
  <2>4. DiskTypeOK'
    <3>1. \A o \in Chunks : file'[o] # "none" => DirOf[o] \in dirs'
      BY <1>1, <2>1 DEF DiskTypeOK
    <3> QED BY <1>1, <1>5, <2>1, <2>3, <3>1 DEF DiskTypeOK
  <2>5. MoreTypes'
    BY <1>1, <1>5, <2>2 DEF MoreTypes
  <2>6. LockShape' /\ TmpShape'
    BY <1>1, <1>5, ThreadsFrame
  <2>7. WholeOrAbsent' /\ MarkerFirst' /\ MarkerShape'
    <3>1. \A o \in Chunks : file'[o] = file[o] \/ file'[o] = "none"
      BY <2>1
    <3>2. WholeOrAbsent'
      BY <1>1, <3>1 DEF WholeOrAbsent
    <3>3. MarkerFirst' /\ MarkerShape'
      BY <1>1, <1>5, <3>1 DEF MarkerFirst, MarkerShape
    <3> QED BY <3>2, <3>3
  <2>8. TidyShape'
    <3>1. DirOf[c] \in Objects /\ PrefixOf[DirOf[c]] \in Prefixes
      BY DiskAssumption
    <3> QED BY <1>5, <3>1 DEF TidyShape
  <2>9. SweepShape'
    <3>1. \A o \in Chunks : file'[o] # "none" => mtime'[o] = used'[o] /\ mtime'[o] > 0
      BY <1>1, <2>1 DEF SweepShape
    <3>2. \A o \in Chunks :
       /\ o \in seen' /\ file'[o] # "none" /\ o \notin hist'.added
            => rec'[o] > 0 /\ o \notin hist'.gone
       /\ rec'[o] > 0 => o \in seen'
       /\ rec'[o] > 0 /\ o \notin hist'.touched => rec'[o] = used'[o]
      BY <1>1, <2>1, <2>2 DEF SweepShape
    <3>3. /\ hist'.gone \cup hist'.failed \cup cand' \subseteq Recorded
          /\ cand' \cap (hist'.gone \cup hist'.failed) = {}
          /\ Recorded = hist'.gone \cup hist'.failed \cup cand'
      BY <1>1, <1>3, <2>2 DEF SweepShape
    <3>4. \A f \in hist'.gone, g \in Recorded \ (hist'.gone \cup hist'.failed) : rec'[f] <= rec'[g]
      <4>1. \A g \in Recorded \ (hist'.gone \cup hist'.failed) : g \in cand
        BY <1>3, <2>2
      <4>2. \A f \in hist.gone, g \in Recorded \ (hist'.gone \cup hist'.failed) : rec'[f] <= rec'[g]
        BY <1>1, <2>2 DEF SweepShape
      <4>3. \A g \in Recorded \ (hist'.gone \cup hist'.failed) : rec'[c] <= rec'[g]
        BY <1>1, <4>1
      <4> QED BY <2>2, <4>2, <4>3
    <3>5. /\ seen' = Chunks
          /\ ev' \notin {"idle", "walk"} /\ ev' \in Evicting
      BY <1>1, <1>5 DEF SweepShape, Evicting
    <3> QED BY <1>2, <3>1, <3>2, <3>3, <3>4, <3>5 DEF SweepShape
  <2>10. CountShape'
    BY <1>5, <2>3 DEF CountShape
  <2> QED BY <2>4, <2>5, <2>6, <2>7, <2>8, <2>9, <2>10
<1>6. CASE /\ Fault /\ total' = total - 0
           /\ hist' = [hist EXCEPT !.failed = @ \cup {c}]
           /\ UNCHANGED <<file, mtime, tidy, ev>>
  <2>1. /\ hist'.gone = hist.gone /\ hist'.added = hist.added
        /\ hist'.touched = hist.touched /\ hist'.failed = hist.failed \cup {c}
        /\ hist' \in [added : SUBSET Chunks, touched : SUBSET Chunks,
                      failed : SUBSET Chunks, gone : SUBSET Chunks]
    BY <1>6 DEF MoreTypes
  <2>2. total' = total /\ faults' = faults + 1
    BY <1>6 DEF Fault, DiskTypeOK
  <2>3. DiskTypeOK'
    BY <1>1, <1>6, <2>2 DEF DiskTypeOK
  <2>4. MoreTypes'
    BY <1>1, <2>1, <2>2 DEF MoreTypes
  <2>5. LockShape' /\ TmpShape'
    BY <1>1, <2>2, ThreadsFrame
  <2>6. WholeOrAbsent' /\ MarkerFirst' /\ MarkerShape'
    BY <1>1, <1>6, <2>2, MarkerSame
  <2>7. TidyShape'
    BY <1>6 DEF TidyShape
  <2>8. SweepShape'
    <3>1. \A o \in Chunks : file'[o] # "none" => mtime'[o] = used'[o] /\ mtime'[o] > 0
      BY <1>1, <1>6 DEF SweepShape
    <3>2. \A o \in Chunks :
       /\ o \in seen' /\ file'[o] # "none" /\ o \notin hist'.added
            => rec'[o] > 0 /\ o \notin hist'.gone
       /\ rec'[o] > 0 => o \in seen'
       /\ rec'[o] > 0 /\ o \notin hist'.touched => rec'[o] = used'[o]
      BY <1>1, <1>6, <2>1 DEF SweepShape
    <3>3. /\ hist'.gone \cup hist'.failed \cup cand' \subseteq Recorded
          /\ cand' \cap (hist'.gone \cup hist'.failed) = {}
          /\ Recorded = hist'.gone \cup hist'.failed \cup cand'
      BY <1>1, <1>3, <2>1 DEF SweepShape
    <3>4. \A f \in hist'.gone, g \in Recorded \ (hist'.gone \cup hist'.failed) : rec'[f] <= rec'[g]
      BY <1>1, <2>1 DEF SweepShape
    <3>5. /\ seen' = Chunks
          /\ ev' \notin {"idle", "walk"} /\ ev' \in Evicting
      BY <1>1, <1>6 DEF SweepShape, Evicting
    <3> QED BY <1>2, <3>1, <3>2, <3>3, <3>4, <3>5 DEF SweepShape
  <2>9. CountShape'
    BY <1>1, <1>2, <1>6, <2>1, <2>2 DEF CountShape
  <2> QED BY <2>3, <2>4, <2>5, <2>6, <2>7, <2>8, <2>9
<1> QED BY <1>5, <1>6 DEF Evict, Freed

\* removeIfEmpty lists a directory.
LEMMA ListInv ==
  ASSUME DiskInv, List
  PROVE  DiskInv'
<1> USE DEF DiskInv
<1>1. /\ UNCHANGED <<dirs, file, mtime, marker, tmps, seen, rec, cand, total, tidy,
                     clock, uses, faults, used, hist>>
      /\ UNCHANGED threadVars /\ UNCHANGED <<pc, job, make, making, since, lost>>
      /\ ev = "list" /\ ev' \in {"rmdir", "evict"}
  BY DEF List, diskVars, threadVars, counters
<1>2. Recorded' = Recorded
  BY <1>1 DEF Recorded
<1>3. DiskTypeOK' /\ MoreTypes'
  BY <1>1 DEF DiskTypeOK, MoreTypes
<1>4. LockShape' /\ TmpShape'
  BY <1>1, ThreadsFrame
<1>5. WholeOrAbsent' /\ MarkerFirst' /\ MarkerShape'
  BY <1>1, MarkerSame
<1>6. SweepShape'
  BY <1>1, <1>2 DEF SweepShape, Evicting
<1>7. TidyShape' /\ CountShape'
  BY <1>1, <1>2 DEF TidyShape, CountShape
<1> QED BY <1>3, <1>4, <1>5, <1>6, <1>7

\* removeIfEmpty removes a directory that is still empty: never the root.
LEMMA RmdirInv ==
  ASSUME DiskInv, Rmdir
  PROVE  DiskInv'
<1> USE DEF DiskInv
<1> DEFINE d == Head(tidy)
<1>1. /\ UNCHANGED <<file, mtime, marker, tmps, seen, rec, cand, total,
                     clock, uses, faults, used, hist>>
      /\ UNCHANGED threadVars /\ UNCHANGED <<pc, job, make, making, since, lost>>
      /\ ev = "rmdir" /\ ev' \in {"list", "evict"}
      /\ \/ dirs' = dirs \ {d} /\ Empty(d) /\ tidy' = Tail(tidy)
            /\ (ev' = "list" => Tail(tidy) # <<>>)
         \/ dirs' = dirs /\ ev' = "evict"
  BY DEF Rmdir, threadVars, counters
<1>2. \/ \E o \in Objects, x \in Prefixes : tidy = <<o, x>>
      \/ \E x \in Prefixes : tidy = <<x>>
  BY <1>1 DEF TidyShape
<1>3. d \in Objects \cup Prefixes
  BY <1>2
<1>4. d # "shard" /\ d # "root"
  BY <1>3, DiskAssumption
<1>5. TidyShape'
  <2>1. CASE \E o \in Objects, x \in Prefixes : tidy = <<o, x>>
    <3>1. \E x \in Prefixes : Tail(tidy) = <<x>>
      BY <2>1
    <3> QED BY <1>1, <3>1 DEF TidyShape
  <2>2. CASE \E x \in Prefixes : tidy = <<x>>
    <3>1. Tail(tidy) = <<>>
      BY <2>2
    <3> QED BY <1>1, <3>1 DEF TidyShape
  <2> QED BY <1>2, <2>1, <2>2
<1> HIDE DEF d
<1>6. Recorded' = Recorded
  BY <1>1 DEF Recorded
<1>7. DiskTypeOK'
  <2>1. CASE dirs' = dirs
    BY <1>1, <2>1 DEF DiskTypeOK
  <2>2. CASE dirs' = dirs \ {d} /\ Empty(d)
    <3>1. \A e \in dirs' \ {"shard"} : Parent(e) \in dirs'
      BY <2>2 DEF DiskTypeOK, Empty
    <3>2. \A o \in Chunks : file'[o] # "none" => DirOf[o] \in dirs'
      BY <1>1, <2>2 DEF DiskTypeOK, Empty, InDir
    <3>3. \A t \in tmps' : t.dir \in dirs'
      BY <1>1, <2>2 DEF DiskTypeOK, Empty
    <3> QED BY <1>1, <2>2, <3>1, <3>2, <3>3 DEF DiskTypeOK
  <2> QED BY <1>1, <2>1, <2>2
<1>8. MoreTypes'
  BY <1>1 DEF MoreTypes
<1>9. LockShape' /\ TmpShape'
  <2>1. "root" \in dirs => "root" \in dirs'
    BY <1>1, <1>4
  <2> QED BY <1>1, <2>1, ThreadsFrame
<1>10. WholeOrAbsent' /\ MarkerFirst' /\ MarkerShape'
  BY <1>1, MarkerSame
<1>11. SweepShape'
  BY <1>1, <1>6 DEF SweepShape, Evicting
<1>12. CountShape'
  BY <1>1, <1>6 DEF CountShape
<1> QED BY <1>5, <1>7, <1>8, <1>9, <1>10, <1>11, <1>12

-----------------------------------------------------------------------------
(* Time, kills and the start                                               *)

\* A temporary file comes of age; if someone is still writing it, that is the
\* fault of a write that stalls.
LEMMA AgeInv ==
  ASSUME DiskInv, NEW t \in tmps, Age(t)
  PROVE  DiskInv'
<1> USE DEF DiskInv
<1> DEFINE u == [t EXCEPT !.old = TRUE]
<1>1. /\ UNCHANGED <<dirs, file, mtime, marker, evictorVars, clock, uses, used, hist>>
      /\ UNCHANGED <<pc, job, make, making, since, lost, ev, total>>
      /\ t \in TmpFiles /\ faults \in Nat /\ tmps' = (tmps \ {t}) \cup {u}
      /\ faults' \in {faults, faults + 1}
      /\ t.owner # Nobody => faults' = faults + 1
  BY DEF Age, Fault, threadVars, evictorVars, DiskTypeOK, MoreTypes
<1>2. u \in TmpFiles /\ u.owner = t.owner /\ u.dir = t.dir /\ u.data = t.data
      /\ u.time = t.time
  BY <1>1 DEF TmpFiles
<1> HIDE DEF u
<1>3. TmpShape'
  <2>1. t.owner # Nobody => /\ pc[t.owner] \in {"write", "rename", "discard"}
                            /\ pc[t.owner] = "rename" => t.data = "whole" /\ t.time > 0
                            /\ faults' > 0
    BY <1>1 DEF TmpShape
  <2> QED BY <1>1, <1>2, <2>1, TmpReplace
<1>4. DiskTypeOK'
  <2>1. tmps' \subseteq TmpFiles /\ \A v \in tmps' : v.dir \in dirs'
    BY <1>1, <1>2 DEF DiskTypeOK
  <2> QED BY <1>1, <2>1 DEF DiskTypeOK
<1>5. MoreTypes'
  BY <1>1, MoreTypesMove
<1>6. LockShape'
  BY <1>1 DEF LockShape
<1> QED BY <1>1, <1>3, <1>4, <1>5, <1>6, MarkerSame, SweepFrame

\* The process is killed: what it knew is gone, and its temporary files are
\* nobody's.
LEMMA KillInv ==
  ASSUME DiskInv, Kill
  PROVE  DiskInv'
<1> USE DEF DiskInv
<1> DEFINE o(t) == [t EXCEPT !.owner = Nobody]
<1>1. /\ UNCHANGED <<dirs, file, mtime, marker, lost, clock, uses, used>>
      /\ faults' = faults + 1 /\ faults \in Nat
      /\ pc' = [p \in Procs |-> IF p = Main THEN "boot" ELSE "idle"]
      /\ job' = [p \in Procs |-> Start]
      /\ make' = [p \in Procs |-> {}]
      /\ making' = {} /\ since' = Unread
      /\ ev' = "idle" /\ seen' = {} /\ rec' = [c \in Chunks |-> 0] /\ cand' = {}
      /\ total' = 0 /\ tidy' = <<>> /\ hist' = NoHist
      /\ tmps' = {o(t) : t \in tmps}
  BY DEF Kill, Booted, Fault, MoreTypes
<1>2. \A t \in tmps : o(t) \in TmpFiles /\ o(t).owner = Nobody /\ o(t).dir = t.dir
  BY DEF DiskTypeOK, TmpFiles
<1> HIDE DEF o
<1>3. DiskTypeOK'
  <2>1. tmps' \subseteq TmpFiles /\ \A v \in tmps' : v.dir \in dirs'
    BY <1>1, <1>2 DEF DiskTypeOK
  <2>2. job' \in [Procs -> Jobs]
    BY <1>1, ProcFacts
  <2> QED BY <1>1, <2>1, <2>2 DEF DiskTypeOK, Jobs
<1>4. MoreTypes'
  BY <1>1 DEF MoreTypes, NoHist
<1>5. \A p \in Procs : pc'[p] \in {"boot", "idle"}
  BY <1>1
<1>6. LockShape'
  BY <1>1, <1>5 DEF LockShape, AtWork
<1>7. TmpShape'
  <2>1. \A t \in tmps' : t.owner = Nobody
    BY <1>1, <1>2
  <2> QED BY <1>1, <1>5, <2>1 DEF TmpShape
<1>8. WholeOrAbsent' /\ MarkerFirst' /\ MarkerShape'
  BY <1>1 DEF WholeOrAbsent, MarkerFirst, MarkerShape, Unread, Unknown
<1>9. Recorded' = {}
  BY <1>1 DEF Recorded
<1>10. SweepShape'
  BY <1>1, <1>9 DEF SweepShape, Evicting, NoHist
<1>11. TidyShape'
  BY <1>1 DEF TidyShape
<1>12. CountShape'
  BY <1>1, <1>9, BytesNone DEF CountShape, NoHist
<1> QED BY <1>3, <1>4, <1>6, <1>7, <1>8, <1>10, <1>11, <1>12

\* A new node.
LEMMA DiskInitInv ==
  ASSUME DiskInit
  PROVE  DiskInv
<1>1. /\ dirs \in {{}, {"shard"}} /\ file = [c \in Chunks |-> "none"]
      /\ mtime = [c \in Chunks |-> 0] /\ marker = 0 /\ tmps = {}
      /\ pc = [p \in Procs |-> IF p = Main THEN "boot" ELSE "idle"]
      /\ job = [p \in Procs |-> Start]
      /\ make = [p \in Procs |-> {}]
      /\ making = {} /\ since = Unread /\ lost = FALSE
      /\ ev = "idle" /\ seen = {} /\ rec = [c \in Chunks |-> 0] /\ cand = {}
      /\ total = 0 /\ tidy = <<>> /\ hist = NoHist
      /\ clock = 0 /\ uses = 0 /\ faults = 0 /\ used = [c \in Chunks |-> 0]
  BY DEF DiskInit, Booted
<1>2. DiskTypeOK
  <2>1. job \in [Procs -> Jobs]
    BY <1>1, ProcFacts
  <2> QED BY <1>1, <2>1 DEF DiskTypeOK, Jobs, Dirs
<1>3. MoreTypes
  BY <1>1 DEF MoreTypes, NoHist
<1>4. \A p \in Procs : pc[p] \in {"boot", "idle"}
  BY <1>1
<1>5. LockShape
  BY <1>1, <1>4 DEF LockShape, AtWork
<1>6. TmpShape
  BY <1>1, <1>4 DEF TmpShape
<1>7. WholeOrAbsent /\ MarkerFirst /\ MarkerShape
  BY <1>1 DEF WholeOrAbsent, MarkerFirst, MarkerShape, Unread, Unknown, Torn
<1>8. Recorded = {}
  BY <1>1 DEF Recorded
<1>9. SweepShape
  BY <1>1, <1>8 DEF SweepShape, Evicting, NoHist
<1>10. TidyShape
  BY <1>1 DEF TidyShape
<1>11. CountShape
  BY <1>1, <1>8, BytesNone DEF CountShape, NoHist
<1> QED BY <1>2, <1>3, <1>5, <1>6, <1>7, <1>9, <1>10, <1>11 DEF DiskInv


\* Every step keeps the invariant.
LEMMA DiskNextInv ==
  ASSUME DiskInv, [DiskNext]_cacheVars
  PROVE  DiskInv'
<1>1. CASE Boot
  BY <1>1, BootInv
<1>2. ASSUME NEW p \in Threads, NEW c \in Chunks, PutStart(p, c) \/ GetStart(p, c)
      PROVE  DiskInv'
  BY <1>2, UseStartInv
<1>3. ASSUME NEW p \in Procs, ThreadStep(p)
      PROVE  DiskInv'
  BY <1>3, AskMarkerInv, ReadMarkerInv, StatInv, MkdirInv, CreateTempInv, WriteInv,
     RenameInv, DiscardInv, TouchInv DEF ThreadStep
<1>4. CASE EvictorStep
  BY <1>4, SweepStartInv, WalkEndInv, SweepEndInv, SleepInv, ListInv, RmdirInv,
     WalkInv, EvictInv, ReapInv DEF EvictorStep
<1>5. ASSUME NEW t \in tmps, Age(t)
      PROVE  DiskInv'
  BY <1>5, AgeInv
<1>6. CASE Kill
  BY <1>6, KillInv
<1>7. CASE UNCHANGED cacheVars
  <2>1. /\ UNCHANGED <<dirs, file, mtime, marker, tmps, ev, total, evictorVars,
                       clock, uses, faults, used, hist>>
        /\ UNCHANGED threadVars /\ UNCHANGED <<pc, job, make, making, since, lost>>
    BY <1>7 DEF cacheVars, diskVars, threadVars, evictorVars, counters
  <2>2. DiskTypeOK'
    BY <2>1 DEF DiskInv, DiskTypeOK
  <2>3. MoreTypes'
    BY <2>1, MoreTypesMove DEF DiskInv
  <2>4. LockShape' /\ TmpShape'
    BY <2>1, ThreadsFrame DEF DiskInv
  <2> QED BY <2>1, <2>2, <2>3, <2>4, MarkerSame, SweepFrame DEF DiskInv
<1> QED BY <1>1, <1>2, <1>3, <1>4, <1>5, <1>6, <1>7 DEF DiskNext

\* The invariant holds throughout.
THEOREM DiskInvariant == DiskSpec => []DiskInv
<1>1. DiskInit => DiskInv
  BY DiskInitInv
<1>2. DiskInv /\ [DiskNext]_cacheVars => DiskInv'
  BY DiskNextInv
<1> QED BY <1>1, <1>2, PTL DEF DiskSpec

-----------------------------------------------------------------------------
(* What follows                                                            *)

\* Every variable has its type, and nothing is in a directory that does not
\* exist, however MkdirAll, CreateTemp, Rename and removeIfEmpty interleave.
THEOREM DiskTypeCorrect == DiskSpec => []DiskTypeOK
<1>1. DiskInv => DiskTypeOK
  BY DEF DiskInv
<1> QED BY <1>1, DiskInvariant, PTL

\* Write to a temporary file, then rename: a chunk's file or the marker is
\* never found torn, whatever fails and whenever the process is killed.
THEOREM DiskWholeOrAbsent == DiskSpec => []WholeOrAbsent
<1>1. DiskInv => WholeOrAbsent
  BY DEF DiskInv
<1> QED BY <1>1, DiskInvariant, PTL

\* Put and readOrCreateMarker try to remove their temporary file on every error
\* path: one with a living owner is one its owner is still busy with, and one
\* without was left by a fault, a kill or a removal that failed.
THEOREM DiskNoTmpLeft == DiskSpec => []NoTmpLeft
<1>1. DiskInv => NoTmpLeft
  BY DEF DiskInv, TmpShape, NoTmpLeft
<1> QED BY <1>1, DiskInvariant, PTL

\* markerTime: unless reading or making it has failed the marker is on disk
\* before the first chunk, whatever else fails and however often the process is
\* killed, and what the process remembers of it is what is on disk.
THEOREM DiskMarkerFirst == DiskSpec => []MarkerFirst
<1>1. DiskInv => MarkerFirst
  BY DEF DiskInv
<1> QED BY <1>1, DiskInvariant, PTL

\* What is left of the files there were when the sweep began is recorded and
\* not removed.
LEMMA KeptRecorded ==
  ASSUME DiskInv, ev = "done"
  PROVE  Kept \subseteq Recorded \ hist.gone
BY DEF DiskInv, SweepShape, Kept, Recorded

\* sweepShard leaves a shard within its cap, or within nine tenths of it once
\* it has removed anything, apart from what could not be removed and what was
\* stored meanwhile.
THEOREM DiskSweepBound == DiskSpec => []SweepBound
<1>1. ASSUME DiskInv PROVE SweepBound
  <2> SUFFICES ASSUME ev = "done"
               PROVE  \/ Usage(Kept) <= IF hist.gone = {} THEN MaxBytes ELSE Target
                      \/ Kept \subseteq hist.failed
    BY DEF SweepBound, Target
  <2> DEFINE S == Recorded \ hist.gone
             T == {c \in Kept : file[c] # "none"}
  <2>1. Kept \subseteq S
    BY <1>1, KeptRecorded
  <2>2. S \in SUBSET Chunks /\ T \in SUBSET S
    BY <2>1 DEF Recorded
  <2>3. total = Cardinality(BytesOf(S))
    BY <1>1 DEF DiskInv, CountShape
  <2>4. Usage(Kept) = Cardinality(BytesOf(T))
    BY DEF Usage
  <2> HIDE DEF S, T
  <2>5. Cardinality(BytesOf(T)) <= Cardinality(BytesOf(S))
    BY <2>2, BytesSubset
  <2>6. T \in SUBSET Chunks
    BY <2>2
  <2>7. Cardinality(BytesOf(T)) \in Nat /\ Cardinality(BytesOf(S)) \in Nat
    BY <2>2, <2>6, BytesFinite
  <2>8. CASE Recorded \subseteq hist.gone \cup hist.failed
    BY <2>1, <2>8 DEF S
  <2>9. CASE total <= IF hist.gone = {} THEN MaxBytes ELSE Target
    <3>1. Target \in Int /\ MaxBytes \in Int
      BY DiskAssumption DEF Target
    <3> QED BY <2>3, <2>4, <2>5, <2>7, <2>9, <3>1
  <2> QED BY <1>1, <2>8, <2>9 DEF DiskInv, CountShape
<1> QED BY <1>1, DiskInvariant, PTL

\* sweepShard removes the least recently used: of two files no one used during
\* the sweep it never removes the later used and keeps the other.
THEOREM DiskLeastRecentFirst == DiskSpec => []LeastRecentFirst
<1>1. ASSUME DiskInv PROVE LeastRecentFirst
  <2> SUFFICES ASSUME ev = "done", NEW f \in hist.gone \ hist.touched,
                      NEW g \in Kept \ (hist.touched \cup hist.failed)
               PROVE  used[f] <= used[g]
    BY DEF LeastRecentFirst
  <2>1. f \in Recorded /\ rec[f] = used[f]
    BY <1>1 DEF DiskInv, SweepShape, Recorded
  <2>2. g \in Recorded \ (hist.gone \cup hist.failed)
    BY <1>1, KeptRecorded
  <2>3. rec[g] = used[g]
    BY <1>1, <2>2 DEF DiskInv, SweepShape, Recorded
  <2>4. rec[f] <= rec[g]
    BY <1>1, <2>2 DEF DiskInv, SweepShape
  <2> QED BY <2>1, <2>3, <2>4
<1> QED BY <1>1, DiskInvariant, PTL


\* A file that goes is one the walk has recorded.
FilesTaken == \A c \in Chunks : file[c] # "none" /\ file'[c] = "none" => rec[c] > 0

\* A temporary file that goes is old, stays under a new age or owner, or is
\* done with by its owner.
TmpsTaken ==
  \A t \in tmps \ tmps' :
    \/ t.old
    \/ \E n \in tmps' : [n EXCEPT !.old = t.old, !.owner = t.owner] = t
    \/ t.owner # Nobody /\ pc'[t.owner] # pc[t.owner]

\* A thread's step that takes at most its own temporary file, and moves.
LEMMA OwnTaken ==
  ASSUME DiskInv, NEW p \in Procs, tmps \ Own(p) \subseteq tmps', pc'[p] # pc[p]
  PROVE  TmpsTaken
<1>1. \A t \in tmps \ tmps' : t.owner = p /\ p # Nobody
  BY ProcFacts DEF Own
<1> QED BY <1>1 DEF TmpsTaken

\* No step takes what it should not.
LEMMA StepTakes ==
  ASSUME DiskInv, DiskNext
  PROVE  FilesTaken /\ TmpsTaken
<1> USE DEF DiskInv
<1>1. CASE Boot
  BY <1>1 DEF Boot, diskVars, FilesTaken, TmpsTaken
<1>2. ASSUME NEW p \in Threads, NEW c \in Chunks, PutStart(p, c) \/ GetStart(p, c)
      PROVE  FilesTaken /\ TmpsTaken
  BY <1>2 DEF PutStart, GetStart, FilesTaken, TmpsTaken
<1>3. ASSUME NEW p \in Procs, ThreadStep(p)
      PROVE  FilesTaken /\ TmpsTaken
  <2>1. CASE AskMarker(p)
    BY <2>1 DEF AskMarker, diskVars, FilesTaken, TmpsTaken
  <2>2. CASE ReadMarker(p)
    BY <2>2 DEF ReadMarker, FilesTaken, TmpsTaken
  <2>3. CASE Stat(p)
    BY <2>3 DEF Stat, diskVars, FilesTaken, TmpsTaken
  <2>4. CASE Mkdir(p)
    BY <2>4 DEF Mkdir, FilesTaken, TmpsTaken
  <2>5. CASE CreateTemp(p)
    <3>1. file' = file /\ tmps \subseteq tmps'
      BY <2>5 DEF CreateTemp
    <3> QED BY <3>1 DEF FilesTaken, TmpsTaken
  <2>6. CASE Write(p)
    <3>1. file' = file /\ tmps \ Own(p) \subseteq tmps' /\ pc[p] = "write"
          /\ \E place \in {"rename", "discard"} : Goto(p, place)
      BY <2>6 DEF Write
    <3>2. pc'[p] \in {"rename", "discard"}
      BY <3>1, GotoMoves DEF Places
    <3> QED BY <3>1, <3>2, OwnTaken DEF FilesTaken
  <2>7. CASE Rename(p)
    <3>1. pc[p] = "rename"
      BY <2>7 DEF Rename
    <3>2. ASSUME NEW t \in Own(p), tmps' = tmps \ {t}, p \in making, Learn(p, t.time), file' = file
          PROVE  FilesTaken /\ TmpsTaken
      <4>1. pc'[p] \in {"stat", "idle"}
        BY <3>2, LearnMoves
      <4> QED BY <3>1, <3>2, <4>1, OwnTaken DEF FilesTaken
    <3>3. ASSUME NEW t \in Own(p), tmps' = tmps \ {t}, StoreChunk(p, t)
          PROVE  FilesTaken /\ TmpsTaken
      <4>1. t.data # "none"
        BY DEF Own, DiskTypeOK, TmpFiles
      <4>2. Goto(p, "idle") /\ file' = [file EXCEPT ![job[p].chunk] = t.data]
        BY <3>3 DEF StoreChunk
      <4>3. pc'[p] = "idle"
        BY <4>2, GotoMoves DEF Places
      <4>4. FilesTaken
        BY <4>1, <4>2 DEF FilesTaken, DiskTypeOK
      <4> QED BY <3>1, <3>3, <4>3, <4>4, OwnTaken
    <3>4. CASE UNCHANGED <<file, tmps>>
      BY <3>4 DEF FilesTaken, TmpsTaken
    <3> QED BY <2>7, <3>2, <3>3, <3>4 DEF Rename
  <2>8. CASE Discard(p)
    <3>1. pc[p] = "discard" /\ pc[p] \in AtWork /\ file' = file /\ dirs' = dirs
          /\ tmps \ Own(p) \subseteq tmps' /\ GiveUp(p)
      BY <2>8 DEF Discard, AtWork
    <3>2. pc'[p] \in {"stat", "idle"}
      BY <3>1, GiveUpMoves
    <3> QED BY <3>1, <3>2, OwnTaken DEF FilesTaken
  <2>9. CASE Touch(p)
    BY <2>9 DEF Touch, FilesTaken, TmpsTaken
  <2> QED BY <1>3, <2>1, <2>2, <2>3, <2>4, <2>5, <2>6, <2>7, <2>8, <2>9 DEF ThreadStep
<1>4. CASE SweepStart \/ WalkEnd \/ SweepEnd \/ Sleep \/ List
  BY <1>4 DEF SweepStart, WalkEnd, SweepEnd, Sleep, List, diskVars, FilesTaken, TmpsTaken
<1>5. CASE Rmdir
  BY <1>5 DEF Rmdir, FilesTaken, TmpsTaken
<1>6. ASSUME NEW c \in Chunks, Walk(c)
      PROVE  FilesTaken /\ TmpsTaken
  BY <1>6 DEF Walk, diskVars, FilesTaken, TmpsTaken
<1>7. ASSUME NEW c \in Chunks, Evict(c)
      PROVE  FilesTaken /\ TmpsTaken
  <2>1. tmps' = tmps /\ c \in cand
        /\ (file' = file \/ file' = [file EXCEPT ![c] = "none"])
    BY <1>7 DEF Evict
  <2>2. rec[c] > 0
    BY <2>1 DEF SweepShape, Recorded
  <2>3. FilesTaken
    BY <2>1, <2>2 DEF FilesTaken, DiskTypeOK
  <2> QED BY <2>1, <2>3 DEF TmpsTaken
<1>8. ASSUME NEW t \in tmps, Reap(t)
      PROVE  FilesTaken /\ TmpsTaken
  <2>1. file' = file /\ t.old /\ tmps \ {t} \subseteq tmps'
    BY <1>8 DEF Reap, Stale
  <2> QED BY <2>1 DEF FilesTaken, TmpsTaken
<1>9. ASSUME NEW t \in tmps, Age(t)
      PROVE  FilesTaken /\ TmpsTaken
  <2> DEFINE n == [t EXCEPT !.old = TRUE]
  <2>1. file' = file /\ tmps' = (tmps \ {t}) \cup {n}
    BY <1>9 DEF Age
  <2>2. [n EXCEPT !.old = t.old, !.owner = t.owner] = t
    BY DEF DiskTypeOK, TmpFiles
  <2> HIDE DEF n
  <2> QED BY <2>1, <2>2 DEF FilesTaken, TmpsTaken
<1>10. CASE Kill
  <2> DEFINE n(t) == [t EXCEPT !.owner = Nobody]
  <2>1. file' = file /\ tmps' = {n(t) : t \in tmps}
    BY <1>10 DEF Kill
  <2>2. \A t \in tmps : [n(t) EXCEPT !.old = t.old, !.owner = t.owner] = t
    BY DEF DiskTypeOK, TmpFiles
  <2> HIDE DEF n
  <2> QED BY <2>1, <2>2 DEF FilesTaken, TmpsTaken
<1> QED BY <1>1, <1>2, <1>3, <1>4, <1>5, <1>6, <1>7, <1>8, <1>9, <1>10 DEF DiskNext, EvictorStep

\* Evict, Reap, removeIfEmpty, a Put's own clean-up and a kill take no chunk the
\* walk has not recorded, and of the temporary files none that is not old but
\* the owner's own.
THEOREM DiskTakesOnlyRecorded == DiskSpec => TakesOnlyRecorded
<1>1. ASSUME DiskInv, [DiskNext]_cacheVars PROVE [FilesTaken /\ TmpsTaken]_cacheVars
  BY <1>1, StepTakes
<1> QED BY <1>1, DiskInvariant, PTL DEF DiskSpec, TakesOnlyRecorded, FilesTaken, TmpsTaken

-----------------------------------------------------------------------------
(* The store                                                               *)

\* A thread between calls has forgotten the last one, a hit is a Get, and who
\* makes directories or writes a chunk's file does it for a Put; the start of
\* the process is neither.
JobOf(p) ==
  /\ p = Main => job[p].kind = "start"
  /\ pc[p] = "idle" => job[p].kind = "start"
  /\ pc[p] = "touch" => job[p].kind = "get"
  /\ pc[p] \in {"stat", "mkdir"} => job[p].kind = "put"
  /\ pc[p] \in AtWork /\ p \notin making => job[p].kind = "put"

JobShape == \A p \in Procs : JobOf(p)

\* p goes on with its call, or returns, and the store is as it was.
Steady(p) ==
  /\ Others(p) /\ file' = file
  /\ \A q \in Procs : q # p => (q \in making' <=> q \in making)
  /\ \/ pc'[p] = "idle" /\ job'[p] = Start
     \/ /\ job'[p] = job[p] /\ pc'[p] \notin {"idle", "touch"}
        /\ pc'[p] \in {"stat", "mkdir"} => job[p].kind = "put"
        /\ pc'[p] \in AtWork /\ p \notin making' => job[p].kind = "put"

\* Goto, once more: who forgets has Start for a job.
LEMMA GotoForgets ==
  ASSUME DiskTypeOK, NEW p \in Procs, NEW place \in Places, Goto(p, place)
  PROVE  /\ Others(p) /\ pc'[p] = place
         /\ job'[p] = IF place = "idle" THEN Start ELSE job[p]
<1>1. pc \in [Procs -> Places] /\ job \in [Procs -> Jobs]
  BY DEF DiskTypeOK, Places, Jobs
<1> QED BY <1>1, ProcFacts DEF Goto, Others

\* A thread's step cannot disturb what the others are doing.
LEMMA JobsKept ==
  ASSUME JobShape, NEW p \in Procs, Others(p), JobOf(p)',
         \A q \in Procs : q # p => (q \in making' <=> q \in making)
  PROVE  JobShape'
<1>1. ASSUME NEW q \in Procs, q # p PROVE JobOf(q)'
  <2>1. JobOf(q) /\ pc'[q] = pc[q] /\ job'[q] = job[q] /\ (q \in making' <=> q \in making)
    BY <1>1 DEF JobShape, JobOf, Others
  <2> QED BY <2>1 DEF JobOf
<1> QED BY <1>1 DEF JobShape

\* A step that is steady keeps JobShape, and the store sees a return or nothing.
LEMMA SteadyKeeps ==
  ASSUME JobShape, NEW p \in Procs, Steady(p)
  PROVE  JobShape' /\ [Store!StoreNext]_(Store!storeVars)
<1>0. Start.kind = "start"
  BY DEF Start
<1>1. JobShape'
  <2>1. JobOf(p)
    BY DEF JobShape
  <2>2. JobOf(p)'
    BY <1>0, <2>1 DEF JobOf, Steady, AtWork
  <2> QED BY <2>2, JobsKept DEF Steady
<1>2. \A q \in Procs : q # p => Call(q)' = Call(q)
  BY DEF Steady, Others, Call
<1>3. Call(p)' \in {Call(p), [kind |-> "idle"]}
  BY <1>0, ProcFacts DEF Steady, Call, AtWork
<1>4. CASE p \notin Threads \/ Call(p)' = Call(p)
  <2>1. \A q \in Threads : Call(q)' = Call(q)
    BY <1>2, <1>4, ProcFacts
  <2>2. [q \in Threads |-> Call(q)]' = [q \in Threads |-> Call(q)]
    BY <2>1
  <2> QED BY <1>1, <2>2 DEF Steady, Store!storeVars
<1>5. CASE p \in Threads /\ Call(p)' # Call(p)
  <2>1. Call(p) # [kind |-> "idle"] /\ Call(p)' = [kind |-> "idle"]
    BY <1>3, <1>5
  <2>2. [q \in Threads |-> Call(q)]' = [[q \in Threads |-> Call(q)] EXCEPT ![p] = [kind |-> "idle"]]
    BY <1>2, <1>5, <2>1, ProcFacts
  <2>3. Store!Returned(p)
    BY <1>5, <2>1, <2>2 DEF Steady, Store!Returned, Store!Idle
  <2> QED BY <1>1, <1>5, <2>3 DEF Store!StoreNext
<1> QED BY <1>4, <1>5

\* A thread that goes on once the marker is learned is steady, with or without
\* the lock,
LEMMA LearnSteady ==
  ASSUME DiskTypeOK, NEW p \in Procs, Proceed(p), file' = file, making' \in {making, making \ {p}}
  PROVE  Steady(p)
<1> DEFINE place == IF job[p].kind = "put" THEN "stat" ELSE "idle"
<1>1. Goto(p, place) /\ place \in Places
  BY DEF Proceed, Places
<1>2. /\ Others(p) /\ pc'[p] = place
      /\ job'[p] = IF place = "idle" THEN Start ELSE job[p]
  BY <1>1, GotoForgets
<1> QED BY <1>2 DEF Steady, AtWork

\* and so is one that gives up.
LEMMA GiveUpSteady ==
  ASSUME DiskTypeOK, NEW p \in Procs, GiveUp(p), file' = file
  PROVE  Steady(p)
<1>1. CASE p \in making
  BY <1>1, LearnSteady DEF GiveUp, Learn
<1>2. CASE p \notin making
  <2>1. Goto(p, "idle") /\ making' = making
    BY <1>2 DEF GiveUp
  <2> QED BY <2>1, GotoForgets DEF Steady, Places
<1> QED BY <1>1, <1>2

\* A thread goes to a place of its work, with or without the lock.
LEMMA WorkSteady ==
  ASSUME DiskTypeOK, JobShape, NEW p \in Procs, pc[p] \in AtWork, NEW place \in AtWork,
         Goto(p, place), making' = making, file' = file
  PROVE  Steady(p)
<1>1. place \in Places /\ place \notin {"idle", "touch", "stat", "mkdir"}
  BY DEF AtWork, Places
<1>2. Others(p) /\ pc'[p] = place /\ job'[p] = job[p]
  BY <1>1, GotoForgets
<1> QED BY <1>1, <1>2 DEF Steady, JobShape, JobOf

\* Every step of a thread is steady but the rename of a Put.
LEMMA ThreadSteady ==
  ASSUME DiskInv, JobShape, NEW p \in Procs, ThreadStep(p)
  PROVE  Steady(p) \/ (Rename(p) /\ p \notin making /\ \E t \in Own(p) : StoreChunk(p, t))
<1> USE DEF DiskInv
<1>1. CASE AskMarker(p)
  <2>1. file' = file /\ pc[p] = "marker"
    BY <1>1 DEF AskMarker, diskVars
  <2>2. CASE Proceed(p) /\ UNCHANGED making
    BY <2>1, <2>2, LearnSteady
  <2>3. CASE making = {} /\ making' = {p} /\ Goto(p, "read")
    BY <2>1, <2>3, GotoForgets DEF Steady, Places, AtWork
  <2> QED BY <1>1, <2>2, <2>3 DEF AskMarker
<1>2. CASE ReadMarker(p)
  <2>1. file' = file /\ pc[p] = "read" /\ p \in making
    BY <1>2 DEF ReadMarker, LockShape
  <2>2. ASSUME NEW t, Learn(p, t) PROVE Steady(p)
    BY <2>1, <2>2, LearnSteady DEF Learn
  <2>3. CASE Goto(p, "temp") /\ UNCHANGED making
    BY <2>1, <2>3, GotoForgets DEF Steady, Places
  <2> QED BY <1>2, <2>2, <2>3 DEF ReadMarker
<1>3. CASE Stat(p)
  <2>1. file' = file /\ pc[p] = "stat" /\ Goto(p, "mkdir") /\ making' = making
    BY <1>3 DEF Stat, diskVars
  <2> QED BY <2>1, GotoForgets DEF Steady, Places, AtWork, JobShape, JobOf
<1>4. CASE Mkdir(p)
  <2>1. file' = file /\ pc[p] = "mkdir" /\ making' = making /\ job[p].kind = "put"
    BY <1>4 DEF Mkdir, JobShape, JobOf
  <2>2. CASE Goto(p, "temp")
    BY <2>1, <2>2, GotoForgets DEF Steady, Places
  <2>3. CASE Goto(p, "idle")
    BY <2>1, <2>3, GotoForgets DEF Steady, Places
  <2>4. CASE UNCHANGED <<pc, job>>
    BY <2>1, <2>4 DEF Steady, Others
  <2> QED BY <1>4, <2>2, <2>3, <2>4 DEF Mkdir
<1>5. CASE CreateTemp(p)
  <2>1. file' = file /\ pc[p] \in AtWork
    BY <1>5 DEF CreateTemp, AtWork
  <2>2. CASE GiveUp(p)
    BY <2>1, <2>2, GiveUpSteady
  <2>3. CASE Goto(p, "write") /\ UNCHANGED making
    BY <2>1, <2>3, WorkSteady DEF AtWork
  <2> QED BY <1>5, <2>2, <2>3 DEF CreateTemp
<1>6. CASE Write(p)
  <2>1. /\ file' = file /\ pc[p] \in AtWork /\ making' = making
        /\ Goto(p, "rename") \/ Goto(p, "discard")
    BY <1>6 DEF Write, AtWork
  <2> QED BY <2>1, WorkSteady DEF AtWork
<1>7. CASE Rename(p)
  <2>1. pc[p] \in AtWork
    BY <1>7 DEF Rename, AtWork
  <2>2. ASSUME NEW t \in Own(p), p \in making, Learn(p, t.time), file' = file
        PROVE  Steady(p)
    BY <2>2, LearnSteady DEF Learn
  <2>3. CASE Goto(p, "discard") /\ UNCHANGED <<file, making>>
    BY <2>1, <2>3, WorkSteady DEF AtWork
  <2> QED BY <1>7, <2>2, <2>3 DEF Rename
<1>8. CASE Discard(p)
  BY <1>8, GiveUpSteady DEF Discard
<1>9. CASE Touch(p)
  <2>1. file' = file /\ making' = making /\ Goto(p, "idle")
    BY <1>9 DEF Touch
  <2> QED BY <2>1, GotoForgets DEF Steady, Places
<1> QED BY <1>1, <1>2, <1>3, <1>4, <1>5, <1>6, <1>7, <1>8, <1>9 DEF ThreadStep

\* The rename of a Put is the moment it stores its chunk: all of it, and the
\* thread works for the Put it was called for.
LEMMA RenameStores ==
  ASSUME DiskInv, JobShape, NEW p \in Procs, Rename(p), p \notin making,
         NEW t \in Own(p), StoreChunk(p, t)
  PROVE  JobShape' /\ Store!StoreNext
<1> USE DEF DiskInv
<1>1. pc[p] = "rename" /\ job[p].kind = "put" /\ job[p].chunk \in Chunks
  BY DEF Rename, JobShape, JobOf, AtWork, DiskTypeOK
<1>2. p \in Threads
  BY <1>1 DEF JobShape, JobOf, Procs
<1>3. t.data = "whole"
  BY <1>1, ProcFacts DEF Own, TmpShape
<1>4. file' = [file EXCEPT ![job[p].chunk] = "whole"] /\ Goto(p, "idle") /\ making' = making
  BY <1>3 DEF StoreChunk
<1>5. Others(p) /\ pc'[p] = "idle" /\ job'[p] = Start /\ Start.kind = "start"
  BY <1>4, GotoForgets DEF Places, Start
<1>6. JobShape'
  <2>1. JobOf(p)'
    BY <1>5 DEF JobOf, AtWork
  <2> QED BY <1>4, <1>5, <2>1, JobsKept
<1>7. /\ Call(p) = [kind |-> "put", chunk |-> job[p].chunk]
      /\ Call(p)' = [kind |-> "idle"]
      /\ \A q \in Procs : q # p => Call(q)' = Call(q)
  BY <1>1, <1>5 DEF Call, Others
<1>8. [q \in Threads |-> Call(q)]' = [[q \in Threads |-> Call(q)] EXCEPT ![p] = [kind |-> "idle"]]
  BY <1>2, <1>7, ProcFacts
<1>9. Store!Stored(p)
  <2>1. [q \in Threads |-> Call(q)][p] = Call(p)
    BY <1>2
  <2>2. Call(p).kind = "put" /\ Call(p).chunk = job[p].chunk
    BY <1>7
  <2> QED BY <1>4, <1>8, <2>1, <2>2 DEF Store!Stored, Store!Idle
<1> QED BY <1>2, <1>6, <1>9 DEF Store!StoreNext

\* A call begins: a Put, a hit, or a miss that the store need not know of.
LEMMA UseStores ==
  ASSUME DiskInv, JobShape, NEW p \in Threads, NEW c \in Chunks, PutStart(p, c) \/ GetStart(p, c)
  PROVE  JobShape' /\ [Store!StoreNext]_(Store!storeVars)
<1> USE DEF DiskInv
<1>0. /\ pc \in [Procs -> Places] /\ job \in [Procs -> Jobs] /\ p \in Procs /\ p # Main
      /\ pc[p] = "idle" /\ file' = file /\ making' = making
  BY ProcFacts, DiskAssumption DEF DiskTypeOK, Places, Jobs, PutStart, GetStart
<1>1. Call(p) = [kind |-> "idle"]
  BY <1>0 DEF JobShape, JobOf, Call
<1>2. Others(p) /\ \A q \in Procs : q # p => Call(q)' = Call(q)
  BY <1>0 DEF PutStart, GetStart, Others, Call
<1>3. p \notin making
  BY <1>0 DEF LockShape, AtWork
<1>4. CASE PutStart(p, c)
  <2>1. job'[p] = [kind |-> "put", chunk |-> c] /\ pc'[p] \in {"stat", "marker"}
    BY <1>0, <1>4 DEF PutStart, versionedSince
  <2>2. JobShape'
    <3>1. JobOf(p)'
      BY <1>0, <1>1, <2>1 DEF JobOf, AtWork, JobShape, JobOf
    <3> QED BY <1>0, <1>2, <3>1, JobsKept
  <2>3. Call(p)' = [kind |-> "put", chunk |-> c]
    BY <2>1 DEF Call
  <2>4. [q \in Threads |-> Call(q)]'
          = [[q \in Threads |-> Call(q)] EXCEPT ![p] = [kind |-> "put", chunk |-> c]]
    BY <1>2, <2>3, ProcFacts
  <2>5. Store!PutCalled(p, c)
    BY <1>0, <1>1, <2>4 DEF Store!PutCalled, Store!Idle
  <2> QED BY <2>2, <2>5 DEF Store!StoreNext
<1>5. CASE GetStart(p, c) /\ file[c] # "none"
  <2>1. job'[p] = [kind |-> "get", chunk |-> c] /\ pc'[p] = "touch"
    BY <1>0, <1>5 DEF GetStart
  <2>2. JobShape'
    <3>1. JobOf(p)'
      BY <1>0, <1>1, <2>1 DEF JobOf, AtWork, JobShape, JobOf
    <3> QED BY <1>0, <1>2, <3>1, JobsKept
  <2>3. Call(p)' = [kind |-> "get", chunk |-> c]
    BY <2>1 DEF Call
  <2>4. [q \in Threads |-> Call(q)]'
          = [[q \in Threads |-> Call(q)] EXCEPT ![p] = [kind |-> "get", chunk |-> c]]
    BY <1>2, <2>3, ProcFacts
  <2>5. file[c] = "whole"
    BY <1>5 DEF WholeOrAbsent, DiskTypeOK
  <2>6. Store!Found(p, c)
    BY <1>0, <1>1, <2>4, <2>5 DEF Store!Found, Store!Idle
  <2> QED BY <2>2, <2>6 DEF Store!StoreNext
<1>6. CASE GetStart(p, c) /\ file[c] = "none"
  <2>1. \/ pc'[p] = "marker" /\ job'[p] = [kind |-> "get", chunk |-> c]
        \/ pc'[p] = "idle" /\ job'[p] = job[p]
    BY <1>0, <1>6 DEF GetStart, versionedSince
  <2>2. JobShape'
    <3>1. JobOf(p)'
      BY <1>0, <1>1, <2>1 DEF JobOf, AtWork, JobShape, JobOf
    <3> QED BY <1>0, <1>2, <3>1, JobsKept
  <2>3. Call(p)' = Call(p)
    BY <1>0, <1>1, <2>1 DEF Call, JobShape, JobOf
  <2>4. [q \in Threads |-> Call(q)]' = [q \in Threads |-> Call(q)]
    BY <1>2, <2>3, ProcFacts
  <2> QED BY <1>0, <2>2, <2>4 DEF Store!storeVars
<1> QED BY <1>4, <1>5, <1>6

\* Nothing else calls or returns: the sweep takes out at most one chunk at a
\* time, and a kill ends all calls.
LEMMA RestStores ==
  ASSUME DiskInv, JobShape,
         EvictorStep \/ (\E t \in tmps : Age(t)) \/ Kill \/ UNCHANGED cacheVars
  PROVE  JobShape' /\ [Store!StoreNext]_(Store!storeVars)
<1> USE DEF DiskInv
<1>1. CASE Kill
  <2>1. file' = file /\ making' = {} /\ \A p \in Procs : job'[p] = Start /\ pc'[p] \in {"boot", "idle"}
    BY <1>1 DEF Kill, Booted
  <2>2. Start.kind = "start"
    BY DEF Start
  <2>3. JobShape'
    BY <2>1, <2>2, ProcFacts DEF JobShape, JobOf, AtWork
  <2>4. \A p \in Procs : Call(p)' = [kind |-> "idle"]
    BY <2>1, <2>2 DEF Call
  <2>5. [q \in Threads |-> Call(q)]' = [q \in Threads |-> [kind |-> "idle"]]
    BY <2>4, ProcFacts
  <2>6. Store!Killed
    BY <2>1, <2>5 DEF Store!Killed, Store!Idle
  <2> QED BY <2>3, <2>6 DEF Store!StoreNext
<1>2. CASE EvictorStep \/ (\E t \in tmps : Age(t)) \/ UNCHANGED cacheVars
  <2>1. UNCHANGED <<pc, job, making>>
    BY <1>2
    DEF EvictorStep, SweepStart, WalkEnd, SweepEnd, Sleep, List, Rmdir, Walk, Evict, Reap, Age,
        threadVars, cacheVars
  <2>2. JobShape' /\ \A q \in Threads : Call(q)' = Call(q)
    BY <2>1 DEF JobShape, JobOf, Call
  <2>3. [q \in Threads |-> Call(q)]' = [q \in Threads |-> Call(q)]
    BY <2>2
  <2>4. \/ file' = file
        \/ \E c \in Chunks : file[c] # "none" /\ file' = [file EXCEPT ![c] = "none"]
    BY <1>2
    DEF EvictorStep, SweepStart, WalkEnd, SweepEnd, Sleep, List, Rmdir, Walk, Evict, Reap, Age,
        diskVars, cacheVars
  <2>5. file' = file \/ \E c \in Chunks : Store!Removed(c)
    BY <2>3, <2>4 DEF Store!Removed
  <2> QED BY <2>2, <2>3, <2>5 DEF Store!StoreNext, Store!storeVars
<1> QED BY <1>1, <1>2

\* Every step of the files is a step of the store.
LEMMA StoreStep ==
  ASSUME DiskInv, JobShape, [DiskNext]_cacheVars
  PROVE  JobShape' /\ [Store!StoreNext]_(Store!storeVars)
<1>1. CASE Boot
  <2>1. Main \in Procs /\ DiskTypeOK /\ file' = file /\ making' = making
    BY <1>1, ProcFacts DEF DiskInv, Boot, diskVars
  <2>2. Goto(Main, "marker") \/ Goto(Main, "idle")
    BY <1>1 DEF Boot
  <2>3. Steady(Main)
    BY <2>1, <2>2, GotoForgets DEF Steady, Places, AtWork
  <2> QED BY <2>1, <2>3, SteadyKeeps
<1>2. ASSUME NEW p \in Threads, NEW c \in Chunks, PutStart(p, c) \/ GetStart(p, c)
      PROVE  JobShape' /\ [Store!StoreNext]_(Store!storeVars)
  BY <1>2, UseStores
<1>3. ASSUME NEW p \in Procs, ThreadStep(p)
      PROVE  JobShape' /\ [Store!StoreNext]_(Store!storeVars)
  BY <1>3, ThreadSteady, SteadyKeeps, RenameStores
<1>4. CASE EvictorStep \/ (\E t \in tmps : Age(t)) \/ Kill \/ UNCHANGED cacheVars
  BY <1>4, RestStores
<1> QED BY <1>1, <1>2, <1>3, <1>4 DEF DiskNext

\* The disk cache is the store the fetch path counts on: whatever the threads,
\* the sweep, failing calls and kills do in between, a chunk appears in one
\* moment, whole, by a Put of that chunk, and goes in one moment by the
\* evictor, and a Get hits only what is there.
THEOREM DiskImplementsStore == DiskSpec => ImplementsStore
<1>1. DiskInit => JobShape /\ Store!StoreInit
  <2> SUFFICES ASSUME DiskInit PROVE JobShape /\ Store!StoreInit
    OBVIOUS
  <2>1. \A p \in Procs : job[p].kind = "start" /\ pc[p] \in {"boot", "idle"}
    BY DEF DiskInit, Booted, Start
  <2>2. JobShape
    BY <2>1, ProcFacts DEF JobShape, JobOf, AtWork
  <2>3. \A p \in Threads : Call(p) = [kind |-> "idle"]
    BY <2>1, ProcFacts DEF Call
  <2>4. Store!StoreInit
    BY <2>3 DEF DiskInit, Store!StoreInit, Store!Idle
  <2> QED BY <2>2, <2>4
<1>2. DiskInv /\ JobShape /\ [DiskNext]_cacheVars
        => JobShape' /\ [Store!StoreNext]_(Store!storeVars)
  BY StoreStep
<1> QED BY <1>1, <1>2, DiskInvariant, PTL DEF DiskSpec, ImplementsStore, Store!StoreSpec

=============================================================================
