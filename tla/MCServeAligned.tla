---------------------------- MODULE MCServeAligned ----------------------------
(* ServeAligned with small sets of requests, for TLC.                      *)
EXTENDS ServeAligned, TLC

\* Requests are numbers, and each caller is a pair of a request and an index.
MCCallers == UNION {{r} \X (0..NChunks[r]-1) : r \in Requests}

\* Numbers of chunks: one request of three, two of two, one of two and one.
MCThree == 1 :> 3
MCTwoTwo == 1 :> 2 @@ 2 :> 2
MCTwoOne == 1 :> 2 @@ 2 :> 1

\* Every request is for an object of its own.
MCOwnObject == [c \in MCCallers |-> c]

\* The first chunk of request 1 may be in the cache.
MCHeadCached == {<<1, 0>>}

\* Overlapping ranges of one object: chunks 0 and 1, and chunks 1 and 2.
MCOverlap == [c \in MCCallers |-> IF c[1] = 1 THEN c[2] ELSE c[2] + 1]

=============================================================================
