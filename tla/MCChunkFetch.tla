----------------------------- MODULE MCChunkFetch -----------------------------
(* ChunkFetch with small sets of callers, for TLC.                         *)
EXTENDS ChunkFetch, TLC

CONSTANTS c1, c2, c3, k1, k2

\* Two callers of one chunk, and a third that competes for the budget.
MCChunkOf == c1 :> k1 @@ c2 :> k1 @@ c3 :> k2

\* The two callers of k1 are interchangeable.
MCSymmetry == Permutations({c1, c2})

\* All callers want the same chunk.
MCSameChunk == [c \in Callers |-> k1]

=============================================================================
