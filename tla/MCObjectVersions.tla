--------------------------- MODULE MCObjectVersions ---------------------------
(* ObjectVersions with small sets of requests and chunks, for TLC.         *)
EXTENDS ObjectVersions, TLC

CONSTANTS r1, r2, i1, i2

\* Requests are interchangeable.
MCSymmetry == Permutations(Requests)

=============================================================================
