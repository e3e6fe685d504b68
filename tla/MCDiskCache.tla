----------------------------- MODULE MCDiskCache ------------------------------
(* DiskCache with two chunks, of two objects under one prefix, for TLC.    *)
EXTENDS DiskCache, TLC

CONSTANTS p1, p2, c1, c2, o1, o2, x1

MCDirOf    == c1 :> o1 @@ c2 :> o2
MCPrefixOf == o1 :> x1 @@ o2 :> x1
MCSizeOf   == c1 :> 10 @@ c2 :> 20

=============================================================================
