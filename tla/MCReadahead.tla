----------------------------- MODULE MCReadahead ------------------------------
(* Readahead with three callers, for TLC.                                  *)
EXTENDS Readahead, TLC

CONSTANTS c1, c2, c3, k1, k2

\* Two callers of one chunk, and a third that competes for slot and budget.
MCChunkOf == c1 :> k1 @@ c2 :> k1 @@ c3 :> k2

Scenario(k, r) == [kicks |-> k, requests |-> r]

\* Two kicks of one chunk, two of two chunks, a kick and a request, two requests.
MCScenarios ==
  {Scenario({c1, c2}, {}), Scenario({c1, c3}, {}), Scenario({c1}, {c2}), Scenario({}, {c1, c2})}

=============================================================================
