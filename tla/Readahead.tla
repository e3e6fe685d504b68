------------------------------ MODULE Readahead -------------------------------
(***************************************************************************)
(* Prefetching (services/readahead.go), on top of the fetch path: a kick   *)
(* is a call of schedule for one chunk, made by the request that has just  *)
(* been served.  It ends at once, or gets a slot and starts a goroutine    *)
(* that is a caller of fetchChunk like those of the requests, shares their *)
(* flights and is cancelled by its timeout.  Which chunks are kicked is    *)
(* RangeServe's matter.                                                    *)
(***************************************************************************)
EXTENDS ChunkFetch

CONSTANTS
  Scenarios, \* which callers are kicks, and which are requests
  Slots      \* READAHEAD_CONCURRENCY

ASSUME ReadaheadAssumption ==
  /\ Scenarios \subseteq [kicks : SUBSET Callers, requests : SUBSET Callers]
  /\ \A s \in Scenarios : s.kicks \cap s.requests = {}
  /\ Slots \in Nat \ {0}

VARIABLES
  kicks,     \* the callers that are kicks ...
  requests,  \* ... and those that are requests
  kpc,       \* where each kick is in schedule or its goroutine
  sem,       \* Readahead.sem: slots taken
  inflight   \* Readahead.inflight: chunks being scheduled or prefetched

aheadVars     == <<kicks, requests, kpc, sem, inflight>>
readaheadVars == <<fetchVars, aheadVars>>

ReadaheadTypeOK ==
  /\ FetchTypeOK
  /\ [kicks |-> kicks, requests |-> requests] \in Scenarios
  /\ kpc \in [Callers -> {"idle", "dedup", "slot", "drop", "run", "forget", "end"}]
  /\ sem \in 0..Slots
  /\ inflight \subseteq Chunks

ReadaheadInit ==
  /\ FetchInit
  /\ \E s \in Scenarios : kicks = s.kicks /\ requests = s.requests
  /\ kpc = [c \in Callers |-> "idle"]
  /\ sem = 0
  /\ inflight = {}

KickTo(k, place) == kpc' = [kpc EXCEPT ![k] = place]

-----------------------------------------------------------------------------
(* schedule                                                                *)

\* The cache is looked at first: a cached chunk is not fetched ahead.
Kick(k) ==
  /\ k \in kicks
  /\ kpc[k] = "idle"
  /\ \/ ChunkOf[k] \in onDisk /\ KickTo(k, "end")
     \/ (ChunkOf[k] \in onDisk => LookupFails) /\ KickTo(k, "dedup")
  /\ UNCHANGED <<fetchVars, kicks, requests, sem, inflight>>

\* Under Readahead.mu: a chunk in flight is not scheduled again.
Dedup(k) ==
  /\ kpc[k] = "dedup"
  /\ IF ChunkOf[k] \in inflight
       THEN KickTo(k, "end") /\ UNCHANGED inflight
       ELSE KickTo(k, "slot") /\ inflight' = inflight \cup {ChunkOf[k]}
  /\ UNCHANGED <<fetchVars, kicks, requests, sem>>

\* A plausible slip: a slot is taken without looking whether one is free.
TakeSlot_Unbounded(k) ==
  /\ kpc[k] = "slot"
  /\ sem' = sem + 1
  /\ KickTo(k, "run")
  /\ Start(k)
  /\ UNCHANGED <<kicks, requests, inflight>>

\* A slot is free: the goroutine starts, with fetchChunk.
TakeSlot(k) ==
  /\ kpc[k] = "slot"
  /\ sem < Slots
  /\ sem' = sem + 1
  /\ KickTo(k, "run")
  /\ Start(k)
  /\ UNCHANGED <<kicks, requests, inflight>>

\* None is: the kick is dropped.
Saturated(k) ==
  /\ kpc[k] = "slot"
  /\ sem = Slots
  /\ KickTo(k, "drop")
  /\ UNCHANGED <<fetchVars, kicks, requests, sem, inflight>>

-----------------------------------------------------------------------------
(* The goroutine                                                           *)

\* The timeout passes; the flight it started or joined goes on.
Timeout(k) ==
  /\ kpc[k] = "run"
  /\ k \notin cancelled
  /\ Cancel({k})
  /\ UNCHANGED aheadVars

\* A plausible slip: the deferred function gives the slot back only if the
\* readahead was not cut off.
ReturnSlot_Uncut(k) ==
  /\ kpc[k] = "run"
  /\ cpc[k] = "end"
  /\ sem' = IF k \in cancelled THEN sem ELSE sem - 1
  /\ KickTo(k, "forget")
  /\ Cancel({k})
  /\ UNCHANGED <<kicks, requests, inflight>>

\* fetchChunk is back and its result closed: the context goes, then the slot.
ReturnSlot(k) ==
  /\ kpc[k] = "run"
  /\ cpc[k] = "end"
  /\ sem' = sem - 1
  /\ KickTo(k, "forget")
  /\ Cancel({k})
  /\ UNCHANGED <<kicks, requests, inflight>>

\* Last, dropped or done, the chunk is taken out of the in-flight set.
Forget(k) ==
  /\ kpc[k] \in {"drop", "forget"}
  /\ inflight' = inflight \ {ChunkOf[k]}
  /\ KickTo(k, "end")
  /\ UNCHANGED <<fetchVars, kicks, requests, sem>>

KickStep(k) ==
  \/ Dedup(k) \/ TakeSlot(k) \/ Saturated(k) \/ ReturnSlot(k) \/ Forget(k)

-----------------------------------------------------------------------------

\* A request's call of fetchChunk starts; a request goes away.
Request(c) ==
  /\ c \in requests
  /\ Start(c) \/ (c \notin cancelled /\ Cancel({c}))
  /\ UNCHANGED aheadVars

\* Nothing is going on, though more kicks and requests might come.
ReadaheadQuiet ==
  /\ \A c \in Callers : cpc[c] \in {"idle", "end"} /\ gpc[c] \in {"none", "gone"}
  /\ \A f \in Callers : lpc[f] # "none" => f \in freed
  /\ \A k \in kicks : kpc[k] = "end"

ReadaheadNext ==
  \/ FetchStep /\ UNCHANGED aheadVars
  \/ \E c \in Callers : Request(c) \/ (Close(c) /\ UNCHANGED aheadVars)
  \/ \E k \in Callers : Kick(k) \/ KickStep(k) \/ Timeout(k)
  \/ ReadaheadQuiet /\ UNCHANGED readaheadVars

ReadaheadSpec == ReadaheadInit /\ [][ReadaheadNext]_readaheadVars

\* Goroutines that can run do run, downloads end, and consumers close what
\* they were given.  Nothing forces a start, a cancellation, a timeout, a kick
\* or an eviction.
FairReadaheadSpec ==
  /\ ReadaheadSpec
  /\ \A c \in Callers :
       /\ WF_readaheadVars(CallerStep(c) /\ UNCHANGED aheadVars)
       /\ WF_readaheadVars(ClaimerStep(c) /\ UNCHANGED aheadVars)
       /\ WF_readaheadVars(LeadStep(c) /\ UNCHANGED aheadVars)
       /\ WF_readaheadVars(Close(c) /\ UNCHANGED aheadVars)
       /\ WF_readaheadVars(KickStep(c))

-----------------------------------------------------------------------------
(* Properties                                                              *)

Scheduled(k) == kpc[k] \in {"slot", "drop", "run", "forget"}

\* The semaphore counts the goroutines that run, whether they ended, failed
\* or were cut by their timeout, and the in-flight set holds each chunk some
\* one kick is at work on: no chunk is fetched ahead twice at a time, and none
\* is left there, never to be fetched ahead again.
SlotsExact ==
  /\ sem = Cardinality({k \in kicks : kpc[k] = "run"})
  /\ inflight = {ChunkOf[k] : k \in {c \in kicks : Scheduled(c)}}
  /\ \A j, k \in kicks : Scheduled(j) /\ Scheduled(k) /\ ChunkOf[j] = ChunkOf[k] => j = k

\* Every call of fetchChunk returns, and every kick ends, and with it what it
\* takes of slots and in-flight set.
CallsEnd == CallersEnd /\ \A k \in Callers : kpc[k] # "idle" ~> kpc[k] = "end"

=============================================================================
