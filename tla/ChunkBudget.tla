----------------------------- MODULE ChunkBudget -----------------------------
(***************************************************************************)
(* The process-wide budget of chunk buffers (services/budget.go): a        *)
(* counting semaphore, implemented as a buffered Go channel of capacity    *)
(* FETCH_CONCURRENCY.  The channel is anonymous: it counts units and does  *)
(* not know who holds them, so a unit returned twice, or never, shows only *)
(* as a wrong count.  A full channel queues its senders in arrival order,  *)
(* and a receive hands the freed slot straight to the oldest one.          *)
(*                                                                         *)
(* Every buffer is at most one chunk and is allocated after its unit is    *)
(* taken and given up before the unit is returned, so `units' also bounds  *)
(* the bytes counted by chunkBudget.inUse.                                 *)
(***************************************************************************)
EXTENDS Naturals, FiniteSets

CONSTANTS
  Fetches,    \* the fetches that may ask for a unit
  Units       \* capacity of the channel: FETCH_CONCURRENCY

\* validateFetcherConfig refuses to start with fewer than one unit.
ASSUME UnitsAssumption == Units \in Nat \ {0}

VARIABLES
  units,      \* values in the channel: units taken and not returned
  waiting,    \* fetches blocked in the channel's send queue
  ahead       \* ahead[f]: the waiting fetches that queued before f

budgetVars == <<units, waiting, ahead>>

BudgetTypeOK ==
  /\ units \in 0..Units
  /\ waiting \in SUBSET Fetches
  /\ ahead \in [Fetches -> SUBSET Fetches]

BudgetInit ==
  /\ units = 0
  /\ waiting = {}
  /\ ahead = [f \in Fetches |-> {}]

-----------------------------------------------------------------------------

\* The queue without f: f is out, and no longer ahead of anyone.
LeaveQueue(f) ==
  /\ waiting' = waiting \ {f}
  /\ ahead' = [g \in Fetches |-> IF g = f THEN {} ELSE ahead[g] \ {f}]

\* acquire, when the channel has room.
TakeUnit ==
  /\ units < Units
  /\ units' = units + 1
  /\ UNCHANGED <<waiting, ahead>>

\* acquire, when the channel is full: f joins the end of the send queue.
JoinQueue(f) ==
  /\ units = Units
  /\ waiting' = waiting \cup {f}
  /\ ahead' = [ahead EXCEPT ![f] = waiting]
  /\ UNCHANGED units

\* acquire gives up: the deadline of f's context passes while it waits.
QuitQueue(f) ==
  /\ f \in waiting
  /\ LeaveQueue(f)
  /\ UNCHANGED units

\* The oldest waiting fetch is the one with nobody ahead of it.
Oldest(f) == f \in waiting /\ ahead[f] = {}

\* release: receive from the channel.  With senders queued the slot goes to
\* the oldest of them and the count stays; otherwise the count drops.
ReturnUnit ==
  /\ units > 0
  /\ IF waiting = {}
       THEN units' = units - 1 /\ UNCHANGED <<waiting, ahead>>
       ELSE \E f \in waiting : Oldest(f) /\ LeaveQueue(f) /\ UNCHANGED units

=============================================================================
