------------------------------ MODULE WriteGuard ------------------------------
(***************************************************************************)
(* The write guard of each request (services/write_guard.go).  It puts a   *)
(* write deadline on the connection while the request holds buffered       *)
(* chunks and is writing.  Producers call hold from goroutines of their    *)
(* own; the consumer calls begin and end around each chunk write; all      *)
(* three run under writeGuard.mu.                                          *)
(***************************************************************************)
EXTENDS Naturals

CONSTANTS Requests

VARIABLES
  held,       \* buffered chunks delivered to the request and not yet written
  writing,    \* requests whose consumer is inside a chunk write
  armed       \* requests with a write deadline on their connection

guardVars == <<held, writing, armed>>

GuardTypeOK ==
  /\ held \in [Requests -> Nat]
  /\ writing \in SUBSET Requests
  /\ armed \in SUBSET Requests

GuardInit ==
  /\ held = [r \in Requests |-> 0]
  /\ writing = {}
  /\ armed = {}

\* arm: the connection of r gets a deadline.  CHUNK_FETCH_TIMEOUT is positive
\* (validateFetcherConfig) and the server's connections take deadlines.
Arm(r) == armed' = armed \cup {r}

\* A plausible slip: a write already in progress gets no deadline.
GuardHold_Late(r) ==
  /\ held' = [held EXCEPT ![r] = @ + 1]
  /\ UNCHANGED <<writing, armed>>

\* hold: a buffered chunk is on its way; a write in progress gets a deadline.
GuardHold(r) ==
  /\ held' = [held EXCEPT ![r] = @ + 1]
  /\ IF r \in writing THEN Arm(r) ELSE UNCHANGED armed
  /\ UNCHANGED writing

\* begin: a write starts, under a deadline if the request holds buffers.
GuardBegin(r) ==
  /\ writing' = writing \cup {r}
  /\ IF held[r] > 0 THEN Arm(r) ELSE UNCHANGED armed
  /\ UNCHANGED held

\* A plausible slip: the deadline is cleared only when the last buffer goes.
GuardEnd_Lingers(r, buffered) ==
  /\ writing' = writing \ {r}
  /\ held' = [held EXCEPT ![r] = IF buffered THEN @ - 1 ELSE @]
  /\ armed' = IF held'[r] = 0 THEN armed \ {r} ELSE armed

\* end: the write is over, and so is its deadline.
GuardEnd(r, buffered) ==
  /\ writing' = writing \ {r}
  /\ held' = [held EXCEPT ![r] = IF buffered THEN @ - 1 ELSE @]
  /\ armed' = armed \ {r}

=============================================================================
