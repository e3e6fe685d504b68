------------------------------ MODULE BufferPool ------------------------------
(***************************************************************************)
(* What the chunk budget promises (the comment on chunkBudget in           *)
(* services/budget.go): at most Units fetches own a chunk buffer, a fetch  *)
(* that gives its buffer up passes it to the oldest waiting fetch, and     *)
(* nobody waits while a buffer is free.                                    *)
(*                                                                         *)
(* Here every buffer has a named owner.  The code only counts, so the      *)
(* refinement has to show that each return is made by an owner, once.      *)
(***************************************************************************)
EXTENDS Naturals, FiniteSets

CONSTANTS Fetches, Units

VARIABLES
  holders,    \* the fetches that own a buffer
  waiting,    \* the fetches that wait for one
  ahead       \* ahead[f]: the waiting fetches that came before f

poolVars == <<holders, waiting, ahead>>

PoolInit ==
  /\ holders = {}
  /\ waiting = {}
  /\ ahead = [f \in Fetches |-> {}]

\* f gets a free buffer; nobody was waiting for it.
PoolTake(f) ==
  /\ f \notin holders
  /\ waiting = {}
  /\ Cardinality(holders) < Units
  /\ holders' = holders \cup {f}
  /\ UNCHANGED <<waiting, ahead>>

\* All buffers are owned: f waits behind everyone who already does.
PoolWait(f) ==
  /\ f \notin holders \cup waiting
  /\ Cardinality(holders) = Units
  /\ waiting' = waiting \cup {f}
  /\ ahead' = [ahead EXCEPT ![f] = waiting]
  /\ UNCHANGED holders

PoolLeave(f) ==
  /\ waiting' = waiting \ {f}
  /\ ahead' = [g \in Fetches |-> IF g = f THEN {} ELSE ahead[g] \ {f}]

\* f stops waiting.
PoolQuit(f) ==
  /\ f \in waiting
  /\ PoolLeave(f)
  /\ UNCHANGED holders

\* The owner f gives its buffer up, and nobody wants it.
PoolReturn(f) ==
  /\ f \in holders
  /\ waiting = {}
  /\ holders' = holders \ {f}
  /\ UNCHANGED <<waiting, ahead>>

\* The owner f gives its buffer up, and g has waited longest.
PoolPass(f, g) ==
  /\ f \in holders
  /\ g \in waiting
  /\ ahead[g] = {}
  /\ holders' = (holders \ {f}) \cup {g}
  /\ PoolLeave(g)

PoolNext ==
  \E f \in Fetches :
    \/ PoolTake(f) \/ PoolWait(f) \/ PoolQuit(f) \/ PoolReturn(f)
    \/ \E g \in Fetches : PoolPass(f, g)

PoolSpec == PoolInit /\ [][PoolNext]_poolVars

-----------------------------------------------------------------------------
(* What follows for whoever uses the pool                                  *)

\* Buffers are never overcommitted, nobody waits while one is free, and nobody
\* waits for a buffer with another in hand: the owners can always give theirs
\* up without the waiting ones.
NeverOvercommitted ==
  /\ Cardinality(holders) <= Units
  /\ waiting # {} => Cardinality(holders) = Units
  /\ holders \cap waiting = {}

\* The waiting fetches stand in one line.
OneLine ==
  /\ \A f \in waiting : ahead[f] \subseteq waiting \ {f}
  /\ \A f, g \in waiting : f # g => (f \in ahead[g] <=> g \notin ahead[f])
  /\ \A f, g \in waiting : f \in ahead[g] => ahead[f] \subseteq ahead[g]

\* Whoever returns a buffer finds someone to pass it to, if anyone waits.
HasHead == waiting # {} => \E f \in waiting : ahead[f] = {}

\* While f waits, nobody who came later gets a buffer or gets ahead of it.
FirstCome ==
  [][\A f, g \in waiting :
       f \in ahead[g] /\ f \in waiting' =>
         /\ g \notin holders'
         /\ g \in waiting' => f \in ahead'[g]]_poolVars

=============================================================================
