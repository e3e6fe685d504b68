------------------------------ MODULE ChunkStore ------------------------------
(***************************************************************************)
(* What the disk cache promises to the fetch path, which takes it for      *)
(* granted (ChunkFetch: onDisk, Hit, StoreChunk, Evict): a chunk is in the *)
(* store, all of it, or it is not; a call of Get finds it or misses it at  *)
(* one moment, a call of Put stores it at one moment or fails and leaves   *)
(* the store alone; the evictor takes out one chunk at a time; and a kill  *)
(* ends the calls and takes nothing.                                       *)
(***************************************************************************)
CONSTANTS Clients, Chunks

VARIABLES
  content,    \* what the store has of each chunk
  call        \* what each client is doing

storeVars == <<content, call>>

Idle == [kind |-> "idle"]
Calls == {Idle} \cup [kind : {"get", "put"}, chunk : Chunks]

StoreInit ==
  /\ content = [c \in Chunks |-> "none"]
  /\ call = [p \in Clients |-> Idle]

\* Get has opened the chunk: its bytes are the client's, whatever happens to
\* the store.
Found(p, c) ==
  /\ call[p] = Idle /\ content[c] = "whole"
  /\ call' = [call EXCEPT ![p] = [kind |-> "get", chunk |-> c]]
  /\ UNCHANGED content

PutCalled(p, c) ==
  /\ call[p] = Idle
  /\ call' = [call EXCEPT ![p] = [kind |-> "put", chunk |-> c]]
  /\ UNCHANGED content

\* Put returns with the chunk in the store.
Stored(p) ==
  /\ call[p].kind = "put"
  /\ content' = [content EXCEPT ![call[p].chunk] = "whole"]
  /\ call' = [call EXCEPT ![p] = Idle]

\* Put returns an error, or Get returns.
Returned(p) ==
  /\ call[p] # Idle
  /\ call' = [call EXCEPT ![p] = Idle]
  /\ UNCHANGED content

Removed(c) ==
  /\ content[c] # "none"
  /\ content' = [content EXCEPT ![c] = "none"]
  /\ UNCHANGED call

Killed ==
  /\ call' = [p \in Clients |-> Idle]
  /\ UNCHANGED content

StoreNext ==
  \/ \E p \in Clients : Stored(p) \/ Returned(p) \/ \E c \in Chunks : Found(p, c) \/ PutCalled(p, c)
  \/ \E c \in Chunks : Removed(c)
  \/ Killed

StoreSpec == StoreInit /\ [][StoreNext]_storeVars

=============================================================================
