----------------------------- MODULE KvContract -----------------------------
(***************************************************************************)
(* What the kv_ builtins promise a script of one thread: a map whose puts, *)
(* dels and batches each happen as a whole or not at all, and a file that  *)
(* only ever holds a state the map had between two calls.                  *)
(***************************************************************************)
EXTENDS KvOps

VARIABLES
  map,    \* what the script sees
  disk,   \* what the file says
  open    \* the process holding the store runs

vars == <<map, disk, open>>

Init == map = Empty /\ disk = Empty /\ open = TRUE

Update ==
  /\ open
  /\ \/ \E k \in Keys : \E v \in Values \union {None} : map' = [map EXCEPT ![k] = v]
     \/ \E ops \in Batches : /\ \A i \in 1..Len(ops) : ops[i] # Rejected
                             /\ map' \in Maps /\ Yields(map, ops, Len(ops), map')
  /\ UNCHANGED <<disk, open>>

Commit == open /\ disk' = map /\ UNCHANGED <<map, open>>

\* The process ends; what was not committed is gone.
Lose == open /\ open' = FALSE /\ map' = Empty /\ UNCHANGED disk

Reopen == ~open /\ open' = TRUE /\ map' = disk /\ UNCHANGED disk

Next == Update \/ Commit \/ Lose \/ Reopen

Spec == Init /\ [][Next]_vars
=============================================================================
