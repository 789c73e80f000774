------------------------------- MODULE KvOps -------------------------------
(* The operations a kv_batch is made of, and what they do to the entries.  *)
EXTENDS Naturals, Sequences

CONSTANTS
  Keys, Values,
  None,         \* a key that is not in the map
  Batches       \* the op lists scripts hand to kv_batch

Maps == [Keys -> Values \union {None}]

Empty == [k \in Keys |-> None]

Put(k, v) == [kind |-> "put", key |-> k, val |-> v]
Del(k)    == [kind |-> "del", key |-> k, val |-> None]

\* What kv_batch rejects: an op that is no array, has no key, or has a kind
\* other than put and del.
Rejected == [kind |-> "other", key |-> None, val |-> None]

Ops == {Put(k, v) : k \in Keys, v \in Values} \union {Del(k) : k \in Keys} \union {Rejected}

Apply(m, op) == [m EXCEPT ![op.key] = op.val]

\* What the first n of ops make of m: of the operations on a key the last decides.
Yields(m, ops, n, r) ==
  \A k \in Keys :
    \/ r[k] = m[k] /\ \A i \in 1..n : ops[i].key # k
    \/ \E i \in 1..n : /\ ops[i].key = k /\ r[k] = ops[i].val
                       /\ \A j \in (i + 1)..n : ops[j].key # k
=============================================================================
