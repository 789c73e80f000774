--------------------------- MODULE KvStoreProofs ---------------------------
(* Theorems about KvStore, for every set of keys, values, batches and       *)
(* threads, whatever fails and whenever the process dies.                   *)
EXTENDS KvStore, TLAPS

(* A batch that some thread is in is one a script handed in, and its        *)
(* operations are puts, dels and rejected ones.                             *)
LEMMA OpShape ==
  ASSUME NEW ops \in Batches, NEW i \in 1..Len(ops), ops[i] # Rejected
  PROVE  /\ ops[i].key \in Keys
         /\ ops[i].val \in Values \union {None}
         /\ ops[i].kind = "put" \/ ops[i].val = None
<1>1. ops \in Seq(Ops)
  BY KvAssumption
<1>2. ops[i] \in Ops
  BY <1>1
<1>3. QED
  BY <1>2 DEF Ops, Put, Del, Rejected

LEMMA ApplyType ==
  ASSUME NEW m \in Maps, NEW op, op.val \in Values \union {None}
  PROVE  Apply(m, op) \in Maps
BY DEF Apply, Maps

(* Deleting what is not there changes nothing.                              *)
LEMMA ApplyNothing ==
  ASSUME NEW m \in Maps, NEW op, op.val = None, m[op.key] = None
  PROVE  Apply(m, op) = m
BY DEF Apply, Maps

-----------------------------------------------------------------------------
(* Every variable keeps its type, and no batch applies more operations than *)
(* it has.                                                                  *)
LEMMA BatchIsSeq ==
  ASSUME TypeOK, NEW t \in Threads
  PROVE  batch[t] \in Seq(Ops) /\ Len(batch[t]) \in Nat
<1>1. batch[t] \in Batches \union {<<>>}
  BY DEF TypeOK
<1>2. Batches \subseteq Seq(Ops) /\ <<>> \in Seq(Ops)
  BY KvAssumption
<1>3. batch[t] \in Seq(Ops)
  BY <1>1, <1>2
<1>4. QED
  BY <1>3

THEOREM TypeCorrect == Spec => []TypeOK
<1>1. Init => TypeOK
  <2> SUFFICES ASSUME Init PROVE TypeOK
    OBVIOUS
  <2>1. Empty \in Maps
    BY DEF Empty, Maps
  <2>2. \A t \in Threads : applied[t] <= Len(batch[t])
    BY DEF Init
  <2>3. batch \in [Threads -> Batches \union {<<>>}]
    BY DEF Init
  <2>4. QED
    BY <2>1, <2>2, <2>3 DEF Init, TypeOK, Committing
<1>2. TypeOK /\ [Next]_vars => TypeOK'
  <2> SUFFICES ASSUME TypeOK, [Next]_vars PROVE TypeOK'
    OBVIOUS
  <2> USE KvAssumption
  <2>1. ASSUME Next, NEW t \in threads, NEW k \in Keys, NEW v \in Values, KvPut(t, k, v)
        PROVE  TypeOK'
    <3>1. entries' \in Maps
      BY <2>1, ApplyType DEF KvPut, Put, TypeOK
    <3>2. QED
      BY <2>1, <3>1 DEF KvPut, TypeOK, BatchVars, Next
  <2>2. ASSUME Next, NEW t \in threads, NEW k \in Keys, KvDel(t, k)
        PROVE  TypeOK'
    <3>1. entries' \in Maps
      BY <2>2, ApplyType DEF KvDel, Del, TypeOK
    <3>2. QED
      BY <2>2, <3>1 DEF KvDel, TypeOK, BatchVars, Next
  <2>3. ASSUME Next, NEW t \in threads, NEW ops \in Batches, BatchBegin(t, ops)
        PROVE  TypeOK'
    <3>1. Len(ops) \in Nat
      OBVIOUS
    <3>2. QED
      BY <2>3, <3>1 DEF BatchBegin, Goto, TypeOK, Committing, Next
  <2>4. ASSUME Next, NEW t \in threads, BatchOp(t)
        PROVE  TypeOK'
    <3> DEFINE op == batch[t][applied[t] + 1]
    <3>1. t \in Threads /\ applied[t] \in Nat /\ Len(batch[t]) \in Nat /\ applied[t] < Len(batch[t])
      BY <2>4, BatchIsSeq DEF BatchOp, TypeOK
    <3>2. batch[t] \in Batches
      BY <3>1 DEF TypeOK
    <3>3. op # Rejected /\ applied[t] + 1 \in 1..Len(batch[t])
      BY <2>4, <3>1 DEF BatchOp
    <3>4. op.val \in Values \union {None}
      BY <3>2, <3>3, OpShape
    <3>5. entries' \in Maps
      BY <2>4, <3>4, ApplyType DEF BatchOp, TypeOK
    <3>6. applied' \in [Threads -> Nat] /\ \A u \in Threads : applied'[u] <= Len(batch[u])
      BY <2>4, <3>1 DEF BatchOp, TypeOK
    <3>7. dirty' \in BOOLEAN
      BY <2>4 DEF BatchOp, TypeOK
    <3>8. QED
      BY <2>4, <3>5, <3>6, <3>7 DEF BatchOp, TypeOK, Next
  <2>5. ASSUME Next, NEW t \in threads, BatchEnd(t) \/ BatchRollback(t)
        PROVE  TypeOK'
    <3>1. CASE BatchEnd(t)
      BY <2>5, <3>1 DEF BatchEnd, Goto, BatchVars, TypeOK, Next
    <3>2. CASE BatchRollback(t)
      <4>1. entries' \in Maps /\ dirty' \in BOOLEAN
        BY <3>2 DEF BatchRollback, TypeOK
      <4>2. QED
        BY <2>5, <3>2, <4>1 DEF BatchRollback, Goto, BatchVars, TypeOK, Next
    <3>3. QED
      BY <2>5, <3>1, <3>2
  <2>6. ASSUME Next, NEW t \in threads,
               BeginCommit(t) \/ WriteTmp(t) \/ RenameTmp(t) \/ EndCommit(t) \/ CommitFails(t)
        PROVE  TypeOK'
    BY <2>6 DEF BeginCommit, WriteTmp, RenameTmp, EndCommit, CommitFails, Goto, BatchVars,
                Committing, TypeOK, Next
  <2>7. CASE Next /\ (Crash \/ Open)
    BY <2>7 DEF Crash, Open, BatchVars, TypeOK, Next
  <2>8. CASE UNCHANGED vars
    BY <2>8 DEF vars, TypeOK
  <2>9. QED
    BY <2>1, <2>2, <2>3, <2>4, <2>5, <2>6, <2>7, <2>8 DEF Next
<1>3. QED
  BY <1>1, <1>2, PTL DEF Spec

-----------------------------------------------------------------------------
(* Who is inside a commit holds the mutex, so nobody changes the entries    *)
(* between the rename and the reset of the flag; a dead process is nowhere. *)
Exclusive ==
  /\ \A t \in Threads : at[t] \in Committing => lock = t
  /\ \A t \in Threads : at[t] = "renamed" => file = entries
  /\ ~up => \A t \in Threads : at[t] = "idle"

Saved == Exclusive /\ FileHolds /\ CleanIsSaved

LEMMA SavedInvariant == Spec => []Saved
<1>1. Init => Saved
  BY DEF Init, Saved, Exclusive, FileHolds, CleanIsSaved, Committing
<1>2. TypeOK /\ Saved /\ [Next]_vars => Saved'
  <2> SUFFICES ASSUME TypeOK, Saved, [Next]_vars PROVE Saved'
    OBVIOUS
  <2> USE KvAssumption DEF Saved
  <2>1. ASSUME NEW t \in Threads, NEW place, Runs(t, place)
        PROVE  up /\ \A u \in Threads : at[u] \notin Committing
    BY <2>1 DEF Runs, Exclusive
  <2>2. ASSUME NEW t \in threads, NEW k \in Keys, NEW v \in Values, KvPut(t, k, v)
        PROVE  Saved'
    <3>1. t \in Threads /\ up /\ \A u \in Threads : at[u] \notin Committing
      BY <2>1, <2>2 DEF KvPut, TypeOK
    <3>2. QED
      BY <2>2, <3>1 DEF KvPut, Exclusive, FileHolds, CleanIsSaved, Committing
  <2>3. ASSUME NEW t \in threads, NEW k \in Keys, KvDel(t, k)
        PROVE  Saved'
    <3>1. t \in Threads /\ up /\ \A u \in Threads : at[u] \notin Committing
      BY <2>1, <2>3 DEF KvDel, TypeOK
    <3>2. ~dirty' => entries' = entries /\ ~dirty
      BY <2>3, ApplyNothing DEF KvDel, Del, TypeOK
    <3>3. QED
      BY <2>3, <3>1, <3>2 DEF KvDel, Exclusive, FileHolds, CleanIsSaved, Committing
  <2>4. ASSUME NEW t \in threads, NEW ops \in Batches, BatchBegin(t, ops)
        PROVE  Saved'
    <3>1. t \in Threads /\ up /\ \A u \in Threads : at[u] \notin Committing
      BY <2>1, <2>4 DEF BatchBegin, TypeOK
    <3>2. QED
      BY <2>4, <3>1 DEF BatchBegin, Goto, TypeOK, Exclusive, FileHolds, CleanIsSaved, Committing
  <2>5. ASSUME NEW t \in threads, BatchOp(t)
        PROVE  Saved'
    <3> DEFINE op == batch[t][applied[t] + 1]
    <3>1. t \in Threads /\ up /\ \A u \in Threads : at[u] \notin Committing
      BY <2>1, <2>5 DEF BatchOp, TypeOK
    <3>2. batch[t] \in Batches /\ applied[t] + 1 \in 1..Len(batch[t]) /\ op # Rejected
      BY <2>5, <3>1, BatchIsSeq DEF BatchOp, TypeOK
    <3>3. op.kind = "put" \/ op.val = None
      BY <3>2, OpShape
    <3>4. ~dirty' => entries' = entries /\ ~dirty
      BY <2>5, <3>3, ApplyNothing DEF BatchOp, TypeOK
    <3>5. QED
      BY <2>5, <3>1, <3>4 DEF BatchOp, Exclusive, FileHolds, CleanIsSaved, Committing
  <2>6. ASSUME NEW t \in threads, BatchEnd(t)
        PROVE  Saved'
    <3>1. t \in Threads
      BY DEF TypeOK
    <3>2. QED
      BY <2>6, <3>1 DEF BatchEnd, Goto, BatchVars, TypeOK, Exclusive, FileHolds, CleanIsSaved,
                        Committing
  <2>7. ASSUME NEW t \in threads, BatchRollback(t)
        PROVE  Saved'
    <3>1. t \in Threads /\ up /\ \A u \in Threads : at[u] \notin Committing
      BY <2>1, <2>7 DEF BatchRollback, TypeOK
    <3>2. QED
      BY <2>7, <3>1 DEF BatchRollback, Goto, TypeOK, Exclusive, FileHolds, CleanIsSaved, Committing
  <2>8. ASSUME NEW t \in threads, BeginCommit(t)
        PROVE  Saved'
    <3>1. t \in Threads /\ up /\ \A u \in Threads : at[u] \notin Committing
      BY <2>1, <2>8 DEF BeginCommit, TypeOK
    <3>2. QED
      BY <2>8, <3>1 DEF BeginCommit, Goto, TypeOK, Exclusive, FileHolds, CleanIsSaved, Committing
  <2>9. ASSUME NEW t \in threads,
               WriteTmp(t) \/ RenameTmp(t) \/ EndCommit(t) \/ CommitFails(t)
        PROVE  Saved'
    <3>1. /\ t \in Threads /\ up /\ at[t] \in Committing
          /\ \A u \in Threads : at[u] \in Committing => u = t
      BY <2>9 DEF WriteTmp, RenameTmp, EndCommit, CommitFails, Exclusive, TypeOK, Committing
    <3>2. CASE WriteTmp(t)
      BY <3>1, <3>2 DEF WriteTmp, Goto, TypeOK, Exclusive, FileHolds, CleanIsSaved, Committing
    <3>3. CASE RenameTmp(t)
      BY <3>1, <3>3 DEF RenameTmp, Goto, TypeOK, Exclusive, FileHolds, CleanIsSaved, Committing
    <3>4. CASE EndCommit(t)
      BY <3>1, <3>4 DEF EndCommit, Goto, TypeOK, Exclusive, FileHolds, CleanIsSaved, Committing
    <3>5. CASE CommitFails(t)
      BY <3>1, <3>5 DEF CommitFails, Goto, TypeOK, Exclusive, FileHolds, CleanIsSaved, Committing
    <3>6. QED
      BY <2>9, <3>2, <3>3, <3>4, <3>5
  <2>10. CASE Crash
    BY <2>10 DEF Crash, Exclusive, FileHolds, CleanIsSaved, Committing
  <2>11. CASE Open
    BY <2>11 DEF Open, TypeOK, Exclusive, FileHolds, CleanIsSaved, Committing
  <2>12. CASE UNCHANGED vars
    BY <2>12 DEF vars, Exclusive, FileHolds, CleanIsSaved
  <2>13. QED
    BY <2>2, <2>3, <2>4, <2>5, <2>6, <2>7, <2>8, <2>9, <2>10, <2>11, <2>12 DEF Next
<1>3. QED
  BY <1>1, <1>2, TypeCorrect, PTL DEF Spec

(* Whatever fails and whenever the process dies, the file is what the last  *)
(* commit that returned wrote, or the whole map of a commit cut off after   *)
(* its rename.                                                              *)
THEOREM FileIsWhole == Spec => []FileHolds
BY SavedInvariant, PTL DEF Saved

(* Nothing a crash takes was ever taken for saved, except from a map that a *)
(* rolled back batch left empty.                                            *)
THEOREM CleanMeansSaved == Spec => []CleanIsSaved
BY SavedInvariant, PTL DEF Saved

-----------------------------------------------------------------------------
(* One operation more: the last on its key, and no other key changes.       *)
LEMMA YieldsOneMore ==
  ASSUME NEW m \in Maps, NEW r \in Maps, NEW ops, NEW n \in Nat,
         ops[n + 1].key \in Keys, Yields(m, ops, n, r)
  PROVE  Yields(m, ops, n + 1, Apply(r, ops[n + 1]))
<1> DEFINE op == ops[n + 1]
           new == Apply(r, op)
<1> SUFFICES ASSUME NEW k \in Keys
             PROVE  \/ new[k] = m[k] /\ \A i \in 1..(n + 1) : ops[i].key # k
                    \/ \E i \in 1..(n + 1) : /\ ops[i].key = k /\ new[k] = ops[i].val
                                             /\ \A j \in (i + 1)..(n + 1) : ops[j].key # k
  BY DEF Yields
<1>1. CASE op.key = k
  <2>1. new[k] = op.val
    BY <1>1 DEF Apply, Maps
  <2>2. n + 1 \in 1..(n + 1) /\ \A j \in (n + 2)..(n + 1) : ops[j].key # k
    OBVIOUS
  <2>3. QED
    BY <1>1, <2>1, <2>2
<1>2. CASE op.key # k
  <2>1. new[k] = r[k]
    BY <1>2 DEF Apply, Maps
  <2>2. CASE r[k] = m[k] /\ \A i \in 1..n : ops[i].key # k
    BY <1>2, <2>1, <2>2
  <2>3. CASE \E i \in 1..n : /\ ops[i].key = k /\ r[k] = ops[i].val
                             /\ \A j \in (i + 1)..n : ops[j].key # k
    <3>1. PICK i \in 1..n : /\ ops[i].key = k /\ r[k] = ops[i].val
                            /\ \A j \in (i + 1)..n : ops[j].key # k
      BY <2>3
    <3>2. \A j \in (i + 1)..(n + 1) : ops[j].key # k
      BY <1>2, <3>1
    <3>3. i \in 1..(n + 1)
      OBVIOUS
    <3>4. QED
      BY <2>1, <3>1, <3>2, <3>3
  <2>4. QED
    BY <2>2, <2>3 DEF Yields
<1>3. QED
  BY <1>1, <1>2

(* Where a batch is: nothing it applied was rejected, and if its thread is  *)
(* alone the entries are what these operations made of its snapshot.        *)
HalfWay ==
  \A t \in threads : at[t] = "batch" =>
    /\ batch[t] \in Batches
    /\ \A i \in 1..applied[t] : batch[t][i] # Rejected
    /\ threads = {t} => Yields(snapshot[t], batch[t], applied[t], entries)

LEMMA HalfWayInvariant == Spec => []HalfWay
<1>1. Init => HalfWay
  BY DEF Init, HalfWay
<1>2. TypeOK /\ Saved /\ HalfWay /\ [Next]_vars => HalfWay'
  <2> SUFFICES ASSUME TypeOK, Saved, HalfWay, [Next]_vars PROVE HalfWay'
    OBVIOUS
  <2> USE KvAssumption DEF Saved
  <2>1. ASSUME threads' = threads, NEW t \in threads,
               at[t] = "idle", at' = at, UNCHANGED BatchVars
        PROVE  HalfWay'
    BY <2>1 DEF HalfWay, TypeOK, BatchVars
  <2>2. ASSUME Next, NEW t \in threads, NEW k \in Keys,
               KvDel(t, k) \/ \E v \in Values : KvPut(t, k, v)
        PROVE  HalfWay'
    BY <2>1, <2>2 DEF KvDel, KvPut, Runs, Next
  <2>3. ASSUME Next, NEW t \in threads, NEW ops \in Batches, BatchBegin(t, ops)
        PROVE  HalfWay'
    <3>1. Yields(entries, ops, 0, entries)
      BY DEF Yields
    <3>2. QED
      BY <2>3, <3>1 DEF BatchBegin, Goto, Runs, HalfWay, TypeOK, Next
  <2>4. ASSUME Next, NEW t \in threads, BatchOp(t)
        PROVE  HalfWay'
    <3> DEFINE op == batch[t][applied[t] + 1]
    <3>1. t \in Threads /\ at[t] = "batch" /\ applied[t] \in Nat
      BY <2>4 DEF BatchOp, Runs, TypeOK
    <3>2. batch[t] \in Batches /\ applied[t] + 1 \in 1..Len(batch[t]) /\ op # Rejected
      BY <2>4, <3>1, BatchIsSeq DEF BatchOp, HalfWay
    <3>3. op.key \in Keys
      BY <3>2, OpShape
    <3>4. threads = {t} => Yields(snapshot[t], batch[t], applied[t] + 1, Apply(entries, op))
      BY <3>1, <3>3, YieldsOneMore DEF HalfWay, TypeOK
    <3>5. \A i \in 1..(applied[t] + 1) : batch[t][i] # Rejected
      BY <3>1, <3>2 DEF HalfWay
    <3>6. /\ threads' = threads /\ at' = at /\ batch' = batch /\ snapshot' = snapshot
          /\ applied' = [applied EXCEPT ![t] = @ + 1] /\ entries' = Apply(entries, op)
      BY <2>4 DEF BatchOp, Next
    <3>7. applied'[t] = applied[t] + 1 /\ \A u \in Threads \ {t} : applied'[u] = applied[u]
      BY <3>1, <3>6 DEF TypeOK
    <3>8. SUFFICES ASSUME NEW u \in threads, at[u] = "batch"
                   PROVE  /\ batch[u] \in Batches
                          /\ \A i \in 1..applied'[u] : batch[u][i] # Rejected
                          /\ threads = {u} =>
                               Yields(snapshot[u], batch[u], applied'[u], Apply(entries, op))
      BY <3>6 DEF HalfWay, Yields
    <3>9. CASE u = t
      BY <3>2, <3>4, <3>5, <3>7, <3>9
    <3>10. CASE u # t
      BY <3>7, <3>8, <3>10 DEF HalfWay, TypeOK
    <3>11. QED
      BY <3>9, <3>10
  <2>5. ASSUME Next, NEW t \in threads, BatchEnd(t) \/ BatchRollback(t)
        PROVE  HalfWay'
    BY <2>5 DEF BatchEnd, BatchRollback, Goto, BatchVars, HalfWay, TypeOK, Next
  <2>6. ASSUME Next, NEW t \in threads,
               BeginCommit(t) \/ WriteTmp(t) \/ RenameTmp(t) \/ EndCommit(t) \/ CommitFails(t)
        PROVE  HalfWay'
    BY <2>6 DEF BeginCommit, WriteTmp, RenameTmp, EndCommit, CommitFails, Runs, Goto, BatchVars,
                HalfWay, TypeOK, Next
  <2>7. CASE Next /\ (Crash \/ Open)
    BY <2>7 DEF Crash, Open, BatchVars, Exclusive, HalfWay, TypeOK, Next
  <2>8. CASE UNCHANGED vars
    BY <2>8 DEF vars, HalfWay
  <2>9. QED
    BY <2>2, <2>3, <2>4, <2>5, <2>6, <2>7, <2>8 DEF Next
<1>3. QED
  BY <1>1, <1>2, TypeCorrect, SavedInvariant, PTL DEF Spec

(* What a script of one thread sees.                                        *)
LEMMA SeenAlone ==
  ASSUME NEW t, threads = {t}
  PROVE  Seen = IF ~up THEN Empty ELSE IF at[t] = "batch" THEN snapshot[t] ELSE entries
BY DEF Seen

(* A script of one thread gets what KvContract says: every step of the      *)
(* store is a step of the contract or none it can see.                      *)
THEOREM OneThreadKeepsContract == Spec => KeepsContract
<1>1. Init => (Alone => Contract!Init)
  BY SeenAlone DEF Init, Alone, Contract!Init, Contract!Empty, Empty
<1>2. TypeOK /\ TypeOK' /\ Saved /\ HalfWay /\ [Next]_vars => [Alone => Contract!Next]_(Contract!vars)
  <2> SUFFICES ASSUME TypeOK, TypeOK', Saved, HalfWay, [Next]_vars, Alone
               PROVE  Contract!Next \/ UNCHANGED <<Seen, file, up>>
    BY DEF Contract!vars
  <2>0. PICK t \in Threads : threads = {t}
    BY DEF Alone
  <2>1. CASE UNCHANGED vars
    BY <2>1 DEF vars, Seen
  <2>2. CASE Next
    <3>1. threads' = {t} /\ threads' = threads
      BY <2>0, <2>2 DEF Next
    <3>2. /\ Seen = IF ~up THEN Empty ELSE IF at[t] = "batch" THEN snapshot[t] ELSE entries
          /\ Seen' = IF ~up' THEN Empty ELSE IF at'[t] = "batch" THEN snapshot'[t] ELSE entries'
      BY <2>0, <3>1, SeenAlone DEF Seen
    <3>3. ASSUME NEW k \in Keys, NEW v \in Values, KvPut(t, k, v)
          PROVE  Contract!Next
      BY <3>2, <3>3 DEF KvPut, Runs, Apply, Put, Contract!Next, Contract!Update
    <3>4. ASSUME NEW k \in Keys, KvDel(t, k)
          PROVE  Contract!Next
      BY <3>2, <3>4 DEF KvDel, Runs, Apply, Del, Contract!Next, Contract!Update
    <3>5. ASSUME NEW ops \in Batches, BatchBegin(t, ops)
          PROVE  UNCHANGED <<Seen, file, up>>
      BY <3>2, <3>5 DEF BatchBegin, Runs, Goto, TypeOK
    <3>6. CASE BatchOp(t)
      BY <3>2, <3>6 DEF BatchOp, Runs
    <3>7. CASE BatchEnd(t)
      <4>1. up /\ at[t] = "batch" /\ at'[t] = "idle" /\ entries' = entries /\ up' = up /\ file' = file
        BY <3>7 DEF BatchEnd, Goto, TypeOK
      <4>2. /\ batch[t] \in Batches /\ \A i \in 1..Len(batch[t]) : batch[t][i] # Rejected
            /\ Yields(snapshot[t], batch[t], Len(batch[t]), entries)
        BY <2>0, <3>7, <4>1 DEF BatchEnd, HalfWay
      <4>3. Seen = snapshot[t] /\ Seen' = entries /\ entries \in Maps
        BY <3>2, <4>1 DEF TypeOK
      <4>4. Contract!Update
        BY <4>1, <4>2, <4>3
           DEF Contract!Update, Contract!Yields, Yields, Contract!Rejected, Rejected,
               Contract!Maps, Maps
      <4>5. QED
        BY <4>4 DEF Contract!Next
    <3>8. CASE BatchRollback(t)
      BY <3>2, <3>8 DEF BatchRollback, Runs, Goto, TypeOK
    <3>9. CASE BeginCommit(t) \/ WriteTmp(t) \/ EndCommit(t) \/ CommitFails(t)
      BY <3>2, <3>9 DEF BeginCommit, WriteTmp, EndCommit, CommitFails, Runs, Goto, TypeOK
    <3>10. CASE RenameTmp(t)
      BY <3>2, <3>10 DEF RenameTmp, Goto, TypeOK, Contract!Next, Contract!Commit
    <3>11. CASE Crash
      BY <3>2, <3>11 DEF Crash, Contract!Next, Contract!Lose, Contract!Empty, Empty
    <3>12. CASE Open
      BY <2>0, <3>2, <3>12 DEF Open, Saved, Exclusive, Contract!Next, Contract!Reopen
    <3>13. QED
      BY <2>0, <2>2, <3>3, <3>4, <3>5, <3>6, <3>7, <3>8, <3>9, <3>10, <3>11, <3>12 DEF Next
  <2>3. QED
    BY <2>1, <2>2
<1>3. QED
  BY <1>1, <1>2, TypeCorrect, SavedInvariant, HalfWayInvariant, PTL DEF Spec, KeepsContract
=============================================================================
