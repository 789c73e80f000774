--------------------------- MODULE ClusterProofs ---------------------------
(* Theorems about Cluster, for every set of slots, every list length, every *)
(* retry budget and every queue capacity.                                   *)
EXTENDS Cluster, FiniteSetTheorems, SequenceTheorems, TLAPS

(* The bound of the work queue is a number, whatever part of Slots is used. *)
LEMMA CapacityType ==
  ASSUME pool \in SUBSET Slots
  PROVE  WorkCapacity \in Nat
<1>1. IsFiniteSet(pool)
  BY FS_Subset, ClusterAssumption
<1>2. Cardinality(pool) \in Nat
  BY <1>1, FS_CardinalityType
<1>3. QED
  BY <1>2, ClusterAssumption DEF WorkCapacity

(* The ends of a sequence that a channel uses: what Tail drops and Append   *)
(* adds, position by position.                                              *)
LEMMA TailIndex ==
  ASSUME NEW S, NEW q \in Seq(S), q # <<>>
  PROVE  /\ Tail(q) \in Seq(S)
         /\ Len(Tail(q)) = Len(q) - 1
         /\ Head(q) = q[1] /\ Head(q) \in S /\ 1 \in DOMAIN q
         /\ \A i \in DOMAIN Tail(q) : i + 1 \in DOMAIN q /\ Tail(q)[i] = q[i + 1]
         /\ \A i \in DOMAIN q : i # 1 => i - 1 \in DOMAIN Tail(q) /\ Tail(q)[i - 1] = q[i]
<1>1. /\ Tail(q) \in Seq(S) /\ Len(Tail(q)) = Len(q) - 1
      /\ Head(q) = q[1] /\ Head(q) \in S
      /\ \A i \in 1..Len(Tail(q)) : Tail(q)[i] = q[i + 1]
  BY HeadTailProperties
<1>2. Len(q) \in Nat /\ Len(q) # 0 /\ DOMAIN q = 1..Len(q)
  BY LenProperties, EmptySeq
<1>3. Len(Tail(q)) \in Nat /\ DOMAIN Tail(q) = 1..Len(Tail(q))
  BY <1>1, LenProperties
<1>4. QED
  BY <1>1, <1>2, <1>3

LEMMA AppendIndex ==
  ASSUME NEW S, NEW q \in Seq(S), NEW e \in S
  PROVE  /\ Append(q, e) \in Seq(S)
         /\ Len(Append(q, e)) = Len(q) + 1
         /\ Len(q) \in Nat
         /\ DOMAIN q = 1..Len(q)
         /\ DOMAIN Append(q, e) = 1..(Len(q) + 1)
         /\ \A i \in DOMAIN q : Append(q, e)[i] = q[i]
         /\ Append(q, e)[Len(q) + 1] = e
<1>1. /\ Append(q, e) \in Seq(S)
      /\ Len(Append(q, e)) = Len(q) + 1
      /\ \A i \in 1..Len(q) : Append(q, e)[i] = q[i]
      /\ Append(q, e)[Len(q) + 1] = e
  BY AppendProperties
<1>2. Len(q) \in Nat /\ DOMAIN q = 1..Len(q)
  BY LenProperties
<1>3. DOMAIN Append(q, e) = 1..Len(Append(q, e))
  BY <1>1, LenProperties
<1>4. QED
  BY <1>1, <1>2, <1>3

-----------------------------------------------------------------------------
(* Every variable keeps its type, and the work queue its bound.             *)
THEOREM TypeCorrect == Spec => []TypeOK
<1>1. Init => TypeOK
  <2> SUFFICES ASSUME Init PROVE TypeOK
    OBVIOUS
  <2>1. WorkCapacity \in Nat
    BY CapacityType DEF Init
  <2>2. jobs \in SUBSET Seq0
    BY DEF Init
  <2>3. work \in Seq(Job) /\ Len(work) = 0 /\ results \in Seq(Result)
    BY EmptySeq DEF Init
  <2>4. NoJob \in Job
    BY ClusterAssumption DEF NoJob, Job, Seq0
  <2>5. QED
    BY <2>1, <2>2, <2>3, <2>4, ClusterAssumption DEF Init, TypeOK, Outcomes
<1>2. TypeOK /\ [Next]_vars => TypeOK'
  <2> SUFFICES ASSUME TypeOK, [Next]_vars PROVE TypeOK'
    OBVIOUS
  <2> USE ClusterAssumption DEF TypeOK
  <2>0. WorkCapacity \in Nat /\ Len(work) \in Nat
    BY CapacityType, LenProperties
  <2>1. CASE ReturnEarly
    BY <2>1 DEF ReturnEarly, WorkCapacity, Outcomes
  <2>2. CASE SpawnSlots
    BY <2>2 DEF SpawnSlots, WorkCapacity
  <2>3. CASE Seed
    <3>1. [seq |-> sent, attempts |-> 0] \in Job
      BY <2>3 DEF Seed, Job, Seq0
    <3>2. work' \in Seq(Job) /\ Len(work') = Len(work) + 1
      BY <2>3, <3>1, AppendIndex DEF Seed
    <3>3. Len(work') <= WorkCapacity
      BY <2>0, <2>3, <3>2 DEF Seed
    <3>4. sent' \in 0..(MaxJobs + 1)
      BY <2>3 DEF Seed, Seq0
    <3>5. QED
      BY <2>3, <3>2, <3>3, <3>4 DEF Seed, WorkCapacity
  <2>4. CASE SeedFails
    BY <2>4 DEF SeedFails, WorkCapacity, Outcomes
  <2>5. CASE SeedDone
    BY <2>5 DEF SeedDone, WorkCapacity
  <2>6. CASE Collect
    <3>1. Head(results) \in Result /\ results' \in Seq(Result)
      BY <2>6, TailIndex DEF Collect
    <3>2. got' \in [jobs -> Outcomes \union {"none"}]
      BY <2>6, <3>1 DEF Collect, Result
    <3>3. QED
      BY <2>6, <3>1, <3>2 DEF Collect, WorkCapacity
  <2>7. CASE CollectDone
    BY <2>7 DEF CollectDone, WorkCapacity
  <2>8. CASE JoinAndStitch
    BY <2>8 DEF JoinAndStitch, WorkCapacity, Outcomes
  <2>9. ASSUME NEW s \in pool, SlotNext(s) PROVE TypeOK'
    <3>1. CASE Open(s) \/ OpenFails(s)
      BY <3>1 DEF Open, OpenFails, WorkCapacity
    <3>2. CASE Take(s)
      <4>1. /\ Head(work) \in Job /\ work' \in Seq(Job)
            /\ Len(work') = Len(work) - 1
        BY <3>2, TailIndex DEF Take
      <4>2. ran' \in [jobs -> Nat]
        <5>1. ASSUME NEW j PROVE [ran EXCEPT ![j] = @ + 1] \in [jobs -> Nat]
          <6>1. \A i \in jobs : ran[i] \in Nat /\ ran[i] + 1 \in Nat
            OBVIOUS
          <6>2. QED
            BY <6>1
        <5>2. QED
          BY <3>2, <5>1 DEF Take
      <4>3. QED
        BY <2>0, <3>2, <4>1, <4>2 DEF Take, WorkCapacity
    <3>3. CASE SeeShutdown(s)
      BY <3>3 DEF SeeShutdown, WorkCapacity
    <3>4. ASSUME NEW o \in Outcomes, Report(s, o) PROVE TypeOK'
      <4>1. [seq |-> held[s].seq, outcome |-> o] \in Result
        BY <3>4 DEF Job, Result
      <4>2. results' \in Seq(Result)
        BY <3>4, <4>1, AppendIndex DEF Report
      <4>3. NoJob \in Job
        BY DEF NoJob, Job, Seq0
      <4>4. QED
        BY <3>4, <4>2, <4>3 DEF Report, WorkCapacity
    <3>5. CASE Lose(s)
      <4>1. [seq |-> held[s].seq, attempts |-> held[s].attempts + 1] \in Job
        BY <3>5 DEF Lose, Job
      <4>2. QED
        BY <3>5, <4>1 DEF Lose, WorkCapacity
    <3>6. CASE LoseLast(s)
      <4>1. [seq |-> held[s].seq, outcome |-> "err"] \in Result
        BY DEF Job, Result, Outcomes
      <4>2. results' \in Seq(Result)
        BY <3>6, <4>1, AppendIndex DEF LoseLast
      <4>3. NoJob \in Job
        BY DEF NoJob, Job, Seq0
      <4>4. QED
        BY <3>6, <4>2, <4>3 DEF LoseLast, WorkCapacity
    <3>7. CASE Requeue(s)
      <4>1. work' \in Seq(Job) /\ Len(work') = Len(work) + 1
        BY <3>7, AppendIndex DEF Requeue
      <4>2. NoJob \in Job
        BY DEF NoJob, Job, Seq0
      <4>3. QED
        BY <2>0, <3>7, <4>1, <4>2 DEF Requeue, WorkCapacity
    <3>8. CASE Kill(s)
      BY <3>8 DEF Kill, WorkCapacity
    <3>9. QED
      BY <2>9, <3>1, <3>2, <3>3, <3>4, <3>5, <3>6, <3>7, <3>8
         DEF SlotNext, RunJob
  <2>10. CASE UNCHANGED vars
    BY <2>10 DEF vars, WorkCapacity
  <2>11. QED
    BY <2>1, <2>2, <2>3, <2>4, <2>5, <2>6, <2>7, <2>8, <2>9, <2>10
       DEF Next, MainNext, Terminated
<1>3. QED
  BY <1>1, <1>2, PTL DEF Spec

-----------------------------------------------------------------------------
(* Slots start after the main thread has left "start", and one leaves as    *)
(* "done" only on the shutdown signal.  That is what AbandonOnlyWhenDead     *)
(* needs to be inductive.                                                   *)

Staged ==
  /\ main = "start" => \A s \in pool : slot[s] = "unborn"
  /\ \A s \in pool : slot[s] = "done" => ShutdownSet

LEMMA StagedNext ==
  TypeOK /\ Staged /\ AbandonOnlyWhenDead /\ [Next]_vars
    => Staged' /\ AbandonOnlyWhenDead'
<1> SUFFICES ASSUME TypeOK, Staged, AbandonOnlyWhenDead, [Next]_vars
             PROVE  Staged' /\ AbandonOnlyWhenDead'
  OBVIOUS
<1> USE DEF TypeOK, Staged, AbandonOnlyWhenDead, ShutdownSet
<1>1. CASE ReturnEarly
  BY <1>1 DEF ReturnEarly, Collected
<1>2. CASE SpawnSlots
  BY <1>2 DEF SpawnSlots
<1>3. CASE Seed \/ SeedDone
  BY <1>3 DEF Seed, SeedDone
<1>4. CASE SeedFails
  BY <1>4 DEF SeedFails, AllExited, Exited
<1>5. CASE Collect
  BY <1>5 DEF Collect
<1>6. CASE CollectDone
  <2>1. CASE Collected = jobs
    <3>1. Collected' = jobs'
      BY <2>1, <1>6 DEF CollectDone, Collected
    <3>2. QED
      BY <1>6, <3>1 DEF CollectDone
  <2>2. CASE AllExited
    BY <2>2, <1>6 DEF CollectDone, AllExited, Exited
  <2>3. QED
    BY <2>1, <2>2, <1>6 DEF CollectDone
<1>7. CASE JoinAndStitch
  <2>1. Collected' = Collected /\ jobs' = jobs
    BY <1>7 DEF JoinAndStitch, Collected
  <2>2. QED
    BY <1>7, <2>1 DEF JoinAndStitch
<1>8. ASSUME NEW s \in pool, SlotNext(s) PROVE Staged' /\ AbandonOnlyWhenDead'
  <2>1. UNCHANGED <<main, jobs, pool, got>> /\ Collected' = Collected
    BY <1>8 DEF SlotNext, Open, OpenFails, Take, SeeShutdown, RunJob, Report,
                Lose, LoseLast, Requeue, Kill, Collected
  <2>2. slot[s] \notin {"dead", "done", "unborn"} /\ slot'[s] # "unborn"
    BY <1>8 DEF SlotNext, Open, OpenFails, Take, SeeShutdown, RunJob, Report,
                Lose, LoseLast, Requeue, Kill
  <2>3. slot'[s] = "done" => ShutdownSet
    BY <1>8 DEF SlotNext, Open, OpenFails, Take, SeeShutdown, RunJob, Report,
                Lose, LoseLast, Requeue, Kill
  <2>4. \A t \in pool : t # s => slot'[t] = slot[t]
    BY <1>8 DEF SlotNext, Open, OpenFails, Take, SeeShutdown, RunJob, Report,
                Lose, LoseLast, Requeue, Kill
  <2>5. QED
    BY <2>1, <2>2, <2>3, <2>4
<1>9. CASE UNCHANGED vars
  BY <1>9 DEF vars, Collected
<1>10. QED
  BY <1>1, <1>2, <1>3, <1>4, <1>5, <1>6, <1>7, <1>8, <1>9
     DEF Next, MainNext, Terminated

(* Results are missing when the slots are told to stop, or when the call    *)
(* gives up, only if every slot died (cluster.rs:163-188).                  *)
THEOREM NothingAbandoned == Spec => []AbandonOnlyWhenDead
<1>1. Init => Staged /\ AbandonOnlyWhenDead
  BY DEF Init, Staged, AbandonOnlyWhenDead, ShutdownSet
<1>2. QED
  BY <1>1, StagedNext, TypeCorrect, PTL DEF Spec

-----------------------------------------------------------------------------
(* The inductive invariant behind OnePlace.  Places(j) being a singleton is *)
(* not inductive step by step for a prover: what is, is that no two places  *)
(* name the same job, pair of kinds by pair of kinds, that whatever is      *)
(* somewhere was sent, and that whatever was sent is somewhere.             *)

Busy(s) == slot[s] \in {"running", "requeue"}

Once ==
  /\ \A i, k \in DOMAIN work : work[i].seq = work[k].seq => i = k
  /\ \A i, k \in DOMAIN results : results[i].seq = results[k].seq => i = k
  /\ \A s, t \in pool : Busy(s) /\ Busy(t) /\ held[s].seq = held[t].seq => s = t

Disjoint ==
  /\ \A i \in DOMAIN work, k \in DOMAIN results : work[i].seq # results[k].seq
  /\ \A i \in DOMAIN work, s \in pool : Busy(s) => work[i].seq # held[s].seq
  /\ \A k \in DOMAIN results, s \in pool : Busy(s) => results[k].seq # held[s].seq
  /\ \A i \in DOMAIN work : got[work[i].seq] = "none"
  /\ \A k \in DOMAIN results : got[results[k].seq] = "none"
  /\ \A s \in pool : Busy(s) => got[held[s].seq] = "none"

Known ==
  /\ \A i \in DOMAIN work : work[i].seq \in jobs /\ work[i].seq < sent
  /\ \A k \in DOMAIN results : results[k].seq \in jobs /\ results[k].seq < sent
  /\ \A s \in pool : Busy(s) => held[s].seq \in jobs /\ held[s].seq < sent
  /\ \A j \in jobs : got[j] # "none" => j < sent

Somewhere(j) ==
  \/ \E i \in DOMAIN work : work[i].seq = j
  \/ \E k \in DOMAIN results : results[k].seq = j
  \/ \E s \in pool : Busy(s) /\ held[s].seq = j
  \/ got[j] # "none"

NotLost == \A j \in jobs : j < sent => Somewhere(j)

Apart == Once /\ Disjoint /\ Known /\ NotLost

LEMMA ApartInit == Init => Apart
<1> SUFFICES ASSUME Init PROVE Apart
  OBVIOUS
<1>1. DOMAIN work = {} /\ DOMAIN results = {}
  BY DEF Init
<1>2. \A s \in pool : ~Busy(s)
  BY DEF Init, Busy
<1>3. \A j \in jobs : got[j] = "none" /\ ~(j < sent)
  BY ClusterAssumption DEF Init, Seq0
<1>4. QED
  BY <1>1, <1>2, <1>3 DEF Apart, Once, Disjoint, Known, NotLost

(* Actions of the main thread that only move its program counter.           *)
LEMMA ApartQuiet ==
  ASSUME TypeOK, Apart,
         UNCHANGED <<jobs, pool, sent, work, results, got, held>>,
         \A s \in pool : Busy(s)' <=> Busy(s)
  PROVE  Apart'
BY DEF Apart, Once, Disjoint, Known, NotLost, Somewhere

LEMMA ApartSeed == TypeOK /\ Apart /\ Seed => Apart'
<1> SUFFICES ASSUME TypeOK, Apart, Seed PROVE Apart'
  OBVIOUS
<1> DEFINE e == [seq |-> sent, attempts |-> 0]
<1>1. e \in Job /\ sent \in jobs /\ work' = Append(work, e) /\ sent' = sent + 1
  BY ClusterAssumption DEF Seed, TypeOK, Job, Seq0
<1>2. /\ DOMAIN work = 1..Len(work) /\ DOMAIN work' = 1..(Len(work) + 1)
      /\ Len(work) \in Nat
      /\ \A i \in DOMAIN work : work'[i] = work[i]
      /\ work'[Len(work) + 1] = e
  BY <1>1, AppendIndex DEF TypeOK
<1>3. UNCHANGED <<jobs, pool, results, got, held, slot>>
  BY DEF Seed
<1>4. sent \in Nat /\ \A j \in jobs : j \in Nat
  BY ClusterAssumption DEF TypeOK, Seq0
<1>5. \A i \in DOMAIN work' : i \in DOMAIN work \/ (i = Len(work) + 1 /\ work'[i].seq = sent)
  BY <1>2
<1>6. \A s \in pool : Busy(s)' <=> Busy(s)
  BY <1>3 DEF Busy
<1>7. Once'
  BY <1>2, <1>3, <1>4, <1>5, <1>6 DEF Apart, Once, Known
<1>8. Disjoint'
  BY <1>1, <1>2, <1>3, <1>4, <1>5, <1>6 DEF Apart, Disjoint, Known
<1>9. Known'
  <2>1. \A j \in jobs : j < sent => j < sent + 1
    BY <1>4
  <2>2. \A i \in DOMAIN work' : work'[i].seq \in jobs /\ work'[i].seq < sent + 1
    <3> SUFFICES ASSUME NEW i \in DOMAIN work'
                 PROVE  work'[i].seq \in jobs /\ work'[i].seq < sent + 1
      OBVIOUS
    <3>1. CASE i \in DOMAIN work
      <4>1. work'[i] = work[i] /\ work[i].seq \in jobs /\ work[i].seq < sent
        BY <1>2, <3>1 DEF Apart, Known
      <4>2. QED
        BY <4>1, <2>1
    <3>2. CASE i = Len(work) + 1
      <4>1. work'[i].seq = sent
        BY <1>2, <3>2
      <4>2. QED
        BY <4>1, <1>1, <1>4
    <3>3. QED
      BY <1>5, <3>1, <3>2
  <2>3. \A k \in DOMAIN results' : results'[k].seq \in jobs /\ results'[k].seq < sent + 1
    BY <1>3, <2>1 DEF Apart, Known
  <2>4. QED
    BY <1>1, <1>3, <1>6, <2>1, <2>2, <2>3 DEF Apart, Known
<1>10. NotLost'
  <2> SUFFICES ASSUME NEW j \in jobs, j < sent + 1 PROVE Somewhere(j)'
    BY <1>1, <1>3 DEF NotLost
  <2>1. CASE j = sent
    BY <2>1, <1>2 DEF Somewhere
  <2>2. CASE j < sent
    BY <2>2, <1>2, <1>3, <1>6 DEF Apart, NotLost, Somewhere
  <2>3. QED
    BY <2>1, <2>2, <1>4
<1>11. QED
  BY <1>7, <1>8, <1>9, <1>10 DEF Apart

LEMMA ApartCollect == TypeOK /\ Apart /\ Collect => Apart'
<1> SUFFICES ASSUME TypeOK, Apart, Collect PROVE Apart'
  OBVIOUS
<1> DEFINE h == results[1].seq
<1>1. /\ 1 \in DOMAIN results /\ Head(results) = results[1] /\ results[1] \in Result
      /\ \A i \in DOMAIN results' : i + 1 \in DOMAIN results /\ results'[i] = results[i + 1]
      /\ \A i \in DOMAIN results : i # 1 => i - 1 \in DOMAIN results' /\ results'[i - 1] = results[i]
  BY TailIndex DEF Collect, TypeOK
<1>2. DOMAIN results = 1..Len(results) /\ Len(results) \in Nat
  BY LenProperties DEF TypeOK
<1>3. \A i \in DOMAIN results' : i \in Nat /\ i >= 1
  <2>1. results' \in Seq(Result)
    BY TailIndex DEF Collect, TypeOK
  <2>2. QED
    BY <2>1, LenProperties
<1>4. UNCHANGED <<jobs, pool, sent, work, held, slot>>
  BY DEF Collect
<1>5. h \in jobs /\ got[h] = "none" /\ h < sent
  BY <1>1 DEF Apart, Known, Disjoint
<1>6. /\ got' = [got EXCEPT ![h] = results[1].outcome]
      /\ got'[h] # "none"
      /\ \A j \in jobs : j # h => got'[j] = got[j]
  BY <1>1, <1>5 DEF Collect, TypeOK, Result, Outcomes
<1>7. \A s \in pool : Busy(s)' <=> Busy(s)
  BY <1>4 DEF Busy
<1>8. \A i \in DOMAIN results' : results'[i].seq # h
  BY <1>1, <1>2, <1>3 DEF Apart, Once
<1>9. Once'
  BY <1>1, <1>3, <1>4, <1>7 DEF Apart, Once
<1>10. Disjoint'
  BY <1>1, <1>4, <1>5, <1>6, <1>7, <1>8 DEF Apart, Disjoint, Known
<1>11. Known'
  BY <1>1, <1>4, <1>5, <1>6, <1>7 DEF Apart, Known
<1>12. NotLost'
  <2> SUFFICES ASSUME NEW j \in jobs, j < sent PROVE Somewhere(j)'
    BY <1>4 DEF NotLost
  <2>1. CASE j = h
    BY <2>1, <1>6 DEF Somewhere
  <2>2. CASE j # h
    <3>1. Somewhere(j)
      BY DEF Apart, NotLost
    <3>2. QED
      BY <3>1, <2>2, <1>1, <1>4, <1>6, <1>7 DEF Somewhere
  <2>3. QED
    BY <2>1, <2>2
<1>13. QED
  BY <1>9, <1>10, <1>11, <1>12 DEF Apart

LEMMA ApartTake ==
  ASSUME TypeOK, Apart, NEW s \in pool, Take(s) PROVE Apart'
<1> DEFINE h == work[1].seq
<1>1. /\ 1 \in DOMAIN work /\ Head(work) = work[1] /\ work[1] \in Job
      /\ \A i \in DOMAIN work' : i + 1 \in DOMAIN work /\ work'[i] = work[i + 1]
      /\ \A i \in DOMAIN work : i # 1 => i - 1 \in DOMAIN work' /\ work'[i - 1] = work[i]
      /\ work' \in Seq(Job)
  BY TailIndex DEF Take, TypeOK
<1>2. \A i \in DOMAIN work' : i \in Nat /\ i >= 1
  BY <1>1, LenProperties
<1>3. UNCHANGED <<jobs, pool, sent, results, got>>
  BY DEF Take
<1>4. /\ ~Busy(s) /\ Busy(s)' /\ held'[s].seq = h
      /\ \A t \in pool : t # s => (Busy(t)' <=> Busy(t)) /\ held'[t] = held[t]
  BY <1>1 DEF Take, TypeOK, Busy
<1>5. h \in jobs /\ h < sent /\ got[h] = "none"
  BY <1>1 DEF Apart, Known, Disjoint
<1>6. \A i \in DOMAIN work' : work'[i].seq # h
  BY <1>1, <1>2 DEF Apart, Once
<1>7. \A t \in pool : Busy(t) => held[t].seq # h
  BY <1>1 DEF Apart, Disjoint
<1>8. \A k \in DOMAIN results : results[k].seq # h
  BY <1>1 DEF Apart, Disjoint
<1>9. Once'
  <2>1. \A i, k \in DOMAIN work' : work'[i].seq = work'[k].seq => i = k
    <3> SUFFICES ASSUME NEW i \in DOMAIN work', NEW k \in DOMAIN work',
                        work'[i].seq = work'[k].seq
                 PROVE  i = k
      OBVIOUS
    <3>1. i + 1 = k + 1
      BY <1>1 DEF Apart, Once
    <3>2. QED
      BY <1>2, <3>1
  <2>2. \A t, u \in pool :
          Busy(t)' /\ Busy(u)' /\ held'[t].seq = held'[u].seq => t = u
    BY <1>4, <1>7 DEF Apart, Once
  <2>3. QED
    BY <1>3, <2>1, <2>2 DEF Apart, Once
<1>10. Disjoint'
  <2>1. \A i \in DOMAIN work', k \in DOMAIN results : work'[i].seq # results[k].seq
    BY <1>1 DEF Apart, Disjoint
  <2>2. \A i \in DOMAIN work', t \in pool : Busy(t)' => work'[i].seq # held'[t].seq
    BY <1>1, <1>4, <1>6 DEF Apart, Disjoint
  <2>3. \A k \in DOMAIN results, t \in pool : Busy(t)' => results[k].seq # held'[t].seq
    BY <1>4, <1>8 DEF Apart, Disjoint
  <2>4. \A i \in DOMAIN work' : got[work'[i].seq] = "none"
    BY <1>1 DEF Apart, Disjoint
  <2>5. \A t \in pool : Busy(t)' => got[held'[t].seq] = "none"
    BY <1>4, <1>5 DEF Apart, Disjoint
  <2>6. QED
    BY <1>3, <2>1, <2>2, <2>3, <2>4, <2>5 DEF Apart, Disjoint
<1>11. Known'
  BY <1>1, <1>3, <1>4, <1>5 DEF Apart, Known
<1>12. NotLost'
  <2> SUFFICES ASSUME NEW j \in jobs, j < sent PROVE Somewhere(j)'
    BY <1>3 DEF NotLost
  <2>1. CASE j = h
    BY <2>1, <1>3, <1>4 DEF Somewhere
  <2>2. CASE j # h
    <3>1. Somewhere(j)
      BY DEF Apart, NotLost
    <3>2. QED
      BY <3>1, <2>2, <1>1, <1>3, <1>4 DEF Somewhere
  <2>3. QED
    BY <2>1, <2>2
<1>13. QED
  BY <1>9, <1>10, <1>11, <1>12 DEF Apart

(* A slot thread hands its job to the result channel and lets go of it:     *)
(* what Report and LoseLast have in common.                                 *)
LEMMA ApartHandIn ==
  ASSUME TypeOK, Apart, NEW s \in pool, Busy(s), NEW o \in Outcomes,
         results' = Append(results, [seq |-> held[s].seq, outcome |-> o]),
         UNCHANGED <<jobs, pool, sent, work, got>>,
         ~Busy(s)',
         \A t \in pool : t # s => (Busy(t)' <=> Busy(t)) /\ held'[t] = held[t]
  PROVE  Apart'
<1> DEFINE r == [seq |-> held[s].seq, outcome |-> o]
<1>1. r \in Result
  BY DEF TypeOK, Job, Result
<1>2. /\ DOMAIN results = 1..Len(results) /\ DOMAIN results' = 1..(Len(results) + 1)
      /\ Len(results) \in Nat
      /\ \A i \in DOMAIN results : results'[i] = results[i]
      /\ results'[Len(results) + 1] = r
  BY <1>1, AppendIndex DEF TypeOK
<1>3. \A i \in DOMAIN results' :
        i \in DOMAIN results \/ (i = Len(results) + 1 /\ results'[i].seq = held[s].seq)
  BY <1>2
<1>4. /\ held[s].seq \in jobs /\ held[s].seq < sent /\ got[held[s].seq] = "none"
      /\ \A i \in DOMAIN work : work[i].seq # held[s].seq
      /\ \A k \in DOMAIN results : results[k].seq # held[s].seq
      /\ \A t \in pool : t # s /\ Busy(t) => held[t].seq # held[s].seq
  BY DEF Apart, Known, Disjoint, Once
<1>5. Once'
  BY <1>2, <1>3, <1>4 DEF Apart, Once
<1>6. Disjoint'
  BY <1>2, <1>3, <1>4 DEF Apart, Disjoint
<1>7. Known'
  BY <1>2, <1>3, <1>4 DEF Apart, Known
<1>8. NotLost'
  <2> SUFFICES ASSUME NEW j \in jobs, j < sent PROVE Somewhere(j)'
    BY DEF NotLost
  <2>1. CASE j = held[s].seq
    BY <2>1, <1>2 DEF Somewhere
  <2>2. CASE j # held[s].seq
    <3>1. Somewhere(j)
      BY DEF Apart, NotLost
    <3>2. QED
      BY <3>1, <2>2, <1>2 DEF Somewhere
  <2>3. QED
    BY <2>1, <2>2
<1>9. QED
  BY <1>5, <1>6, <1>7, <1>8 DEF Apart

LEMMA ApartRequeue ==
  ASSUME TypeOK, Apart, NEW s \in pool, Requeue(s) PROVE Apart'
<1>1. /\ DOMAIN work = 1..Len(work) /\ DOMAIN work' = 1..(Len(work) + 1)
      /\ Len(work) \in Nat
      /\ \A i \in DOMAIN work : work'[i] = work[i]
      /\ work'[Len(work) + 1] = held[s]
  BY AppendIndex DEF Requeue, TypeOK
<1>2. /\ Busy(s) /\ ~Busy(s)'
      /\ \A t \in pool : t # s => (Busy(t)' <=> Busy(t)) /\ held'[t] = held[t]
  BY DEF Requeue, TypeOK, Busy
<1>3. UNCHANGED <<jobs, pool, sent, results, got>>
  BY DEF Requeue
<1>4. \A i \in DOMAIN work' :
        i \in DOMAIN work \/ (i = Len(work) + 1 /\ work'[i].seq = held[s].seq)
  BY <1>1
<1>5. /\ held[s].seq \in jobs /\ held[s].seq < sent /\ got[held[s].seq] = "none"
      /\ \A i \in DOMAIN work : work[i].seq # held[s].seq
      /\ \A k \in DOMAIN results : results[k].seq # held[s].seq
      /\ \A t \in pool : t # s /\ Busy(t) => held[t].seq # held[s].seq
  BY <1>2 DEF Apart, Known, Disjoint, Once
<1>6. Once'
  BY <1>1, <1>2, <1>3, <1>4, <1>5 DEF Apart, Once
<1>7. Disjoint'
  BY <1>1, <1>2, <1>3, <1>4, <1>5 DEF Apart, Disjoint
<1>8. Known'
  BY <1>1, <1>2, <1>3, <1>4, <1>5 DEF Apart, Known
<1>9. NotLost'
  <2> SUFFICES ASSUME NEW j \in jobs, j < sent PROVE Somewhere(j)'
    BY <1>3 DEF NotLost
  <2>1. CASE j = held[s].seq
    BY <2>1, <1>1 DEF Somewhere
  <2>2. CASE j # held[s].seq
    <3>1. Somewhere(j)
      BY DEF Apart, NotLost
    <3>2. QED
      BY <3>1, <2>2, <1>1, <1>2, <1>3 DEF Somewhere
  <2>3. QED
    BY <2>1, <2>2
<1>10. QED
  BY <1>6, <1>7, <1>8, <1>9 DEF Apart

LEMMA ApartLose ==
  ASSUME TypeOK, Apart, NEW s \in pool, Lose(s) PROVE Apart'
<1>1. UNCHANGED <<jobs, pool, sent, work, results, got>>
  BY DEF Lose
<1>2. \A t \in pool : (Busy(t)' <=> Busy(t)) /\ held'[t].seq = held[t].seq
  BY DEF Lose, TypeOK, Busy
<1>3. QED
  BY <1>1, <1>2 DEF Apart, Once, Disjoint, Known, NotLost, Somewhere

LEMMA ApartNext == TypeOK /\ Staged /\ Apart /\ [Next]_vars => Apart'
<1> SUFFICES ASSUME TypeOK, Staged, Apart, [Next]_vars PROVE Apart'
  OBVIOUS
<1>1. CASE ReturnEarly
  BY <1>1, ApartQuiet DEF ReturnEarly, Busy
<1>2. CASE SpawnSlots
  <2>1. \A s \in pool : ~Busy(s) /\ ~Busy(s)'
    BY <1>2 DEF SpawnSlots, Staged, Busy
  <2>2. QED
    BY <1>2, <2>1, ApartQuiet DEF SpawnSlots
<1>3. CASE Seed
  BY <1>3, ApartSeed
<1>4. CASE SeedFails \/ SeedDone \/ CollectDone \/ JoinAndStitch
  BY <1>4, ApartQuiet DEF SeedFails, SeedDone, CollectDone, JoinAndStitch, Busy
<1>5. CASE Collect
  BY <1>5, ApartCollect
<1>6. ASSUME NEW s \in pool, SlotNext(s) PROVE Apart'
  <2>1. CASE Open(s) \/ OpenFails(s) \/ SeeShutdown(s) \/ Kill(s)
    <3>1. \A t \in pool : Busy(t)' <=> Busy(t)
      BY <2>1 DEF Open, OpenFails, SeeShutdown, Kill, Busy, TypeOK
    <3>2. QED
      BY <2>1, <3>1, ApartQuiet DEF Open, OpenFails, SeeShutdown, Kill
  <2>2. CASE Take(s)
    BY <2>2, ApartTake
  <2>3. ASSUME NEW o \in Outcomes, Report(s, o) PROVE Apart'
    <3>1. Busy(s) /\ ~Busy(s)'
      BY <2>3 DEF Report, Busy, TypeOK
    <3>2. \A t \in pool : t # s => (Busy(t)' <=> Busy(t)) /\ held'[t] = held[t]
      BY <2>3 DEF Report, Busy, TypeOK
    <3>3. QED
      BY <2>3, <3>1, <3>2, ApartHandIn DEF Report
  <2>4. CASE Lose(s)
    BY <2>4, ApartLose
  <2>5. CASE LoseLast(s)
    <3>1. Busy(s) /\ ~Busy(s)' /\ "err" \in Outcomes
      BY <2>5 DEF LoseLast, Busy, TypeOK, Outcomes
    <3>2. \A t \in pool : t # s => (Busy(t)' <=> Busy(t)) /\ held'[t] = held[t]
      BY <2>5 DEF LoseLast, Busy, TypeOK
    <3>3. QED
      BY <2>5, <3>1, <3>2, ApartHandIn DEF LoseLast
  <2>6. CASE Requeue(s)
    BY <2>6, ApartRequeue
  <2>7. QED
    BY <1>6, <2>1, <2>2, <2>3, <2>4, <2>5, <2>6 DEF SlotNext, RunJob
<1>7. CASE UNCHANGED vars
  BY <1>7, ApartQuiet DEF vars, Busy
<1>8. QED
  BY <1>1, <1>2, <1>3, <1>4, <1>5, <1>6, <1>7 DEF Next, MainNext, Terminated

(* Exactly one place: what Apart says pair by pair.                         *)
LEMMA ApartIsOnePlace == TypeOK /\ Apart => OnePlace
<1> SUFFICES ASSUME TypeOK, Apart, NEW j \in jobs
             PROVE  IF j < sent THEN \E p \in Places(j) : Places(j) = {p}
                                ELSE Places(j) = {}
  BY DEF OnePlace
<1>1. \A p, q \in Places(j) : p = q
  <2>1. \A i, k \in DOMAIN work : work[i].seq = j /\ work[k].seq = j => i = k
    BY DEF Apart, Once
  <2>2. \A i, k \in DOMAIN results : results[i].seq = j /\ results[k].seq = j => i = k
    BY DEF Apart, Once
  <2>3. \A s, t \in pool : Busy(s) /\ Busy(t) /\ held[s].seq = j /\ held[t].seq = j => s = t
    BY DEF Apart, Once
  <2>4. \A i \in DOMAIN work : work[i].seq = j =>
          /\ got[j] = "none"
          /\ \A k \in DOMAIN results : results[k].seq # j
          /\ \A s \in pool : Busy(s) => held[s].seq # j
    BY DEF Apart, Disjoint
  <2>5. \A k \in DOMAIN results : results[k].seq = j =>
          /\ got[j] = "none"
          /\ \A s \in pool : Busy(s) => held[s].seq # j
    BY DEF Apart, Disjoint
  <2>6. \A s \in pool : Busy(s) /\ held[s].seq = j => got[j] = "none"
    BY DEF Apart, Disjoint
  <2>7. QED
    BY <2>1, <2>2, <2>3, <2>4, <2>5, <2>6 DEF Places, Busy
<1>2. CASE j < sent
  <2>1. Somewhere(j)
    BY <1>2 DEF Apart, NotLost
  <2>2. \E p : p \in Places(j)
    BY <2>1 DEF Somewhere, Places, Busy
  <2>3. QED
    BY <1>1, <1>2, <2>2
<1>3. CASE ~(j < sent)
  BY <1>3 DEF Apart, Known, Places, Busy
<1>4. QED
  BY <1>2, <1>3

(* No job is ever lost, duplicated or invented: a job that was sent is in   *)
(* the queue, with one slot, in the result channel or collected, and in     *)
(* only one of them (cluster.rs:163-176, :310-331).                         *)
THEOREM JobsConserved == Spec => []OnePlace
<1>1. Init => Staged /\ AbandonOnlyWhenDead
  BY DEF Init, Staged, AbandonOnlyWhenDead, ShutdownSet
<1>2. TypeOK /\ Staged /\ AbandonOnlyWhenDead /\ Apart /\ [Next]_vars
        => Staged' /\ AbandonOnlyWhenDead' /\ Apart'
  BY StagedNext, ApartNext
<1>3. QED
  BY <1>1, <1>2, ApartInit, ApartIsOnePlace, TypeCorrect, PTL DEF Spec

-----------------------------------------------------------------------------
(* The attempts a job carries are the times it was sent to a remote worker, *)
(* and a job that may still be sent has attempts left.  That the count is   *)
(* the job's own rests on Apart: no other copy of it is ever sent.          *)

Counted ==
  /\ \A i \in DOMAIN work : /\ work[i].attempts < MaxAttempts
                            /\ ran[work[i].seq] = work[i].attempts
  /\ \A s \in pool : slot[s] = "running" => /\ held[s].attempts < MaxAttempts
                                            /\ ran[held[s].seq] = held[s].attempts + 1
  /\ \A s \in pool : slot[s] = "requeue" => /\ held[s].attempts < MaxAttempts
                                            /\ ran[held[s].seq] = held[s].attempts
  /\ \A j \in jobs : ~(j < sent) => ran[j] = 0

Budgeted == Counted /\ RetryBudget

LEMMA BudgetTake ==
  ASSUME TypeOK, Apart, Budgeted, NEW s \in pool, Take(s) PROVE Budgeted'
<1> DEFINE h == work[1].seq
<1>1. /\ 1 \in DOMAIN work /\ Head(work) = work[1] /\ work[1] \in Job
      /\ \A i \in DOMAIN work' : i + 1 \in DOMAIN work /\ work'[i] = work[i + 1]
      /\ work' \in Seq(Job)
  BY TailIndex DEF Take, TypeOK
<1>2. \A i \in DOMAIN work' : i + 1 # 1
  BY <1>1, LenProperties
<1>3. UNCHANGED <<jobs, pool, sent>> /\ ran' = [ran EXCEPT ![h] = @ + 1]
  BY <1>1 DEF Take
<1>4. /\ slot'[s] = "running" /\ held'[s] = work[1] /\ slot[s] = "idle"
      /\ \A t \in pool : t # s => slot'[t] = slot[t] /\ held'[t] = held[t]
  BY <1>1 DEF Take, TypeOK
<1>5. h \in jobs /\ h < sent
  BY <1>1 DEF Apart, Known
<1>6. \A i \in DOMAIN work' : work'[i].seq # h /\ work'[i].seq \in jobs
  BY <1>1, <1>2 DEF Apart, Once, Known
<1>7. \A t \in pool : Busy(t) => held[t].seq # h /\ held[t].seq \in jobs
  BY <1>1 DEF Apart, Disjoint, Known
<1>8. work[1].attempts \in Nat /\ work[1].attempts < MaxAttempts /\ ran[h] = work[1].attempts
  BY <1>1 DEF Budgeted, Counted, Job
<1>9. ran'[h] = work[1].attempts + 1 /\ \A j \in jobs : j # h => ran'[j] = ran[j]
  BY <1>3, <1>5, <1>8 DEF TypeOK
<1>10. Counted'
  <2>1. \A i \in DOMAIN work' : /\ work'[i].attempts < MaxAttempts
                                /\ ran'[work'[i].seq] = work'[i].attempts
    BY <1>1, <1>6, <1>9 DEF Budgeted, Counted
  <2>2. \A t \in pool : slot'[t] = "running" =>
          held'[t].attempts < MaxAttempts /\ ran'[held'[t].seq] = held'[t].attempts + 1
    BY <1>4, <1>7, <1>8, <1>9 DEF Budgeted, Counted, Busy
  <2>3. \A t \in pool : slot'[t] = "requeue" =>
          held'[t].attempts < MaxAttempts /\ ran'[held'[t].seq] = held'[t].attempts
    BY <1>4, <1>7, <1>9 DEF Budgeted, Counted, Busy
  <2>4. \A j \in jobs : ~(j < sent) => ran'[j] = 0
    BY <1>5, <1>9 DEF Budgeted, Counted
  <2>5. QED
    BY <1>3, <2>1, <2>2, <2>3, <2>4 DEF Counted
<1>11. RetryBudget'
  <2>1. ran'[h] <= MaxAttempts
    BY <1>8, <1>9, ClusterAssumption
  <2>2. QED
    BY <1>3, <1>9, <2>1 DEF Budgeted, RetryBudget
<1>12. QED
  BY <1>10, <1>11 DEF Budgeted

LEMMA BudgetNext == TypeOK /\ Staged /\ Apart /\ Budgeted /\ [Next]_vars => Budgeted'
<1> SUFFICES ASSUME TypeOK, Staged, Apart, Budgeted, [Next]_vars PROVE Budgeted'
  OBVIOUS
<1>quiet. ASSUME UNCHANGED <<jobs, pool, sent, work, ran>>,
                 \A t \in pool : slot'[t] \in {"running", "requeue"} =>
                                   slot'[t] = slot[t] /\ held'[t] = held[t]
          PROVE  Budgeted'
  BY <1>quiet DEF Budgeted, Counted, RetryBudget
<1>1. CASE MainNext /\ ~Seed
  <2>1. UNCHANGED <<jobs, pool, sent, work, ran, held>>
    BY <1>1 DEF MainNext, ReturnEarly, SpawnSlots, SeedFails, SeedDone, Collect, CollectDone,
       JoinAndStitch
  <2>2. \A t \in pool : slot'[t] = slot[t] \/ slot'[t] = "opening"
    BY <1>1 DEF MainNext, ReturnEarly, SpawnSlots, SeedFails, SeedDone, Collect, CollectDone,
       JoinAndStitch
  <2>3. QED
    BY <1>quiet, <2>1, <2>2
<1>2. CASE Seed
  <2> DEFINE e == [seq |-> sent, attempts |-> 0]
  <2>1. e \in Job /\ sent \in jobs /\ work' = Append(work, e) /\ sent' = sent + 1
    BY <1>2, ClusterAssumption DEF Seed, TypeOK, Job, Seq0
  <2>2. /\ DOMAIN work = 1..Len(work) /\ DOMAIN work' = 1..(Len(work) + 1)
        /\ \A i \in DOMAIN work : work'[i] = work[i]
        /\ work'[Len(work) + 1] = e /\ Len(work) \in Nat
    BY <2>1, AppendIndex DEF TypeOK
  <2>3. \A i \in DOMAIN work' : i \in DOMAIN work \/ work'[i] = e
    BY <2>2
  <2>4. UNCHANGED <<jobs, pool, ran, slot, held>>
    BY <1>2 DEF Seed
  <2>5. sent \in Nat /\ \A j \in jobs : j \in Nat
    BY ClusterAssumption DEF TypeOK, Seq0
  <2>6. ran[sent] = 0
    BY <2>1, <2>5 DEF Budgeted, Counted
  <2>7. \A i \in DOMAIN work' : work'[i].attempts < MaxAttempts /\ ran[work'[i].seq] = work'[i].attempts
    BY <2>2, <2>3, <2>6, ClusterAssumption DEF Budgeted, Counted
  <2>8. \A j \in jobs : ~(j < sent + 1) => ~(j < sent)
    BY <2>5
  <2>9. Counted'
    BY <2>1, <2>4, <2>7, <2>8 DEF Budgeted, Counted
  <2>10. QED
    BY <2>4, <2>9 DEF Budgeted, RetryBudget
<1>3. ASSUME NEW s \in pool, SlotNext(s) PROVE Budgeted'
  <2>1. CASE Open(s) \/ OpenFails(s) \/ SeeShutdown(s) \/ Kill(s)
    <3>1. UNCHANGED <<jobs, pool, sent, work, ran, held>>
      BY <2>1 DEF Open, OpenFails, SeeShutdown, Kill
    <3>2. \A t \in pool : slot'[t] = slot[t] \/ slot'[t] \in {"idle", "dead", "done"}
      BY <2>1 DEF Open, OpenFails, SeeShutdown, Kill, TypeOK
    <3>3. QED
      BY <1>quiet, <3>1, <3>2
  <2>2. CASE Take(s)
    BY <2>2, BudgetTake
  <2>3. CASE (\E o \in Outcomes : Report(s, o)) \/ LoseLast(s)
    <3>1. UNCHANGED <<jobs, pool, sent, work, ran>>
      BY <2>3 DEF Report, LoseLast
    <3>2. \A t \in pool : \/ slot'[t] = slot[t] /\ held'[t] = held[t]
                          \/ slot'[t] \in {"idle", "killing"}
      BY <2>3 DEF Report, LoseLast, TypeOK
    <3>3. QED
      BY <1>quiet, <3>1, <3>2
  <2>4. CASE Lose(s)
    <3>1. UNCHANGED <<jobs, pool, sent, work, ran>>
      BY <2>4 DEF Lose
    <3>2. /\ slot[s] = "running" /\ slot'[s] = "requeue" /\ held[s].attempts + 1 < MaxAttempts
          /\ held'[s].seq = held[s].seq /\ held'[s].attempts = held[s].attempts + 1
          /\ \A t \in pool : t # s => slot'[t] = slot[t] /\ held'[t] = held[t]
      BY <2>4 DEF Lose, TypeOK
    <3>3. QED
      BY <3>1, <3>2 DEF Budgeted, Counted, RetryBudget
  <2>5. CASE Requeue(s)
    <3>1. /\ DOMAIN work = 1..Len(work) /\ DOMAIN work' = 1..(Len(work) + 1)
          /\ \A i \in DOMAIN work : work'[i] = work[i]
          /\ work'[Len(work) + 1] = held[s] /\ Len(work) \in Nat
      BY <2>5, AppendIndex DEF Requeue, TypeOK
    <3>2. \A i \in DOMAIN work' : i \in DOMAIN work \/ work'[i] = held[s]
      BY <3>1
    <3>3. UNCHANGED <<jobs, pool, sent, ran>>
      BY <2>5 DEF Requeue
    <3>4. /\ slot[s] = "requeue" /\ slot'[s] = "killing"
          /\ \A t \in pool : t # s => slot'[t] = slot[t] /\ held'[t] = held[t]
      BY <2>5 DEF Requeue, TypeOK
    <3>5. held[s].attempts < MaxAttempts /\ ran[held[s].seq] = held[s].attempts
      BY <3>4 DEF Budgeted, Counted
    <3>6. \A i \in DOMAIN work' : work'[i].attempts < MaxAttempts /\ ran[work'[i].seq] = work'[i].attempts
      BY <3>1, <3>2, <3>5 DEF Budgeted, Counted
    <3>7. QED
      BY <3>3, <3>4, <3>6 DEF Budgeted, Counted, RetryBudget
  <2>6. QED
    BY <1>3, <2>1, <2>2, <2>3, <2>4, <2>5 DEF SlotNext, RunJob
<1>4. CASE UNCHANGED vars
  BY <1>4, <1>quiet DEF vars
<1>5. QED
  BY <1>1, <1>2, <1>3, <1>4 DEF Next, Terminated

(* A job is sent to remote workers at most max_attempts times in all,       *)
(* whichever slots tried it and failed (cluster.rs:316-317).                *)
THEOREM RetriesBounded == Spec => []RetryBudget
<1>1. Init => Staged /\ AbandonOnlyWhenDead
  BY DEF Init, Staged, AbandonOnlyWhenDead, ShutdownSet
<1>2. Init => Budgeted
  BY ClusterAssumption DEF Init, Budgeted, Counted, RetryBudget
<1>3. TypeOK /\ Staged /\ AbandonOnlyWhenDead /\ Apart /\ Budgeted /\ [Next]_vars
        => Staged' /\ AbandonOnlyWhenDead' /\ Apart' /\ Budgeted'
  BY StagedNext, ApartNext, BudgetNext
<1>4. Budgeted => RetryBudget
  BY DEF Budgeted
<1>5. QED
  BY <1>1, <1>2, <1>3, <1>4, ApartInit, TypeCorrect, PTL DEF Spec

-----------------------------------------------------------------------------
(* The refinement.  A job's verdict is fixed when a slot puts its result in *)
(* the channel: collecting it, or stitching, changes nothing any more.      *)

LEMMA TheResult ==
  ASSUME NEW r, NEW i \in DOMAIN r, NEW j, r[i].seq = j,
         \A k \in DOMAIN r : r[k].seq = j => k = i
  PROVE  r[CHOOSE k \in DOMAIN r : r[k].seq = j] = r[i]
OBVIOUS

LEMMA VerdictIs ==
  ASSUME TypeOK, Apart
  PROVE  /\ \A i \in DOMAIN results : Verdict(results[i].seq) = results[i].outcome
         /\ \A j \in jobs : got[j] # "none" => Verdict(j) = got[j]
         /\ \A j \in jobs :
              got[j] = "none" /\ (\A i \in DOMAIN results : results[i].seq # j)
                => Verdict(j) = "none"
<1>1. ASSUME NEW i \in DOMAIN results PROVE Verdict(results[i].seq) = results[i].outcome
  <2> DEFINE j == results[i].seq
  <2>1. got[j] = "none"
    BY DEF Apart, Disjoint
  <2>2. \A k \in DOMAIN results : results[k].seq = j => k = i
    BY DEF Apart, Once
  <2>3. results[CHOOSE k \in DOMAIN results : results[k].seq = j] = results[i]
    BY <2>2, TheResult
  <2>4. QED
    BY <2>1, <2>3 DEF Verdict
<1>2. ASSUME NEW j \in jobs, got[j] # "none" PROVE Verdict(j) = got[j]
  BY <1>2 DEF Verdict
<1>3. ASSUME NEW j \in jobs, got[j] = "none", \A i \in DOMAIN results : results[i].seq # j
      PROVE  Verdict(j) = "none"
  BY <1>3 DEF Verdict
<1>4. QED
  BY <1>1, <1>2, <1>3

(* What the caller's answer rests on: nothing moves after it, none comes    *)
(* early, and what is stitched is what was decided.                         *)
Settling ==
  /\ main = "start" => sent = 0
  /\ main # "returned" => answer = "none"
  /\ main = "returned" => \A s \in pool : slot[s] = "unborn" \/ Exited(s)
  /\ main \in {"seed", "collect", "join"} => pool # {}
  /\ main = "join" => Collected = jobs \/ (results = <<>> /\ AllExited)

LEMMA SettlingNext == TypeOK /\ Staged /\ Settling /\ [Next]_vars => Settling'
<1> SUFFICES ASSUME TypeOK, Staged, Settling, [Next]_vars PROVE Settling'
  OBVIOUS
<1>1. CASE ReturnEarly
  BY <1>1 DEF ReturnEarly, Settling, Staged, Exited
<1>2. CASE SpawnSlots
  BY <1>2 DEF SpawnSlots, Settling
<1>3. CASE Seed \/ SeedDone
  BY <1>3 DEF Seed, SeedDone, Settling
<1>4. CASE SeedFails
  BY <1>4 DEF SeedFails, Settling, AllExited, Exited
<1>5. CASE Collect
  BY <1>5 DEF Collect, Settling
<1>6. CASE CollectDone
  <2>1. Collected' = Collected /\ (AllExited' <=> AllExited)
    BY <1>6 DEF CollectDone, Collected, AllExited, Exited
  <2>2. UNCHANGED <<jobs, pool, sent, results, answer>> /\ main = "collect" /\ main' = "join"
    BY <1>6 DEF CollectDone
  <2>3. Collected = jobs \/ (results = <<>> /\ AllExited)
    BY <1>6 DEF CollectDone
  <2>4. QED
    BY <2>1, <2>2, <2>3 DEF Settling
<1>7. CASE JoinAndStitch
  BY <1>7 DEF JoinAndStitch, Settling, AllExited, Exited
<1>8. ASSUME NEW s \in pool, SlotNext(s) PROVE Settling'
  <2>1. UNCHANGED <<main, jobs, pool, sent, got, answer>> /\ Collected' = Collected
    BY <1>8 DEF SlotNext, Open, OpenFails, Take, SeeShutdown, RunJob, Report,
                Lose, LoseLast, Requeue, Kill, Collected
  <2>2. slot[s] \notin {"dead", "done", "unborn"}
    BY <1>8 DEF SlotNext, Open, OpenFails, Take, SeeShutdown, RunJob, Report,
                Lose, LoseLast, Requeue, Kill
  <2>3. ~AllExited /\ main # "returned"
    BY <2>2 DEF Settling, AllExited, Exited
  <2>4. QED
    BY <2>1, <2>3 DEF Settling
<1>9. CASE UNCHANGED vars
  BY <1>9 DEF vars, Settling, Collected, AllExited, Exited
<1>10. QED
  BY <1>1, <1>2, <1>3, <1>4, <1>5, <1>6, <1>7, <1>8, <1>9
     DEF Next, MainNext, Terminated

Dead == {s \in pool : slot[s] = "dead"}
Verdicts == [j \in jobs |-> Verdict(j)]

LEMMA AbstractInit == Init => Abstract!Init
<1> SUFFICES ASSUME Init PROVE Abstract!Init
  OBVIOUS
<1>1. Dead = {}
  BY DEF Init, Dead
<1>2. \A j \in jobs : Verdict(j) = "none"
  BY DEF Init, Verdict
<1>3. \E n \in 0..MaxJobs : jobs = {j \in 0..MaxJobs : j < n}
  BY DEF Init, Seq0
<1>4. Verdicts = [j \in jobs |-> "none"]
  BY <1>2 DEF Verdicts
<1>5. QED
  BY <1>1, <1>3, <1>4 DEF Init, Abstract!Init, Dead, Verdicts

(* A step that decides nothing, kills no slot and does not answer.          *)
LEMMA AbstractStutter ==
  ASSUME UNCHANGED <<jobs, pool, answer>>, Dead' = Dead, \A j \in jobs : Verdict(j)' = Verdict(j)
  PROVE  UNCHANGED Abstract!vars
<1>1. Verdicts' = Verdicts
  BY DEF Verdicts
<1>2. QED
  BY <1>1 DEF Abstract!vars, Dead, Verdicts

(* A slot reports a job it holds, as a result or as a job that used up its  *)
(* attempts: the one step that decides.                                     *)
LEMMA AbstractDecide ==
  ASSUME TypeOK, Apart, Apart', TypeOK', Settling, NEW s \in pool, Busy(s), NEW o \in Outcomes,
         results' = Append(results, [seq |-> held[s].seq, outcome |-> o]),
         UNCHANGED <<jobs, pool, got, answer>>,
         slot' = [slot EXCEPT ![s] = slot'[s]], slot'[s] # "dead"
  PROVE  Abstract!Next
<1>0. held[s].seq \in jobs
  BY DEF Apart, Known
<1> PICK h \in jobs : h = held[s].seq
  BY <1>0
<1>1. h \in jobs /\ got[h] = "none" /\ \A k \in DOMAIN results : results[k].seq # h
  BY DEF Apart, Disjoint
<1>2. answer = "none"
  BY DEF Settling, Exited, Busy
<1>3. Dead' = Dead /\ Dead # pool
  BY DEF Dead, Busy, TypeOK
<1>4. Verdict(h) = "none"
  BY <1>1, VerdictIs
<1>5. /\ DOMAIN results = 1..Len(results) /\ DOMAIN results' = 1..(Len(results) + 1)
      /\ Len(results) \in Nat
      /\ \A i \in DOMAIN results : results'[i] = results[i]
      /\ results'[Len(results) + 1] = [seq |-> h, outcome |-> o]
  <2>1. [seq |-> h, outcome |-> o] \in Result
    BY DEF TypeOK, Job, Result
  <2>2. QED
    BY <2>1, AppendIndex DEF TypeOK
<1>6. Verdict(h)' = o
  <2>1. Len(results) + 1 \in DOMAIN results' /\ results'[Len(results) + 1].seq = h
    BY <1>5
  <2>2. \A k \in DOMAIN results' : results'[k].seq = h => k = Len(results) + 1
    BY <1>1, <1>5
  <2>3. results'[CHOOSE k \in DOMAIN results' : results'[k].seq = h] = [seq |-> h, outcome |-> o]
    BY <1>5, <2>1, <2>2, TheResult
  <2>4. QED
    BY <1>1, <2>1, <2>3 DEF Verdict
<1>7. ASSUME NEW j \in jobs, j # h PROVE Verdict(j)' = Verdict(j)
  <2>1. CASE got[j] # "none"
    BY <2>1 DEF Verdict
  <2>2. CASE got[j] = "none" /\ \E i \in DOMAIN results : results[i].seq = j
    <3>1. PICK i \in DOMAIN results : results[i].seq = j
      BY <2>2
    <3>2. i \in DOMAIN results' /\ results'[i] = results[i] /\ Verdict(j) = results[i].outcome
      BY <1>5, <3>1, VerdictIs
    <3>3. \A k \in DOMAIN results' : results'[k].seq = j => k = i
      BY <1>5, <1>7, <3>1 DEF Apart, Once
    <3>4. results'[CHOOSE k \in DOMAIN results' : results'[k].seq = j] = results[i]
      BY <3>1, <3>2, <3>3, TheResult
    <3>5. QED
      BY <2>2, <3>1, <3>2, <3>4 DEF Verdict
  <2>3. CASE got[j] = "none" /\ \A i \in DOMAIN results : results[i].seq # j
    <3>1. \A k \in DOMAIN results' : results'[k].seq # j
      BY <1>5, <1>7, <2>3
    <3>2. QED
      BY <2>3, <3>1, VerdictIs DEF Verdict
  <2>4. QED
    BY <2>1, <2>2, <2>3
<1>8. Verdicts' = [Verdicts EXCEPT ![h] = o]
  BY <1>1, <1>6, <1>7 DEF Verdicts
<1>9. Abstract!Decide(h, o)
  BY <1>1, <1>2, <1>3, <1>4, <1>8 DEF Abstract!Decide, Dead, Verdicts
<1>10. o \in Abstract!Verdicts \ {"none"}
  BY DEF Abstract!Verdicts, Outcomes
<1>11. QED
  BY <1>1, <1>9, <1>10 DEF Abstract!Next

LEMMA AbstractNext ==
  ASSUME TypeOK, TypeOK', Staged, AbandonOnlyWhenDead, Apart, Apart', Settling, [Next]_vars
  PROVE  [Abstract!Next]_Abstract!vars
<1>same. ASSUME UNCHANGED <<jobs, pool, got, results, answer>>, Dead' = Dead
         PROVE  [Abstract!Next]_Abstract!vars
  <2>1. \A j \in jobs : Verdict(j)' = Verdict(j)
    BY <1>same DEF Verdict
  <2>2. QED
    BY <1>same, <2>1, AbstractStutter
<1>answer. ASSUME UNCHANGED <<jobs, pool, got, results, slot>>, main # "returned",
                  Dead = pool \/ \A j \in jobs : Verdict(j) # "none",
                  answer' = IF \A j \in jobs : Verdict(j) = "ok" THEN "ok" ELSE "err"
           PROVE  [Abstract!Next]_Abstract!vars
  <2>1. Dead' = Dead /\ answer = "none"
    BY <1>answer DEF Dead, Settling
  <2>2. \A j \in jobs : Verdict(j)' = Verdict(j)
    BY <1>answer DEF Verdict
  <2>3. Verdicts' = Verdicts
    BY <1>answer, <2>2 DEF Verdicts
  <2>4. Abstract!Answer
    BY <1>answer, <2>1, <2>3
       DEF Abstract!Answer, Abstract!Settled, Abstract!Succeeded, Dead, Verdicts
  <2>5. QED
    BY <2>4 DEF Abstract!Next
<1>dies. ASSUME NEW s \in pool, slot[s] \notin {"dead", "unborn", "done"},
                slot' = [slot EXCEPT ![s] = "dead"],
                UNCHANGED <<jobs, pool, got, results, answer>>
         PROVE  [Abstract!Next]_Abstract!vars
  <2>1. Dead' = Dead \union {s} /\ s \notin Dead
    BY <1>dies DEF Dead, TypeOK
  <2>2. answer = "none"
    BY <1>dies DEF Settling, Exited
  <2>3. \A j \in jobs : Verdict(j)' = Verdict(j)
    BY <1>dies DEF Verdict
  <2>4. Verdicts' = Verdicts
    BY <1>dies, <2>3 DEF Verdicts
  <2>5. Abstract!SlotDies(s)
    BY <1>dies, <2>1, <2>2, <2>4 DEF Abstract!SlotDies, Dead, Verdicts
  <2>6. QED
    BY <2>5 DEF Abstract!Next
<1>1. CASE ReturnEarly
  <2>1. \A j \in jobs : Verdict(j) = "none"
    <3>1. \A j \in jobs : ~(j < sent)
      BY <1>1, ClusterAssumption DEF ReturnEarly, Settling, TypeOK, Seq0
    <3>2. QED
      BY <3>1, VerdictIs DEF Apart, Known
  <2>2. Dead \subseteq pool
    BY DEF Dead
  <2>3. QED
    BY <1>1, <1>answer, <2>1, <2>2 DEF ReturnEarly
<1>2. CASE SpawnSlots
  <2>1. Dead' = Dead
    BY <1>2 DEF SpawnSlots, Dead, Staged
  <2>2. QED
    BY <1>2, <1>same, <2>1 DEF SpawnSlots
<1>3. CASE Seed \/ SeedDone \/ CollectDone
  <2>1. UNCHANGED <<jobs, pool, got, results, answer, slot>>
    BY <1>3 DEF Seed, SeedDone, CollectDone
  <2>2. Dead' = Dead
    BY <2>1 DEF Dead
  <2>3. QED
    BY <1>same, <2>1, <2>2
<1>4. CASE SeedFails
  <2>1. Dead = pool
    BY <1>4 DEF SeedFails, AllExited, Exited, Staged, ShutdownSet, Dead
  <2>2. sent \in jobs /\ Verdict(sent) = "none"
    <3>1. sent \in jobs /\ ~(sent < sent)
      BY <1>4, ClusterAssumption DEF SeedFails, TypeOK
    <3>2. QED
      BY <3>1, VerdictIs DEF Apart, Known
  <2>3. QED
    BY <1>4, <1>answer, <2>1, <2>2 DEF SeedFails
<1>5. CASE Collect
  <2>1. /\ 1 \in DOMAIN results /\ Head(results) = results[1] /\ results[1] \in Result
        /\ \A i \in DOMAIN results' : i + 1 \in DOMAIN results /\ results'[i] = results[i + 1]
        /\ \A i \in DOMAIN results : i # 1 => i - 1 \in DOMAIN results' /\ results'[i - 1] = results[i]
        /\ results' \in Seq(Result)
    BY <1>5, TailIndex DEF Collect, TypeOK
  <2>0. results[1].seq \in jobs
    BY <2>1 DEF Apart, Known
  <2> PICK h \in jobs : h = results[1].seq
    BY <2>0
  <2>2. h \in jobs /\ got[h] = "none" /\ UNCHANGED <<jobs, pool, answer, slot>>
    BY <1>5, <2>1 DEF Collect, Apart, Disjoint
  <2>3. /\ got'[h] = results[1].outcome /\ results[1].outcome # "none"
        /\ \A j \in jobs : j # h => got'[j] = got[j]
    BY <1>5, <2>1, <2>2 DEF Collect, TypeOK, Result, Outcomes
  <2>4. Verdict(h)' = Verdict(h)
    BY <2>1, <2>3, VerdictIs DEF Verdict
  <2>5. ASSUME NEW j \in jobs, j # h PROVE Verdict(j)' = Verdict(j)
    <3>1. CASE got[j] # "none"
      BY <2>3, <2>5, <3>1 DEF Verdict
    <3>2. CASE got[j] = "none" /\ \E i \in DOMAIN results' : results'[i].seq = j
      <4>1. PICK i \in DOMAIN results' : results'[i].seq = j
        BY <3>2
      <4>2. Verdict(j) = results'[i].outcome
        BY <2>1, <4>1, VerdictIs
      <4>3. \A k \in DOMAIN results' : results'[k].seq = j => k = i
        BY <4>1 DEF Apart, Once
      <4>4. results'[CHOOSE k \in DOMAIN results' : results'[k].seq = j] = results'[i]
        BY <4>1, <4>3, TheResult
      <4>5. QED
        BY <2>3, <2>5, <3>2, <4>1, <4>2, <4>4 DEF Verdict
    <3>3. CASE got[j] = "none" /\ \A i \in DOMAIN results' : results'[i].seq # j
      <4>1. \A i \in DOMAIN results : results[i].seq # j
        BY <2>1, <2>5, <3>3
      <4>2. QED
        BY <2>3, <2>5, <3>3, <4>1, VerdictIs DEF Verdict
    <3>4. QED
      BY <3>1, <3>2, <3>3
  <2>6. Dead' = Dead
    BY <2>2 DEF Dead
  <2>7. QED
    BY <2>2, <2>4, <2>5, <2>6, AbstractStutter
<1>6. CASE JoinAndStitch
  <2>1. \A j \in jobs : Verdict(j) = got[j]
    <3>1. CASE Collected = jobs
      BY <3>1, VerdictIs DEF Collected
    <3>2. CASE results = <<>>
      BY <3>2 DEF Verdict
    <3>3. QED
      BY <1>6, <3>1, <3>2 DEF JoinAndStitch, Settling
  <2>2. Dead = pool \/ \A j \in jobs : Verdict(j) # "none"
    <3>1. CASE Collected = jobs
      BY <2>1, <3>1 DEF Collected
    <3>2. CASE Collected # jobs
      BY <1>6, <3>2 DEF JoinAndStitch, AbandonOnlyWhenDead, ShutdownSet, Dead
    <3>3. QED
      BY <3>1, <3>2
  <2>3. QED
    BY <1>6, <1>answer, <2>1, <2>2 DEF JoinAndStitch
<1>7. ASSUME NEW s \in pool, SlotNext(s) PROVE [Abstract!Next]_Abstract!vars
  <2>1. CASE Open(s) \/ SeeShutdown(s) \/ Take(s) \/ Lose(s) \/ Requeue(s)
    <3>1. UNCHANGED <<jobs, pool, got, results, answer>>
      BY <2>1 DEF Open, SeeShutdown, Take, Lose, Requeue
    <3>2. /\ slot[s] # "dead" /\ slot'[s] # "dead"
          /\ \A t \in pool : t # s => slot'[t] = slot[t]
      BY <2>1 DEF Open, SeeShutdown, Take, Lose, Requeue, TypeOK
    <3>3. Dead' = Dead
      BY <3>1, <3>2 DEF Dead
    <3>4. QED
      BY <1>same, <3>1, <3>3
  <2>2. CASE OpenFails(s) \/ Kill(s)
    BY <1>dies, <2>2 DEF OpenFails, Kill
  <2>3. ASSUME NEW o \in Outcomes, Report(s, o) PROVE [Abstract!Next]_Abstract!vars
    <3>1. Busy(s) /\ slot' = [slot EXCEPT ![s] = slot'[s]] /\ slot'[s] # "dead"
      BY <2>3 DEF Report, Busy, TypeOK
    <3>2. QED
      BY <2>3, <3>1, AbstractDecide DEF Report
  <2>4. CASE LoseLast(s)
    <3>1. /\ Busy(s) /\ slot' = [slot EXCEPT ![s] = slot'[s]] /\ slot'[s] # "dead"
          /\ "err" \in Outcomes
      BY <2>4 DEF LoseLast, Busy, TypeOK, Outcomes
    <3>2. QED
      BY <2>4, <3>1, AbstractDecide DEF LoseLast
  <2>5. QED
    BY <1>7, <2>1, <2>2, <2>3, <2>4 DEF SlotNext, RunJob
<1>8. CASE UNCHANGED vars
  <2>1. Dead' = Dead
    BY <1>8 DEF vars, Dead
  <2>2. QED
    BY <1>8, <1>same, <2>1 DEF vars
<1>9. QED
  BY <1>1, <1>2, <1>3, <1>4, <1>5, <1>6, <1>7, <1>8 DEF Next, MainNext, Terminated

(* The dispatcher implements PmapOn: jobs are decided once, the call does   *)
(* not answer before the map is settled, and it answers with the list       *)
(* exactly when every job succeeded (cluster.rs:81-83).                     *)
THEOREM DispatcherImplementsPmapOn == Spec => ImplementsPmapOn
<1>1. Init => Staged /\ AbandonOnlyWhenDead /\ Settling
  BY DEF Init, Staged, AbandonOnlyWhenDead, ShutdownSet, Settling
<1>2. TypeOK /\ Staged /\ AbandonOnlyWhenDead /\ Apart /\ Settling /\ [Next]_vars
        => Staged' /\ AbandonOnlyWhenDead' /\ Apart' /\ Settling'
  BY StagedNext, ApartNext, SettlingNext
<1>3. TypeOK /\ TypeOK' /\ Staged /\ AbandonOnlyWhenDead /\ Apart /\ Apart' /\ Settling
        /\ [Next]_vars => [Abstract!Next]_Abstract!vars
  BY AbstractNext
<1>4. QED
  BY <1>1, <1>2, <1>3, ApartInit, AbstractInit, TypeCorrect, PTL
     DEF Spec, ImplementsPmapOn, Abstract!Spec
=============================================================================
