---------------------------- MODULE PpoolProofs ----------------------------
(* Theorems about Ppool, for any clients, any of them collecting, any       *)
(* number of workers and any bound on the submissions.                      *)
EXTENDS Ppool, SequenceTheorems, TLAPS

(* The ends of a queue.                                                     *)
LEMMA AppendRange ==
  ASSUME NEW S, NEW q \in Seq(S), NEW e \in S
  PROVE  /\ Append(q, e) \in Seq(S)
         /\ Range(Append(q, e)) = Range(q) \union {e}
         /\ IsInjective(q) /\ e \notin Range(q) => IsInjective(Append(q, e))
<1>1. /\ Append(q, e) \in Seq(S) /\ Len(Append(q, e)) = Len(q) + 1
      /\ \A i \in 1..Len(q) : Append(q, e)[i] = q[i]
      /\ Append(q, e)[Len(q) + 1] = e
  BY AppendProperties
<1>2. /\ Len(q) \in Nat /\ DOMAIN q = 1..Len(q)
      /\ DOMAIN Append(q, e) = 1..(Len(q) + 1)
  BY <1>1, LenProperties
<1>3. \A i \in 1..(Len(q) + 1) : i \in 1..Len(q) \/ i = Len(q) + 1
  BY <1>2
<1>4. Len(q) + 1 \in 1..(Len(q) + 1) /\ 1..Len(q) \subseteq 1..(Len(q) + 1)
  BY <1>2
<1>5. Range(Append(q, e)) = Range(q) \union {e}
  BY <1>1, <1>2, <1>3, <1>4 DEF Range
<1>6. ASSUME IsInjective(q), e \notin Range(q)
      PROVE  IsInjective(Append(q, e))
  BY <1>1, <1>2, <1>3, <1>6 DEF IsInjective, Range
<1>7. QED
  BY <1>1, <1>5, <1>6

LEMMA TailRange ==
  ASSUME NEW S, NEW q \in Seq(S), q # <<>>
  PROVE  /\ Tail(q) \in Seq(S) /\ Head(q) \in Range(q) /\ Head(q) \in S
         /\ IsInjective(q) => /\ IsInjective(Tail(q))
                              /\ Range(Tail(q)) = Range(q) \ {Head(q)}
<1>1. /\ Tail(q) \in Seq(S) /\ Len(Tail(q)) = Len(q) - 1
      /\ Head(q) = q[1] /\ Head(q) \in S
      /\ \A i \in 1..Len(Tail(q)) : Tail(q)[i] = q[i + 1]
  BY HeadTailProperties
<1>2. Len(q) \in Nat /\ Len(q) # 0 /\ DOMAIN q = 1..Len(q)
  BY LenProperties, EmptySeq
<1>3. DOMAIN Tail(q) = 1..(Len(q) - 1)
  BY <1>1, LenProperties
<1>4. 1 \in 1..Len(q)
  BY <1>2
<1>5. \A i \in 1..(Len(q) - 1) : i + 1 \in 1..Len(q) /\ i + 1 # 1
  BY <1>2
<1>6. \A i \in 1..Len(q) : i # 1 => i - 1 \in 1..(Len(q) - 1) /\ i = (i - 1) + 1
  BY <1>2
<1>7. ASSUME IsInjective(q)
      PROVE  /\ IsInjective(Tail(q))
             /\ Range(Tail(q)) = Range(q) \ {Head(q)}
  <2>1. ASSUME NEW i \in DOMAIN Tail(q), NEW k \in DOMAIN Tail(q), Tail(q)[i] = Tail(q)[k]
        PROVE  i = k
    <3>1. i + 1 = k + 1
      BY <1>1, <1>2, <1>3, <1>5, <1>7, <2>1 DEF IsInjective
    <3>2. QED
      BY <1>3, <3>1
  <2>2. \A i \in DOMAIN Tail(q) : Tail(q)[i] \in Range(q) /\ Tail(q)[i] # Head(q)
    BY <1>1, <1>2, <1>3, <1>4, <1>5, <1>7 DEF IsInjective, Range
  <2>3. \A i \in DOMAIN q : q[i] # Head(q) => q[i] \in Range(Tail(q))
    <3> SUFFICES ASSUME NEW i \in DOMAIN q, q[i] # Head(q)
                 PROVE  q[i] \in Range(Tail(q))
      OBVIOUS
    <3>1. i - 1 \in DOMAIN Tail(q) /\ i = (i - 1) + 1
      BY <1>1, <1>2, <1>3, <1>6
    <3>2. Tail(q)[i - 1] = q[i]
      BY <1>1, <1>3, <3>1
    <3>3. QED
      BY <3>1, <3>2 DEF Range
  <2>4. QED
    BY <2>1, <2>2, <2>3 DEF IsInjective, Range
<1>8. QED
  BY <1>1, <1>2, <1>4, <1>7 DEF Range

(* A list and the window appended to it.                                    *)
LEMMA WindowListProperties ==
  ASSUME TypeOK, NEW c \in Clients
  PROVE  /\ WindowList(c) \in Seq(Orders)
         /\ \A i \in DOMAIN WindowList(c) : WindowList(c)[i] = start[c] + i - 1
         /\ DOMAIN WindowList(c) = 1 .. (end[c] - start[c])
         /\ Len(WindowList(c)) = IF start[c] <= end[c] THEN end[c] - start[c] ELSE 0
<1>1. start[c] \in Nat /\ end[c] \in 0..MaxOrders /\ MaxOrders \in Nat
  BY PpoolAssumption DEF TypeOK
<1>2. \A i \in 1 .. (end[c] - start[c]) : start[c] + i - 1 \in Orders
  BY <1>1 DEF Orders
<1>3. CASE start[c] <= end[c]
  <2>1. end[c] - start[c] \in Nat
    BY <1>1, <1>3
  <2>2. WindowList(c) \in Seq(Orders) /\ Len(WindowList(c)) = end[c] - start[c]
    BY <1>2, <2>1, IsASeq DEF WindowList
  <2>3. QED
    BY <1>3, <2>2 DEF WindowList
<1>4. CASE ~(start[c] <= end[c])
  <2>1. 1 .. (end[c] - start[c]) = 1 .. 0
    BY <1>1, <1>4
  <2>2. WindowList(c) = [i \in 1 .. 0 |-> start[c] + i - 1]
    BY <2>1 DEF WindowList
  <2>3. \A i \in 1 .. 0 : start[c] + i - 1 \in Orders
    OBVIOUS
  <2>4. WindowList(c) \in Seq(Orders) /\ Len(WindowList(c)) = 0
    BY <2>2, <2>3, IsASeq
  <2>5. QED
    BY <1>4, <2>1, <2>2, <2>4
<1>5. QED
  BY <1>3, <1>4

-----------------------------------------------------------------------------
(* Every variable keeps its type. A window ends at an order number that was *)
(* given out.                                                               *)
EndsKnown == \A c \in Clients : client[c] \in {"drain", "lock", "recv"} => end[c] <= next_order

Typed == TypeOK /\ EndsKnown

LEMMA TypedInvariant == Spec => []Typed
<1>1. Init => Typed
  BY PpoolAssumption, EmptySeq DEF Init, Typed, TypeOK, EndsKnown, ClientStates, Orders
<1>2. Typed /\ [Next]_vars => Typed'
  <2> SUFFICES ASSUME Typed, [Next]_vars PROVE Typed'
    OBVIOUS
  <2> USE PpoolAssumption DEF Typed
  <2>0. next_order \in Nat /\ collect_from \in Nat /\ MaxOrders \in Nat
    BY DEF TypeOK
  <2>1. ASSUME NEW c \in Clients, TakeOrder(c) PROVE Typed'
    <3>1. next_order \in Orders /\ next_order' = next_order + 1 /\ next_order' \in 0..MaxOrders
      BY <2>0, <2>1 DEF TakeOrder, TypeOK, Orders
    <3>2. collect_from' \in 0..next_order'
      BY <2>0, <2>1, <3>1 DEF TakeOrder, TypeOK
    <3>3. TypeOK'
      BY <2>1, <3>1, <3>2 DEF TakeOrder, Goto, TypeOK, ClientStates, WorkerVars
    <3>4. EndsKnown'
      BY <2>0, <2>1, <3>1 DEF TakeOrder, Goto, TypeOK, EndsKnown
    <3>5. QED
      BY <3>3, <3>4
  <2>2. ASSUME NEW c \in Clients, SendJob(c) PROVE Typed'
    <3>1. jobs' \in Seq(Orders)
      BY <2>2, AppendRange DEF SendJob, TypeOK
    <3>2. QED
      BY <2>2, <3>1 DEF SendJob, Goto, TypeOK, ClientStates, WorkerVars, EndsKnown
  <2>3. ASSUME NEW c \in Collectors, LoadStart(c) PROVE Typed'
    <3>1. collect_from \in 0..MaxOrders
      BY <2>0 DEF TypeOK
    <3>2. QED
      BY <2>3, <3>1 DEF LoadStart, Goto, TypeOK, ClientStates, WorkerVars, EndsKnown
  <2>4. ASSUME NEW c \in Collectors, LoadEnd(c) PROVE Typed'
    BY <2>0, <2>4 DEF LoadEnd, TypeOK, ClientStates, WorkerVars, EndsKnown
  <2>5. ASSUME NEW c \in Collectors, DrainPending(c) PROVE Typed'
    <3>1. {o \in pending : InWindow(c, o)} \in SUBSET Orders
      BY DEF TypeOK
    <3>2. QED
      BY <2>5, <3>1 DEF DrainPending, Goto, TypeOK, ClientStates, WorkerVars, EndsKnown
  <2>6. ASSUME NEW c \in Collectors, LockRx(c) PROVE Typed'
    BY <2>6 DEF LockRx, Goto, TypeOK, ClientStates, WorkerVars, EndsKnown
  <2>7. ASSUME NEW c \in Collectors, Recv(c) PROVE Typed'
    <3>1. Head(results) \in Orders /\ results' \in Seq(Orders)
      BY <2>7, TailRange DEF Recv, TypeOK
    <3>2. slots' \in [Clients -> SUBSET Orders] /\ pending' \in SUBSET Orders
      BY <2>7, <3>1 DEF Recv, TypeOK
    <3>3. QED
      BY <2>7, <3>1, <3>2 DEF Recv, TypeOK, WorkerVars, EndsKnown
  <2>8. ASSUME NEW c \in Collectors, ReturnList(c) PROVE Typed'
    <3>1. returned[c] \o WindowList(c) \in Seq(Orders)
      BY WindowListProperties, ConcatProperties DEF TypeOK
    <3>2. end[c] \in 0..next_order
      BY <2>8 DEF ReturnList, Goto, TypeOK, EndsKnown
    <3>3. QED
      BY <2>8, <3>1, <3>2 DEF ReturnList, Goto, TypeOK, ClientStates, WorkerVars, EndsKnown
  <2>9. ASSUME NEW w \in W, TakeJob(w) PROVE Typed'
    <3>1. Head(jobs) \in Orders /\ jobs' \in Seq(Orders)
      BY <2>9, TailRange DEF TakeJob, TypeOK
    <3>2. QED
      BY <2>9, <3>1 DEF TakeJob, TypeOK, ClientVars, EndsKnown
  <2>10. ASSUME NEW w \in W, SendResult(w) PROVE Typed'
    <3>1. results' \in Seq(Orders)
      BY <2>10, AppendRange DEF SendResult, TypeOK
    <3>2. QED
      BY <2>10, <3>1 DEF SendResult, TypeOK, ClientVars, EndsKnown
  <2>11. ASSUME NEW w \in W, FreeJob(w) \/ JoinItself(w) \/ WorkerEnds(w) PROVE Typed'
    BY <2>11 DEF FreeJob, JoinItself, WorkerEnds, TypeOK, ClientVars, EndsKnown
  <2>12. ASSUME NEW c \in Clients, Release(c) \/ JoinWorkers(c) PROVE Typed'
    BY <2>12 DEF Release, JoinWorkers, Goto, TypeOK, ClientStates, WorkerVars, EndsKnown
  <2>13. CASE Quiet \/ UNCHANGED vars
    BY <2>13 DEF Quiet, vars, TypeOK, EndsKnown
  <2>14. QED
    BY <2>1, <2>2, <2>3, <2>4, <2>5, <2>6, <2>7, <2>8, <2>9, <2>10, <2>11, <2>12, <2>13
       DEF Next, CollectOn, WorkerStep
<1>3. QED
  BY <1>1, <1>2, PTL DEF Spec

THEOREM TypeCorrect == Spec => []TypeOK
BY TypedInvariant, PTL DEF Typed

-----------------------------------------------------------------------------
(* The stages an order goes through, as the sets of the orders in them.     *)
Sending  == {order[c] : c \in {d \in Clients : client[d] = "send"}}
Running  == {job[w] : w \in {v \in W : worker[v] = "run"}}
Taken    == UNION {slots[c] : c \in Clients}
Returned == UNION {Range(returned[c]) : c \in Clients}

(* In each stage an order is once.                                          *)
OneEach ==
  /\ \A c, d \in Clients :
       client[c] = "send" /\ client[d] = "send" /\ order[c] = order[d] => c = d
  /\ IsInjective(jobs)
  /\ \A v, w \in W : worker[v] = "run" /\ worker[w] = "run" /\ job[v] = job[w] => v = w
  /\ IsInjective(results)
  /\ \A c, d \in Clients : c # d => slots[c] \intersect slots[d] = {}

(* And it is in one stage only.                                             *)
Apart ==
  /\ Sending \intersect (Range(jobs) \union Running \union Range(results) \union pending
                           \union Taken \union Returned) = {}
  /\ Range(jobs) \intersect (Running \union Range(results) \union pending
                               \union Taken \union Returned) = {}
  /\ Running \intersect (Range(results) \union pending \union Taken \union Returned) = {}
  /\ Range(results) \intersect (pending \union Taken \union Returned) = {}
  /\ pending \intersect (Taken \union Returned) = {}
  /\ Taken \intersect Returned = {}

(* Every order that was given out is in one, and no other.                  *)
Whole == Sending \union Range(jobs) \union Running \union Range(results) \union pending
           \union Taken \union Returned = Orders \intersect 0 .. (next_order - 1)

(* What collects know: a window starts where the results still to return    *)
(* do, or before; the returned ones are those below collect_from.           *)
Windows ==
  /\ \A c \in Clients : client[c] \in {"load_end", "drain", "lock", "recv"}
                          => start[c] <= collect_from
  /\ \A c \in Clients : client[c] \in {"drain", "lock", "recv"}
                          => start[c] < end[c] /\ end[c] <= next_order
  /\ \A c \in Clients : client[c] \notin {"lock", "recv"} => slots[c] = {}
  /\ Returned = Orders \intersect 0 .. (collect_from - 1)
  /\ \A c \in Clients \ Collectors : returned[c] = <<>>
  /\ \A c \in Clients : \A i, k \in DOMAIN returned[c] : i < k => returned[c][i] < returned[c][k]
  /\ \A c, d \in Clients : c # d => Range(returned[c]) \intersect Range(returned[d]) = {}

Conserved == OneEach /\ Apart /\ Whole /\ Windows

LEMMA ConservedInit == Init => Conserved
<1> SUFFICES ASSUME Init PROVE Conserved
  OBVIOUS
<1>1. Range(jobs) = {} /\ Range(results) = {} /\ IsInjective(jobs) /\ IsInjective(results)
  BY DEF Init, Range, IsInjective
<1>2. Sending = {} /\ Running = {} /\ Taken = {} /\ pending = {}
  BY DEF Init, Sending, Running, Taken
<1>3. \A c \in Clients : returned[c] = <<>> /\ Range(returned[c]) = {}
  BY DEF Init, Range
<1>4. Returned = {}
  BY <1>3 DEF Returned
<1>5. Orders \intersect 0 .. (next_order - 1) = {} /\ Orders \intersect 0 .. (collect_from - 1) = {}
  BY DEF Init
<1>6. OneEach
  BY <1>1 DEF Init, OneEach
<1>7. Windows
  BY <1>3, <1>4, <1>5 DEF Init, Windows
<1>8. QED
  BY <1>1, <1>2, <1>4, <1>5, <1>6, <1>7 DEF Conserved, Apart, Whole

(* An order moves from its client to the queue, to a worker, to the         *)
(* results; nothing a collect knows changes.                                *)
CollectVars == <<collect_from, pending, start, end, slots, returned>>

(* The parts of the stages a step of a client or of a worker leaves alone.  *)
LEMMA StagesKept ==
  /\ UNCHANGED <<client, order>> => Sending' = Sending
  /\ UNCHANGED <<worker, job>> => Running' = Running
  /\ UNCHANGED slots => Taken' = Taken
  /\ UNCHANGED returned => Returned' = Returned
  /\ UNCHANGED jobs => Range(jobs)' = Range(jobs) /\ IsInjective(jobs)' = IsInjective(jobs)
  /\ UNCHANGED results =>
       Range(results)' = Range(results) /\ IsInjective(results)' = IsInjective(results)
BY DEF Sending, Running, Taken, Returned

LEMMA WindowsKept ==
  ASSUME Typed, Windows, UNCHANGED CollectVars, next_order' \in {next_order, next_order + 1},
         \A c \in Clients : \/ client'[c] = client[c]
                            \/ {client[c], client'[c]} \intersect {"load_end", "drain", "lock", "recv"} = {}
  PROVE  Windows'
<1>1. next_order \in Nat /\ \A c \in Clients : end[c] \in Nat
  BY DEF Typed, TypeOK
<1>2. Returned' = Returned
  BY StagesKept DEF CollectVars
<1>3. /\ UNCHANGED <<collect_from, start, end, slots, returned>>
      /\ \A c \in Clients : client'[c] \in {"load_end", "drain", "lock", "recv"}
                              => client'[c] = client[c]
      /\ \A c \in Clients : client'[c] \notin {"lock", "recv"} => client[c] \notin {"lock", "recv"}
  BY DEF CollectVars
<1>4. \A c \in Clients : end[c] <= next_order => end[c] <= next_order'
  BY <1>1
<1>5. QED
  BY <1>2, <1>3, <1>4 DEF Windows

LEMMA ConservedTakeOrder ==
  ASSUME Typed, Conserved, NEW c \in Clients, TakeOrder(c)
  PROVE  Conserved'
<1>1. /\ client[c] = "idle" /\ client' = [client EXCEPT ![c] = "send"]
      /\ next_order < MaxOrders /\ next_order' = next_order + 1
      /\ order' = [order EXCEPT ![c] = next_order]
      /\ UNCHANGED CollectVars /\ UNCHANGED <<jobs, results, worker, job>>
  BY DEF TakeOrder, Goto, CollectVars, WorkerVars
<1>2. next_order \in Orders /\ next_order \notin 0 .. (next_order - 1)
      /\ Orders \intersect 0 .. (next_order' - 1) = (Orders \intersect 0 .. (next_order - 1)) \union {next_order}
  BY <1>1, PpoolAssumption DEF Typed, TypeOK, Orders
<1>3. /\ client'[c] = "send" /\ order'[c] = next_order
      /\ \A d \in Clients : d # c => client'[d] = client[d] /\ order'[d] = order[d]
  BY <1>1 DEF Typed, TypeOK
<1>4. Sending' = Sending \union {next_order}
  BY <1>1, <1>3 DEF Sending
<1>5. /\ Running' = Running /\ Taken' = Taken /\ Returned' = Returned
      /\ Range(jobs)' = Range(jobs) /\ Range(results)' = Range(results)
      /\ IsInjective(jobs)' = IsInjective(jobs) /\ IsInjective(results)' = IsInjective(results)
      /\ pending' = pending
  BY <1>1, StagesKept DEF CollectVars
<1>6. \A d \in Clients : client[d] = "send" => order[d] # next_order
  BY <1>2 DEF Conserved, Whole, Sending
<1>7. OneEach'
  BY <1>1, <1>3, <1>5, <1>6 DEF Conserved, OneEach, CollectVars
<1>8. Apart' /\ Whole'
  BY <1>2, <1>4, <1>5 DEF Conserved, Apart, Whole
<1>9. Windows'
  BY <1>1, WindowsKept DEF Conserved, Typed, TypeOK
<1>10. QED
  BY <1>7, <1>8, <1>9 DEF Conserved

LEMMA ConservedSendJob ==
  ASSUME Typed, Conserved, NEW c \in Clients, SendJob(c)
  PROVE  Conserved'
<1>1. /\ client[c] = "send" /\ client' = [client EXCEPT ![c] = "idle"]
      /\ jobs' = Append(jobs, order[c])
      /\ UNCHANGED CollectVars /\ UNCHANGED <<next_order, order, results, worker, job>>
  BY DEF SendJob, Goto, CollectVars, WorkerVars
<1>2. /\ client'[c] = "idle"
      /\ \A d \in Clients : d # c => client'[d] = client[d]
  BY <1>1 DEF Typed, TypeOK
<1>3. order[c] \in Sending /\ Sending' = Sending \ {order[c]}
  BY <1>1, <1>2 DEF Sending, Conserved, OneEach
<1>4. order[c] \notin Range(jobs)
  BY <1>3 DEF Conserved, Apart
<1>5. Range(jobs') = Range(jobs) \union {order[c]} /\ IsInjective(jobs')
  BY <1>1, <1>4, AppendRange DEF Typed, TypeOK, Conserved, OneEach
<1>6. /\ Running' = Running /\ Taken' = Taken /\ Returned' = Returned
      /\ Range(results)' = Range(results) /\ IsInjective(results)' = IsInjective(results)
      /\ pending' = pending
  BY <1>1, StagesKept DEF CollectVars
<1>7. OneEach'
  BY <1>1, <1>2, <1>5, <1>6 DEF Conserved, OneEach, CollectVars
<1>8. Apart' /\ Whole'
  BY <1>1, <1>3, <1>5, <1>6 DEF Conserved, Apart, Whole
<1>9. Windows'
  BY <1>1, WindowsKept DEF Conserved, Typed, TypeOK
<1>10. QED
  BY <1>7, <1>8, <1>9 DEF Conserved

LEMMA ConservedTakeJob ==
  ASSUME Typed, Conserved, NEW w \in W, TakeJob(w)
  PROVE  Conserved'
<1> DEFINE h == Head(jobs)
<1>1. /\ worker[w] = "wait" /\ worker' = [worker EXCEPT ![w] = "run"]
      /\ job' = [job EXCEPT ![w] = h]
      /\ jobs # <<>> /\ jobs' = Tail(jobs)
      /\ UNCHANGED CollectVars /\ UNCHANGED <<next_order, client, order, results>>
  BY DEF TakeJob, CollectVars, ClientVars
<1>2. /\ worker'[w] = "run" /\ job'[w] = h
      /\ \A v \in W : v # w => worker'[v] = worker[v] /\ job'[v] = job[v]
  BY <1>1 DEF Typed, TypeOK
<1>3. h \in Range(jobs) /\ Range(jobs') = Range(jobs) \ {h} /\ IsInjective(jobs')
  BY <1>1, TailRange DEF Typed, TypeOK, Conserved, OneEach
<1>4. Running' = Running \union {h}
  BY <1>1, <1>2 DEF Running
<1>5. \A v \in W : worker[v] = "run" => job[v] # h
  BY <1>3 DEF Running, Conserved, Apart
<1>6. /\ Sending' = Sending /\ Taken' = Taken /\ Returned' = Returned
      /\ Range(results)' = Range(results) /\ IsInjective(results)' = IsInjective(results)
      /\ pending' = pending
  BY <1>1, StagesKept DEF CollectVars
<1>7. OneEach'
  BY <1>1, <1>2, <1>3, <1>5, <1>6 DEF Conserved, OneEach, CollectVars
<1>8. Apart' /\ Whole'
  BY <1>1, <1>3, <1>4, <1>6 DEF Conserved, Apart, Whole
<1>9. Windows'
  BY <1>1, WindowsKept DEF Conserved
<1>10. QED
  BY <1>7, <1>8, <1>9 DEF Conserved

LEMMA ConservedSendResult ==
  ASSUME Typed, Conserved, NEW w \in W, SendResult(w)
  PROVE  Conserved'
<1>1. /\ worker[w] = "run" /\ worker' = [worker EXCEPT ![w] = "free_job"]
      /\ results' = Append(results, job[w])
      /\ UNCHANGED CollectVars /\ UNCHANGED <<next_order, client, order, jobs, job>>
  BY DEF SendResult, CollectVars, ClientVars
<1>2. /\ worker'[w] = "free_job"
      /\ \A v \in W : v # w => worker'[v] = worker[v]
  BY <1>1 DEF Typed, TypeOK
<1>3. job[w] \in Running /\ Running' = Running \ {job[w]}
  BY <1>1, <1>2 DEF Running, Conserved, OneEach
<1>4. job[w] \notin Range(results)
  BY <1>3 DEF Conserved, Apart
<1>5. Range(results') = Range(results) \union {job[w]} /\ IsInjective(results')
  BY <1>1, <1>4, AppendRange DEF Typed, TypeOK, Conserved, OneEach
<1>6. /\ Sending' = Sending /\ Taken' = Taken /\ Returned' = Returned
      /\ Range(jobs)' = Range(jobs) /\ IsInjective(jobs)' = IsInjective(jobs)
      /\ pending' = pending
  BY <1>1, StagesKept DEF CollectVars
<1>7. OneEach'
  BY <1>1, <1>2, <1>5, <1>6 DEF Conserved, OneEach, CollectVars
<1>8. Apart' /\ Whole'
  BY <1>1, <1>3, <1>5, <1>6 DEF Conserved, Apart, Whole
<1>9. Windows'
  BY <1>1, WindowsKept DEF Conserved
<1>10. QED
  BY <1>7, <1>8, <1>9 DEF Conserved

(* A collect reads the ends of its window and waits for the receiver.       *)
LEMMA ConservedLook ==
  ASSUME Typed, Conserved, NEW c \in Clients, LoadStart(c) \/ LoadEnd(c) \/ LockRx(c)
  PROVE  Conserved'
<1>1. UNCHANGED <<next_order, collect_from, jobs, results, pending, order, slots, returned,
                  worker, job>>
  BY DEF LoadStart, LoadEnd, LockRx, WorkerVars
<1>2. /\ client[c] # "send" /\ client'[c] # "send"
      /\ \A d \in Clients : d # c => /\ client'[d] = client[d] /\ start'[d] = start[d]
                                     /\ end'[d] = end[d]
  BY DEF LoadStart, LoadEnd, LockRx, Goto, Typed, TypeOK
<1>3. Sending' = Sending
  BY <1>1, <1>2 DEF Sending
<1>4. /\ Running' = Running /\ Taken' = Taken /\ Returned' = Returned
      /\ Range(jobs)' = Range(jobs) /\ Range(results)' = Range(results)
      /\ IsInjective(jobs)' = IsInjective(jobs) /\ IsInjective(results)' = IsInjective(results)
  BY <1>1, StagesKept
<1>5. OneEach'
  BY <1>1, <1>2, <1>4 DEF Conserved, OneEach
<1>6. Apart' /\ Whole'
  BY <1>1, <1>3, <1>4 DEF Conserved, Apart, Whole
<1>7. /\ client'[c] \in {"load_end", "drain", "lock", "recv"} => start'[c] <= collect_from
      /\ client'[c] \in {"drain", "lock", "recv"} => start'[c] < end'[c] /\ end'[c] <= next_order
      /\ client'[c] \notin {"lock", "recv"} => slots[c] = {}
  <2>1. /\ collect_from \in Nat /\ next_order \in Nat /\ start[c] \in Nat /\ end[c] \in Nat
        /\ collect_from <= next_order
    BY DEF Typed, TypeOK
  <2>2. CASE LoadStart(c)
    <3>1. client[c] = "idle" /\ client'[c] = "load_end" /\ start'[c] = collect_from
      BY <2>2 DEF LoadStart, Goto, Typed, TypeOK
    <3>2. slots[c] = {}
      BY <3>1 DEF Conserved, Windows
    <3>3. QED
      BY <2>1, <3>1, <3>2
  <2>3. CASE LoadEnd(c)
    <3>1. /\ client[c] = "load_end" /\ start'[c] = start[c] /\ end'[c] = next_order
          /\ client'[c] = IF next_order = start[c] THEN "idle" ELSE "drain"
      BY <2>3 DEF LoadEnd, Typed, TypeOK
    <3>2. slots[c] = {} /\ start[c] <= collect_from
      BY <3>1 DEF Conserved, Windows
    <3>3. QED
      BY <2>1, <3>1, <3>2
  <2>4. CASE LockRx(c)
    BY <2>1, <2>4 DEF LockRx, Goto, Conserved, Windows, Typed, TypeOK
  <2>5. QED
    BY <2>2, <2>3, <2>4
<1>8. Windows'
  BY <1>1, <1>2, <1>4, <1>7 DEF Conserved, Windows
<1>9. QED
  BY <1>5, <1>6, <1>8 DEF Conserved

(* The pending results of its window move to its slots.                     *)
LEMMA ConservedDrain ==
  ASSUME Typed, Conserved, NEW c \in Clients, DrainPending(c)
  PROVE  Conserved'
<1> DEFINE M == {o \in pending : InWindow(c, o)}
<1>1. /\ client[c] = "drain" /\ client' = [client EXCEPT ![c] = "lock"]
      /\ slots' = [slots EXCEPT ![c] = M]
      /\ pending' = pending \ M
      /\ UNCHANGED <<next_order, collect_from, jobs, results, order, start, end, returned,
                     worker, job>>
  BY DEF DrainPending, Goto, WorkerVars
<1>2. /\ client'[c] = "lock" /\ slots'[c] = M /\ slots[c] = {}
      /\ \A d \in Clients : d # c => client'[d] = client[d] /\ slots'[d] = slots[d]
  BY <1>1 DEF Typed, TypeOK, Conserved, Windows
<1>3. M \subseteq pending
  OBVIOUS
<1> HIDE DEF M
<1>4. Taken' = Taken \union M
  BY <1>2 DEF Taken
<1>5. Sending' = Sending
  BY <1>1, <1>2 DEF Sending
<1>6. /\ Running' = Running /\ Returned' = Returned
      /\ Range(jobs)' = Range(jobs) /\ Range(results)' = Range(results)
      /\ IsInjective(jobs)' = IsInjective(jobs) /\ IsInjective(results)' = IsInjective(results)
  BY <1>1, StagesKept
<1>7. \A d \in Clients : slots[d] \intersect M = {}
  BY <1>3 DEF Taken, Conserved, Apart
<1>8. OneEach'
  BY <1>1, <1>2, <1>6, <1>7 DEF Conserved, OneEach
<1>9. Apart' /\ Whole'
  BY <1>1, <1>3, <1>4, <1>5, <1>6 DEF Conserved, Apart, Whole
<1>10. Windows'
  BY <1>1, <1>2, <1>6 DEF Conserved, Windows
<1>11. QED
  BY <1>8, <1>9, <1>10 DEF Conserved

(* A result moves to the slots or to pending. The collect holds no window   *)
(* that starts after it: everything before the window is returned.          *)
LEMMA ConservedRecv ==
  ASSUME Typed, Conserved, NEW c \in Clients, Recv(c)
  PROVE  Conserved'
<1> DEFINE o == Head(results)
<1>1. /\ client[c] = "recv" /\ results # <<>> /\ results' = Tail(results)
      /\ slots' = IF InWindow(c, o) THEN [slots EXCEPT ![c] = @ \union {o}] ELSE slots
      /\ pending' = IF o >= end[c] THEN pending \union {o} ELSE pending
      /\ UNCHANGED <<next_order, collect_from, jobs, client, order, start, end, returned,
                     worker, job>>
  BY DEF Recv, WorkerVars
<1>2. /\ o \in Range(results) /\ Range(results') = Range(results) \ {o}
      /\ IsInjective(results') /\ o \in Orders
  BY <1>1, TailRange DEF Typed, TypeOK, Conserved, OneEach
<1>3. o \notin Returned /\ o \notin Taken
  BY <1>2 DEF Conserved, Apart
<1>4. o >= start[c]
  <2>1. o \in Nat /\ start[c] \in Nat /\ collect_from \in Nat
    BY <1>2, PpoolAssumption DEF Typed, TypeOK, Orders
  <2>2. ~(o < collect_from)
    BY <1>2, <1>3, <2>1 DEF Conserved, Windows
  <2>3. start[c] <= collect_from
    BY <1>1 DEF Conserved, Windows
  <2>4. QED
    BY <2>1, <2>2, <2>3
<1>5. \/ /\ slots' = [slots EXCEPT ![c] = @ \union {o}] /\ pending' = pending
      \/ /\ slots' = slots /\ pending' = pending \union {o}
  <2>1. o \in Nat /\ start[c] \in Nat /\ end[c] \in Nat
    BY <1>2, PpoolAssumption DEF Typed, TypeOK, Orders
  <2>2. InWindow(c, o) <=> ~(o >= end[c])
    BY <1>4, <2>1 DEF InWindow
  <2>3. QED
    BY <1>1, <2>2
<1> HIDE DEF o
<1>6. /\ Sending' = Sending /\ Running' = Running /\ Returned' = Returned
      /\ Range(jobs)' = Range(jobs) /\ IsInjective(jobs)' = IsInjective(jobs)
  BY <1>1, StagesKept
<1>7. CASE slots' = [slots EXCEPT ![c] = @ \union {o}] /\ pending' = pending
  <2>1. /\ slots'[c] = slots[c] \union {o}
        /\ \A d \in Clients : d # c => slots'[d] = slots[d]
    BY <1>7 DEF Typed, TypeOK
  <2>2. Taken' = Taken \union {o}
    BY <2>1 DEF Taken
  <2>3. \A d \in Clients : o \notin slots[d]
    BY <1>3 DEF Taken
  <2>4. OneEach'
    BY <1>1, <1>2, <1>6, <2>1, <2>3 DEF Conserved, OneEach
  <2>5. Apart' /\ Whole'
    BY <1>1, <1>2, <1>3, <1>6, <1>7, <2>2 DEF Conserved, Apart, Whole
  <2>6. Windows'
    BY <1>1, <1>6, <2>1 DEF Conserved, Windows
  <2>7. QED
    BY <2>4, <2>5, <2>6 DEF Conserved
<1>8. CASE slots' = slots /\ pending' = pending \union {o}
  <2>1. Taken' = Taken
    BY <1>8, StagesKept
  <2>2. OneEach'
    BY <1>1, <1>2, <1>6, <1>8 DEF Conserved, OneEach
  <2>3. Apart' /\ Whole'
    BY <1>1, <1>2, <1>3, <1>6, <1>8, <2>1 DEF Conserved, Apart, Whole
  <2>4. Windows'
    BY <1>1, <1>6, <1>8 DEF Conserved, Windows
  <2>5. QED
    BY <2>2, <2>3, <2>4 DEF Conserved
<1>9. QED
  BY <1>5, <1>7, <1>8

(* A full window is returned. It holds nothing that was returned, so it     *)
(* starts at collect_from.                                                  *)
LEMMA ConservedReturn ==
  ASSUME Typed, Conserved, NEW c \in Collectors, ReturnList(c)
  PROVE  Conserved'
<1> DEFINE L == WindowList(c)
           M == slots[c]
<1>0. c \in Clients
  BY PpoolAssumption
<1>1. /\ client[c] = "recv" /\ client' = [client EXCEPT ![c] = "idle"]
      /\ slots[c] = Window(c) /\ collect_from' = end[c]
      /\ returned' = [returned EXCEPT ![c] = @ \o L]
      /\ slots' = [slots EXCEPT ![c] = {}]
      /\ UNCHANGED <<next_order, jobs, results, pending, order, start, end, worker, job>>
  BY DEF ReturnList, Goto, WorkerVars
<1>2. /\ client'[c] = "idle" /\ slots'[c] = {} /\ returned'[c] = returned[c] \o L
      /\ \A d \in Clients : d # c => /\ client'[d] = client[d] /\ slots'[d] = slots[d]
                                     /\ returned'[d] = returned[d]
  BY <1>0, <1>1 DEF Typed, TypeOK
<1>3. /\ start[c] \in Nat /\ end[c] \in Nat /\ collect_from \in Nat /\ next_order \in Nat
      /\ MaxOrders \in Nat /\ end[c] <= MaxOrders /\ collect_from <= next_order
      /\ next_order <= MaxOrders
  BY <1>0, PpoolAssumption DEF Typed, TypeOK
<1>4. start[c] <= collect_from /\ start[c] < end[c] /\ end[c] <= next_order
  BY <1>0, <1>1 DEF Conserved, Windows
<1>5. \A o \in Orders : o \in Returned <=> o < collect_from
  <2>1. Returned = Orders \intersect 0 .. (collect_from - 1)
    BY DEF Conserved, Windows
  <2>2. QED
    BY <1>3, <2>1 DEF Orders
<1>6. M = {o \in Orders : start[c] <= o /\ o < end[c]}
  BY <1>1 DEF Window
<1>7. M \subseteq Taken /\ M \intersect Returned = {}
  BY <1>0 DEF Taken, Conserved, Apart
<1>8. start[c] = collect_from
  <2>1. start[c] \in Orders
    BY <1>3, <1>4 DEF Orders
  <2>2. start[c] \in M
    BY <1>3, <1>4, <1>6, <2>1
  <2>3. ~(start[c] < collect_from)
    BY <1>5, <1>7, <2>1, <2>2
  <2>4. QED
    BY <1>3, <1>4, <2>3
<1>9. /\ L \in Seq(Orders) /\ DOMAIN L = 1 .. (end[c] - start[c])
      /\ \A i \in DOMAIN L : L[i] = start[c] + i - 1
      /\ Len(L) = end[c] - start[c]
  BY <1>0, <1>3, <1>4, WindowListProperties DEF Typed
<1> HIDE DEF L
<1>10. Range(L) = M
  <2>1. \A i \in 1 .. (end[c] - start[c]) :
           start[c] + i - 1 \in Orders /\ start[c] <= start[c] + i - 1 /\ start[c] + i - 1 < end[c]
    BY <1>3, <1>4 DEF Orders
  <2>2. \A o \in M : /\ o - start[c] + 1 \in 1 .. (end[c] - start[c])
                     /\ o = start[c] + (o - start[c] + 1) - 1
    BY <1>3, <1>6 DEF Orders
  <2>3. Range(L) \subseteq M
    BY <1>6, <1>9, <2>1 DEF Range
  <2>4. M \subseteq Range(L)
    BY <1>9, <2>2 DEF Range
  <2>5. QED
    BY <2>3, <2>4
<1>11. /\ returned'[c] \in Seq(Orders)
       /\ Len(returned'[c]) = Len(returned[c]) + Len(L)
       /\ \A i \in 1 .. Len(returned[c]) + Len(L) :
             returned'[c][i] = IF i <= Len(returned[c]) THEN returned[c][i] ELSE L[i - Len(returned[c])]
       /\ returned[c] \in Seq(Orders)
  BY <1>0, <1>2, <1>9, ConcatProperties DEF Typed, TypeOK
<1>12. /\ Len(returned[c]) \in Nat /\ Len(L) \in Nat
       /\ DOMAIN returned[c] = 1 .. Len(returned[c]) /\ DOMAIN L = 1 .. Len(L)
       /\ DOMAIN returned'[c] = 1 .. Len(returned[c]) + Len(L)
  BY <1>9, <1>11, LenProperties
<1>13. \A i \in 1 .. Len(returned[c]) + Len(L) :
          /\ i <= Len(returned[c]) => i \in 1 .. Len(returned[c])
          /\ ~(i <= Len(returned[c])) => i - Len(returned[c]) \in 1 .. Len(L)
  BY <1>12
<1>14. Range(returned'[c]) = Range(returned[c]) \union M
  <2>1. Range(returned'[c]) \subseteq Range(returned[c]) \union Range(L)
    BY <1>11, <1>12, <1>13 DEF Range
  <2>2. \A i \in 1 .. Len(returned[c]) :
           i \in 1 .. Len(returned[c]) + Len(L) /\ returned'[c][i] = returned[c][i]
    BY <1>11, <1>12
  <2>3. \A i \in 1 .. Len(L) :
           /\ Len(returned[c]) + i \in 1 .. Len(returned[c]) + Len(L)
           /\ returned'[c][Len(returned[c]) + i] = L[i]
    <3> SUFFICES ASSUME NEW i \in 1 .. Len(L)
                 PROVE  /\ Len(returned[c]) + i \in 1 .. Len(returned[c]) + Len(L)
                        /\ returned'[c][Len(returned[c]) + i] = L[i]
      OBVIOUS
    <3>1. /\ Len(returned[c]) + i \in 1 .. Len(returned[c]) + Len(L)
          /\ ~(Len(returned[c]) + i <= Len(returned[c]))
          /\ (Len(returned[c]) + i) - Len(returned[c]) = i
      BY <1>12
    <3>2. QED
      BY <1>11, <3>1
  <2>4. Range(returned[c]) \union Range(L) \subseteq Range(returned'[c])
    BY <1>12, <2>2, <2>3 DEF Range
  <2>5. QED
    BY <1>10, <2>1, <2>4
<1>15. Returned' = Returned \union M
  BY <1>0, <1>2, <1>14 DEF Returned
<1>16. Taken' = Taken \ M
  BY <1>0, <1>2 DEF Taken, Conserved, OneEach
<1>17. Sending' = Sending
  BY <1>1, <1>2 DEF Sending
<1>18. /\ Running' = Running /\ Range(jobs)' = Range(jobs) /\ Range(results)' = Range(results)
       /\ IsInjective(jobs)' = IsInjective(jobs) /\ IsInjective(results)' = IsInjective(results)
       /\ pending' = pending
  BY <1>1, StagesKept
<1>19. OneEach'
  BY <1>1, <1>2, <1>18 DEF Conserved, OneEach
<1>20. Apart' /\ Whole'
  BY <1>1, <1>7, <1>15, <1>16, <1>17, <1>18 DEF Conserved, Apart, Whole
<1>21. Windows'
  <2>1. Returned' = Orders \intersect 0 .. (collect_from' - 1)
    <3>1. \A o \in Orders : o \in Returned' <=> o < end[c]
      <4>1. \A o \in Orders : o \in Nat
        BY <1>3 DEF Orders
      <4>2. QED
        BY <1>3, <1>4, <1>5, <1>6, <1>8, <1>15, <4>1
    <3>2. Returned' \subseteq Orders
      BY <1>6, <1>15 DEF Conserved, Windows
    <3>3. \A o \in Orders : o \in 0 .. (end[c] - 1) <=> o < end[c]
      BY <1>3 DEF Orders
    <3>4. QED
      BY <1>1, <3>1, <3>2, <3>3
  <2>2. \A i, k \in DOMAIN returned'[c] : i < k => returned'[c][i] < returned'[c][k]
    <3> SUFFICES ASSUME NEW i \in DOMAIN returned'[c], NEW k \in DOMAIN returned'[c], i < k
                 PROVE  returned'[c][i] < returned'[c][k]
      OBVIOUS
    <3>1. \A n \in 1 .. Len(returned[c]) : returned[c][n] \in Orders /\ returned[c][n] < collect_from
      <4>1. \A n \in DOMAIN returned[c] : returned[c][n] \in Returned
        BY <1>0 DEF Returned, Range
      <4>2. \A n \in 1 .. Len(returned[c]) : returned[c][n] \in Orders
        BY <1>11, ElementOfSeq
      <4>3. QED
        BY <1>5, <1>12, <4>1, <4>2
    <3>2. CASE k <= Len(returned[c])
      <4>1. i \in DOMAIN returned[c] /\ k \in DOMAIN returned[c]
            /\ returned'[c][i] = returned[c][i] /\ returned'[c][k] = returned[c][k]
        BY <1>11, <1>12, <3>2
      <4>2. QED
        BY <1>0, <4>1 DEF Conserved, Windows
    <3>3. CASE ~(k <= Len(returned[c])) /\ i <= Len(returned[c])
      <4>1. /\ i \in 1 .. Len(returned[c]) /\ returned'[c][i] = returned[c][i]
            /\ k - Len(returned[c]) \in 1 .. Len(L)
            /\ returned'[c][k] = L[k - Len(returned[c])]
        BY <1>11, <1>12, <1>13, <3>3
      <4>2. L[k - Len(returned[c])] = start[c] + (k - Len(returned[c])) - 1
        BY <1>9, <1>12, <4>1
      <4>3. returned[c][i] \in Nat /\ returned[c][i] < collect_from
        BY <1>3, <3>1, <4>1 DEF Orders
      <4>4. k \in Nat
        BY <1>12
      <4>5. QED
        <5>1. returned'[c][i] \in Nat /\ returned'[c][i] < start[c]
          BY <1>8, <4>1, <4>3
        <5>2. start[c] < returned'[c][k] \/ start[c] = returned'[c][k]
          BY <1>3, <1>12, <4>1, <4>2, <4>4
        <5>3. returned'[c][k] \in Nat
          BY <1>3, <1>12, <4>1, <4>2, <4>4
        <5>4. QED
          BY <1>3, <5>1, <5>2, <5>3
    <3>4. CASE ~(k <= Len(returned[c])) /\ ~(i <= Len(returned[c]))
      <4>1. /\ i - Len(returned[c]) \in 1 .. Len(L) /\ k - Len(returned[c]) \in 1 .. Len(L)
            /\ returned'[c][i] = L[i - Len(returned[c])]
            /\ returned'[c][k] = L[k - Len(returned[c])]
        BY <1>11, <1>12, <1>13, <3>4
      <4>2. /\ L[i - Len(returned[c])] = start[c] + (i - Len(returned[c])) - 1
            /\ L[k - Len(returned[c])] = start[c] + (k - Len(returned[c])) - 1
        BY <1>9, <1>12, <4>1
      <4>3. i \in Nat /\ k \in Nat
        BY <1>12
      <4>4. QED
        BY <1>3, <1>12, <4>1, <4>2, <4>3
    <3>5. i \in Nat /\ k \in Nat
      BY <1>12
    <3>6. QED
      BY <1>12, <3>2, <3>3, <3>4, <3>5
  <2>3. \A d \in Clients : client[d] \in {"load_end", "drain", "lock", "recv"}
                             => start[d] <= end[c]
    <3>1. \A d \in Clients : start[d] \in Nat
      BY DEF Typed, TypeOK
    <3>2. QED
      BY <1>3, <1>4, <1>8, <3>1 DEF Conserved, Windows
  <2>4. \A d \in Clients : d # c => Range(returned'[d]) \intersect M = {}
    BY <1>2, <1>7 DEF Returned
  <2>5. \A d, b \in Clients : d # b => Range(returned'[d]) \intersect Range(returned'[b]) = {}
    BY <1>2, <1>14, <2>4 DEF Conserved, Windows
  <2>6. QED
    BY <1>1, <1>2, <2>1, <2>2, <2>3, <2>5 DEF Conserved, Windows
<1>22. QED
  BY <1>19, <1>20, <1>21 DEF Conserved

(* Steps that move no order.                                                *)
LEMMA ConservedRest ==
  ASSUME Typed, Conserved,
         \/ \E c \in Clients : Release(c) \/ JoinWorkers(c)
         \/ \E w \in W : FreeJob(w) \/ JoinItself(w) \/ WorkerEnds(w)
         \/ Quiet
         \/ UNCHANGED vars
  PROVE  Conserved'
<1>1. UNCHANGED CollectVars /\ UNCHANGED <<next_order, order, jobs, results, job>>
  BY DEF Release, JoinWorkers, FreeJob, JoinItself, WorkerEnds, Quiet, vars, CollectVars,
         ClientVars, WorkerVars
<1>2. \A c \in Clients : \/ client'[c] = client[c]
                         \/ /\ client[c] \in {"idle", "join"}
                            /\ client'[c] \in {"join", "released", "gone"}
  BY DEF Release, JoinWorkers, Goto, FreeJob, JoinItself, WorkerEnds, Quiet, vars, ClientVars,
         Typed, TypeOK
<1>3. \A w \in W : worker'[w] = "run" <=> worker[w] = "run"
  BY DEF Release, JoinWorkers, FreeJob, JoinItself, WorkerEnds, Quiet, vars, WorkerVars,
         Typed, TypeOK
<1>4. Sending' = Sending /\ Running' = Running
  BY <1>1, <1>2, <1>3 DEF Sending, Running
<1>5. /\ Taken' = Taken /\ Returned' = Returned
      /\ Range(jobs)' = Range(jobs) /\ Range(results)' = Range(results)
      /\ IsInjective(jobs)' = IsInjective(jobs) /\ IsInjective(results)' = IsInjective(results)
      /\ pending' = pending
  BY <1>1, StagesKept DEF CollectVars
<1>6. OneEach'
  BY <1>1, <1>2, <1>3, <1>5 DEF Conserved, OneEach, CollectVars
<1>7. Apart' /\ Whole'
  BY <1>1, <1>4, <1>5 DEF Conserved, Apart, Whole
<1>8. Windows'
  BY <1>1, <1>2, WindowsKept DEF Conserved
<1>9. QED
  BY <1>6, <1>7, <1>8 DEF Conserved

LEMMA ConservedInvariant == Spec => []Conserved
<1>1. Typed /\ Conserved /\ [Next]_vars => Conserved'
  <2> SUFFICES ASSUME Typed, Conserved, [Next]_vars PROVE Conserved'
    OBVIOUS
  <2>1. Collectors \subseteq Clients
    BY PpoolAssumption
  <2>2. QED
    BY <2>1, ConservedTakeOrder, ConservedSendJob, ConservedTakeJob, ConservedSendResult,
       ConservedLook, ConservedDrain, ConservedRecv, ConservedReturn, ConservedRest
       DEF Next, CollectOn, WorkerStep
<1>2. QED
  BY <1>1, ConservedInit, TypedInvariant, PTL DEF Spec

-----------------------------------------------------------------------------
(* A result is never lost, doubled or thrown away.                          *)
THEOREM NothingLost == Spec => []ResultsConserved
<1>1. Typed /\ Conserved => ResultsConserved
  <2> SUFFICES ASSUME Typed, Conserved, NEW o \in Orders
               PROVE  IF o < next_order THEN \E p \in Places(o) : Places(o) = {p}
                                        ELSE Places(o) = {}
    BY DEF ResultsConserved
  <2> DEFINE PSend     == {<<"client", c>> : c \in {d \in Clients : client[d] = "send" /\ order[d] = o}}
             PJobs     == {<<"jobs", i>> : i \in Positions(jobs, o)}
             PRun      == {<<"worker", w>> : w \in {v \in W : worker[v] = "run" /\ job[v] = o}}
             PResults  == {<<"results", i>> : i \in Positions(results, o)}
             PPending  == {<<"pending">> : k \in pending \intersect {o}}
             PSlots    == {<<"slots", c>> : c \in {d \in Clients : o \in slots[d]}}
             PReturned == UNION {{<<"returned", c, i>> : i \in Positions(returned[c], o)} : c \in Clients}
             One(S)    == \E p \in S : S = {p}
  <2>1. Places(o) = PSend \union PJobs \union PRun \union PResults \union PPending
                      \union PSlots \union PReturned
    BY DEF Places
  <2>2. /\ o \in Sending => One(PSend)
        /\ o \notin Sending => PSend = {}
    <3>1. ASSUME o \notin Sending PROVE PSend = {}
      BY <3>1 DEF Sending
    <3>2. ASSUME o \in Sending PROVE One(PSend)
      <4> DEFINE S == {d \in Clients : client[d] = "send" /\ order[d] = o}
      <4>1. PICK x \in S : TRUE
        BY <3>2 DEF Sending
      <4>2. \A y \in S : y = x
        BY <4>1 DEF Conserved, OneEach
      <4>3. S = {x}
        BY <4>1, <4>2
      <4>4. PSend = {<<"client", x>>}
        BY <4>3
      <4>5. QED
        BY <4>4
    <3>3. QED
      BY <3>1, <3>2
  <2>3. /\ o \in Range(jobs) => One(PJobs)
        /\ o \notin Range(jobs) => PJobs = {}
    <3>1. ASSUME o \notin Range(jobs) PROVE PJobs = {}
      BY <3>1 DEF Range, Positions
    <3>2. ASSUME o \in Range(jobs) PROVE One(PJobs)
      <4> DEFINE S == Positions(jobs, o)
      <4>1. PICK x \in S : TRUE
        BY <3>2 DEF Range, Positions
      <4>2. \A y \in S : y = x
        BY <4>1 DEF Positions, Conserved, OneEach, IsInjective
      <4>3. S = {x}
        BY <4>1, <4>2
      <4>4. PJobs = {<<"jobs", x>>}
        BY <4>3
      <4>5. QED
        BY <4>4
    <3>3. QED
      BY <3>1, <3>2
  <2>4. /\ o \in Running => One(PRun)
        /\ o \notin Running => PRun = {}
    <3>1. ASSUME o \notin Running PROVE PRun = {}
      BY <3>1 DEF Running
    <3>2. ASSUME o \in Running PROVE One(PRun)
      <4> DEFINE S == {v \in W : worker[v] = "run" /\ job[v] = o}
      <4>1. PICK x \in S : TRUE
        BY <3>2 DEF Running
      <4>2. \A y \in S : y = x
        BY <4>1 DEF Conserved, OneEach
      <4>3. S = {x}
        BY <4>1, <4>2
      <4>4. PRun = {<<"worker", x>>}
        BY <4>3
      <4>5. QED
        BY <4>4
    <3>3. QED
      BY <3>1, <3>2
  <2>5. /\ o \in Range(results) => One(PResults)
        /\ o \notin Range(results) => PResults = {}
    <3>1. ASSUME o \notin Range(results) PROVE PResults = {}
      BY <3>1 DEF Range, Positions
    <3>2. ASSUME o \in Range(results) PROVE One(PResults)
      <4> DEFINE S == Positions(results, o)
      <4>1. PICK x \in S : TRUE
        BY <3>2 DEF Range, Positions
      <4>2. \A y \in S : y = x
        BY <4>1 DEF Positions, Conserved, OneEach, IsInjective
      <4>3. S = {x}
        BY <4>1, <4>2
      <4>4. PResults = {<<"results", x>>}
        BY <4>3
      <4>5. QED
        BY <4>4
    <3>3. QED
      BY <3>1, <3>2
  <2>6. /\ o \in pending => One(PPending)
        /\ o \notin pending => PPending = {}
    OBVIOUS
  <2>7. /\ o \in Taken => One(PSlots)
        /\ o \notin Taken => PSlots = {}
    <3>1. ASSUME o \notin Taken PROVE PSlots = {}
      BY <3>1 DEF Taken
    <3>2. ASSUME o \in Taken PROVE One(PSlots)
      <4> DEFINE S == {d \in Clients : o \in slots[d]}
      <4>1. PICK x \in S : TRUE
        BY <3>2 DEF Taken
      <4>2. \A y \in S : y = x
        BY <4>1 DEF Conserved, OneEach
      <4>3. S = {x}
        BY <4>1, <4>2
      <4>4. PSlots = {<<"slots", x>>}
        BY <4>3
      <4>5. QED
        BY <4>4
    <3>3. QED
      BY <3>1, <3>2
  <2>8. /\ o \in Returned => One(PReturned)
        /\ o \notin Returned => PReturned = {}
    <3>1. ASSUME o \notin Returned PROVE PReturned = {}
      BY <3>1 DEF Returned, Range, Positions
    <3>2. ASSUME o \in Returned PROVE One(PReturned)
      <4>1. PICK c \in Clients : o \in Range(returned[c])
        BY <3>2 DEF Returned
      <4>2. PICK i \in DOMAIN returned[c] : returned[c][i] = o
        BY <4>1 DEF Range
      <4>3. \A d \in Clients : \A k \in Positions(returned[d], o) : d = c
        BY <4>1 DEF Positions, Range, Conserved, Windows
      <4>4. \A k \in Positions(returned[c], o) : k = i
        <5> SUFFICES ASSUME NEW k \in DOMAIN returned[c], returned[c][k] = o, k # i
                     PROVE  FALSE
          BY DEF Positions
        <5>1. i \in Nat /\ k \in Nat /\ o \in Nat
          <6>1. returned[c] \in Seq(Orders)
            BY DEF Typed, TypeOK
          <6>2. QED
            BY <6>1, LenProperties, PpoolAssumption DEF Orders
        <5>2. i < k \/ k < i
          BY <5>1
        <5>3. o < o
          BY <4>2, <5>2 DEF Conserved, Windows
        <5>4. QED
          BY <5>1, <5>3
      <4>5. i \in Positions(returned[c], o)
        BY <4>2 DEF Positions
      <4>6. PReturned = {<<"returned", c, i>>}
        BY <4>3, <4>4, <4>5
      <4>7. QED
        BY <4>6
    <3>3. QED
      BY <3>1, <3>2
  <2> HIDE DEF PSend, PJobs, PRun, PResults, PPending, PSlots, PReturned
  <2>9. o < next_order <=> o \in Sending \union Range(jobs) \union Running \union Range(results)
                                   \union pending \union Taken \union Returned
    <3>1. o \in Nat /\ next_order \in Nat
      BY PpoolAssumption DEF Typed, TypeOK, Orders
    <3>2. o \in Orders \intersect 0 .. (next_order - 1) <=> o < next_order
      BY <3>1
    <3>3. QED
      BY <3>2 DEF Conserved, Whole
  <2>10. CASE ~(o < next_order)
    <3>1. Places(o) = {}
      BY <2>1, <2>2, <2>3, <2>4, <2>5, <2>6, <2>7, <2>8, <2>9, <2>10
    <3>2. QED
      BY <2>10, <3>1
  <2>11. CASE o < next_order
    <3>1. One(Places(o))
      <4>1. CASE o \in Sending
        <5>1. Places(o) = PSend
          BY <2>1, <2>3, <2>4, <2>5, <2>6, <2>7, <2>8, <4>1 DEF Conserved, Apart
        <5>2. QED
          BY <2>2, <4>1, <5>1
      <4>2. CASE o \in Range(jobs)
        <5>1. Places(o) = PJobs
          BY <2>1, <2>2, <2>4, <2>5, <2>6, <2>7, <2>8, <4>2 DEF Conserved, Apart
        <5>2. QED
          BY <2>3, <4>2, <5>1
      <4>3. CASE o \in Running
        <5>1. Places(o) = PRun
          BY <2>1, <2>2, <2>3, <2>5, <2>6, <2>7, <2>8, <4>3 DEF Conserved, Apart
        <5>2. QED
          BY <2>4, <4>3, <5>1
      <4>4. CASE o \in Range(results)
        <5>1. Places(o) = PResults
          BY <2>1, <2>2, <2>3, <2>4, <2>6, <2>7, <2>8, <4>4 DEF Conserved, Apart
        <5>2. QED
          BY <2>5, <4>4, <5>1
      <4>5. CASE o \in pending
        <5>1. Places(o) = PPending
          BY <2>1, <2>2, <2>3, <2>4, <2>5, <2>7, <2>8, <4>5 DEF Conserved, Apart
        <5>2. QED
          BY <2>6, <4>5, <5>1
      <4>6. CASE o \in Taken
        <5>1. Places(o) = PSlots
          BY <2>1, <2>2, <2>3, <2>4, <2>5, <2>6, <2>8, <4>6 DEF Conserved, Apart
        <5>2. QED
          BY <2>7, <4>6, <5>1
      <4>7. CASE o \in Returned
        <5>1. Places(o) = PReturned
          BY <2>1, <2>2, <2>3, <2>4, <2>5, <2>6, <2>7, <4>7 DEF Conserved, Apart
        <5>2. QED
          BY <2>8, <4>7, <5>1
      <4>8. QED
        BY <2>9, <2>11, <4>1, <4>2, <4>3, <4>4, <4>5, <4>6, <4>7
    <3>2. QED
      BY <2>11, <3>1
  <2>12. QED
    BY <2>10, <2>11
<1>2. QED
  BY <1>1, TypedInvariant, ConservedInvariant, PTL

(* collect_from never passes a result nobody has returned, and each         *)
(* client's collects return theirs in submission order.                     *)
THEOREM ReturnedInOrder == Spec => []CollectedInOrder
<1>1. Typed /\ Conserved => CollectedInOrder
  <2> SUFFICES ASSUME Typed, Conserved PROVE CollectedInOrder
    OBVIOUS
  <2>1. ASSUME NEW o \in Orders, o < collect_from
        PROVE  \E c \in Collectors : o \in Range(returned[c])
    <3>1. o \in Returned
      <4>1. o \in Nat /\ collect_from \in Nat
        BY PpoolAssumption DEF Typed, TypeOK, Orders
      <4>2. o \in 0 .. (collect_from - 1)
        BY <2>1, <4>1
      <4>3. QED
        BY <4>2 DEF Conserved, Windows
    <3>2. PICK c \in Clients : o \in Range(returned[c])
      BY <3>1 DEF Returned
    <3>3. c \in Collectors
      BY <3>2 DEF Conserved, Windows, Range
    <3>4. QED
      BY <3>2, <3>3
  <2>2. QED
    BY <2>1, PpoolAssumption DEF CollectedInOrder, Conserved, Windows
<1>2. QED
  BY <1>1, TypedInvariant, ConservedInvariant, PTL
=============================================================================
