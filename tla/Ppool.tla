------------------------------- MODULE Ppool -------------------------------
(***************************************************************************)
(* `ppool(N)`: a pool of worker threads, src/strykelang/ppool.rs.  submit  *)
(* takes an order number and then queues the job; workers answer out of    *)
(* order; collect takes the window of orders from the end of the last one  *)
(* to the newest, waits for all of it and returns it in order.             *)
(*                                                                         *)
(* A submitted job captures every scalar in scope, the pool's own handle   *)
(* among them (scope.rs:3310), so a queued or running job keeps the pool   *)
(* alive and the last handle may be dropped by a worker.                   *)
(***************************************************************************)
EXTENDS Naturals, Sequences, FiniteSets, Functions

CONSTANTS
  Clients,     \* threads of the script holding the pool
  Collectors,  \* those of them that call collect
  Workers,     \* number of worker threads
  MaxOrders    \* bound on submissions

ASSUME PpoolAssumption ==
  /\ Collectors \subseteq Clients
  /\ Workers \in Nat \ {0}
  /\ MaxOrders \in Nat \ {0}

VARIABLES
  next_order,    \* PpoolInner.next_order
  collect_from,  \* PpoolInner.collect_from
  open,          \* job_tx is Some
  jobs,          \* the job channel
  results,       \* the result channel
  pending,       \* PpoolInner.pending, as the set of its orders: see Recv
  rx_lock,       \* who holds the result_rx mutex
  client,        \* where each client is
  order,         \* submit's order
  start, end,    \* collect's window
  slots,         \* orders collect has filled its slots with
  returned,      \* orders each client's collects returned, in order (history)
  worker,        \* where each worker is
  job            \* the order each worker runs

vars == <<next_order, collect_from, open, jobs, results, pending, rx_lock,
          client, order, start, end, slots, returned, worker, job>>

ClientVars == <<client, order, start, end, slots, returned>>
WorkerVars == <<worker, job>>

W      == 1..Workers
Orders == 0..(MaxOrders - 1)
Free   == "free"
Window(c) == {o \in Orders : start[c] <= o /\ o < end[c]}
InWindow(c, o) == start[c] <= o /\ o < end[c]

\* The window's orders in order: the slots, once all are filled.
WindowList(c) == [i \in 1 .. (end[c] - start[c]) |-> start[c] + i - 1]

Init ==
  /\ next_order = 0 /\ collect_from = 0 /\ open = TRUE
  /\ jobs = <<>> /\ results = <<>> /\ pending = {} /\ rx_lock = Free
  /\ client = [c \in Clients |-> "idle"]
  /\ order = [c \in Clients |-> 0]
  /\ start = [c \in Clients |-> 0] /\ end = [c \in Clients |-> 0]
  /\ slots = [c \in Clients |-> {}]
  /\ returned = [c \in Clients |-> <<>>]
  /\ worker = [w \in W |-> "wait"] /\ job = [w \in W |-> 0]

Goto(c, from, to) == client[c] = from /\ client' = [client EXCEPT ![c] = to]

-----------------------------------------------------------------------------
(* Mutants: plausible bugs, put in place of the action each comment names. *)

\* ReturnList: moves collect_from to the newest order, not to the window's end.
ReturnListNewest(c) ==
  /\ Goto(c, "recv", "idle")
  /\ slots[c] = Window(c)
  /\ collect_from' = next_order
  /\ returned' = [returned EXCEPT ![c] = @ \o WindowList(c)]
  /\ slots' = [slots EXCEPT ![c] = {}]
  /\ rx_lock' = Free
  /\ UNCHANGED <<next_order, open, jobs, results, pending, order, start, end,
                 WorkerVars>>

\* ReturnList: the window's end taken for inclusive.
ReturnListPastEnd(c) ==
  /\ Goto(c, "recv", "idle")
  /\ slots[c] = Window(c)
  /\ collect_from' = end[c] + 1
  /\ returned' = [returned EXCEPT ![c] = @ \o WindowList(c)]
  /\ slots' = [slots EXCEPT ![c] = {}]
  /\ rx_lock' = Free
  /\ UNCHANGED <<next_order, open, jobs, results, pending, order, start, end,
                 WorkerVars>>

\* Recv: a result of a later window is thrown away.
RecvForgets(c) ==
  /\ client[c] = "recv"
  /\ slots[c] # Window(c)
  /\ results # <<>>
  /\ LET o == Head(results) IN
       slots' = IF InWindow(c, o) THEN [slots EXCEPT ![c] = @ \union {o}] ELSE slots
  /\ results' = Tail(results)
  /\ UNCHANGED <<next_order, collect_from, open, jobs, pending, rx_lock, client, order,
                 start, end, returned, WorkerVars>>

\* TakeOrder: the counter is read and written in two halves: a bump can be lost.
TakeOrderStale(c) ==
  /\ Goto(c, "idle", "send")
  /\ next_order < MaxOrders
  /\ order' = [order EXCEPT ![c] = next_order]
  /\ next_order' \in {next_order, next_order + 1}
  /\ UNCHANGED <<collect_from, open, jobs, results, pending, rx_lock, start, end,
                 slots, returned, WorkerVars>>

\* FreeJob: the drop of the last captured handle does not close the queue.
FreeJobKeepsQueue(w) ==
  /\ worker[w] = "free_job"
  /\ worker' = [worker EXCEPT ![w] = "wait"]
  /\ UNCHANGED <<next_order, collect_from, open, jobs, results, pending, rx_lock,
                 ClientVars, job>>

-----------------------------------------------------------------------------
(* submit.                                                                 *)

TakeOrder(c) ==
  /\ Goto(c, "idle", "send")
  /\ next_order < MaxOrders
  /\ order' = [order EXCEPT ![c] = next_order]
  /\ next_order' = next_order + 1
  /\ UNCHANGED <<collect_from, open, jobs, results, pending, rx_lock, start, end,
                 slots, returned, WorkerVars>>

\* The client holds the pool, so the sender is there and workers receive.
SendJob(c) ==
  /\ Goto(c, "send", "idle")
  /\ jobs' = Append(jobs, order[c])
  /\ UNCHANGED <<next_order, collect_from, open, results, pending, rx_lock, order,
                 start, end, slots, returned, WorkerVars>>

-----------------------------------------------------------------------------
(* collect.                                                                *)

LoadStart(c) ==
  /\ Goto(c, "idle", "load_end")
  /\ start' = [start EXCEPT ![c] = collect_from]
  /\ UNCHANGED <<next_order, collect_from, open, jobs, results, pending, rx_lock,
                 order, end, slots, returned, WorkerVars>>

\* An empty window returns the empty list at once.
LoadEnd(c) ==
  /\ client[c] = "load_end"
  /\ client' = [client EXCEPT ![c] = IF next_order = start[c] THEN "idle" ELSE "drain"]
  /\ end' = [end EXCEPT ![c] = next_order]
  /\ UNCHANGED <<next_order, collect_from, open, jobs, results, pending, rx_lock,
                 order, start, slots, returned, WorkerVars>>

DrainPending(c) ==
  /\ Goto(c, "drain", "lock")
  /\ slots' = [slots EXCEPT ![c] = {o \in pending : InWindow(c, o)}]
  /\ pending' = {o \in pending : ~InWindow(c, o)}
  /\ UNCHANGED <<next_order, collect_from, open, jobs, results, rx_lock, order,
                 start, end, returned, WorkerVars>>

LockRx(c) ==
  /\ rx_lock = Free
  /\ Goto(c, "lock", "recv")
  /\ rx_lock' = c
  /\ UNCHANGED <<next_order, collect_from, open, jobs, results, pending, order, start,
                 end, slots, returned, WorkerVars>>

\* One result: of an earlier window (skipped), of a later one (kept for a
\* later collect), or of this one.  Nothing looks at the order of the kept
\* ones, and one could be kept twice only after it was queued twice.
Recv(c) ==
  /\ client[c] = "recv"
  /\ slots[c] # Window(c)
  /\ results # <<>>
  /\ LET o == Head(results) IN
       /\ slots' = IF InWindow(c, o) THEN [slots EXCEPT ![c] = @ \union {o}] ELSE slots
       /\ pending' = IF o >= end[c] THEN pending \union {o} ELSE pending
  /\ results' = Tail(results)
  /\ UNCHANGED <<next_order, collect_from, open, jobs, rx_lock, client, order, start,
                 end, returned, WorkerVars>>

\* Store collect_from, build the list, release the receiver.
ReturnList(c) ==
  /\ Goto(c, "recv", "idle")
  /\ slots[c] = Window(c)
  /\ collect_from' = end[c]
  /\ returned' = [returned EXCEPT ![c] = @ \o WindowList(c)]
  /\ slots' = [slots EXCEPT ![c] = {}]
  /\ rx_lock' = Free
  /\ UNCHANGED <<next_order, open, jobs, results, pending, order, start, end,
                 WorkerVars>>

-----------------------------------------------------------------------------
(* Worker threads, and the drop of the pool.                               *)

HoldsPool == {c \in Clients : client[c] # "released" /\ client[c] # "join" /\ client[c] # "gone"}
InJobs    == {w \in W : worker[w] \in {"run", "free_job"}}

\* while let Ok(job) = job_rx.recv()
TakeJob(w) ==
  /\ worker[w] = "wait"
  /\ jobs # <<>>
  /\ worker' = [worker EXCEPT ![w] = "run"]
  /\ job' = [job EXCEPT ![w] = Head(jobs)]
  /\ jobs' = Tail(jobs)
  /\ UNCHANGED <<next_order, collect_from, open, results, pending, rx_lock, ClientVars>>

\* The block's value, or undef for any failure of it.
SendResult(w) ==
  /\ worker[w] = "run"
  /\ results' = Append(results, job[w])
  /\ worker' = [worker EXCEPT ![w] = "free_job"]
  /\ UNCHANGED <<next_order, collect_from, open, jobs, pending, rx_lock, ClientVars, job>>

\* The job and its captures go; with the last handle goes the pool, and then
\* this worker itself closes the queue and joins the workers.
FreeJob(w) ==
  /\ worker[w] = "free_job"
  /\ LET last == HoldsPool = {} /\ jobs = <<>> /\ InJobs = {w} /\ open IN
       /\ worker' = [worker EXCEPT ![w] = IF last THEN "join" ELSE "wait"]
       /\ open' = (open /\ ~last)
  /\ UNCHANGED <<next_order, collect_from, jobs, results, pending, rx_lock, ClientVars, job>>

\* The joins go through the handles in order; joining itself is an error
\* that ends the thread, and the rest are never joined.
JoinItself(w) ==
  /\ worker[w] = "join"
  /\ \A v \in W : v < w => worker[v] = "ended"
  /\ worker' = [worker EXCEPT ![w] = "ended"]
  /\ UNCHANGED <<next_order, collect_from, open, jobs, results, pending, rx_lock,
                 ClientVars, job>>

WorkerEnds(w) ==
  /\ worker[w] = "wait"
  /\ jobs = <<>> /\ ~open
  /\ worker' = [worker EXCEPT ![w] = "ended"]
  /\ UNCHANGED <<next_order, collect_from, open, jobs, results, pending, rx_lock,
                 ClientVars, job>>

\* A client's handle goes out of scope; the last handle closes the queue.
Release(c) ==
  /\ client[c] = "idle"
  /\ LET last == HoldsPool = {c} /\ jobs = <<>> /\ InJobs = {} IN
       /\ client' = [client EXCEPT ![c] = IF last THEN "join" ELSE "released"]
       /\ open' = (open /\ ~last)
  /\ UNCHANGED <<next_order, collect_from, jobs, results, pending, rx_lock, order,
                 start, end, slots, returned, WorkerVars>>

JoinWorkers(c) ==
  /\ Goto(c, "join", "gone")
  /\ \A w \in W : worker[w] = "ended"
  /\ UNCHANGED <<next_order, collect_from, open, jobs, results, pending, rx_lock, order,
                 start, end, slots, returned, WorkerVars>>

-----------------------------------------------------------------------------
CollectOn(c) == LoadEnd(c) \/ DrainPending(c) \/ LockRx(c) \/ Recv(c) \/ ReturnList(c)

WorkerStep(w) ==
  TakeJob(w) \/ SendResult(w) \/ FreeJob(w) \/ JoinItself(w) \/ WorkerEnds(w)

\* Every handle is dropped and every thread of the pool has ended.
Quiet ==
  /\ HoldsPool = {} /\ \A c \in Clients : client[c] # "join"
  /\ \A w \in W : worker[w] = "ended"
  /\ UNCHANGED vars

Next ==
  \/ \E c \in Clients : TakeOrder(c) \/ SendJob(c) \/ Release(c) \/ JoinWorkers(c)
  \/ \E c \in Collectors : LoadStart(c) \/ CollectOn(c)
  \/ \E w \in W : WorkerStep(w)
  \/ Quiet

Spec == Init /\ [][Next]_vars

(* A client finishes the call it is in and workers run; nothing says that   *)
(* another submit, collect or drop will come.                               *)
FairSpec ==
  /\ Spec
  /\ \A c \in Clients : WF_vars(SendJob(c) \/ JoinWorkers(c))
  /\ \A c \in Collectors : WF_vars(CollectOn(c))
  /\ \A w \in W : WF_vars(WorkerStep(w))

-----------------------------------------------------------------------------
ClientStates == {"idle", "send", "load_end", "drain", "lock", "recv", "released",
                 "join", "gone"}

TypeOK ==
  /\ next_order \in 0..MaxOrders /\ collect_from \in 0..next_order
  /\ open \in BOOLEAN
  /\ jobs \in Seq(Orders) /\ results \in Seq(Orders) /\ pending \in SUBSET Orders
  /\ rx_lock \in Collectors \union {Free}
  /\ client \in [Clients -> ClientStates]
  /\ order \in [Clients -> Orders]
  /\ start \in [Clients -> 0..MaxOrders] /\ end \in [Clients -> 0..MaxOrders]
  /\ slots \in [Clients -> SUBSET Orders]
  /\ returned \in [Clients -> Seq(Orders)]
  /\ worker \in [W -> {"wait", "run", "free_job", "join", "ended"}]
  /\ job \in [W -> Orders]

Positions(q, o) == {i \in DOMAIN q : q[i] = o}

\* Everywhere the job or the result of an order can be.
Places(o) ==
  {<<"client", c>> : c \in {d \in Clients : client[d] = "send" /\ order[d] = o}}
    \union {<<"jobs", i>> : i \in Positions(jobs, o)}
    \union {<<"worker", w>> : w \in {v \in W : worker[v] = "run" /\ job[v] = o}}
    \union {<<"results", i>> : i \in Positions(results, o)}
    \union {<<"pending">> : k \in pending \intersect {o}}
    \union {<<"slots", c>> : c \in {d \in Clients : o \in slots[d]}}
    \union UNION {{<<"returned", c, i>> : i \in Positions(returned[c], o)} : c \in Clients}

(* Whatever the clients interleave, a result is never lost, doubled or      *)
(* thrown away: the results a collect meets that are not its own are kept   *)
(* for another, and the branch for results before its window                *)
(* (ppool.rs:136) never meets one.                                          *)
ResultsConserved ==
  \A o \in Orders :
    IF o < next_order THEN \E p \in Places(o) : Places(o) = {p}
                      ELSE Places(o) = {}

(* collect_from never passes a result nobody has returned, and what one     *)
(* client's collects return is in submission order (ppool.rs:94-160).       *)
CollectedInOrder ==
  /\ \A o \in Orders : o < collect_from => \E c \in Collectors : o \in Range(returned[c])
  /\ \A c \in Collectors : \A i, k \in DOMAIN returned[c] :
       i < k => returned[c][i] < returned[c][k]

(* A collect always returns, whatever is submitted meanwhile and whatever   *)
(* an earlier one left in pending (ppool.rs:102-152), unless an overlapping *)
(* collect took a result of its window, or moved one to pending after this  *)
(* one had looked there; or it waits for the receiver behind such a collect.*)
Overlapped(c) ==
  /\ client[c] \in {"lock", "recv"}
  /\ \E o \in Window(c) :
       \/ o \in pending
       \/ \E d \in Collectors \ {c} : o \in slots[d] \union Range(returned[d])

CollectReturns ==
  \A c \in Collectors :
    client[c] \in {"load_end", "drain", "lock", "recv"} ~>
      \/ client[c] = "idle"
      \/ Overlapped(c)
      \/ client[c] = "lock" /\ rx_lock \in Collectors /\ Overlapped(rx_lock)

(* Once the last handle is gone every worker ends, also when a worker was   *)
(* the one to drop it (ppool.rs:163-176).                                   *)
TeardownEnds == HoldsPool = {} ~> \A w \in W : worker[w] = "ended"
=============================================================================
