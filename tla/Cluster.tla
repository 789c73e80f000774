------------------------------ MODULE Cluster ------------------------------
(***************************************************************************)
(* The dispatcher behind `pmap_on` (src/strykelang/cluster.rs): the main   *)
(* thread of run_cluster seeds a bounded work queue, collects results and  *)
(* joins the slot threads; each slot thread opens one remote session, then *)
(* takes jobs from the queue, reports their results, and on a lost session *)
(* puts the job back and exits.                                            *)
(*                                                                         *)
(* The remote end of a session is WorkerSession.tla; here a session shows  *)
(* only what its slot can observe: it opened or not, a job was answered,   *)
(* answered with a script error, or the session was lost (transport error  *)
(* or timeout).                                                            *)
(***************************************************************************)
EXTENDS Naturals, Sequences, FiniteSets

CONSTANTS
  Slots,        \* every slot a cluster may have
  MaxJobs,      \* longest list mapped
  MaxAttempts,  \* cluster.max_attempts: retries + 1, so never 0
  MinCapacity   \* the 8 of `max(8, 2 * slots)`

ASSUME ClusterAssumption ==
  /\ IsFiniteSet(Slots)
  /\ MaxJobs \in Nat
  /\ MaxAttempts \in Nat \ {0}
  /\ MinCapacity \in Nat \ {0}

VARIABLES
  jobs,     \* sequence numbers of the items of this call
  pool,     \* slots of this cluster
  main,     \* where the main thread is
  sent,     \* jobs the main thread has put in the work queue
  work,     \* the work channel, bounded by WorkCapacity
  results,  \* the result channel, unbounded
  got,      \* results[idx] of run_cluster: what the main thread collected
  answer,   \* what run_cluster returned
  slot,     \* where each slot thread is
  held,     \* the job each slot thread works on
  ran       \* times each job was sent to a remote worker (history)

vars == <<jobs, pool, main, sent, work, results, got, answer, slot, held, ran>>

Outcomes == {"ok", "err"}
Seq0     == 0..MaxJobs
Job      == [seq : Seq0, attempts : 0..MaxAttempts]
Result   == [seq : Seq0, outcome : Outcomes]
NoJob    == [seq |-> MaxJobs, attempts |-> MaxAttempts]

WorkCapacity ==
  IF 2 * Cardinality(pool) > MinCapacity THEN 2 * Cardinality(pool)
                                         ELSE MinCapacity

\* A slot thread that has returned dropped its ends of every channel.
Exited(s)   == slot[s] \in {"dead", "done"}
AllExited   == \A s \in pool : Exited(s)
ShutdownSet == main \in {"join", "returned"}
Collected   == {j \in jobs : got[j] # "none"}

Init ==
  /\ \E n \in 0..MaxJobs : jobs = {j \in Seq0 : j < n}
  /\ pool \in SUBSET Slots
  /\ main = "start"
  /\ sent = 0
  /\ work = <<>>
  /\ results = <<>>
  /\ got = [j \in jobs |-> "none"]
  /\ answer = "none"
  /\ slot = [s \in pool |-> "unborn"]
  /\ held = [s \in pool |-> NoJob]
  /\ ran = [j \in jobs |-> 0]

-----------------------------------------------------------------------------
(* Mutants: plausible bugs, each put in place of the action it is named    *)
(* after to show that a property would notice.                             *)

\* The work queue is not bounded.
SeedUnbounded ==
  /\ main = "seed" /\ sent \in jobs /\ ~AllExited
  /\ work' = Append(work, [seq |-> sent, attempts |-> 0])
  /\ sent' = sent + 1
  /\ UNCHANGED <<jobs, pool, main, results, got, answer, slot, held, ran>>

\* The early return of requeue_or_fail is missing: failed and sent again.
LoseLastRequeues(s) ==
  /\ slot[s] = "running" /\ held[s].attempts + 1 >= MaxAttempts
  /\ results' = Append(results, [seq |-> held[s].seq, outcome |-> "err"])
  /\ slot' = [slot EXCEPT ![s] = "requeue"]
  /\ UNCHANGED <<jobs, pool, main, sent, work, got, answer, held, ran>>

\* `>` for `>=` in the budget test, so one more attempt is queued.
LoseOneMore(s) ==
  /\ slot[s] = "running" /\ held[s].attempts + 1 <= MaxAttempts
  /\ slot' = [slot EXCEPT ![s] = "requeue"]
  /\ held' = [held EXCEPT ![s] = [seq |-> @.seq, attempts |-> @.attempts + 1]]
  /\ UNCHANGED <<jobs, pool, main, sent, work, results, got, answer, ran>>

\* The main thread gives up as soon as one slot is gone.
CollectDoneAnyExited ==
  /\ main = "collect"
  /\ Collected = jobs \/ (results = <<>> /\ \E s \in pool : Exited(s))
  /\ main' = "join"
  /\ UNCHANGED <<jobs, pool, sent, work, results, got, answer, slot, held, ran>>

\* run_cluster forgets to drop its result_tx: the channel never closes.
CollectDoneKeepsSender ==
  /\ main = "collect" /\ Collected = jobs
  /\ main' = "join"
  /\ UNCHANGED <<jobs, pool, sent, work, results, got, answer, slot, held, ran>>

\* Stitching skips the jobs that never completed.
StitchIgnoresHoles ==
  /\ main = "join" /\ AllExited
  /\ main' = "returned"
  /\ answer' = IF \A j \in jobs : got[j] # "err" THEN "ok" ELSE "err"
  /\ UNCHANGED <<jobs, pool, sent, work, results, got, slot, held, ran>>

-----------------------------------------------------------------------------
(* The main thread: run_cluster.                                           *)

\* No items: Ok of the empty list.  Items but no slots: an error.
ReturnEarly ==
  /\ main = "start"
  /\ jobs = {} \/ pool = {}
  /\ main' = "returned"
  /\ answer' = IF jobs = {} THEN "ok" ELSE "err"
  /\ UNCHANGED <<jobs, pool, sent, work, results, got, slot, held, ran>>

\* The spawn loop and the drops after it: only slots hold receivers now.
SpawnSlots ==
  /\ main = "start"
  /\ jobs # {} /\ pool # {}
  /\ main' = "seed"
  /\ slot' = [s \in pool |-> "opening"]
  /\ UNCHANGED <<jobs, pool, sent, work, results, got, answer, held, ran>>

\* work_tx.send blocks while the channel is full and some receiver lives.
Seed ==
  /\ main = "seed"
  /\ sent \in jobs
  /\ ~AllExited
  /\ Len(work) < WorkCapacity
  /\ work' = Append(work, [seq |-> sent, attempts |-> 0])
  /\ sent' = sent + 1
  /\ UNCHANGED <<jobs, pool, main, results, got, answer, slot, held, ran>>

\* Every receiver is gone: the call returns at once, collecting nothing.
SeedFails ==
  /\ main = "seed"
  /\ sent \in jobs
  /\ AllExited
  /\ main' = "returned"
  /\ answer' = "err"
  /\ UNCHANGED <<jobs, pool, sent, work, results, got, slot, held, ran>>

SeedDone ==
  /\ main = "seed"
  /\ sent \notin jobs
  /\ main' = "collect"
  /\ UNCHANGED <<jobs, pool, sent, work, results, got, answer, slot, held, ran>>

\* result_rx.recv: the first result of a job is kept, a second is ignored.
Collect ==
  /\ main = "collect"
  /\ Collected # jobs
  /\ results # <<>>
  /\ got' = [got EXCEPT ![Head(results).seq] =
                IF @ = "none" THEN Head(results).outcome ELSE @]
  /\ results' = Tail(results)
  /\ UNCHANGED <<jobs, pool, main, sent, work, answer, slot, held, ran>>

\* Everything received, or the channel is empty and every sender is gone.
\* Either way shutdown_tx is dropped.
CollectDone ==
  /\ main = "collect"
  /\ Collected = jobs \/ (results = <<>> /\ AllExited)
  /\ main' = "join"
  /\ UNCHANGED <<jobs, pool, sent, work, results, got, answer, slot, held, ran>>

\* Join every slot thread, then stitch: the list, or the first failure or
\* hole in it.
JoinAndStitch ==
  /\ main = "join"
  /\ AllExited
  /\ main' = "returned"
  /\ answer' = IF \A j \in jobs : got[j] = "ok" THEN "ok" ELSE "err"
  /\ UNCHANGED <<jobs, pool, sent, work, results, got, slot, held, ran>>

-----------------------------------------------------------------------------
(* A slot thread: slot_worker_loop.                                        *)

\* SlotSession::open has no timeout of its own: neither step need happen.
Open(s) ==
  /\ slot[s] = "opening"
  /\ slot' = [slot EXCEPT ![s] = "idle"]
  /\ UNCHANGED <<jobs, pool, main, sent, work, results, got, answer, held, ran>>

OpenFails(s) ==
  /\ slot[s] = "opening"
  /\ slot' = [slot EXCEPT ![s] = "dead"]
  /\ UNCHANGED <<jobs, pool, main, sent, work, results, got, answer, held, ran>>

\* The work_rx arm of select!, and the JOB frame run_job sends.
Take(s) ==
  /\ slot[s] = "idle"
  /\ work # <<>>
  /\ slot' = [slot EXCEPT ![s] = "running"]
  /\ held' = [held EXCEPT ![s] = Head(work)]
  /\ work' = Tail(work)
  /\ ran' = [ran EXCEPT ![Head(work).seq] = @ + 1]
  /\ UNCHANGED <<jobs, pool, main, sent, results, got, answer>>

\* The shutdown_rx arm.  (The third arm, a closed work_rx, cannot fire: the
\* slot itself holds a work_tx.)
SeeShutdown(s) ==
  /\ slot[s] = "idle"
  /\ ShutdownSet
  /\ slot' = [slot EXCEPT ![s] = "done"]
  /\ UNCHANGED <<jobs, pool, main, sent, work, results, got, answer, held, ran>>

\* A JOB_RESP: ok and decodable, or a script (or decode) error, which is
\* permanent and not retried.
Report(s, outcome) ==
  /\ slot[s] = "running"
  /\ results' = Append(results, [seq |-> held[s].seq, outcome |-> outcome])
  /\ slot' = [slot EXCEPT ![s] = "idle"]
  /\ held' = [held EXCEPT ![s] = NoJob]
  /\ UNCHANGED <<jobs, pool, main, sent, work, got, answer, ran>>

\* Transport error or timeout, with requeue_or_fail: the attempt counts, and
\* the job either goes back to the queue or has used up its budget.
Lose(s) ==
  /\ slot[s] = "running"
  /\ held[s].attempts + 1 < MaxAttempts
  /\ slot' = [slot EXCEPT ![s] = "requeue"]
  /\ held' = [held EXCEPT ![s] = [seq |-> @.seq, attempts |-> @.attempts + 1]]
  /\ UNCHANGED <<jobs, pool, main, sent, work, results, got, answer, ran>>

LoseLast(s) ==
  /\ slot[s] = "running"
  /\ held[s].attempts + 1 >= MaxAttempts
  /\ results' = Append(results, [seq |-> held[s].seq, outcome |-> "err"])
  /\ slot' = [slot EXCEPT ![s] = "killing"]
  /\ held' = [held EXCEPT ![s] = NoJob]
  /\ UNCHANGED <<jobs, pool, main, sent, work, got, answer, ran>>

\* work_tx.send in requeue_or_fail: blocks on a full queue.  It cannot find
\* the channel closed, the slot still holds its own work_rx.
Requeue(s) ==
  /\ slot[s] = "requeue"
  /\ Len(work) < WorkCapacity
  /\ work' = Append(work, held[s])
  /\ slot' = [slot EXCEPT ![s] = "killing"]
  /\ held' = [held EXCEPT ![s] = NoJob]
  /\ UNCHANGED <<jobs, pool, main, sent, results, got, answer, ran>>

\* session.kill and return.
Kill(s) ==
  /\ slot[s] = "killing"
  /\ slot' = [slot EXCEPT ![s] = "dead"]
  /\ UNCHANGED <<jobs, pool, main, sent, work, results, got, answer, held, ran>>

-----------------------------------------------------------------------------
MainNext ==
  \/ ReturnEarly \/ SpawnSlots
  \/ Seed \/ SeedFails \/ SeedDone
  \/ Collect \/ CollectDone
  \/ JoinAndStitch

RunJob(s) == (\E o \in Outcomes : Report(s, o)) \/ Lose(s) \/ LoseLast(s)

SlotNext(s) ==
  \/ Open(s) \/ OpenFails(s)
  \/ Take(s) \/ SeeShutdown(s)
  \/ RunJob(s)
  \/ Requeue(s) \/ Kill(s)

\* The call has returned and nothing is left running.
Terminated ==
  /\ main = "returned"
  /\ \A s \in pool : slot[s] = "unborn" \/ Exited(s)
  /\ UNCHANGED vars

Next == MainNext \/ (\E s \in pool : SlotNext(s)) \/ Terminated

Spec == Init /\ [][Next]_vars
-----------------------------------------------------------------------------
(* Fairness.  Threads are scheduled, and recv_timeout bounds every job, so *)
(* main and the slot loops always go on when they can.  Nothing bounds a   *)
(* handshake, so its end is an assumption of its own.                      *)

SlotLoop(s) ==
  s \in pool /\ (Take(s) \/ SeeShutdown(s) \/ RunJob(s) \/ Requeue(s) \/ Kill(s))

Handshake(s) == s \in pool /\ (Open(s) \/ OpenFails(s))

ThreadsRun == WF_vars(MainNext) /\ \A s \in Slots : WF_vars(SlotLoop(s))

HandshakesEnd == \A s \in Slots : WF_vars(Handshake(s))

FairSpec == Spec /\ ThreadsRun /\ HandshakesEnd

-----------------------------------------------------------------------------
(* Properties.                                                             *)

TypeOK ==
  /\ jobs \in SUBSET Seq0
  /\ pool \in SUBSET Slots
  /\ main \in {"start", "seed", "collect", "join", "returned"}
  /\ sent \in 0..(MaxJobs + 1)
  /\ work \in Seq(Job)
  /\ Len(work) <= WorkCapacity
  /\ results \in Seq(Result)
  /\ got \in [jobs -> Outcomes \union {"none"}]
  /\ answer \in Outcomes \union {"none"}
  /\ slot \in [pool -> {"unborn", "opening", "idle", "running", "requeue",
                        "killing", "dead", "done"}]
  /\ held \in [pool -> Job]
  /\ ran \in [jobs -> Nat]

\* Everywhere job j can be: queued, in a slot's hands, in the result channel,
\* collected.
Places(j) ==
  {<<"work", i>> : i \in {k \in DOMAIN work : work[k].seq = j}}
    \union {<<"slot", s>> : s \in {t \in pool : /\ slot[t] \in {"running", "requeue"}
                                              /\ held[t].seq = j}}
    \union {<<"results", i>> : i \in {k \in DOMAIN results : results[k].seq = j}}
    \union (IF got[j] = "none" THEN {} ELSE {<<"got", j>>})

(* A job that was sent is in exactly one place at any time, a job that was *)
(* not is nowhere: requeueing (cluster.rs:310) never loses or duplicates   *)
(* one, so the `results[idx].is_none()` guard (:172) never has to fire.    *)
OnePlace ==
  \A j \in jobs :
    IF j < sent THEN \E p \in Places(j) : Places(j) = {p}
                ELSE Places(j) = {}

(* A job is sent to a remote worker at most max_attempts times in all,     *)
(* over every slot that tried it (cluster.rs:316-317).                     *)
RetryBudget == \A j \in jobs : ran[j] <= MaxAttempts

(* Slots are told to stop, or the call gives up, with results missing only *)
(* when no slot is left that could have produced them (cluster.rs:163-188) *)
AbandonOnlyWhenDead ==
  ShutdownSet /\ Collected # jobs => \A s \in pool : slot[s] = "dead"

(* The dispatcher implements PmapOn: jobs are decided once, the call does  *)
(* not answer early, and it answers with the list exactly when every job   *)
(* succeeded (cluster.rs:81-83).                                           *)
Verdict(j) ==
  IF got[j] # "none" THEN got[j]
  ELSE IF \E i \in DOMAIN results : results[i].seq = j
       THEN results[CHOOSE i \in DOMAIN results : results[i].seq = j].outcome
       ELSE "none"

Abstract == INSTANCE PmapOn WITH
  dead    <- {s \in pool : slot[s] = "dead"},
  verdict <- [j \in jobs |-> Verdict(j)]

ImplementsPmapOn == Abstract!Spec

(* The call returns, whatever the slots do: the retries and failures of    *)
(* cluster.rs:30-38 and :81-83 never leave the caller blocked for ever.    *)
MapReturns == <>(main = "returned")

(* The call returns, whatever the slots do, when the list fits the work    *)
(* queue: then the blocking send of requeue_or_fail (cluster.rs:327) always*)
(* finds room, and a failed slot always gets to exit.                      *)
ReturnsIfItFits == (Cardinality(jobs) <= WorkCapacity) ~> (main = "returned")

=============================================================================
