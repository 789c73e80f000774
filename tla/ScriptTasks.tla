---------------------------- MODULE ScriptTasks ----------------------------
(***************************************************************************)
(* Concurrency as a stryke script sees it: `async`/`spawn` tasks and       *)
(* `await`, `fan`/`fan_cap` bodies on the worker pool, the variables and   *)
(* channel ends a body captures, `pchannel`/`pselect`, mutex, semaphore    *)
(* and barrier.                                                            *)
(*                                                                         *)
(* A script is data: one sequence of operations per thread.  An operation  *)
(* is [op, on, n]: its name, the set of objects it is applied to, and a    *)
(* number only some operations use.  Every other name of the language is   *)
(* left out: what matters here is which shared object a thread touches     *)
(* next.  Each builtin is one action, or two where the code lets go of the *)
(* object's lock in between (Give and Notify).                             *)
(***************************************************************************)
EXTENDS Naturals, Sequences, FiniteSets

CONSTANTS Tasks,      \* the threads a script may have
          Main,       \* the one that runs the program
          Gates,      \* mutexes and semaphores
          Chans,      \* pchannels
          Barriers,   \* barriers
          Vars,       \* scalar variables of the top-level scope
          Threads,    \* threads of the worker pool (`stryke -j`)
          Scripts     \* the scripts considered

Ops == {"take", "try", "give", "send", "recv", "drain", "select", "poll",
        "bump", "load", "store", "spawn", "await", "fan", "fan_cap",
        "undef", "meet", "die"}

Operation == [op : Ops,
              on : SUBSET (Tasks \cup Gates \cup Chans \cup Barriers \cup Vars),
              n : Nat]

(* What is fixed by the text of a script: a thread's code, whether a gate  *)
(* is a mutex and how many may pass it at first, the capacity of a channel,*)
(* the parties of a barrier and which variables are declared `mysync`.     *)
Script == [code : [Tasks -> Seq(Operation)],
           mutex : SUBSET Gates,
           permits : [Gates -> Nat],
           cap : [Chans -> Nat \ {0}],
           parties : [Barriers -> Nat \ {0}],
           mysync : SUBSET Vars]

ASSUME ScriptAssumption == /\ Scripts \subseteq Script
                           /\ \A s \in Scripts : \A g \in s.mutex : s.permits[g] = 1

(* What every script's code is like: these builtins are called on one      *)
(* object, and `$x = $x + 1` reads right before it writes, with no end of  *)
(* a block in between.                                                     *)
SingleOps == {"take", "try", "give", "meet", "bump", "load", "store"}

WellFormed(code) ==
  \A i \in 1..Len(code) :
    /\ code[i].op \in SingleOps => \E o \in code[i].on : code[i].on = {o}
    /\ code[i].op = "store" => /\ i > 1
                              /\ code[i - 1].op = "load" /\ code[i - 1].on = code[i].on
    /\ \A k \in 1..Len(code) :
         code[i].op = "try" /\ k = i + 1 + code[i].n => code[k].op # "store"

ASSUME CodeAssumption == \A s \in Scripts : \A t \in Tasks : WellFormed(s.code[t])
ASSUME TasksAssumption == Main \in Tasks /\ IsFiniteSet(Tasks)
ASSUME ThreadsAssumption == Threads \in Nat \ {0}

VARIABLES
  script,     \* the script being run (never changes)
  status,     \* unborn, queued (fan body not started), running, ending, gone
  pc,         \* index of the thread's next operation
  outcome,    \* none, ok or err: what the body left for await and fan
  free,       \* a mutex's !held (0 or 1), a semaphore's permits
  parked,     \* threads asleep on a gate's condvar
  woken,      \* threads notified that have not looked at the gate again
  notifying,  \* threads that let a permit go and have not notified yet
  queued,     \* values waiting in a channel
  scope,      \* channel ends alive in a thread's scope, <<channel, "tx" | "rx">>
  arrived,    \* threads asleep at a barrier
  store,      \* a thread's own copy of a variable; a mysync one lives in Main's
  reg,        \* value a thread has read and not yet written back
  done,       \* history: increments that completed, per variable
  closed      \* history: channels some receive reported as finished

vars == <<script, status, pc, outcome, free, parked, woken, notifying, queued,
          scope, arrived, store, reg, done, closed>>

gateVars == <<free, parked, woken, notifying>>
chanVars == <<queued, scope, closed>>
dataVars == <<store, reg, done>>
lifeVars == <<status, outcome>>

Ends == Chans \X {"tx", "rx"}

TypeOK ==
  /\ script \in Scripts
  /\ status \in [Tasks -> {"unborn", "queued", "running", "ending", "gone"}]
  /\ pc \in [Tasks -> Nat \ {0}]
  /\ outcome \in [Tasks -> {"none", "ok", "err"}]
  /\ free \in [Gates -> Nat]
  /\ \A g \in script.mutex : free[g] <= 1
  /\ parked \in [Gates -> SUBSET Tasks]
  /\ woken \in [Gates -> SUBSET Tasks]
  /\ notifying \in [Gates -> SUBSET Tasks]
  /\ queued \in [Chans -> Nat]
  /\ \A c \in Chans : queued[c] <= script.cap[c]
  /\ scope \in [Tasks -> SUBSET Ends]
  /\ arrived \in [Barriers -> SUBSET Tasks]
  /\ store \in [Tasks -> [Vars -> Nat]]
  /\ reg \in [Tasks -> Nat]
  /\ done \in [Vars -> Nat]
  /\ closed \in SUBSET Chans

Init ==
  /\ script \in Scripts
  /\ status = [t \in Tasks |-> IF t = Main THEN "running" ELSE "unborn"]
  /\ pc = [t \in Tasks |-> 1]
  /\ outcome = [t \in Tasks |-> "none"]
  /\ free = script.permits
  /\ parked = [g \in Gates |-> {}]
  /\ woken = [g \in Gates |-> {}]
  /\ notifying = [g \in Gates |-> {}]
  /\ queued = [c \in Chans |-> 0]
  /\ scope = [t \in Tasks |-> IF t = Main THEN Ends ELSE {}]
  /\ arrived = [b \in Barriers |-> {}]
  /\ store = [t \in Tasks |-> [x \in Vars |-> 0]]
  /\ reg = [t \in Tasks |-> 0]
  /\ done = [x \in Vars |-> 0]
  /\ closed = {}

-----------------------------------------------------------------------------
(* Threads.                                                                *)

Code(t) == script.code[t]

Finished(t) == pc[t] > Len(Code(t))

(* Asleep inside a builtin, or between its unlock and its notify.          *)
Held(t) == \/ \E g \in Gates : t \in parked[g] \cup notifying[g]
           \/ \E b \in Barriers : t \in arrived[b]

(* The main thread's end is the process's end: the others stop with it.    *)
Alive == status[Main] # "gone"

At(t, op) == /\ Alive
             /\ status[t] = "running"
             /\ ~Held(t)
             /\ ~Finished(t)
             /\ Code(t)[pc[t]].op = op

Args(t) == Code(t)[pc[t]].on

Step(t) == pc' = [pc EXCEPT ![t] = @ + 1]

(* An uncaught error ends the body; await and fan find it in the outcome.  *)
Fail(t) == /\ status' = [status EXCEPT ![t] = "ending"]
           /\ outcome' = [outcome EXCEPT ![t] = "err"]

-----------------------------------------------------------------------------
(* Mutexes and semaphores.                                                 *)

(* Mutant: an unlock that wakes nobody.                                    *)
GiveSilently(t, g) ==
  /\ At(t, "give") /\ g \in Args(t)
  /\ free' = [free EXCEPT ![g] = IF g \in script.mutex THEN 1 ELSE @ + 1]
  /\ Step(t)
  /\ UNCHANGED <<script, lifeVars, parked, woken, notifying, chanVars, arrived, dataVars>>

(* Mutant: mutex_unlock adds to a count, as semaphore_release does.        *)
OneMore(g) == free[g] + 1

(* mutex_lock and semaphore_acquire: the flag is looked at, and the thread *)
(* put to sleep, under the handle's own lock; a woken thread looks again,  *)
(* and one that just arrived may have been faster.                         *)
Take(t, g) ==
  /\ At(t, "take") /\ g \in Args(t)
  /\ woken' = [woken EXCEPT ![g] = @ \ {t}]
  /\ \/ /\ free[g] > 0
        /\ free' = [free EXCEPT ![g] = @ - 1]
        /\ Step(t)
        /\ UNCHANGED parked
     \/ /\ free[g] = 0
        /\ parked' = [parked EXCEPT ![g] = @ \cup {t}]
        /\ UNCHANGED <<free, pc>>
  /\ UNCHANGED <<script, lifeVars, notifying, chanVars, arrived, dataVars>>

(* `if (mutex_try_lock($m)) { ... }`, semaphore_try_acquire: a failure     *)
(* jumps over the n operations of the block.                               *)
TryTake(t, g) ==
  /\ At(t, "try") /\ g \in Args(t)
  /\ \/ /\ free[g] > 0
        /\ free' = [free EXCEPT ![g] = @ - 1]
        /\ Step(t)
     \/ /\ free[g] = 0
        /\ pc' = [pc EXCEPT ![t] = @ + 1 + Code(t)[@].n]
        /\ UNCHANGED free
  /\ UNCHANGED <<script, lifeVars, parked, woken, notifying, chanVars, arrived, dataVars>>

(* What letting go makes of the count: unlock clears `held` whoever calls  *)
(* it and however often, release adds a permit and knows no maximum.       *)
LetGo(g) == IF g \in script.mutex THEN 1 ELSE free[g] + 1

(* mutex_unlock and semaphore_release, up to the end of their inner block. *)
Give(t, g) ==
  /\ At(t, "give") /\ g \in Args(t)
  /\ free' = [free EXCEPT ![g] = LetGo(g)]
  /\ notifying' = [notifying EXCEPT ![g] = @ \cup {t}]
  /\ UNCHANGED <<script, lifeVars, pc, parked, woken, chanVars, arrived, dataVars>>

(* notify_one, after the handle's lock was let go.                         *)
Notify(t, g) ==
  /\ Alive /\ t \in notifying[g]
  /\ notifying' = [notifying EXCEPT ![g] = @ \ {t}]
  /\ \/ /\ parked[g] = {}
        /\ UNCHANGED <<parked, woken>>
     \/ \E w \in parked[g] :
          /\ parked' = [parked EXCEPT ![g] = @ \ {w}]
          /\ woken' = [woken EXCEPT ![g] = @ \cup {w}]
  /\ Step(t)
  /\ UNCHANGED <<script, lifeVars, free, chanVars, arrived, dataVars>>

-----------------------------------------------------------------------------
(* Channels.                                                               *)

(* Mutant: only the program's own copy of a channel end keeps it alive.    *)
MainHasEnd(c, end) == <<c, end>> \in scope[Main]

(* An end of a channel lives as long as some scope holds a copy of it.     *)
EndAlive(c, end) == \E t \in Tasks : <<c, end>> \in scope[t]

(* `$tx->send`: waits for room; 0 and no effect when no receiver is left;  *)
(* an error once the thread has dropped its sender.                        *)
Send(t, c) ==
  /\ At(t, "send") /\ c \in Args(t)
  /\ \/ /\ <<c, "tx">> \in scope[t]
        /\ \/ /\ EndAlive(c, "rx")
              /\ queued[c] < script.cap[c]
              /\ queued' = [queued EXCEPT ![c] = @ + 1]
           \/ /\ ~EndAlive(c, "rx")
              /\ UNCHANGED queued
        /\ Step(t)
        /\ UNCHANGED lifeVars
     \/ /\ <<c, "tx">> \notin scope[t]
        /\ Fail(t)
        /\ UNCHANGED <<queued, pc>>
  /\ UNCHANGED <<script, gateVars, scope, closed, arrived, dataVars>>

Receives == {"recv", "drain", "select", "poll"}

(* `$rx->recv`, and `pselect` over the receivers in its arguments: one     *)
(* that has a value.  "drain" is `while (defined($rx->recv)) { ... }`: it  *)
(* stays until the channel reports its end.                                *)
Receive(t, c) ==
  /\ \E op \in Receives : At(t, op)
  /\ c \in Args(t)
  /\ queued[c] > 0
  /\ queued' = [queued EXCEPT ![c] = @ - 1]
  /\ \/ At(t, "drain") /\ UNCHANGED pc
     \/ ~At(t, "drain") /\ Step(t)
  /\ UNCHANGED <<script, lifeVars, gateVars, scope, closed, arrived, dataVars>>

(* The same calls on an empty channel whose senders are gone: undef.       *)
SeeEnd(t, c) ==
  /\ \E op \in Receives : At(t, op)
  /\ c \in Args(t)
  /\ queued[c] = 0
  /\ ~EndAlive(c, "tx")
  /\ closed' = closed \cup {c}
  /\ Step(t)
  /\ UNCHANGED <<script, lifeVars, gateVars, queued, scope, arrived, dataVars>>

(* `pselect(..., timeout => S)` with nothing to take: (undef, -1).         *)
PollTimesOut(t) ==
  /\ At(t, "poll")
  /\ \A c \in Args(t) : queued[c] = 0 /\ EndAlive(c, "tx")
  /\ Step(t)
  /\ UNCHANGED <<script, lifeVars, gateVars, chanVars, arrived, dataVars>>

(* `undef $tx`: in the main program the scope's copy is dropped.  In a     *)
(* body it is an assignment to a captured variable and fails.              *)
Undef(t, c) ==
  /\ At(t, "undef") /\ c \in Args(t)
  /\ \/ /\ t = Main
        /\ scope' = [scope EXCEPT ![t] = @ \ {<<c, "tx">>}]
        /\ Step(t)
        /\ UNCHANGED lifeVars
     \/ /\ t # Main
        /\ Fail(t)
        /\ UNCHANGED <<scope, pc>>
  /\ UNCHANGED <<script, gateVars, queued, closed, arrived, dataVars>>

-----------------------------------------------------------------------------
(* Barriers (std::sync::Barrier): the last party to arrive lets all pass.  *)

Meet(t, b) ==
  /\ At(t, "meet") /\ b \in Args(t)
  /\ LET here == arrived[b] \cup {t}
     IN \/ /\ Cardinality(here) < script.parties[b]
           /\ arrived' = [arrived EXCEPT ![b] = here]
           /\ UNCHANGED pc
        \/ /\ Cardinality(here) = script.parties[b]
           /\ arrived' = [arrived EXCEPT ![b] = {}]
           /\ pc' = [u \in Tasks |-> IF u \in here THEN pc[u] + 1 ELSE pc[u]]
  /\ UNCHANGED <<script, lifeVars, gateVars, chanVars, dataVars>>

-----------------------------------------------------------------------------
(* Variables.  A mysync scalar is one cell every scope points to; any      *)
(* other one a body has is the copy made when it was captured.             *)

Home(t, x) == IF x \in script.mysync THEN Main ELSE t

(* Mutant: no parallel guard.                                              *)
AnyWrite(t, x) == TRUE

(* check_parallel_scalar_write: a body may not write a captured variable   *)
(* that is not mysync.                                                     *)
MayWrite(t, x) == t = Main \/ x \in script.mysync

Write(t, x, v) ==
  \/ /\ MayWrite(t, x)
     /\ store' = [store EXCEPT ![Home(t, x)][x] = v]
     /\ done' = [done EXCEPT ![x] = @ + 1]
     /\ Step(t)
     /\ UNCHANGED lifeVars
  \/ /\ ~MayWrite(t, x)
     /\ Fail(t)
     /\ UNCHANGED <<store, done, pc>>

(* `$x++`, `$x += 1`: one step under the cell's lock (atomic_mutate).      *)
Bump(t, x) ==
  /\ At(t, "bump") /\ x \in Args(t)
  /\ Write(t, x, store[Home(t, x)][x] + 1)
  /\ UNCHANGED <<script, gateVars, chanVars, arrived, reg>>

(* `$x = $x + 1`: a read (get_scalar), then a write (set_scalar), each     *)
(* under the cell's lock but not both.                                     *)
Load(t, x) ==
  /\ At(t, "load") /\ x \in Args(t)
  /\ reg' = [reg EXCEPT ![t] = store[Home(t, x)][x]]
  /\ Step(t)
  /\ UNCHANGED <<script, lifeVars, gateVars, chanVars, arrived, store, done>>

Store(t, x) ==
  /\ At(t, "store") /\ x \in Args(t)
  /\ Write(t, x, reg[t] + 1)
  /\ UNCHANGED <<script, gateVars, chanVars, arrived, reg>>

-----------------------------------------------------------------------------
(* Tasks and fan bodies.                                                   *)

(* capture_with_atomics copies every visible variable, used or not, and    *)
(* restore_capture declares them all in the new interpreter: with its copy *)
(* of the variables a body gets a copy of every channel end in scope.      *)
Captured(t, bodies) ==
  /\ scope' = [u \in Tasks |-> IF u \in bodies THEN scope[t] ELSE scope[u]]
  /\ store' = [u \in Tasks |-> IF u \in bodies THEN store[t] ELSE store[u]]

(* `async { }`, `spawn { }`: a thread of its own.                          *)
Spawn(t, u) ==
  /\ At(t, "spawn") /\ u \in Args(t)
  /\ status[u] = "unborn"
  /\ status' = [status EXCEPT ![u] = "running"]
  /\ Captured(t, {u})
  /\ Step(t)
  /\ UNCHANGED <<script, outcome, gateVars, queued, closed, arrived, reg, done>>

(* `await $task`: joins the thread and takes what it left; a failed body   *)
(* fails its awaiter too.                                                  *)
Await(t, u) ==
  /\ At(t, "await") /\ u \in Args(t)
  /\ status[u] = "gone"
  /\ \/ /\ outcome[u] # "err"
        /\ Step(t)
        /\ UNCHANGED lifeVars
     \/ /\ outcome[u] = "err"
        /\ Fail(t)
        /\ UNCHANGED pc
  /\ UNCHANGED <<script, gateVars, chanVars, arrived, dataVars>>

Fans == {"fan", "fan_cap"}

(* `fan N { }` captures once and hands the bodies to the worker pool.      *)
Fan(t) ==
  /\ \E op \in Fans : At(t, op)
  /\ \A u \in Args(t) : status[u] = "unborn"
  /\ status' = [u \in Tasks |-> IF u \in Args(t) THEN "queued" ELSE status[u]]
  /\ Captured(t, Args(t))
  /\ UNCHANGED <<script, outcome, pc, gateVars, queued, closed, arrived, reg, done>>

(* Every body is done (or was skipped): the first error, if any, is raised.*)
FanReturns(t) ==
  /\ \E op \in Fans : At(t, op)
  /\ \A u \in Args(t) : status[u] = "gone"
  /\ \/ /\ \A u \in Args(t) : outcome[u] # "err"
        /\ Step(t)
        /\ UNCHANGED lifeVars
     \/ /\ \E u \in Args(t) : outcome[u] = "err"
        /\ Fail(t)
        /\ UNCHANGED pc
  /\ UNCHANGED <<script, gateVars, chanVars, arrived, dataVars>>

(* The bodies handed out with u, and whether `fan` (not fan_cap) did it.   *)
Siblings(u) == {v \in Tasks : \E t \in Tasks : \E i \in 1..Len(Code(t)) :
                  Code(t)[i].op \in Fans /\ {u, v} \subseteq Code(t)[i].on}

SkipsAfterError(u) == \E t \in Tasks : \E i \in 1..Len(Code(t)) :
                        Code(t)[i].op = "fan" /\ u \in Code(t)[i].on

(* `if first_err.lock().is_some() { return }` at the head of a fan body.   *)
MustSkip(u) == SkipsAfterError(u) /\ \E v \in Siblings(u) : outcome[v] = "err"

(* The pool runs at most Threads bodies at a time.                         *)
OnPool == {v \in Tasks : Siblings(v) # {} /\ status[v] \in {"running", "ending"}}

PoolStarts(u) ==
  /\ Alive /\ status[u] = "queued"
  /\ Cardinality(OnPool) < Threads
  /\ status' = [status EXCEPT ![u] = IF MustSkip(u) THEN "ending" ELSE "running"]
  /\ UNCHANGED <<script, pc, outcome, gateVars, chanVars, arrived, dataVars>>

(* `die`, or any other runtime error of a body.                            *)
Die(t) ==
  /\ At(t, "die")
  /\ Fail(t)
  /\ UNCHANGED <<script, pc, gateVars, chanVars, arrived, dataVars>>

(* The body is through: its value is stored for await.                     *)
Finish(t) ==
  /\ Alive /\ status[t] = "running" /\ ~Held(t) /\ Finished(t)
  /\ status' = [status EXCEPT ![t] = "ending"]
  /\ outcome' = [outcome EXCEPT ![t] = "ok"]
  /\ UNCHANGED <<script, pc, gateVars, chanVars, arrived, dataVars>>

(* Mutant: what a body captured outlives it.                               *)
LeaveLeaking(t) ==
  /\ Alive /\ status[t] = "ending"
  /\ status' = [status EXCEPT ![t] = "gone"]
  /\ UNCHANGED <<script, pc, outcome, gateVars, chanVars, arrived, dataVars>>

(* The thread's closure returns, and only now drops its interpreter and    *)
(* the captured copies.                                                    *)
Leave(t) ==
  /\ Alive /\ status[t] = "ending"
  /\ status' = [status EXCEPT ![t] = "gone"]
  /\ scope' = [scope EXCEPT ![t] = {}]
  /\ UNCHANGED <<script, pc, outcome, gateVars, queued, closed, arrived, dataVars>>

-----------------------------------------------------------------------------
Next ==
  \E t \in Tasks :
    \/ \E g \in Gates : Take(t, g) \/ TryTake(t, g) \/ Give(t, g) \/ Notify(t, g)
    \/ \E c \in Chans : Send(t, c) \/ Receive(t, c) \/ SeeEnd(t, c) \/ Undef(t, c)
    \/ \E b \in Barriers : Meet(t, b)
    \/ \E x \in Vars : Bump(t, x) \/ Load(t, x) \/ Store(t, x)
    \/ \E u \in Tasks : Spawn(t, u) \/ Await(t, u)
    \/ PollTimesOut(t) \/ Fan(t) \/ FanReturns(t) \/ PoolStarts(t)
    \/ Die(t) \/ Finish(t) \/ Leave(t)

Spec == Init /\ [][Next]_vars

-----------------------------------------------------------------------------
(* Properties.                                                             *)

(* No wake-up is lost: while someone sleeps on a mutex or semaphore, every *)
(* permit that is free is on its way to a sleeper, through a thread that   *)
(* is about to notify or one already woken (mutex_unlock and               *)
(* semaphore_release notify after they let go of the lock, and a newcomer  *)
(* may take the permit a woken thread was called for).                     *)
NoSleeperForgotten ==
  \A g \in Gates : parked[g] # {} =>
    free[g] <= Cardinality(notifying[g]) + Cardinality(woken[g])

Running == {t \in Tasks : status[t] = "running" /\ ~Finished(t)}

(* u will still come to an operation of that kind on one of these objects. *)
Ahead(u, ops, on) == \E i \in pc[u]..Len(Code(u)) :
                       Code(u)[i].op \in ops /\ Code(u)[i].on \cap on # {}

(* What a thread asleep in an operation waits for another thread to do.    *)
Answer(op) == CASE op = "take" -> {"give"}
                [] op \in Receives -> {"send"}
                [] op = "send" -> Receives

(* The bodies that still have to come to barrier b.                        *)
Coming(b) == {u \in Tasks : /\ u \in Running \/ status[u] = "queued"
                            /\ Ahead(u, {"meet"}, {b})}

(* t waits for what no other running thread will ever do.                  *)
Hopeless(t) ==
  LET op == Code(t)[pc[t]].op
      nobodyElse == \A u \in Running \ {t} :
                      \/ Code(u)[pc[u]].op = op /\ Args(u) = Args(t)
                      \/ ~Ahead(u, Answer(op), Args(t))
  IN \/ /\ op = "take" /\ nobodyElse
        /\ \A g \in Args(t) : free[g] = 0
     \/ /\ op \in Receives /\ nobodyElse
        /\ \E u \in Tasks : \E c \in Args(t) :
             status[u] # "gone" /\ <<c, "tx">> \in scope[u]
     \/ /\ op = "send" /\ nobodyElse
     \/ /\ op = "meet"
        /\ \A b \in Args(t) :
             /\ script.parties[b] > Cardinality(Coming(b) \cap Running)
             /\ \/ script.parties[b] > Cardinality(Coming(b))
                \/ Cardinality(OnPool) = Threads

Stuck == Alive /\ ~ENABLED Next

(* A script stops for good only when one of its threads waits for what no  *)
(* other running thread will do: a permit kept by a body that is gone, a   *)
(* channel held open by captured copies of its sender alone, a barrier     *)
(* with more parties than bodies that can run.  No lost wake-up, no end    *)
(* that is dropped too late, no fan body that nobody starts.               *)
StuckHasACause == Stuck => \E t \in Running : Hopeless(t)

(* Operation i of t lies between a take and a give of g.                   *)
Inside(t, i, g) ==
  \E j \in 1..(i - 1) :
    /\ Code(t)[j].op \in {"take", "try"} /\ g \in Code(t)[j].on
    /\ \A k \in (j + 1)..(i - 1) : ~(Code(t)[k].op = "give" /\ g \in Code(t)[k].on)

(* The script uses g as a lock: it is given only by who has taken it, and *)
(* a failed try goes past the end of its block.                            *)
Guards(g) ==
  /\ script.permits[g] = 1
  /\ \A t \in Tasks : \A i \in 1..Len(Code(t)) :
       /\ Code(t)[i].op = "give" /\ g \in Code(t)[i].on => Inside(t, i, g)
       /\ Code(t)[i].op = "try" /\ Inside(t, i + 1 + Code(t)[i].n, g) => Inside(t, i, g)

(* The script's own discipline for x: a variable of each body, only `++`,  *)
(* or every access inside one lock.                                        *)
Disciplined(x) ==
  \/ x \notin script.mysync
  \/ \A t \in Tasks : \A i \in 1..Len(Code(t)) :
       x \in Code(t)[i].on => Code(t)[i].op = "bump"
  \/ \E g \in Gates :
       /\ Guards(g)
       /\ \A t \in Tasks : \A i \in 1..Len(Code(t)) : x \in Code(t)[i].on => Inside(t, i, g)

(* No increment is lost: what the main program reads in a variable is the  *)
(* number of increments that completed anywhere, for every variable the    *)
(* script updates with `++` or inside one mutex or one-permit semaphore,   *)
(* and for every variable that is not mysync: a body's write to it fails   *)
(* instead of vanishing with the body's copy.                              *)
CountersExact == \A x \in Vars : Disciplined(x) => store[Main][x] = done[x]

(* Once a receive has reported a channel's end, no value is in it and no   *)
(* thread can ever send on it: the undef that ends a consumer's loop is    *)
(* never premature, whichever bodies captured the sender and when.         *)
UndefIsTheEnd == \A c \in closed : queued[c] = 0 /\ ~EndAlive(c, "tx")

=============================================================================
