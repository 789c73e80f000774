------------------------- MODULE ScriptTasksProofs -------------------------
(* Theorems about ScriptTasks, for any scripts over any finite set of       *)
(* threads, any gates, channels, barriers and variables, and any pool.      *)
EXTENDS ScriptTasks, FiniteSetTheorems, TLAPS

USE DEF lifeVars, gateVars, chanVars, dataVars

(* The operation a thread has come to.                                      *)
LEMMA AtOperation ==
  ASSUME TypeOK, NEW t \in Tasks, NEW op, At(t, op)
  PROVE  /\ Code(t)[pc[t]] \in Operation
         /\ pc[t] \in 1..Len(Code(t)) /\ status[t] = "running"
         /\ \A g \in Gates : t \notin parked[g] /\ t \notin notifying[g]
<1>1. Code(t) \in Seq(Operation) /\ pc[t] \in Nat \ {0}
  BY ScriptAssumption DEF TypeOK, Code, Script
<1>2. Len(Code(t)) \in Nat /\ ~(pc[t] > Len(Code(t))) /\ status[t] = "running" /\ ~Held(t)
  BY <1>1 DEF At, Finished
<1>3. pc[t] \in 1..Len(Code(t))
  BY <1>1, <1>2
<1>4. Code(t)[pc[t]] \in Operation
  BY <1>1, <1>3
<1>5. QED
  BY <1>2, <1>3, <1>4 DEF Held

(* What a script fixes.                                                     *)
LEMMA ScriptType ==
  ASSUME TypeOK
  PROVE  /\ script.permits \in [Gates -> Nat] /\ script.mutex \in SUBSET Gates
         /\ \A g \in script.mutex : script.permits[g] = 1
         /\ script.cap \in [Chans -> Nat \ {0}]
BY ScriptAssumption DEF TypeOK, Script

(* What the parts of a step leave.                                          *)
LEMMA StepType ==
  ASSUME TypeOK, NEW t \in Tasks
  PROVE  [pc EXCEPT ![t] = @ + 1] \in [Tasks -> Nat \ {0}]
<1>1. pc[t] \in Nat /\ pc[t] + 1 \in Nat \ {0}
  BY DEF TypeOK
<1>2. QED
  BY <1>1 DEF TypeOK

LEMMA JumpType ==
  ASSUME TypeOK, NEW t \in Tasks, NEW n \in Nat
  PROVE  [pc EXCEPT ![t] = @ + 1 + n] \in [Tasks -> Nat \ {0}]
<1>1. pc[t] \in Nat /\ pc[t] + 1 + n \in Nat \ {0}
  BY DEF TypeOK
<1>2. QED
  BY <1>1 DEF TypeOK

LEMMA FailType ==
  ASSUME TypeOK, NEW t \in Tasks, Fail(t)
  PROVE  /\ status' \in [Tasks -> {"unborn", "queued", "running", "ending", "gone"}]
         /\ outcome' \in [Tasks -> {"none", "ok", "err"}]
BY DEF TypeOK, Fail

LEMMA FreeType ==
  ASSUME TypeOK, NEW g \in Gates, NEW n \in Nat, g \in script.mutex => n <= 1,
         free' = [free EXCEPT ![g] = n]
  PROVE  free' \in [Gates -> Nat] /\ \A h \in script.mutex : free'[h] <= 1
BY ScriptType DEF TypeOK

LEMMA QueuedType ==
  ASSUME TypeOK, NEW c \in Chans, NEW n \in Nat, n <= script.cap[c],
         queued' = [queued EXCEPT ![c] = n]
  PROVE  queued' \in [Chans -> Nat] /\ \A d \in Chans : queued'[d] <= script.cap[d]
BY DEF TypeOK

-----------------------------------------------------------------------------
(* Every variable keeps its type: a mutex is held or not, a channel stays   *)
(* within its capacity.                                                     *)
THEOREM TypeCorrect == Spec => []TypeOK
<1>1. Init => TypeOK
  BY TasksAssumption, ScriptAssumption DEF Init, TypeOK, Script, Ends
<1>2. TypeOK /\ [Next]_vars => TypeOK'
  <2> SUFFICES ASSUME TypeOK, [Next]_vars PROVE TypeOK'
    OBVIOUS
  <2> USE TasksAssumption DEF TypeOK
  <2>1. ASSUME NEW t \in Tasks, NEW g \in Gates, Take(t, g) PROVE TypeOK'
    <3>1. free[g] \in Nat /\ (g \in script.mutex => free[g] <= 1)
      OBVIOUS
    <3>2. CASE free[g] > 0
      <4>1. free[g] - 1 \in Nat /\ (g \in script.mutex => free[g] - 1 <= 1)
        BY <3>1, <3>2
      <4>2. /\ free' = [free EXCEPT ![g] = free[g] - 1]
            /\ pc' = [pc EXCEPT ![t] = @ + 1] /\ UNCHANGED parked
        BY <2>1, <3>2 DEF Take, Step
      <4>3. free' \in [Gates -> Nat] /\ \A h \in script.mutex : free'[h] <= 1
        BY <4>1, <4>2, FreeType
      <4>4. pc' \in [Tasks -> Nat \ {0}]
        BY <4>2, StepType
      <4>5. QED
        BY <2>1, <4>2, <4>3, <4>4 DEF Take
    <3>3. CASE ~(free[g] > 0)
      <4>1. /\ parked' = [parked EXCEPT ![g] = @ \cup {t}]
            /\ UNCHANGED <<free, pc>>
        BY <2>1, <3>3 DEF Take
      <4>2. QED
        BY <2>1, <4>1 DEF Take
    <3>4. QED
      BY <3>2, <3>3
  <2>2. ASSUME NEW t \in Tasks, NEW g \in Gates, TryTake(t, g) PROVE TypeOK'
    <3>1. /\ Code(t)[pc[t]].n \in Nat
          /\ free[g] \in Nat /\ (g \in script.mutex => free[g] <= 1)
      BY <2>2, AtOperation DEF TryTake, Operation
    <3>2. pc' \in [Tasks -> Nat \ {0}]
      <4>1. \/ pc' = [pc EXCEPT ![t] = @ + 1]
            \/ pc' = [pc EXCEPT ![t] = @ + 1 + Code(t)[pc[t]].n]
        BY <2>2 DEF TryTake, Step
      <4>2. QED
        BY <3>1, <4>1, StepType, JumpType
    <3>3. CASE free[g] > 0
      <4>1. free[g] - 1 \in Nat /\ (g \in script.mutex => free[g] - 1 <= 1)
        BY <3>1, <3>3
      <4>2. free' = [free EXCEPT ![g] = free[g] - 1]
        BY <2>2, <3>3 DEF TryTake
      <4>3. free' \in [Gates -> Nat] /\ \A h \in script.mutex : free'[h] <= 1
        BY <4>1, <4>2, FreeType
      <4>4. QED
        BY <2>2, <3>2, <4>3 DEF TryTake
    <3>4. CASE ~(free[g] > 0)
      BY <2>2, <3>2, <3>4 DEF TryTake
    <3>5. QED
      BY <3>3, <3>4
  <2>3. ASSUME NEW t \in Tasks, NEW g \in Gates, Give(t, g) PROVE TypeOK'
    <3>1. LetGo(g) \in Nat /\ (g \in script.mutex => LetGo(g) <= 1)
      BY DEF LetGo
    <3>2. free' \in [Gates -> Nat] /\ \A h \in script.mutex : free'[h] <= 1
      BY <2>3, <3>1, FreeType DEF Give
    <3>3. QED
      BY <2>3, <3>2 DEF Give
  <2>4. ASSUME NEW t \in Tasks, NEW g \in Gates, Notify(t, g) PROVE TypeOK'
    <3>1. pc' \in [Tasks -> Nat \ {0}]
      BY <2>4, StepType DEF Notify, Step
    <3>2. parked' \in [Gates -> SUBSET Tasks] /\ woken' \in [Gates -> SUBSET Tasks]
      <4>1. CASE UNCHANGED <<parked, woken>>
        BY <4>1
      <4>2. ASSUME NEW w \in parked[g],
                   parked' = [parked EXCEPT ![g] = @ \ {w}],
                   woken' = [woken EXCEPT ![g] = @ \cup {w}]
            PROVE  parked' \in [Gates -> SUBSET Tasks] /\ woken' \in [Gates -> SUBSET Tasks]
        <5>1. parked[g] \ {w} \in SUBSET Tasks /\ woken[g] \cup {w} \in SUBSET Tasks
          OBVIOUS
        <5>2. QED
          BY <4>2, <5>1
      <4>3. QED
        BY <2>4, <4>1, <4>2 DEF Notify
    <3>3. notifying' \in [Gates -> SUBSET Tasks]
      BY <2>4 DEF Notify
    <3>4. QED
      BY <2>4, <3>1, <3>2, <3>3 DEF Notify
  <2>5. ASSUME NEW t \in Tasks, NEW c \in Chans, Send(t, c) PROVE TypeOK'
    <3>1. CASE queued' = [queued EXCEPT ![c] = @ + 1] /\ queued[c] < script.cap[c] /\ Step(t)
               /\ UNCHANGED lifeVars
      <4>1. queued[c] + 1 \in Nat /\ queued[c] + 1 <= script.cap[c]
        BY <3>1, ScriptType
      <4>2. queued' \in [Chans -> Nat] /\ \A d \in Chans : queued'[d] <= script.cap[d]
        BY <3>1, <4>1, QueuedType
      <4>3. pc' \in [Tasks -> Nat \ {0}]
        BY <3>1, StepType DEF Step
      <4>4. QED
        BY <2>5, <3>1, <4>2, <4>3 DEF Send
    <3>2. CASE UNCHANGED queued /\ Step(t) /\ UNCHANGED lifeVars
      <4>1. pc' \in [Tasks -> Nat \ {0}]
        BY <3>2, StepType DEF Step
      <4>2. QED
        BY <2>5, <3>2, <4>1 DEF Send
    <3>3. CASE UNCHANGED <<queued, pc>> /\ Fail(t)
      BY <2>5, <3>3, FailType DEF Send
    <3>4. QED
      BY <2>5, <3>1, <3>2, <3>3 DEF Send
  <2>6. ASSUME NEW t \in Tasks, NEW c \in Chans, Receive(t, c) PROVE TypeOK'
    <3>1. queued[c] - 1 \in Nat /\ queued[c] - 1 <= script.cap[c]
      BY <2>6, ScriptType DEF Receive
    <3>2. queued' \in [Chans -> Nat] /\ \A d \in Chans : queued'[d] <= script.cap[d]
      BY <2>6, <3>1, QueuedType DEF Receive
    <3>3. pc' \in [Tasks -> Nat \ {0}]
      <4>1. UNCHANGED pc \/ Step(t)
        BY <2>6 DEF Receive
      <4>2. CASE UNCHANGED pc
        BY <4>2
      <4>3. CASE Step(t)
        BY <4>3, StepType DEF Step
      <4>4. QED
        BY <4>1, <4>2, <4>3
    <3>4. QED
      BY <2>6, <3>2, <3>3 DEF Receive
  <2>7. ASSUME NEW t \in Tasks, NEW c \in Chans, SeeEnd(t, c) PROVE TypeOK'
    <3>1. pc' \in [Tasks -> Nat \ {0}]
      BY <2>7, StepType DEF SeeEnd, Step
    <3>2. QED
      BY <2>7, <3>1 DEF SeeEnd
  <2>8. ASSUME NEW t \in Tasks, NEW c \in Chans, Undef(t, c) PROVE TypeOK'
    <3>1. CASE t = Main
      <4>1. pc' \in [Tasks -> Nat \ {0}] /\ UNCHANGED lifeVars
        BY <2>8, <3>1, StepType DEF Undef, Step
      <4>2. scope' \in [Tasks -> SUBSET Ends]
        <5>1. scope[t] \ {<<c, "tx">>} \in SUBSET Ends
          OBVIOUS
        <5>2. scope' = [scope EXCEPT ![t] = @ \ {<<c, "tx">>}]
          BY <2>8, <3>1 DEF Undef
        <5>3. QED
          BY <5>1, <5>2
      <4>3. QED
        BY <2>8, <4>1, <4>2 DEF Undef
    <3>2. CASE t # Main
      <4>1. Fail(t) /\ UNCHANGED <<scope, pc>>
        BY <2>8, <3>2 DEF Undef
      <4>2. QED
        BY <2>8, <4>1, FailType DEF Undef
    <3>3. QED
      BY <3>1, <3>2
  <2>9. ASSUME NEW t \in Tasks, NEW b \in Barriers, Meet(t, b) PROVE TypeOK'
    <3>1. arrived' \in [Barriers -> SUBSET Tasks]
      <4>1. arrived[b] \cup {t} \in SUBSET Tasks /\ {} \in SUBSET Tasks
        OBVIOUS
      <4>2. \/ arrived' = [arrived EXCEPT ![b] = arrived[b] \cup {t}]
            \/ arrived' = [arrived EXCEPT ![b] = {}]
        BY <2>9 DEF Meet
      <4>3. QED
        BY <4>1, <4>2
    <3>2. \A u \in Tasks : pc[u] \in Nat \ {0} /\ pc[u] + 1 \in Nat \ {0}
      OBVIOUS
    <3>3. pc' \in [Tasks -> Nat \ {0}]
      BY <2>9, <3>2 DEF Meet
    <3>4. QED
      BY <2>9, <3>1, <3>3 DEF Meet
  <2>10. ASSUME NEW t \in Tasks, NEW x \in Vars, NEW v \in Nat, Write(t, x, v)
         PROVE  /\ store' \in [Tasks -> [Vars -> Nat]] /\ done' \in [Vars -> Nat]
                /\ pc' \in [Tasks -> Nat \ {0}]
                /\ status' \in [Tasks -> {"unborn", "queued", "running", "ending", "gone"}]
                /\ outcome' \in [Tasks -> {"none", "ok", "err"}]
    <3>1. Home(t, x) \in Tasks
      BY DEF Home
    <3>2. CASE MayWrite(t, x)
      <4>1. store' \in [Tasks -> [Vars -> Nat]]
        <5>1. [store[Home(t, x)] EXCEPT ![x] = v] \in [Vars -> Nat]
          BY <3>1
        <5>2. store' = [store EXCEPT ![Home(t, x)] = [store[Home(t, x)] EXCEPT ![x] = v]]
          BY <2>10, <3>2 DEF Write
        <5>3. QED
          BY <3>1, <5>1, <5>2
      <4>2. done' \in [Vars -> Nat]
        <5>1. done[x] + 1 \in Nat /\ done' = [done EXCEPT ![x] = done[x] + 1]
          BY <2>10, <3>2 DEF Write
        <5>2. QED
          BY <5>1
      <4>3. pc' \in [Tasks -> Nat \ {0}] /\ UNCHANGED lifeVars
        BY <2>10, <3>2, StepType DEF Write, Step
      <4>4. QED
        BY <4>1, <4>2, <4>3
    <3>3. CASE ~MayWrite(t, x)
      BY <2>10, <3>3, FailType DEF Write
    <3>4. QED
      BY <3>2, <3>3
  <2>11. ASSUME NEW t \in Tasks, NEW x \in Vars, Bump(t, x) PROVE TypeOK'
    <3>1. store[Home(t, x)][x] + 1 \in Nat
      BY DEF Home
    <3>2. QED
      BY <2>10, <2>11, <3>1 DEF Bump
  <2>12. ASSUME NEW t \in Tasks, NEW x \in Vars, Load(t, x) PROVE TypeOK'
    <3>1. store[Home(t, x)][x] \in Nat
      BY DEF Home
    <3>2. pc' \in [Tasks -> Nat \ {0}]
      BY <2>12, StepType DEF Load, Step
    <3>3. QED
      BY <2>12, <3>1, <3>2 DEF Load
  <2>13. ASSUME NEW t \in Tasks, NEW x \in Vars, Store(t, x) PROVE TypeOK'
    <3>1. reg[t] + 1 \in Nat
      OBVIOUS
    <3>2. QED
      BY <2>10, <2>13, <3>1 DEF Store
  <2>14. ASSUME NEW t \in Tasks, NEW u \in Tasks, Spawn(t, u) PROVE TypeOK'
    <3>1. pc' \in [Tasks -> Nat \ {0}]
      BY <2>14, StepType DEF Spawn, Step
    <3>2. QED
      BY <2>14, <3>1 DEF Spawn, Captured
  <2>15. ASSUME NEW t \in Tasks,
                FanReturns(t) \/ PollTimesOut(t) \/ \E u \in Tasks : Await(t, u)
         PROVE  TypeOK'
    <3>1. \/ Step(t) /\ UNCHANGED lifeVars
          \/ Fail(t) /\ UNCHANGED pc
      BY <2>15 DEF Await, FanReturns, PollTimesOut
    <3>2. /\ pc' \in [Tasks -> Nat \ {0}]
          /\ status' \in [Tasks -> {"unborn", "queued", "running", "ending", "gone"}]
          /\ outcome' \in [Tasks -> {"none", "ok", "err"}]
      <4>1. CASE Step(t) /\ UNCHANGED lifeVars
        BY <4>1, StepType DEF Step
      <4>2. CASE Fail(t) /\ UNCHANGED pc
        BY <4>2, FailType
      <4>3. QED
        BY <3>1, <4>1, <4>2
    <3>3. UNCHANGED <<script, gateVars, chanVars, arrived, dataVars>>
      BY <2>15 DEF Await, FanReturns, PollTimesOut
    <3>4. QED
      BY <3>2, <3>3
  <2>16. ASSUME NEW t \in Tasks, Fan(t) PROVE TypeOK'
    BY <2>16 DEF Fan, Captured
  <2>17. ASSUME NEW t \in Tasks, PoolStarts(t) \/ Die(t) \/ Finish(t) \/ Leave(t)
         PROVE  TypeOK'
    <3>1. CASE Leave(t)
      BY <3>1 DEF Leave
    <3>2. CASE ~Leave(t)
      BY <2>17, <3>2 DEF PoolStarts, Die, Finish, Fail
    <3>3. QED
      BY <3>1, <3>2
  <2>18. CASE UNCHANGED vars
    BY <2>18 DEF vars
  <2>19. QED
    BY <2>1, <2>2, <2>3, <2>4, <2>5, <2>6, <2>7, <2>8, <2>9, <2>11, <2>12, <2>13, <2>14,
       <2>15, <2>16, <2>17, <2>18 DEF Next
<1>3. QED
  BY <1>1, <1>2, PTL DEF Spec

-----------------------------------------------------------------------------
(* Counting threads.                                                        *)
LEMMA OneMoreThread ==
  ASSUME NEW S \in SUBSET Tasks, NEW t \in Tasks
  PROVE  /\ Cardinality(S) \in Nat
         /\ t \notin S => Cardinality(S \cup {t}) = Cardinality(S) + 1
         /\ Cardinality(S \ {t}) = IF t \in S THEN Cardinality(S) - 1 ELSE Cardinality(S)
         /\ Cardinality(S \cup {t}) >= 1
<1>1. IsFiniteSet(S)
  BY FS_Subset, TasksAssumption
<1>2. Cardinality(S) \in Nat
  BY <1>1, FS_CardinalityType
<1>3. t \notin S => Cardinality(S \cup {t}) = Cardinality(S) + 1
  BY <1>1, FS_AddElement
<1>4. Cardinality(S \ {t}) = IF t \in S THEN Cardinality(S) - 1 ELSE Cardinality(S)
  BY <1>1, FS_RemoveElement
<1>5. Cardinality(S \cup {t}) >= 1
  <2>1. CASE t \in S
    <3>1. S \cup {t} = S
      BY <2>1
    <3>2. Cardinality(S) # 0
      BY <2>1, <1>1, FS_EmptySet
    <3>3. QED
      BY <1>2, <3>1, <3>2
  <2>2. CASE t \notin S
    BY <1>2, <1>3, <2>2
  <2>3. QED
    BY <2>1, <2>2
<1>6. QED
  BY <1>2, <1>3, <1>4, <1>5

(* Whoever was notified is no longer asleep.                                *)
Awake == \A g \in Gates : parked[g] \cap woken[g] = {}

(* The free permits of a gate, if somebody sleeps on it, are on their way.  *)
OnTheirWay(g) ==
  parked[g] # {} => free[g] <= Cardinality(notifying[g]) + Cardinality(woken[g])

(* No wake-up is lost. Counting alone is not inductive: a notify that woke  *)
(* a thread already woken would use up a permit for nobody.                 *)
LEMMA WakeUpInvariant == Spec => [](Awake /\ NoSleeperForgotten)
<1> DEFINE Inv == Awake /\ NoSleeperForgotten
<1>1. Init => Inv
  BY DEF Init, Awake, NoSleeperForgotten
<1>2. TypeOK /\ Inv /\ [Next]_vars => Inv'
  <2> SUFFICES ASSUME TypeOK, Inv, [Next]_vars, NEW h \in Gates
               PROVE  (parked[h] \cap woken[h] = {} /\ OnTheirWay(h))'
    BY DEF Awake, NoSleeperForgotten, OnTheirWay
  <2>0. /\ parked[h] \in SUBSET Tasks /\ woken[h] \in SUBSET Tasks
        /\ notifying[h] \in SUBSET Tasks /\ free[h] \in Nat
        /\ parked[h] \cap woken[h] = {}
        /\ OnTheirWay(h)
    BY DEF TypeOK, Awake, NoSleeperForgotten, OnTheirWay
  <2> DEFINE Kept == /\ parked'[h] = parked[h] /\ woken'[h] = woken[h]
                     /\ notifying'[h] = notifying[h] /\ free'[h] = free[h]
             Goal == /\ parked'[h] \cap woken'[h] = {}
                     /\ parked'[h] # {} =>
                          free'[h] <= Cardinality(notifying'[h]) + Cardinality(woken'[h])
  <2>1. ASSUME Kept PROVE Goal
    BY <2>0, <2>1 DEF OnTheirWay
  <2>2. ASSUME NEW t \in Tasks, NEW g \in Gates, g # h,
               Take(t, g) \/ TryTake(t, g) \/ Give(t, g) \/ Notify(t, g)
        PROVE  Kept
    BY <2>2 DEF Take, TryTake, Give, Notify, TypeOK
  <2>3. ASSUME NEW t \in Tasks, Take(t, h)
        PROVE  Goal
    <3>1. /\ Cardinality(woken[h]) \in Nat /\ Cardinality(notifying[h]) \in Nat
          /\ Cardinality(woken[h] \ {t}) \in Nat
          /\ Cardinality(woken[h] \ {t}) >= Cardinality(woken[h]) - 1
      <4>1. Cardinality(woken[h]) \in Nat /\ Cardinality(notifying[h]) \in Nat
        BY <2>0, OneMoreThread
      <4>2. Cardinality(woken[h] \ {t})
              = IF t \in woken[h] THEN Cardinality(woken[h]) - 1 ELSE Cardinality(woken[h])
        BY <2>0, OneMoreThread
      <4>3. t \in woken[h] => Cardinality(woken[h]) # 0
        <5>1. t \in woken[h] => woken[h] \cup {t} = woken[h]
          OBVIOUS
        <5>2. Cardinality(woken[h] \cup {t}) >= 1
          BY <2>0, OneMoreThread
        <5>3. QED
          BY <4>1, <5>1, <5>2
      <4>4. QED
        BY <4>1, <4>2, <4>3
    <3>2. woken'[h] = woken[h] \ {t} /\ notifying'[h] = notifying[h]
      BY <2>3 DEF Take, TypeOK
    <3>3. \/ free[h] > 0 /\ free'[h] = free[h] - 1 /\ parked'[h] = parked[h]
          \/ free[h] = 0 /\ free'[h] = 0 /\ parked'[h] = parked[h] \cup {t}
      BY <2>3 DEF Take, TypeOK
    <3>4. QED
      BY <2>0, <3>1, <3>2, <3>3 DEF OnTheirWay
  <2>4. ASSUME NEW t \in Tasks, TryTake(t, h)
        PROVE  Goal
    <3>1. Cardinality(woken[h]) \in Nat /\ Cardinality(notifying[h]) \in Nat
      BY <2>0, <2>4, OneMoreThread
    <3>2. /\ parked' = parked /\ woken' = woken /\ notifying' = notifying
          /\ free'[h] <= free[h] /\ free'[h] \in Nat
      BY <2>0, <2>4 DEF TryTake, TypeOK
    <3>3. QED
      BY <2>0, <3>1, <3>2 DEF OnTheirWay
  <2>5. ASSUME NEW t \in Tasks, Give(t, h)
        PROVE  Goal
    <3>1. t \notin notifying[h]
      BY <2>5, AtOperation DEF Give
    <3>2. /\ Cardinality(woken[h]) \in Nat /\ Cardinality(notifying[h]) \in Nat
          /\ Cardinality(notifying[h] \cup {t}) = Cardinality(notifying[h]) + 1
      BY <2>0, <3>1, OneMoreThread
    <3>3. /\ parked' = parked /\ woken' = woken
          /\ notifying'[h] = notifying[h] \cup {t}
          /\ free'[h] \in {1, free[h] + 1}
      BY <2>5 DEF Give, LetGo, TypeOK
    <3>4. QED
      BY <2>0, <3>2, <3>3 DEF OnTheirWay
  <2>6. ASSUME NEW t \in Tasks, Notify(t, h)
        PROVE  Goal
    <3>1. t \in notifying[h] /\ notifying'[h] = notifying[h] \ {t} /\ free' = free
      BY <2>6 DEF Notify, TypeOK
    <3>2. /\ Cardinality(woken[h]) \in Nat /\ Cardinality(notifying[h]) \in Nat
          /\ Cardinality(notifying[h] \ {t}) = Cardinality(notifying[h]) - 1
      BY <2>0, <3>1, OneMoreThread
    <3>3. CASE parked[h] = {}
      BY <2>6, <3>3 DEF Notify
    <3>4. CASE parked[h] # {}
      <4>1. PICK w \in parked[h] :
                   /\ parked' = [parked EXCEPT ![h] = @ \ {w}]
                   /\ woken' = [woken EXCEPT ![h] = @ \cup {w}]
        BY <2>6, <3>4 DEF Notify
      <4>2. parked'[h] = parked[h] \ {w} /\ woken'[h] = woken[h] \cup {w}
        BY <4>1 DEF TypeOK
      <4>3. Cardinality(woken[h] \cup {w}) = Cardinality(woken[h]) + 1
        BY <2>0, <4>1, OneMoreThread
      <4>4. QED
        BY <2>0, <3>1, <3>2, <3>4, <4>2, <4>3 DEF OnTheirWay
    <3>5. QED
      BY <3>3, <3>4
  <2>7. ASSUME NEW t \in Tasks,
               \/ \E c \in Chans : Send(t, c) \/ Receive(t, c) \/ SeeEnd(t, c) \/ Undef(t, c)
               \/ \E b \in Barriers : Meet(t, b)
               \/ \E x \in Vars : Bump(t, x) \/ Load(t, x) \/ Store(t, x)
               \/ \E u \in Tasks : Spawn(t, u) \/ Await(t, u)
               \/ PollTimesOut(t) \/ Fan(t) \/ FanReturns(t) \/ PoolStarts(t)
               \/ Die(t) \/ Finish(t) \/ Leave(t)
        PROVE  Kept
    BY <2>7 DEF Send, Receive, SeeEnd, Undef, Meet, Bump, Load, Store, Spawn, Await,
                PollTimesOut, Fan, FanReturns, PoolStarts, Die, Finish, Leave
  <2>8. CASE UNCHANGED vars
    BY <2>8, <2>1 DEF vars, OnTheirWay
  <2>9. Goal
    BY <2>1, <2>2, <2>3, <2>4, <2>5, <2>6, <2>7, <2>8 DEF Next, vars
  <2>10. QED
    BY <2>9 DEF OnTheirWay
<1>3. QED
  BY <1>1, <1>2, TypeCorrect, PTL DEF Spec

THEOREM NoWakeUpLost == Spec => []NoSleeperForgotten
BY WakeUpInvariant, PTL

-----------------------------------------------------------------------------
(* A sender is passed on only by a thread that has it, and only such a      *)
(* thread sends: the end of a channel is for ever.                          *)
LEMMA SendersOnlyCopied ==
  ASSUME TypeOK, [Next]_vars, NEW c \in Chans, ~EndAlive(c, "tx")
  PROVE  ~EndAlive(c, "tx")' /\ queued'[c] \in 0 .. queued[c]
<1>0. queued[c] \in Nat /\ \A t \in Tasks : <<c, "tx">> \notin scope[t]
  BY DEF EndAlive, TypeOK
<1> SUFFICES (\A t \in Tasks : <<c, "tx">> \notin scope'[t]) /\ queued'[c] \in 0 .. queued[c]
  BY DEF EndAlive
<1> DEFINE Kept == UNCHANGED scope /\ queued'[c] \in 0 .. queued[c]
           Less == UNCHANGED queued /\ \A t \in Tasks : <<c, "tx">> \notin scope'[t]
<1>1. ASSUME NEW t \in Tasks, NEW d \in Chans, Send(t, d)
      PROVE  Kept
  <2>1. CASE d = c
    BY <1>0, <1>1, <2>1 DEF Send
  <2>2. CASE d # c
    BY <1>0, <1>1, <2>2 DEF Send, TypeOK
  <2>3. QED
    BY <2>1, <2>2
<1>2. ASSUME NEW t \in Tasks, NEW d \in Chans, Receive(t, d)
      PROVE  Kept
  <2>1. scope' = scope /\ queued[d] > 0 /\ queued' = [queued EXCEPT ![d] = queued[d] - 1]
    BY <1>2 DEF Receive
  <2>2. queued'[c] \in {queued[c], queued[c] - 1} /\ (d = c => queued[c] > 0)
        /\ (d # c => queued'[c] = queued[c])
    BY <2>1 DEF TypeOK
  <2>3. QED
    BY <1>0, <2>1, <2>2
<1>3. ASSUME NEW t \in Tasks, NEW d \in Chans, Undef(t, d)
      PROVE  Less
  <2>1. queued' = queued /\ \/ scope' = scope
                            \/ scope' = [scope EXCEPT ![t] = @ \ {<<d, "tx">>}]
    BY <1>3 DEF Undef
  <2>2. ASSUME NEW u \in Tasks
        PROVE  scope'[u] \in {scope[u], scope[u] \ {<<d, "tx">>}}
    <3>1. scope \in [Tasks -> SUBSET Ends]
      BY DEF TypeOK
    <3>2. QED
      BY <2>1, <3>1
  <2>3. QED
    BY <1>0, <2>1, <2>2, Zenon
<1>4. ASSUME NEW t \in Tasks, Fan(t) \/ \E u \in Tasks : Spawn(t, u)
      PROVE  Less
  BY <1>0, <1>4 DEF Fan, Spawn, Captured
<1>5. ASSUME NEW t \in Tasks, Leave(t)
      PROVE  Less
  BY <1>0, <1>5 DEF Leave, TypeOK
<1>6. ASSUME NEW t \in Tasks,
             \/ \E g \in Gates : Take(t, g) \/ TryTake(t, g) \/ Give(t, g) \/ Notify(t, g)
             \/ \E d \in Chans : SeeEnd(t, d)
             \/ \E b \in Barriers : Meet(t, b)
             \/ \E x \in Vars : Bump(t, x) \/ Load(t, x) \/ Store(t, x)
             \/ \E u \in Tasks : Await(t, u)
             \/ PollTimesOut(t) \/ FanReturns(t) \/ PoolStarts(t) \/ Die(t) \/ Finish(t)
      PROVE  UNCHANGED <<scope, queued>>
  BY <1>6 DEF Take, TryTake, Give, Notify, SeeEnd, Meet, Bump, Load, Store, Await,
              PollTimesOut, FanReturns, PoolStarts, Die, Finish
<1>7. CASE UNCHANGED vars
  BY <1>7, <1>0 DEF vars
<1>8. Kept \/ Less \/ UNCHANGED <<scope, queued>>
  BY <1>1, <1>2, <1>3, <1>4, <1>5, <1>6, <1>7 DEF Next, vars
<1>9. queued[c] \in 0 .. queued[c]
  BY <1>0
<1>10. QED
  BY <1>0, <1>8, <1>9

(* The undef that ends a consumer's loop is never premature.                *)
THEOREM EndsAreFinal == Spec => []UndefIsTheEnd
<1>1. Init => UndefIsTheEnd
  BY DEF Init, UndefIsTheEnd
<1>2. TypeOK /\ UndefIsTheEnd /\ [Next]_vars => UndefIsTheEnd'
  <2> SUFFICES ASSUME TypeOK, UndefIsTheEnd, [Next]_vars, NEW c \in closed'
               PROVE  queued'[c] = 0 /\ ~EndAlive(c, "tx")'
    BY DEF UndefIsTheEnd
  <2>1. c \in Chans /\ queued[c] = 0 /\ ~EndAlive(c, "tx")
    <3>1. CASE c \in closed
      BY <3>1 DEF UndefIsTheEnd, TypeOK
    <3>2. CASE c \notin closed
      <4>1. ASSUME NEW t \in Tasks, NEW d \in Chans, SeeEnd(t, d)
            PROVE  c = d
        BY <3>2, <4>1 DEF SeeEnd
      <4>2. ASSUME NEW t \in Tasks,
                   \/ \E g \in Gates : Take(t, g) \/ TryTake(t, g) \/ Give(t, g) \/ Notify(t, g)
                   \/ \E d \in Chans : Send(t, d) \/ Receive(t, d) \/ Undef(t, d)
                   \/ \E b \in Barriers : Meet(t, b)
                   \/ \E x \in Vars : Bump(t, x) \/ Load(t, x) \/ Store(t, x)
                   \/ \E u \in Tasks : Spawn(t, u) \/ Await(t, u)
                   \/ PollTimesOut(t) \/ Fan(t) \/ FanReturns(t) \/ PoolStarts(t)
                   \/ Die(t) \/ Finish(t) \/ Leave(t)
            PROVE  UNCHANGED closed
        BY <4>2 DEF Take, TryTake, Give, Notify, Send, Receive, Undef, Meet, Bump, Load, Store,
                    Spawn, Await, PollTimesOut, Fan, FanReturns, PoolStarts, Die, Finish, Leave
      <4>3. ~UNCHANGED closed /\ ~UNCHANGED vars
        BY <3>2 DEF vars
      <4>4. \E t \in Tasks : \E d \in Chans : SeeEnd(t, d)
        BY <4>2, <4>3 DEF Next
      <4>5. QED
        BY <4>1, <4>4 DEF SeeEnd
    <3>3. QED
      BY <3>1, <3>2
  <2>2. QED
    BY <2>1, SendersOnlyCopied
<1>3. QED
  BY <1>1, <1>2, TypeCorrect, PTL DEF Spec
-----------------------------------------------------------------------------
(* Counters.  Where a thread is, and that one which is inside a builtin is  *)
(* still at its call.                                                       *)
AtOp(t, op) == pc[t] \in 1..Len(Code(t)) /\ Code(t)[pc[t]].op = op

Calls ==
  /\ status[Main] # "unborn"
  /\ \A t \in Tasks :
       /\ \A g \in Gates : t \in notifying[g] => AtOp(t, "give") /\ g \in Args(t)
       /\ \A b \in Barriers : t \in arrived[b] => AtOp(t, "meet") /\ b \in Args(t)

(* A thread keeps a gate that its code took and did not give yet.           *)
Keeps(t, g) == Inside(t, pc[t], g) /\ t \notin notifying[g]

(* A gate used as a lock is free or kept by one thread.                     *)
OneKeeper(g) ==
  /\ free[g] <= 1
  /\ \A t \in Tasks : Keeps(t, g) => free[g] = 0 /\ \A u \in Tasks : Keeps(u, g) => u = t

Locks == \A g \in Gates : Guards(g) => OneKeeper(g)

(* A thread about to write back the variable that the program reads.        *)
Stores(t, x) == AtOp(t, "store") /\ x \in Args(t) /\ Home(t, x) = Main

Exact(x) == store[Main][x] = done[x] /\ \A t \in Tasks : Stores(t, x) => reg[t] = store[Main][x]

Counted == \A x \in Vars : Disciplined(x) => Exact(x)
LEMMA CodeType ==
  ASSUME TypeOK, NEW t \in Tasks
  PROVE  /\ Len(Code(t)) \in Nat /\ pc[t] \in Nat \ {0} /\ WellFormed(Code(t))
         /\ \A i \in 1..Len(Code(t)) : Code(t)[i] \in Operation
BY ScriptAssumption, CodeAssumption DEF TypeOK, Code, Script

LEMMA OneObject ==
  ASSUME TypeOK, NEW t \in Tasks, NEW i \in 1..Len(Code(t)), Code(t)[i].op \in SingleOps,
         NEW a \in Code(t)[i].on, NEW b \in Code(t)[i].on
  PROVE  a = b
BY CodeType DEF WellFormed

(* How a thread moves on, by its operation, and what a step may change.     *)
Past(u, ops) ==
  /\ pc[u] \in 1..Len(Code(u)) /\ Code(u)[pc[u]].op \in ops
  /\ pc'[u] = pc[u] + 1

Jumped(u) == AtOp(u, "try") /\ pc'[u] = pc[u] + 1 + Code(u)[pc[u]].n

Rest(t) == \A u \in Tasks : u # t => pc'[u] = pc[u]

LEMMA Arrives ==
  ASSUME TypeOK, NEW t \in Tasks, NEW op, At(t, op)
  PROVE  AtOp(t, op) /\ ~Held(t) /\ status[t] = "running"
BY AtOperation DEF At, AtOp

LEMMA Steps ==
  ASSUME TypeOK, NEW t \in Tasks, NEW op, AtOp(t, op), Step(t)
  PROVE  Past(t, {op}) /\ Rest(t)
BY DEF Step, Past, Rest, AtOp, TypeOK

(* A builtin that touches neither a gate, a barrier nor a variable.         *)
Plain(t) ==
  \/ \E c \in Chans : Send(t, c) \/ Receive(t, c) \/ SeeEnd(t, c) \/ Undef(t, c)
  \/ \E u \in Tasks : Spawn(t, u) \/ Await(t, u)
  \/ PollTimesOut(t) \/ Fan(t) \/ FanReturns(t) \/ PoolStarts(t)
  \/ Die(t) \/ Finish(t) \/ Leave(t)

PlainOps == Ops \ SingleOps

LEMMA PlainMoves ==
  ASSUME TypeOK, NEW t \in Tasks, Plain(t)
  PROVE  /\ UNCHANGED <<script, gateVars, arrived, reg, done>>
         /\ Rest(t)
         /\ \/ pc'[t] = pc[t]
            \/ ~Held(t) /\ Past(t, PlainOps)
<1>1. ASSUME NEW op, At(t, op), op \in PlainOps, Step(t)
      PROVE  Rest(t) /\ ~Held(t) /\ Past(t, PlainOps)
  BY <1>1, Arrives, Steps DEF Past
<1>2. {"send", "recv", "drain", "select", "poll", "undef", "spawn", "await", "fan", "fan_cap"}
        \subseteq PlainOps
  BY DEF PlainOps, Ops, SingleOps
<1> DEFINE Goal == Rest(t) /\ \/ pc'[t] = pc[t]
                              \/ ~Held(t) /\ Past(t, PlainOps)
<1>3. UNCHANGED pc \/ (Step(t) /\ \E op \in PlainOps : At(t, op)) => Goal
  <2>1. UNCHANGED pc => Goal
    BY DEF Rest
  <2>2. ASSUME NEW op \in PlainOps, At(t, op), Step(t)
        PROVE  Goal
    BY <1>1, <2>2
  <2>3. QED
    BY <2>1, <2>2
<1>4. ASSUME NEW c \in Chans, Send(t, c) \/ SeeEnd(t, c) \/ Receive(t, c) \/ Undef(t, c)
      PROVE  Goal
  <2>1. UNCHANGED pc \/ (Step(t) /\ \E op \in PlainOps : At(t, op))
    BY <1>2, <1>4 DEF Send, SeeEnd, Receive, Undef, Receives
  <2> HIDE DEF Goal
  <2>2. QED
    BY <1>3, <2>1
<1>5. ASSUME NEW u \in Tasks, Spawn(t, u) \/ Await(t, u)
      PROVE  Goal
  <2>1. UNCHANGED pc \/ (Step(t) /\ \E op \in PlainOps : At(t, op))
    BY <1>2, <1>5 DEF Spawn, Await
  <2> HIDE DEF Goal
  <2>2. QED
    BY <1>3, <2>1
<1>6. ASSUME PollTimesOut(t) \/ Fan(t) \/ FanReturns(t)
      PROVE  Goal
  <2>1. UNCHANGED pc \/ (Step(t) /\ \E op \in PlainOps : At(t, op))
    BY <1>2, <1>6 DEF PollTimesOut, Fan, FanReturns, Fans
  <2> HIDE DEF Goal
  <2>2. QED
    BY <1>3, <2>1
<1>7. ASSUME PoolStarts(t) \/ Die(t) \/ Finish(t) \/ Leave(t)
      PROVE  Goal
  BY <1>3, <1>7 DEF PoolStarts, Die, Finish, Leave
<1>8. UNCHANGED <<script, gateVars, arrived, reg, done>>
  BY DEF Plain, Send, Receive, SeeEnd, Undef, Spawn, Await, PollTimesOut, Fan, FanReturns,
         PoolStarts, Die, Finish, Leave
<1>9. QED
  BY <1>4, <1>5, <1>6, <1>7, <1>8 DEF Plain

(* Such a step leaves the program's own variables alone.                    *)
LEMMA MainStays ==
  ASSUME TypeOK, status[Main] # "unborn", NEW t \in Tasks, Plain(t)
  PROVE  status'[Main] # "unborn" /\ store'[Main] = store[Main]
<1>1. ASSUME NEW u \in Tasks, Spawn(t, u)
      PROVE  status'[Main] # "unborn" /\ store'[Main] = store[Main]
  BY <1>1, TasksAssumption DEF Spawn, Captured, TypeOK
<1>2. CASE Fan(t)
  BY <1>2, TasksAssumption DEF Fan, Captured, TypeOK
<1>3. ASSUME NEW c \in Chans, Send(t, c) \/ Receive(t, c) \/ SeeEnd(t, c) \/ Undef(t, c)
      PROVE  status'[Main] # "unborn" /\ store'[Main] = store[Main]
  BY <1>3, TasksAssumption DEF Send, Receive, SeeEnd, Undef, Fail, TypeOK
<1>4. ASSUME NEW u \in Tasks, Await(t, u)
      PROVE  status'[Main] # "unborn" /\ store'[Main] = store[Main]
  BY <1>4, TasksAssumption DEF Await, Fail, TypeOK
<1>5. CASE PollTimesOut(t) \/ FanReturns(t) \/ PoolStarts(t) \/ Die(t) \/ Finish(t) \/ Leave(t)
  BY <1>5, TasksAssumption DEF PollTimesOut, FanReturns, PoolStarts, Die, Finish, Leave, Fail, TypeOK
<1>6. QED
  BY <1>1, <1>2, <1>3, <1>4, <1>5 DEF Plain
(* What the builtins of a gate do.                                          *)
LEMMA Acquires ==
  ASSUME TypeOK, NEW t \in Tasks, NEW g \in Gates, Take(t, g) \/ TryTake(t, g)
  PROVE  /\ UNCHANGED <<script, notifying, arrived, status, reg, store, done>>
         /\ ~Held(t) /\ Rest(t)
         /\ \/ free' = free /\ pc'[t] = pc[t]
            \/ free' = free /\ Jumped(t)
            \/ /\ free[g] > 0 /\ free' = [free EXCEPT ![g] = @ - 1]
               /\ Past(t, {"take", "try"}) /\ g \in Args(t)
<1>1. UNCHANGED <<script, notifying, arrived, status, reg, store, done>>
  BY DEF Take, TryTake
<1>2. g \in Args(t) /\ (At(t, "take") \/ At(t, "try"))
  BY DEF Take, TryTake
<1>3. ~Held(t) /\ (AtOp(t, "take") \/ AtOp(t, "try"))
  BY <1>2, Arrives
<1>4. CASE free[g] > 0 /\ free' = [free EXCEPT ![g] = @ - 1] /\ Step(t)
  <2>1. Rest(t) /\ (Past(t, {"take"}) \/ Past(t, {"try"}))
    BY <1>3, <1>4, Steps
  <2>2. Past(t, {"take", "try"})
    BY <2>1 DEF Past
  <2>3. QED
    BY <1>1, <1>2, <1>3, <1>4, <2>1, <2>2
<1>5. CASE free' = free /\ UNCHANGED pc
  BY <1>1, <1>3, <1>5 DEF Rest
<1>6. CASE At(t, "try") /\ free' = free /\ pc' = [pc EXCEPT ![t] = @ + 1 + Code(t)[@].n]
  <2>1. AtOp(t, "try")
    BY <1>6, Arrives
  <2>2. pc'[t] = pc[t] + 1 + Code(t)[pc[t]].n /\ Rest(t)
    BY <1>6 DEF Rest, TypeOK
  <2>3. QED
    BY <1>1, <1>3, <1>6, <2>1, <2>2 DEF Jumped
<1>7. QED
  BY <1>4, <1>5, <1>6 DEF Take, TryTake

LEMMA Releases ==
  ASSUME TypeOK, NEW t \in Tasks, NEW g \in Gates, Give(t, g)
  PROVE  /\ UNCHANGED <<script, pc, arrived, status, reg, store, done>>
         /\ ~Held(t) /\ AtOp(t, "give") /\ g \in Args(t)
         /\ free' = [free EXCEPT ![g] = LetGo(g)]
         /\ notifying' = [notifying EXCEPT ![g] = @ \cup {t}]
BY Arrives DEF Give

LEMMA Notifies ==
  ASSUME TypeOK, Calls, NEW t \in Tasks, NEW g \in Gates, Notify(t, g)
  PROVE  /\ UNCHANGED <<script, free, arrived, status, reg, store, done>>
         /\ t \in notifying[g] /\ AtOp(t, "give") /\ g \in Args(t)
         /\ Past(t, {"give"}) /\ Rest(t)
         /\ notifying' = [notifying EXCEPT ![g] = @ \ {t}]
<1>1. t \in notifying[g] /\ AtOp(t, "give") /\ g \in Args(t) /\ Step(t)
  BY DEF Notify, Calls
<1>2. Past(t, {"give"}) /\ Rest(t)
  BY <1>1, Steps
<1>3. QED
  BY <1>1, <1>2 DEF Notify

(* A barrier moves on only the threads that meet there.                     *)
LEMMA Meets ==
  ASSUME TypeOK, Calls, NEW t \in Tasks, NEW b \in Barriers, Meet(t, b)
  PROVE  /\ UNCHANGED <<script, gateVars, status, reg, store, done>>
         /\ ~Held(t) /\ AtOp(t, "meet") /\ b \in Args(t)
         /\ \A u \in Tasks : \/ pc'[u] = pc[u]
                             \/ Past(u, {"meet"}) /\ b \in Args(u)
         /\ \/ arrived' = [arrived EXCEPT ![b] = @ \cup {t}] /\ UNCHANGED pc
            \/ arrived' = [arrived EXCEPT ![b] = {}]
<1>1. ~Held(t) /\ AtOp(t, "meet") /\ b \in Args(t)
  BY Arrives DEF Meet
<1>2. \A u \in arrived[b] \cup {t} : AtOp(u, "meet") /\ b \in Args(u)
  BY <1>1 DEF Calls, TypeOK
<1>3. ASSUME pc' = [u \in Tasks |-> IF u \in arrived[b] \cup {t} THEN pc[u] + 1 ELSE pc[u]],
             NEW u \in Tasks
      PROVE  pc'[u] = pc[u] \/ (Past(u, {"meet"}) /\ b \in Args(u))
  <2>1. CASE u \in arrived[b] \cup {t}
    BY <1>2, <1>3, <2>1 DEF Past, AtOp
  <2>2. CASE u \notin arrived[b] \cup {t}
    BY <1>3, <2>2
  <2>3. QED
    BY <2>1, <2>2
<1>4. UNCHANGED <<script, gateVars, status, reg, store, done>>
  BY DEF Meet
<1>5. CASE arrived' = [arrived EXCEPT ![b] = @ \cup {t}] /\ UNCHANGED pc
  BY <1>1, <1>4, <1>5
<1>6. CASE /\ arrived' = [arrived EXCEPT ![b] = {}]
           /\ pc' = [u \in Tasks |-> IF u \in arrived[b] \cup {t} THEN pc[u] + 1 ELSE pc[u]]
  BY <1>1, <1>3, <1>4, <1>6
<1>7. QED
  BY <1>5, <1>6 DEF Meet

(* What the accesses to a variable do.                                      *)
LEMMA Reads ==
  ASSUME TypeOK, NEW t \in Tasks, NEW x \in Vars, Load(t, x)
  PROVE  /\ UNCHANGED <<script, gateVars, arrived, status, store, done>>
         /\ ~Held(t) /\ AtOp(t, "load") /\ x \in Args(t)
         /\ Past(t, {"load"}) /\ Rest(t)
         /\ reg' = [reg EXCEPT ![t] = store[Home(t, x)][x]]
BY Arrives, Steps DEF Load

LEMMA Writes ==
  ASSUME TypeOK, NEW t \in Tasks, NEW x \in Vars, NEW v \in Nat, NEW op,
         At(t, op), Write(t, x, v)
  PROVE  \/ /\ Past(t, {op}) /\ Rest(t) /\ status' = status
            /\ MayWrite(t, x) /\ Home(t, x) = Main
            /\ store' = [store EXCEPT ![Main][x] = v]
            /\ done' = [done EXCEPT ![x] = @ + 1]
         \/ /\ UNCHANGED <<pc, store, done>>
            /\ status' = [status EXCEPT ![t] = "ending"]
<1>1. CASE ~MayWrite(t, x)
  BY <1>1 DEF Write, Fail
<1>2. CASE MayWrite(t, x)
  <2>1. Home(t, x) = Main
    BY <1>2 DEF MayWrite, Home
  <2>2. Step(t) /\ AtOp(t, op)
    BY <1>2, Arrives DEF Write
  <2>3. Past(t, {op}) /\ Rest(t)
    BY <2>2, Steps
  <2>4. QED
    BY <1>2, <2>1, <2>3 DEF Write
<1>3. QED
  BY <1>1, <1>2
(* A thread that has not moved is at the same call.                         *)
LEMMA SamePlace ==
  ASSUME UNCHANGED script, NEW u \in Tasks, pc'[u] = pc[u]
  PROVE  Args(u)' = Args(u) /\ \A op : AtOp(u, op)' <=> AtOp(u, op)
BY DEF Args, AtOp, Code

LEMMA QuietCalls ==
  ASSUME TypeOK, Calls, UNCHANGED <<script, notifying, arrived>>, status'[Main] # "unborn",
         \A u \in Tasks : pc'[u] = pc[u] \/ ~Held(u)
  PROVE  Calls'
<1>1. ASSUME NEW u \in Tasks, Held(u)
      PROVE  Args(u)' = Args(u) /\ \A op : AtOp(u, op)' <=> AtOp(u, op)
  BY <1>1, SamePlace
<1>2. ASSUME NEW u \in Tasks, NEW g \in Gates, u \in notifying'[g]
      PROVE  AtOp(u, "give")' /\ g \in Args(u)'
  BY <1>1, <1>2 DEF Calls, Held
<1>3. ASSUME NEW u \in Tasks, NEW b \in Barriers, u \in arrived'[b]
      PROVE  AtOp(u, "meet")' /\ b \in Args(u)'
  BY <1>1, <1>3 DEF Calls, Held
<1>4. QED
  BY <1>2, <1>3 DEF Calls

LEMMA GateCalls ==
  ASSUME TypeOK, Calls, NEW t \in Tasks, NEW g \in Gates,
         Take(t, g) \/ TryTake(t, g) \/ Give(t, g) \/ Notify(t, g)
  PROVE  Calls'
<1>1. CASE Take(t, g) \/ TryTake(t, g)
  <2>1. \A u \in Tasks : pc'[u] = pc[u] \/ ~Held(u)
    BY <1>1, Acquires DEF Rest
  <2>2. QED
    BY <1>1, <2>1, Acquires, QuietCalls DEF Calls
<1>2. CASE Give(t, g)
  <2>1. /\ UNCHANGED <<script, pc, arrived, status>> /\ AtOp(t, "give") /\ g \in Args(t)
        /\ notifying' = [notifying EXCEPT ![g] = @ \cup {t}]
    BY <1>2, Releases
  <2>2. \A u \in Tasks : Args(u)' = Args(u) /\ \A op : AtOp(u, op)' <=> AtOp(u, op)
    BY <2>1, SamePlace
  <2>3. ASSUME NEW u \in Tasks, NEW h \in Gates, u \in notifying'[h]
        PROVE  AtOp(u, "give")' /\ h \in Args(u)'
    <3>1. (u = t /\ h = g) \/ u \in notifying[h]
      BY <2>1, <2>3 DEF TypeOK
    <3>2. QED
      BY <2>1, <2>2, <3>1 DEF Calls
  <2>4. QED
    BY <2>1, <2>2, <2>3 DEF Calls
<1>3. CASE Notify(t, g)
  <2>1. /\ UNCHANGED <<script, arrived, status>> /\ AtOp(t, "give") /\ g \in Args(t) /\ Rest(t)
        /\ notifying' = [notifying EXCEPT ![g] = @ \ {t}]
    BY <1>3, Notifies
  <2>2. \A u \in Tasks \ {t} : Args(u)' = Args(u) /\ \A op : AtOp(u, op)' <=> AtOp(u, op)
    BY <2>1, SamePlace DEF Rest
  <2>3. ASSUME NEW u \in Tasks, NEW h \in Gates, u \in notifying'[h]
        PROVE  AtOp(u, "give")' /\ h \in Args(u)'
    <3>1. u \in notifying[h] /\ ~(u = t /\ h = g)
      BY <2>1, <2>3 DEF TypeOK
    <3>2. u # t
      <4>1. SUFFICES ASSUME u = t
                     PROVE  FALSE
        OBVIOUS
      <4>2. h \in Args(t)
        BY <3>1, <4>1 DEF Calls
      <4>3. h = g
        BY <2>1, <4>2, OneObject DEF AtOp, Args, SingleOps
      <4>4. QED
        BY <3>1, <4>1, <4>3
    <3>3. QED
      BY <2>2, <3>1, <3>2 DEF Calls
  <2>4. ASSUME NEW u \in Tasks, NEW b \in Barriers, u \in arrived'[b]
        PROVE  AtOp(u, "meet")' /\ b \in Args(u)'
    <3>1. AtOp(u, "meet") /\ b \in Args(u)
      BY <2>1, <2>4 DEF Calls
    <3>2. u # t
      BY <2>1, <3>1 DEF AtOp
    <3>3. QED
      BY <2>2, <3>1, <3>2
  <2>5. QED
    BY <2>1, <2>3, <2>4 DEF Calls
<1>4. QED
  BY <1>1, <1>2, <1>3

LEMMA MeetCalls ==
  ASSUME TypeOK, Calls, NEW t \in Tasks, NEW b \in Barriers, Meet(t, b)
  PROVE  Calls'
<1>1. UNCHANGED <<script, notifying, status>> /\ AtOp(t, "meet") /\ b \in Args(t)
  BY Meets
<1>2. ASSUME NEW u \in Tasks, pc'[u] # pc[u]
      PROVE  AtOp(u, "meet") /\ b \in Args(u)
  BY <1>2, Meets DEF Past, AtOp
<1>3. ASSUME NEW u \in Tasks, NEW g \in Gates, u \in notifying'[g]
      PROVE  AtOp(u, "give")' /\ g \in Args(u)'
  <2>1. AtOp(u, "give") /\ g \in Args(u)
    BY <1>1, <1>3 DEF Calls
  <2>2. pc'[u] = pc[u]
    BY <1>2, <2>1 DEF AtOp
  <2>3. QED
    BY <1>1, <2>1, <2>2, SamePlace
<1>4. ASSUME NEW u \in Tasks, NEW c \in Barriers, u \in arrived'[c]
      PROVE  AtOp(u, "meet")' /\ c \in Args(u)'
  <2>1. CASE arrived' = [arrived EXCEPT ![b] = @ \cup {t}] /\ UNCHANGED pc
    <3>1. (u = t /\ c = b) \/ u \in arrived[c]
      BY <1>4, <2>1 DEF TypeOK
    <3>2. AtOp(u, "meet") /\ c \in Args(u)
      BY <1>1, <3>1 DEF Calls
    <3>3. QED
      BY <1>1, <2>1, <3>2, SamePlace
  <2>2. CASE arrived' = [arrived EXCEPT ![b] = {}]
    <3>1. u \in arrived[c] /\ c # b
      BY <1>4, <2>2 DEF TypeOK
    <3>2. AtOp(u, "meet") /\ c \in Args(u)
      BY <3>1 DEF Calls
    <3>3. b \notin Args(u)
      BY <3>1, <3>2, OneObject DEF AtOp, Args, SingleOps
    <3>4. pc'[u] = pc[u]
      BY <1>2, <3>3
    <3>5. QED
      BY <1>1, <3>2, <3>4, SamePlace
  <2>3. QED
    BY <2>1, <2>2, Meets
<1>5. QED
  BY <1>1, <1>3, <1>4 DEF Calls

(* A read, a write or an increment.                                         *)
Access(t, x) == Bump(t, x) \/ Load(t, x) \/ Store(t, x)

LEMMA AccessCalls ==
  ASSUME TypeOK, Calls, NEW t \in Tasks, NEW x \in Vars, Access(t, x)
  PROVE  Calls'
<1>1. UNCHANGED <<script, notifying, arrived>>
  BY DEF Access, Bump, Load, Store
<1>2. ~Held(t) /\ \E op \in {"bump", "load", "store"} : At(t, op)
  BY Arrives DEF Access, Bump, Load, Store
<1>3. status'[Main] # "unborn"
  BY TasksAssumption DEF Access, Bump, Load, Store, Write, Fail, Calls, TypeOK
<1>4. \A u \in Tasks : u # t => pc'[u] = pc[u]
  BY DEF Access, Bump, Load, Store, Write, Step, TypeOK
<1>5. \A u \in Tasks : pc'[u] = pc[u] \/ ~Held(u)
  BY <1>2, <1>4
<1>6. QED
  BY <1>1, <1>3, <1>5, QuietCalls

LEMMA PlainCalls ==
  ASSUME TypeOK, Calls, NEW t \in Tasks, Plain(t)
  PROVE  Calls'
<1>1. \A u \in Tasks : pc'[u] = pc[u] \/ ~Held(u)
  BY PlainMoves DEF Rest
<1>2. UNCHANGED <<script, notifying, arrived>>
  BY PlainMoves
<1>3. QED
  BY <1>1, <1>2, MainStays, QuietCalls DEF Calls
(* The four kinds of step.                                                  *)
LEMMA Kinds ==
  ASSUME Next
  PROVE  \E t \in Tasks :
           \/ \E g \in Gates : Take(t, g) \/ TryTake(t, g) \/ Give(t, g) \/ Notify(t, g)
           \/ \E b \in Barriers : Meet(t, b)
           \/ \E x \in Vars : Access(t, x)
           \/ Plain(t)
BY DEF Next, Access, Plain

LEMMA SameScript ==
  ASSUME TypeOK, [Next]_vars
  PROVE  UNCHANGED script
<1>1. ASSUME NEW t \in Tasks, NEW g \in Gates, Take(t, g) \/ TryTake(t, g) \/ Give(t, g) \/ Notify(t, g)
      PROVE  UNCHANGED script
  BY <1>1 DEF Take, TryTake, Give, Notify
<1>2. ASSUME NEW t \in Tasks, NEW b \in Barriers, Meet(t, b)
      PROVE  UNCHANGED script
  BY <1>2 DEF Meet
<1>3. ASSUME NEW t \in Tasks, NEW x \in Vars, Access(t, x)
      PROVE  UNCHANGED script
  BY <1>3 DEF Access, Bump, Load, Store
<1>4. ASSUME NEW t \in Tasks, Plain(t)
      PROVE  UNCHANGED script
  BY <1>4, PlainMoves
<1>5. QED
  BY <1>1, <1>2, <1>3, <1>4, Kinds DEF vars

LEMMA CallsKept ==
  ASSUME TypeOK, Calls, [Next]_vars
  PROVE  Calls'
<1>1. CASE Next
  BY <1>1, Kinds, GateCalls, MeetCalls, AccessCalls, PlainCalls
<1>2. CASE UNCHANGED vars
  <2>1. \A u \in Tasks : Args(u)' = Args(u) /\ \A op : AtOp(u, op)' <=> AtOp(u, op)
    BY <1>2, SamePlace DEF vars
  <2>2. QED
    BY <1>2, <2>1 DEF Calls, vars
<1>3. QED
  BY <1>1, <1>2

-----------------------------------------------------------------------------
(* One operation further, a thread is inside g when it was and has not given *)
(* it, or when it has just taken it.                                        *)
LEMMA InsideNext ==
  ASSUME TypeOK, NEW t \in Tasks, NEW i \in 1..Len(Code(t)), NEW g
  PROVE  Inside(t, i + 1, g) <=>
           \/ Code(t)[i].op \in {"take", "try"} /\ g \in Code(t)[i].on
           \/ Inside(t, i, g) /\ ~(Code(t)[i].op = "give" /\ g \in Code(t)[i].on)
<1>1. Len(Code(t)) \in Nat
  BY CodeType
<1> DEFINE Enters(j) == Code(t)[j].op \in {"take", "try"} /\ g \in Code(t)[j].on
           Gives(k) == Code(t)[k].op = "give" /\ g \in Code(t)[k].on
<1>2. \A n : Inside(t, n, g) <=> \E j \in 1..(n - 1) : Enters(j) /\ \A k \in (j + 1)..(n - 1) : ~Gives(k)
  BY DEF Inside
<1>3. ~(Enters(i) /\ Gives(i))
  OBVIOUS
<1> HIDE DEF Enters, Gives
<1>4. ASSUME Enters(i)
      PROVE  Inside(t, i + 1, g)
  <2>1. i \in 1..((i + 1) - 1) /\ \A k \in (i + 1)..((i + 1) - 1) : ~Gives(k)
    BY <1>1
  <2>2. QED
    BY <1>2, <1>4, <2>1
<1>5. ASSUME Inside(t, i, g), ~Gives(i)
      PROVE  Inside(t, i + 1, g)
  <2>1. PICK j \in 1..(i - 1) : Enters(j) /\ \A k \in (j + 1)..(i - 1) : ~Gives(k)
    BY <1>2, <1>5
  <2>2. j \in 1..((i + 1) - 1) /\ \A k \in (j + 1)..((i + 1) - 1) : k \in (j + 1)..(i - 1) \/ k = i
    BY <1>1
  <2>3. QED
    BY <1>2, <1>5, <2>1, <2>2
<1>6. ASSUME Inside(t, i + 1, g), ~Enters(i)
      PROVE  Inside(t, i, g) /\ ~Gives(i)
  <2>1. PICK j \in 1..((i + 1) - 1) : Enters(j) /\ \A k \in (j + 1)..((i + 1) - 1) : ~Gives(k)
    BY <1>2, <1>6
  <2>2. j # i
    BY <1>6, <2>1
  <2>3. /\ j \in 1..(i - 1) /\ i \in (j + 1)..((i + 1) - 1)
        /\ \A k \in (j + 1)..(i - 1) : k \in (j + 1)..((i + 1) - 1)
    BY <1>1, <2>2
  <2>4. QED
    BY <1>2, <2>1, <2>3
<1>7. QED
  BY <1>3, <1>4, <1>5, <1>6 DEF Enters, Gives

(* Gate and discipline of a script do not change as it runs.                *)
LEMMA SameGuards ==
  ASSUME UNCHANGED script, NEW g \in Gates
  PROVE  Guards(g)' <=> Guards(g)
BY DEF Guards, Inside, Code

LEMMA SameDiscipline ==
  ASSUME UNCHANGED script, NEW x \in Vars
  PROVE  Disciplined(x)' <=> Disciplined(x)
<1>1. \A g \in Gates : Guards(g)' <=> Guards(g)
  BY SameGuards
<1>2. \A g \in Gates : \A t \in Tasks : \A i : Inside(t, i, g)' <=> Inside(t, i, g)
  BY DEF Inside, Code
<1>3. \A t \in Tasks : Code(t)' = Code(t)
  BY DEF Code
<1>4. QED
  BY <1>1, <1>2, <1>3 DEF Disciplined

LEMMA KeepsNext ==
  ASSUME UNCHANGED script, NEW t \in Tasks, NEW g \in Gates
  PROVE  Keeps(t, g)' <=> Inside(t, pc'[t], g) /\ t \notin notifying'[g]
BY DEF Keeps, Inside, Code

(* A gate that is used as a lock is entered by taking it only.              *)
LEMMA Outside ==
  ASSUME TypeOK, UNCHANGED script, NEW u \in Tasks, NEW g \in Gates, Guards(g),
         Inside(u, pc'[u], g),
         \/ pc'[u] = pc[u]
         \/ pc[u] \in 1..Len(Code(u)) /\ pc'[u] = pc[u] + 1
            /\ ~(Code(u)[pc[u]].op \in {"take", "try"} /\ g \in Args(u))
         \/ Jumped(u)
  PROVE  Inside(u, pc[u], g)
<1>1. CASE pc'[u] = pc[u]
  BY <1>1
<1>2. CASE pc[u] \in 1..Len(Code(u)) /\ pc'[u] = pc[u] + 1
            /\ ~(Code(u)[pc[u]].op \in {"take", "try"} /\ g \in Args(u))
  <2>1. Inside(u, pc[u] + 1, g)
    BY <1>2
  <2>2. QED
    BY <1>2, <2>1, InsideNext DEF Args
<1>3. CASE Jumped(u)
  BY <1>3 DEF Jumped, Guards, AtOp
<1>4. QED
  BY <1>1, <1>2, <1>3
LEMMA FewerKeepers ==
  ASSUME NEW g \in Gates, OneKeeper(g), free'[g] = free[g],
         \A u \in Tasks : Keeps(u, g)' => Keeps(u, g)
  PROVE  OneKeeper(g)'
BY DEF OneKeeper

(* A step that leaves a gate alone and passes neither a take nor a try.     *)
LEMMA QuietLock ==
  ASSUME TypeOK, UNCHANGED script, NEW g \in Gates, Guards(g), OneKeeper(g),
         free'[g] = free[g], notifying'[g] = notifying[g],
         \A u \in Tasks :
           \/ pc'[u] = pc[u]
           \/ pc[u] \in 1..Len(Code(u)) /\ pc'[u] = pc[u] + 1
              /\ ~(Code(u)[pc[u]].op \in {"take", "try"} /\ g \in Args(u))
           \/ Jumped(u)
  PROVE  OneKeeper(g)'
<1>1. ASSUME NEW u \in Tasks, Keeps(u, g)'
      PROVE  Keeps(u, g)
  <2>1. Inside(u, pc'[u], g) /\ u \notin notifying[g]
    BY <1>1, KeepsNext
  <2>2. Inside(u, pc[u], g)
    BY <2>1, Outside
  <2>3. QED
    BY <2>1, <2>2 DEF Keeps
<1>2. QED
  BY <1>1, FewerKeepers

LEMMA TakenOnce ==
  ASSUME TypeOK, NEW t \in Tasks, NEW g \in Gates, Take(t, g) \/ TryTake(t, g),
         NEW h \in Gates, Guards(h), OneKeeper(h)
  PROVE  OneKeeper(h)'
<1>1. UNCHANGED <<script, notifying>> /\ Rest(t)
  BY Acquires
<1>2. CASE free' = free /\ (pc'[t] = pc[t] \/ Jumped(t))
  BY <1>1, <1>2, QuietLock DEF Rest
<1>3. CASE /\ free[g] > 0 /\ free' = [free EXCEPT ![g] = @ - 1]
           /\ Past(t, {"take", "try"}) /\ g \in Args(t)
  <2>1. CASE h # g
    <3>1. h \notin Args(t)
      BY <1>3, <2>1, OneObject DEF Past, Args, SingleOps
    <3>2. free'[h] = free[h]
      BY <1>3, <2>1 DEF TypeOK
    <3>3. QED
      BY <1>1, <1>3, <3>1, <3>2, QuietLock DEF Rest, Past
  <2>2. CASE h = g
    <3>1. free[h] = 1 /\ free'[h] = 0
      BY <1>3, <2>2 DEF OneKeeper, TypeOK
    <3>2. \A u \in Tasks : ~Keeps(u, h)
      BY <3>1 DEF OneKeeper
    <3>3. ASSUME NEW u \in Tasks, u # t
          PROVE  ~Keeps(u, h)'
      <4>1. pc'[u] = pc[u]
        BY <1>1, <3>3 DEF Rest
      <4>2. QED
        BY <1>1, <3>2, <4>1, KeepsNext DEF Keeps
    <3>4. QED
      BY <3>1, <3>3 DEF OneKeeper
  <2>3. QED
    BY <2>1, <2>2
<1>4. QED
  BY <1>2, <1>3, Acquires

LEMMA GivenBack ==
  ASSUME TypeOK, NEW t \in Tasks, NEW g \in Gates, Give(t, g),
         NEW h \in Gates, Guards(h), OneKeeper(h)
  PROVE  OneKeeper(h)'
<1>1. /\ UNCHANGED <<script, pc>> /\ ~Held(t) /\ AtOp(t, "give") /\ g \in Args(t)
      /\ free' = [free EXCEPT ![g] = LetGo(g)]
      /\ notifying' = [notifying EXCEPT ![g] = @ \cup {t}]
  BY Releases
<1>2. CASE h # g
  BY <1>1, <1>2, QuietLock DEF TypeOK
<1>3. CASE h = g
  <2>1. Keeps(t, h)
    BY <1>1, <1>3 DEF Keeps, Guards, AtOp, Args, Held
  <2>2. free[h] = 0 /\ \A u \in Tasks : Keeps(u, h) => u = t
    BY <2>1 DEF OneKeeper
  <2>3. free'[h] = 1
    BY <1>1, <1>3, <2>2 DEF LetGo, TypeOK
  <2>4. notifying'[h] = notifying[h] \cup {t}
    BY <1>1, <1>3 DEF TypeOK
  <2>5. ASSUME NEW u \in Tasks
        PROVE  ~Keeps(u, h)'
    BY <1>1, <2>2, <2>4, KeepsNext DEF Keeps
  <2>6. QED
    BY <2>3, <2>5 DEF OneKeeper
<1>4. QED
  BY <1>2, <1>3

LEMMA ToldOn ==
  ASSUME TypeOK, Calls, NEW t \in Tasks, NEW g \in Gates, Notify(t, g),
         NEW h \in Gates, Guards(h), OneKeeper(h)
  PROVE  OneKeeper(h)'
<1>1. /\ UNCHANGED <<script, free>> /\ AtOp(t, "give") /\ g \in Args(t)
      /\ Past(t, {"give"}) /\ Rest(t)
      /\ notifying' = [notifying EXCEPT ![g] = @ \ {t}]
  BY Notifies
<1>2. CASE h # g
  <2>1. notifying'[h] = notifying[h]
    BY <1>1, <1>2 DEF TypeOK
  <2>2. pc[t] \in 1..Len(Code(t)) /\ pc'[t] = pc[t] + 1 /\ Code(t)[pc[t]].op \notin {"take", "try"}
    BY <1>1 DEF Past
  <2>3. QED
    BY <1>1, <2>1, <2>2, QuietLock DEF Rest
<1>3. CASE h = g
  <2>1. ~Inside(t, pc'[t], h)
    <3>1. pc[t] \in 1..Len(Code(t)) /\ pc'[t] = pc[t] + 1
          /\ Code(t)[pc[t]].op = "give" /\ h \in Code(t)[pc[t]].on
      BY <1>1, <1>3 DEF Past, Args
    <3>2. QED
      BY <3>1, InsideNext
  <2>2. ASSUME NEW u \in Tasks, Keeps(u, h)'
        PROVE  Keeps(u, h)
    <3>1. u # t
      BY <1>1, <2>1, <2>2, KeepsNext
    <3>2. pc'[u] = pc[u] /\ (u \in notifying'[h] <=> u \in notifying[h])
      BY <1>1, <1>3, <3>1 DEF Rest, TypeOK
    <3>3. QED
      BY <1>1, <2>2, <3>2, KeepsNext DEF Keeps
  <2>3. QED
    BY <1>1, <2>2, FewerKeepers
<1>4. QED
  BY <1>2, <1>3

LEMMA OthersLock ==
  ASSUME TypeOK, Calls, NEW t \in Tasks,
         \/ \E b \in Barriers : Meet(t, b)
         \/ \E x \in Vars : Access(t, x)
         \/ Plain(t),
         NEW h \in Gates, Guards(h), OneKeeper(h)
  PROVE  OneKeeper(h)'
<1> DEFINE Quiet(u) == pc[u] \in 1..Len(Code(u)) /\ pc'[u] = pc[u] + 1
                       /\ Code(u)[pc[u]].op \notin {"take", "try"}
<1>1. ASSUME NEW b \in Barriers, Meet(t, b)
      PROVE  UNCHANGED <<script, free, notifying>> /\ \A u \in Tasks : pc'[u] = pc[u] \/ Quiet(u)
  BY <1>1, Meets DEF Past
<1>2. ASSUME NEW x \in Vars, Access(t, x)
      PROVE  UNCHANGED <<script, free, notifying>> /\ \A u \in Tasks : pc'[u] = pc[u] \/ Quiet(u)
  <2>1. PICK op \in {"bump", "load", "store"} : At(t, op)
    BY <1>2 DEF Access, Bump, Load, Store
  <2>2. UNCHANGED pc \/ Step(t)
    BY <1>2 DEF Access, Bump, Load, Store, Write
  <2>3. CASE Step(t)
    BY <1>2, <2>1, <2>3, Arrives, Steps DEF Access, Bump, Load, Store, Past, Rest
  <2>4. QED
    BY <1>2, <2>2, <2>3 DEF Access, Bump, Load, Store
<1>3. CASE Plain(t)
  <2>1. PlainOps \cap {"take", "try"} = {}
    BY DEF PlainOps, SingleOps
  <2>2. UNCHANGED <<script, free, notifying>> /\ \A u \in Tasks : pc'[u] = pc[u] \/ Quiet(u)
    BY <1>3, <2>1, PlainMoves DEF Past, Rest
  <2>3. QED
    BY <2>2, QuietLock
<1>4. QED
  BY <1>1, <1>2, <1>3, QuietLock

LEMMA LocksKept ==
  ASSUME TypeOK, Calls, Locks, [Next]_vars
  PROVE  Locks'
<1>1. UNCHANGED script
  BY SameScript
<1>2. SUFFICES ASSUME NEW h \in Gates, Guards(h), OneKeeper(h)
               PROVE  OneKeeper(h)'
  BY <1>1, SameGuards DEF Locks
<1>3. CASE Next
  BY <1>2, <1>3, Kinds, TakenOnce, GivenBack, ToldOn, OthersLock
<1>4. CASE UNCHANGED vars
  <2>1. free'[h] = free[h] /\ notifying'[h] = notifying[h] /\ \A u \in Tasks : pc'[u] = pc[u]
    BY <1>4 DEF vars
  <2>2. QED
    BY <1>1, <1>2, <2>1, QuietLock
<1>5. QED
  BY <1>3, <1>4
-----------------------------------------------------------------------------
(* Nobody comes to a store but by its load.                                 *)
LEMMA StoreIsReached ==
  ASSUME TypeOK, UNCHANGED script, NEW u \in Tasks, NEW x \in Vars, Stores(u, x)',
         \/ pc'[u] = pc[u]
         \/ pc[u] \in 1..Len(Code(u)) /\ pc'[u] = pc[u] + 1
         \/ Jumped(u)
  PROVE  \/ pc'[u] = pc[u] /\ Stores(u, x)
         \/ /\ pc[u] \in 1..Len(Code(u)) /\ Code(u)[pc[u]].op = "load" /\ x \in Args(u)
            /\ pc'[u] = pc[u] + 1 /\ Home(u, x) = Main
<1>1. /\ pc'[u] \in 1..Len(Code(u)) /\ Code(u)[pc'[u]].op = "store"
      /\ x \in Code(u)[pc'[u]].on /\ Home(u, x) = Main
  BY DEF Stores, AtOp, Args, Code, Home
<1>2. CASE pc'[u] = pc[u]
  BY <1>1, <1>2 DEF Stores, AtOp, Args
<1>3. CASE pc[u] \in 1..Len(Code(u)) /\ pc'[u] = pc[u] + 1
  <2>1. Code(u)[pc'[u] - 1].op = "load" /\ Code(u)[pc'[u] - 1].on = Code(u)[pc'[u]].on
    BY <1>1, CodeType DEF WellFormed
  <2>2. pc'[u] - 1 = pc[u]
    BY <1>3
  <2>3. QED
    BY <1>1, <1>3, <2>1, <2>2 DEF Args
<1>4. CASE Jumped(u)
  BY <1>1, <1>4, CodeType DEF Jumped, AtOp, WellFormed
<1>5. QED
  BY <1>2, <1>3, <1>4

LEMMA QuietCount ==
  ASSUME TypeOK, UNCHANGED <<script, reg>>, NEW x \in Vars, Exact(x),
         store'[Main][x] = store[Main][x], done'[x] = done[x],
         \A u \in Tasks :
           \/ pc'[u] = pc[u]
           \/ pc[u] \in 1..Len(Code(u)) /\ pc'[u] = pc[u] + 1 /\ Code(u)[pc[u]].op # "load"
           \/ Jumped(u)
  PROVE  Exact(x)'
<1>1. ASSUME NEW u \in Tasks, Stores(u, x)'
      PROVE  Stores(u, x)
  <2>1. pc[u] \in Nat
    BY DEF TypeOK
  <2>2. CASE pc'[u] = pc[u]
    BY <1>1, <2>1, <2>2, StoreIsReached
  <2>3. CASE pc[u] \in 1..Len(Code(u)) /\ pc'[u] = pc[u] + 1 /\ Code(u)[pc[u]].op # "load"
    BY <1>1, <2>3, StoreIsReached
  <2>4. CASE Jumped(u)
    <3>1. Code(u)[pc[u]].op # "load"
      BY <2>4 DEF Jumped, AtOp
    <3>2. QED
      BY <1>1, <2>4, <3>1, StoreIsReached
  <2>5. QED
    BY <2>2, <2>3, <2>4
<1>2. QED
  BY <1>1 DEF Exact

(* Two threads that may both write x back do so inside one gate.            *)
LEMMA OneWriter ==
  ASSUME TypeOK, Calls, Locks, NEW x \in Vars, Disciplined(x),
         NEW t \in Tasks, ~Held(t), AtOp(t, "bump") \/ AtOp(t, "store"), x \in Args(t), MayWrite(t, x),
         NEW u \in Tasks, Stores(u, x)
  PROVE  u = t
<1>1. AtOp(u, "store") /\ x \in Args(u) /\ Home(u, x) = Main
  BY DEF Stores
<1>2. CASE x \notin script.mysync
  BY <1>1, <1>2 DEF Home, MayWrite
<1>3. CASE \A v \in Tasks : \A i \in 1..Len(Code(v)) : x \in Code(v)[i].on => Code(v)[i].op = "bump"
  BY <1>1, <1>3 DEF AtOp, Args
<1>4. ASSUME NEW g \in Gates, Guards(g),
             \A v \in Tasks : \A i \in 1..Len(Code(v)) : x \in Code(v)[i].on => Inside(v, i, g)
      PROVE  u = t
  <2>1. Inside(t, pc[t], g) /\ Inside(u, pc[u], g)
    BY <1>1, <1>4 DEF AtOp, Args
  <2>2. t \notin notifying[g] /\ u \notin notifying[g]
    BY <1>1 DEF Held, Calls, AtOp
  <2>3. Keeps(t, g) /\ Keeps(u, g)
    BY <2>1, <2>2 DEF Keeps
  <2>4. QED
    BY <1>4, <2>3 DEF Locks, OneKeeper
<1>5. QED
  BY <1>2, <1>3, <1>4 DEF Disciplined

LEMMA WrittenOnce ==
  ASSUME TypeOK, Calls, Locks, NEW x \in Vars, Disciplined(x), Exact(x),
         NEW t \in Tasks, NEW z \in Vars, NEW v \in Nat, NEW op \in {"bump", "store"},
         At(t, op), z \in Args(t), Write(t, z, v), UNCHANGED <<script, reg>>,
         Home(t, z) = Main /\ z = x => v = store[Main][x] + 1
  PROVE  Exact(x)'
<1>1. ~Held(t) /\ AtOp(t, op)
  BY Arrives
<1>2. CASE UNCHANGED <<pc, store, done>>
  BY <1>2, QuietCount
<1>3. CASE /\ Past(t, {op}) /\ Rest(t)
           /\ MayWrite(t, z) /\ Home(t, z) = Main
           /\ store' = [store EXCEPT ![Main][z] = v]
           /\ done' = [done EXCEPT ![z] = @ + 1]
  <2>1. CASE z # x
    <3>1. store'[Main][x] = store[Main][x] /\ done'[x] = done[x]
      BY <1>3, <2>1, TasksAssumption DEF TypeOK
    <3>2. QED
      BY <1>3, <3>1, QuietCount DEF Past, Rest
  <2>2. CASE z = x
    <3>1. store'[Main][x] = store[Main][x] + 1 /\ done'[x] = done[x] + 1
      BY <1>3, <2>2, TasksAssumption DEF TypeOK
    <3>2. ASSUME NEW u \in Tasks
          PROVE  ~Stores(u, x)'
      <4>1. SUFFICES ASSUME Stores(u, x)'
                     PROVE  FALSE
        OBVIOUS
      <4>2. pc'[u] = pc[u] /\ Stores(u, x)
        <5>1. CASE u = t
          <6>1. pc[u] \in 1..Len(Code(u)) /\ pc'[u] = pc[u] + 1 /\ Code(u)[pc[u]].op # "load"
            BY <1>3, <5>1 DEF Past
          <6>2. QED
            BY <4>1, <6>1, StoreIsReached
        <5>2. CASE u # t
          <6>1. pc'[u] = pc[u]
            BY <1>3, <5>2 DEF Rest
          <6>2. pc[u] \in Nat
            BY DEF TypeOK
          <6>3. QED
            BY <4>1, <6>1, <6>2, StoreIsReached
        <5>3. QED
          BY <5>1, <5>2
      <4>3. u = t
        BY <1>1, <1>3, <2>2, <4>2, OneWriter
      <4>4. QED
        BY <1>3, <4>2, <4>3 DEF Past
    <3>3. QED
      BY <3>1, <3>2 DEF Exact
  <2>3. QED
    BY <2>1, <2>2
<1>4. QED
  BY <1>2, <1>3, Writes

LEMMA AccessCounts ==
  ASSUME TypeOK, Calls, Locks, NEW x \in Vars, Disciplined(x), Exact(x),
         NEW t \in Tasks, NEW z \in Vars, Access(t, z)
  PROVE  Exact(x)'
<1>1. CASE Bump(t, z)
  <2>1. store[Home(t, z)][z] + 1 \in Nat
    BY TasksAssumption DEF Home, TypeOK
  <2>2. At(t, "bump") /\ z \in Args(t) /\ Write(t, z, store[Home(t, z)][z] + 1)
        /\ UNCHANGED <<script, reg>>
    BY <1>1 DEF Bump
  <2>3. QED
    BY <2>1, <2>2, WrittenOnce
<1>2. CASE Store(t, z)
  <2>1. reg[t] + 1 \in Nat
    BY DEF TypeOK
  <2>2. At(t, "store") /\ z \in Args(t) /\ Write(t, z, reg[t] + 1) /\ UNCHANGED <<script, reg>>
    BY <1>2 DEF Store
  <2>3. AtOp(t, "store")
    BY <2>2, Arrives
  <2>4. Home(t, z) = Main /\ z = x => reg[t] = store[Main][x]
    BY <2>2, <2>3 DEF Exact, Stores
  <2>5. QED
    BY <2>1, <2>2, <2>4, WrittenOnce
<1>3. CASE Load(t, z)
  <2>1. /\ UNCHANGED <<script, store, done>> /\ AtOp(t, "load") /\ z \in Args(t)
        /\ Past(t, {"load"}) /\ Rest(t)
        /\ reg' = [reg EXCEPT ![t] = store[Home(t, z)][z]]
    BY <1>3, Reads
  <2>2. ASSUME NEW u \in Tasks, Stores(u, x)'
        PROVE  reg'[u] = store[Main][x]
    <3>1. CASE u = t
      <4>1. x \in Args(t) /\ Home(t, x) = Main
        BY <2>1, <2>2, <3>1, StoreIsReached DEF Past
      <4>2. x = z
        BY <2>1, <4>1, OneObject DEF AtOp, Args, SingleOps
      <4>3. QED
        BY <2>1, <3>1, <4>1, <4>2 DEF TypeOK
    <3>2. CASE u # t
      <4>1. pc'[u] = pc[u] /\ reg'[u] = reg[u]
        BY <2>1, <3>2 DEF Rest, TypeOK
      <4>2. Stores(u, x)
        BY <2>1, <2>2, <4>1, SamePlace DEF Stores, Home
      <4>3. QED
        BY <4>1, <4>2 DEF Exact
    <3>3. QED
      BY <3>1, <3>2
  <2>3. QED
    BY <2>1, <2>2 DEF Exact
<1>4. QED
  BY <1>1, <1>2, <1>3 DEF Access

LEMMA OthersCount ==
  ASSUME TypeOK, Calls, NEW x \in Vars, Exact(x), NEW t \in Tasks,
         \/ \E g \in Gates : Take(t, g) \/ TryTake(t, g) \/ Give(t, g) \/ Notify(t, g)
         \/ \E b \in Barriers : Meet(t, b)
         \/ Plain(t)
  PROVE  Exact(x)'
<1> DEFINE Quiet(u) == \/ pc'[u] = pc[u]
                       \/ pc[u] \in 1..Len(Code(u)) /\ pc'[u] = pc[u] + 1 /\ Code(u)[pc[u]].op # "load"
                       \/ Jumped(u)
           Goal == UNCHANGED <<script, reg, done>> /\ store'[Main] = store[Main]
                   /\ \A u \in Tasks : Quiet(u)
<1>1. ASSUME NEW g \in Gates, Take(t, g) \/ TryTake(t, g)
      PROVE  Goal
  BY <1>1, Acquires DEF Rest, Past
<1>2. ASSUME NEW g \in Gates, Give(t, g)
      PROVE  Goal
  BY <1>2, Releases
<1>3. ASSUME NEW g \in Gates, Notify(t, g)
      PROVE  Goal
  BY <1>3, Notifies DEF Rest, Past
<1>4. ASSUME NEW b \in Barriers, Meet(t, b)
      PROVE  Goal
  BY <1>4, Meets DEF Past
<1>5. ASSUME Plain(t)
      PROVE  Goal
  <2>1. "load" \notin PlainOps
    BY DEF PlainOps, SingleOps
  <2>2. UNCHANGED <<script, reg, done>> /\ \A u \in Tasks : Quiet(u)
    BY <1>5, <2>1, PlainMoves DEF Rest, Past
  <2>3. store'[Main] = store[Main]
    BY <1>5, MainStays DEF Calls
  <2>4. QED
    BY <2>2, <2>3
<1>6. Goal
  <2> HIDE DEF Goal
  <2>1. QED
    BY <1>1, <1>2, <1>3, <1>4, <1>5
<1>7. QED
  BY <1>6, QuietCount

LEMMA CountedKept ==
  ASSUME TypeOK, Calls, Locks, Counted, [Next]_vars
  PROVE  Counted'
<1>1. UNCHANGED script
  BY SameScript
<1>2. SUFFICES ASSUME NEW x \in Vars, Disciplined(x), Exact(x)
               PROVE  Exact(x)'
  BY <1>1, SameDiscipline DEF Counted
<1>3. CASE Next
  BY <1>2, <1>3, Kinds, AccessCounts, OthersCount
<1>4. CASE UNCHANGED vars
  BY <1>2, <1>4, QuietCount DEF vars
<1>5. QED
  BY <1>3, <1>4
LEMMA FirstCount ==
  ASSUME Init
  PROVE  Calls /\ Locks /\ Counted
<1>1. \A t \in Tasks : pc[t] = 1 /\ Len(Code(t)) \in Nat
  BY ScriptAssumption DEF Init, Code, Script
<1>2. \A t \in Tasks : \A g \in Gates : ~Inside(t, pc[t], g)
  BY <1>1 DEF Inside
<1>3. ASSUME NEW g \in Gates, Guards(g)
      PROVE  OneKeeper(g)
  BY <1>2, <1>3 DEF OneKeeper, Keeps, Guards, Init
<1>4. ASSUME NEW t \in Tasks
      PROVE  ~AtOp(t, "store")
  <2>1. script \in Scripts
    BY DEF Init
  <2>2. WellFormed(Code(t))
    BY <2>1, CodeAssumption DEF Code
  <2>3. QED
    BY <1>1, <2>2 DEF AtOp, WellFormed
<1>5. ASSUME NEW x \in Vars
      PROVE  Exact(x)
  BY <1>4, TasksAssumption DEF Exact, Stores, Init
<1>6. Calls
  BY TasksAssumption DEF Calls, Init
<1>7. QED
  BY <1>3, <1>5, <1>6 DEF Locks, Counted

(* No increment of a variable that the script keeps to `++` or to one gate  *)
(* is lost, and none of a variable that is not shared is kept from its      *)
(* owner: gates keep their one keeper and a read that is about to be        *)
(* written back is still what the program would read.                       *)
THEOREM IncrementsAreKept == Spec => []CountersExact
<1>1. Init => Calls /\ Locks /\ Counted
  BY FirstCount
<1>2. TypeOK /\ Calls /\ Locks /\ Counted /\ [Next]_vars => (Calls /\ Locks /\ Counted)'
  BY CallsKept, LocksKept, CountedKept
<1>3. Counted => CountersExact
  BY DEF Counted, Exact, CountersExact
<1>4. QED
  BY <1>1, <1>2, <1>3, TypeCorrect, PTL DEF Spec
=============================================================================
