---------------------------- MODULE RemoteProofs ----------------------------
(* Theorems about the two protocols stryke speaks with its other processes: *)
(* the controller's with its agents (Controller) and the dispatcher's with  *)
(* a worker (WorkerSession; its names that Controller has too begin with    *)
(* WS).                                                                     *)
(* They are about any number of agents, chants, commands and jobs, any      *)
(* noise on the pipes and any crash.                                        *)
EXTENDS Controller, WorkerSession, SequenceTheorems, TLAPS

(* The ends of a pipe, position by position.                                *)
LEMMA Taken ==
  ASSUME NEW S, NEW q \in Seq(S), q # <<>>
  PROVE  /\ Tail(q) \in Seq(S) /\ Len(Tail(q)) = Len(q) - 1 /\ Head(q) \in S
         /\ 1 \in DOMAIN q /\ Head(q) = q[1]
         /\ \A i \in DOMAIN Tail(q) : i + 1 \in DOMAIN q /\ i + 1 # 1 /\ Tail(q)[i] = q[i + 1]
         /\ \A i, k \in DOMAIN Tail(q) : i + 1 = k + 1 => i = k
<1>1. /\ Tail(q) \in Seq(S) /\ Len(Tail(q)) = Len(q) - 1
      /\ Head(q) = q[1] /\ Head(q) \in S
      /\ \A i \in 1..Len(Tail(q)) : Tail(q)[i] = q[i + 1]
  BY HeadTailProperties
<1>2. Len(q) \in Nat /\ Len(q) # 0 /\ DOMAIN q = 1..Len(q)
  BY LenProperties, EmptySeq
<1>3. DOMAIN Tail(q) = 1..(Len(q) - 1)
  BY <1>1, LenProperties
<1>4. QED
  BY <1>1, <1>2, <1>3

LEMMA Appended ==
  ASSUME NEW S, NEW q \in Seq(S), NEW e \in S
  PROVE  /\ Append(q, e) \in Seq(S) /\ Len(Append(q, e)) = Len(q) + 1
         /\ DOMAIN Append(q, e) = DOMAIN q \union {Len(q) + 1}
         /\ \A i \in DOMAIN q : Append(q, e)[i] = q[i]
         /\ Append(q, e)[Len(q) + 1] = e
         /\ Len(q) + 1 \notin DOMAIN q /\ Len(q) \in Nat
<1>1. /\ Append(q, e) \in Seq(S)
      /\ Len(Append(q, e)) = Len(q) + 1
      /\ \A i \in 1..Len(q) : Append(q, e)[i] = q[i]
      /\ Append(q, e)[Len(q) + 1] = e
  BY AppendProperties
<1>2. /\ Len(q) \in Nat /\ DOMAIN q = 1..Len(q)
      /\ DOMAIN Append(q, e) = 1..(Len(q) + 1)
  BY <1>1, LenProperties
<1>3. QED
  BY <1>1, <1>2

LEMMA FrameType ==
  /\ \A kind \in Kinds : Msg(kind) \in WSFrame
  /\ \A kind \in Kinds, j \in 0..MaxCalls : [kind |-> kind, job |-> j] \in WSFrame
  /\ \A f \in WSFrame : f.kind \in Kinds /\ f.job \in 0..MaxCalls
  /\ ReadError \in WSFrame /\ ReadError.kind = "noise"
BY SessionAssumption DEF WSFrame, Msg, ReadError, Kinds

-----------------------------------------------------------------------------
(* Every variable keeps its type; the helper's channel holds one note.      *)
THEOREM SessionTypeCorrect == WSSpec => []WSTypeOK
<1>1. WSInit => WSTypeOK
  BY SessionAssumption, EmptySeq, FrameType DEF WSInit, WSTypeOK
<1>2. WSTypeOK /\ [WSNext]_WSvars => WSTypeOK'
  <2> SUFFICES ASSUME WSTypeOK, [WSNext]_WSvars PROVE WSTypeOK'
    OBVIOUS
  <2> USE SessionAssumption DEF WSTypeOK, SlotVars, WorkerVars, HelperVars
  <2>1. CASE SlotHello
    <3>1. Append(stdin, Msg("HELLO")) \in Seq(WSFrame)
      BY FrameType, Appended DEF Kinds
    <3>2. QED
      BY <2>1, <3>1 DEF SlotHello, FailOpen
  <2>2. CASE RecvHelloAck
    <3>1. Append(stdin, Msg("SESSION_INIT")) \in Seq(WSFrame)
      BY FrameType, Appended DEF Kinds
    <3>2. stdout' \in Seq(WSFrame)
      BY <2>2, Taken DEF RecvHelloAck
    <3>3. QED
      BY <2>2, <3>1, <3>2 DEF RecvHelloAck, FailOpen
  <2>3. CASE RecvSessionAck
    <3>1. stdout' \in Seq(WSFrame)
      BY <2>3, Taken DEF RecvSessionAck
    <3>2. QED
      BY <2>3, <3>1 DEF RecvSessionAck, FailOpen
  <2>4. CASE SendJob
    <3>1. CASE slot' = "lost" /\ UNCHANGED <<calls, stdin>>
      BY <2>4, <3>1 DEF SendJob
    <3>2. CASE /\ slot' = "await_resp" /\ calls' = calls + 1
               /\ stdin' = Append(stdin, [kind |-> "JOB", job |-> calls + 1])
      <4>1. calls + 1 \in 0..MaxCalls
        BY <2>4 DEF SendJob
      <4>2. stdin' \in Seq(WSFrame)
        BY <3>2, <4>1, FrameType, Appended DEF Kinds
      <4>3. QED
        BY <2>4, <3>2, <4>1, <4>2 DEF SendJob
    <3>3. QED
      BY <2>4, <3>1, <3>2 DEF SendJob
  <2>5. CASE RecvResp
    <3>1. Head(respq) \in WSFrame /\ respq' \in Seq(WSFrame) /\ Len(respq') <= 1
      <4>1. /\ Tail(respq) \in Seq(WSFrame) /\ Head(respq) \in WSFrame
            /\ Len(Tail(respq)) = Len(respq) - 1 /\ Len(respq) \in Nat
        BY <2>5, Taken, LenProperties DEF RecvResp
      <4>2. QED
        BY <2>5, <4>1 DEF RecvResp
    <3>2. [job |-> Head(respq).job, ok |-> Head(respq).kind = "RESP_OK"]
             \in [job : 0..MaxCalls, ok : BOOLEAN]
      BY <3>1, FrameType
    <3>3. answers' \in Seq([job : 0..MaxCalls, ok : BOOLEAN])
      <4>1. CASE Head(respq) = ReadError
        BY <2>5, <4>1 DEF RecvResp
      <4>2. CASE Head(respq) # ReadError
        <5>1. answers' = Append(answers, [job |-> Head(respq).job,
                                          ok  |-> Head(respq).kind = "RESP_OK"])
          BY <2>5, <4>2 DEF RecvResp
        <5>2. QED
          BY <3>2, <5>1, Appended
      <4>3. QED
        BY <4>1, <4>2
    <3>4. QED
      BY <2>5, <3>1, <3>3 DEF RecvResp
  <2>6. CASE LoseWaiting \/ KillSession \/ ReapChild
    BY <2>6 DEF LoseWaiting, KillSession, ReapChild
  <2>7. CASE SendShutdown
    <3>1. Append(stdin, Msg("SHUTDOWN")) \in Seq(WSFrame)
      BY FrameType, Appended DEF Kinds
    <3>2. QED
      BY <2>7, <3>1 DEF SendShutdown
  <2>8. CASE HelperReads
    <3>1. stdout' \in Seq(WSFrame) /\ Head(stdout) \in WSFrame
      BY <2>8, Taken DEF HelperReads
    <3>2. QED
      BY <2>8, <3>1, FrameType DEF HelperReads
  <2>9. CASE HelperSwallows
    <3>1. stdout' \in Seq(WSFrame)
      BY <2>9, Taken DEF HelperSwallows
    <3>2. QED
      BY <2>9, <3>1 DEF HelperSwallows
  <2>10. CASE HelperEof
    BY <2>10, FrameType DEF HelperEof
  <2>11. CASE HelperForwards
    <3>1. respq = <<>> => Append(respq, note) \in Seq(WSFrame) /\ Len(Append(respq, note)) <= 1
      BY Appended, EmptySeq
    <3>2. QED
      BY <2>11, <3>1 DEF HelperForwards
  <2>12. ASSUME NEW kind \in Kinds, NEW j \in 0..MaxCalls, NEW next, Reply(kind, j, next)
         PROVE  /\ worker' \in {"exit", next}
                /\ stdout' \in Seq(WSFrame)
    <3>1. Append(stdout, [kind |-> kind, job |-> j]) \in Seq(WSFrame)
      BY FrameType, Appended
    <3>2. QED
      BY <2>12, <3>1 DEF Reply
  <2>13. CASE WorkerHello
    <3>1. stdin' \in Seq(WSFrame)
      BY <2>13, Taken DEF WorkerHello
    <3>2. worker' \in {"exit", "init"} /\ stdout' \in Seq(WSFrame)
      BY <2>12, <2>13 DEF WorkerHello, Kinds
    <3>3. QED
      BY <2>13, <3>1, <3>2 DEF WorkerHello
  <2>14. CASE WorkerInit
    <3>1. stdin' \in Seq(WSFrame)
      BY <2>14, Taken DEF WorkerInit
    <3>2. worker' \in {"exit", "loop"} /\ stdout' \in Seq(WSFrame)
      BY <2>12, <2>14 DEF WorkerInit, Kinds
    <3>3. QED
      BY <2>14, <3>1, <3>2 DEF WorkerInit
  <2>15. CASE WorkerTakes
    <3>1. stdin' \in Seq(WSFrame) /\ Head(stdin) \in WSFrame
      BY <2>15, Taken DEF WorkerTakes
    <3>2. QED
      BY <2>15, <3>1, FrameType DEF WorkerTakes
  <2>16. CASE WorkerResponds
    <3>1. worker' \in {"exit", "loop"} /\ stdout' \in Seq(WSFrame)
      BY <2>12, <2>16 DEF WorkerResponds, Kinds
    <3>2. QED
      BY <2>16, <3>1 DEF WorkerResponds
  <2>17. CASE WorkerPrints
    <3>1. stdout' \in Seq(WSFrame)
      BY <2>17, FrameType, Appended DEF WorkerPrints, Kinds
    <3>2. QED
      BY <2>17, <3>1 DEF WorkerPrints
  <2>18. CASE WorkerEof \/ WorkerCrashes
    BY <2>18 DEF WorkerEof, WorkerCrashes
  <2>19. CASE Ended \/ UNCHANGED WSvars
    BY <2>19 DEF Ended, WSvars
  <2>20. QED
    BY <2>1, <2>2, <2>3, <2>4, <2>5, <2>6, <2>7, <2>8, <2>9, <2>10, <2>11, <2>13, <2>14,
       <2>15, <2>16, <2>17, <2>18, <2>19
       DEF WSNext, SlotStep, HelperStep, WorkerStep
<1>3. QED
  BY <1>1, <1>2, PTL DEF WSSpec

-----------------------------------------------------------------------------
(* The job on its way.  Run_job reads no seq, so an answer is this job's    *)
(* because nothing of an earlier job is left anywhere: not in the pipes,    *)
(* not in the worker, not in the helper's hands, not in its channel.        *)
AnswerKinds == {"RESP_OK", "RESP_ERR"}

Clear(q, kinds) == \A i \in DOMAIN q : q[i].kind \notin kinds

\* At most one frame of these kinds, and it is about this job.
Only(q, kinds, job) ==
  /\ \A i \in DOMAIN q : q[i].kind \in kinds => q[i].job = job
  /\ \A i, k \in DOMAIN q : q[i].kind \in kinds /\ q[k].kind \in kinds => i = k

LEMMA OnlyTaken ==
  ASSUME NEW q \in Seq(WSFrame), q # <<>>, NEW kinds, NEW job
  PROVE  /\ Clear(q, kinds) => Clear(Tail(q), kinds) /\ Head(q).kind \notin kinds
         /\ Only(q, kinds, job) => Only(Tail(q), kinds, job)
         /\ Only(q, kinds, job) /\ Head(q).kind \in kinds
              => Clear(Tail(q), kinds) /\ Head(q).job = job
<1>1. /\ 1 \in DOMAIN q /\ Head(q) = q[1]
      /\ \A i \in DOMAIN Tail(q) : i + 1 \in DOMAIN q /\ i + 1 # 1 /\ Tail(q)[i] = q[i + 1]
      /\ \A i, k \in DOMAIN Tail(q) : i + 1 = k + 1 => i = k
  BY Taken
<1>2. Clear(q, kinds) => Clear(Tail(q), kinds) /\ Head(q).kind \notin kinds
  BY <1>1 DEF Clear
<1>3. Only(q, kinds, job) => Only(Tail(q), kinds, job)
  BY <1>1 DEF Only
<1>4. Only(q, kinds, job) /\ Head(q).kind \in kinds => Clear(Tail(q), kinds) /\ Head(q).job = job
  BY <1>1 DEF Only, Clear
<1>5. QED
  BY <1>2, <1>3, <1>4

LEMMA OnlyAppended ==
  ASSUME NEW q \in Seq(WSFrame), NEW e \in WSFrame, NEW kinds, NEW job
  PROVE  /\ e.kind \notin kinds =>
              /\ Clear(q, kinds) => Clear(Append(q, e), kinds)
              /\ Only(q, kinds, job) => Only(Append(q, e), kinds, job)
         /\ Clear(q, kinds) /\ e.job = job => Only(Append(q, e), kinds, job)
<1>1. /\ DOMAIN Append(q, e) = DOMAIN q \union {Len(q) + 1}
      /\ \A i \in DOMAIN q : Append(q, e)[i] = q[i]
      /\ Append(q, e)[Len(q) + 1] = e
  BY Appended
<1>2. ASSUME e.kind \notin kinds, Clear(q, kinds) PROVE Clear(Append(q, e), kinds)
  BY <1>1, <1>2 DEF Clear
<1>3. ASSUME e.kind \notin kinds, Only(q, kinds, job) PROVE Only(Append(q, e), kinds, job)
  BY <1>1, <1>3 DEF Only
<1>4. ASSUME Clear(q, kinds), e.job = job PROVE Only(Append(q, e), kinds, job)
  BY <1>1, <1>4 DEF Clear, Only
<1>5. QED
  BY <1>2, <1>3, <1>4

Running == worker = "run"
Held    == helper = "forward" /\ note.kind \in AnswerKinds
Queued  == respq # <<>> /\ Head(respq).kind \in AnswerKinds

NothingOnTheWay ==
  Clear(stdin, {"JOB"}) /\ ~Running /\ Clear(stdout, AnswerKinds) /\ ~Held /\ ~Queued

\* In one place at a time, front to back.
OnePlace ==
  /\ Clear(stdin, {"JOB"}) \/ (~Running /\ Clear(stdout, AnswerKinds) /\ ~Held /\ ~Queued)
  /\ ~Running \/ (Clear(stdout, AnswerKinds) /\ ~Held /\ ~Queued)
  /\ Clear(stdout, AnswerKinds) \/ (~Held /\ ~Queued)
  /\ ~Held \/ ~Queued

OwnJob ==
  /\ Only(stdin, {"JOB"}, calls)
  /\ Running => current = calls
  /\ Only(stdout, AnswerKinds, calls)
  /\ Held => note.job = calls
  /\ Queued => Head(respq).job = calls

\* The helper forwards an answer or its read error, nothing else.
NoteShape ==
  /\ helper = "forward" => note = ReadError \/ note.kind \in AnswerKinds
  /\ helper = "swallow" => note = ReadError
  /\ respq # <<>> => Head(respq) = ReadError \/ Head(respq).kind \in AnswerKinds

OneJob ==
  /\ NoteShape
  /\ slot \in {"start", "await_hello_ack", "await_session_ack", "idle"} => NothingOnTheWay
  /\ slot = "await_resp" => OnePlace /\ OwnJob

(* One job at a time in the session, in one place.  Each action moves it    *)
(* one place on, drops it, or ends the session.                             *)
LEMMA OneJobInductive == WSTypeOK /\ WSTypeOK' /\ OneJob /\ [WSNext]_WSvars => OneJob'
<1> SUFFICES ASSUME WSTypeOK, WSTypeOK', OneJob, [WSNext]_WSvars PROVE OneJob'
  OBVIOUS
<1> DEFINE In == Clear(stdin, {"JOB"})
           Out == Clear(stdout, AnswerKinds)
           OwnIn == Only(stdin, {"JOB"}, calls)
           OwnOut == Only(stdout, AnswerKinds, calls)
<1>t. /\ stdin \in Seq(WSFrame) /\ stdout \in Seq(WSFrame) /\ respq \in Seq(WSFrame)
      /\ note \in WSFrame /\ calls \in 0..MaxCalls /\ current \in 0..MaxCalls
      /\ Len(respq) <= 1
  BY DEF WSTypeOK
\* What an action does to a pipe.
<1>in. ASSUME stdin # <<>>, stdin' = Tail(stdin), UNCHANGED calls
       PROVE  /\ In => In' /\ Head(stdin).kind # "JOB"
              /\ OwnIn => OwnIn'
              /\ OwnIn /\ Head(stdin).kind = "JOB" => In' /\ Head(stdin).job = calls
  BY <1>t, <1>in, OnlyTaken
<1>out. ASSUME stdout # <<>>, stdout' = Tail(stdout), UNCHANGED calls
        PROVE  /\ Out => Out' /\ Head(stdout).kind \notin AnswerKinds
               /\ OwnOut => OwnOut'
               /\ OwnOut /\ Head(stdout).kind \in AnswerKinds => Out' /\ Head(stdout).job = calls
  BY <1>t, <1>out, OnlyTaken
<1>put. ASSUME NEW kind \in Kinds \ {"JOB"}, stdin' = Append(stdin, Msg(kind)), UNCHANGED calls
        PROVE  (In => In') /\ (OwnIn => OwnIn')
  BY <1>t, <1>put, OnlyAppended, FrameType DEF Msg
<1>reply. ASSUME NEW kind \in Kinds \ AnswerKinds, NEW job \in 0..MaxCalls, UNCHANGED calls,
                 stdout' = Append(stdout, [kind |-> kind, job |-> job])
          PROVE  (Out => Out') /\ (OwnOut => OwnOut')
  BY <1>t, <1>reply, OnlyAppended, FrameType
<1>ke. ReadError.kind \notin AnswerKinds
  BY FrameType DEF AnswerKinds
<1> USE DEF SlotVars, WorkerVars, HelperVars
<1> HIDE DEF In, Out, OwnIn, OwnOut
<1>inv. /\ NoteShape
        /\ slot \in {"start", "await_hello_ack", "await_session_ack", "idle"}
             => In /\ ~Running /\ Out /\ ~Held /\ ~Queued
        /\ slot = "await_resp" =>
             /\ In \/ (~Running /\ Out /\ ~Held /\ ~Queued)
             /\ ~Running \/ (Out /\ ~Held /\ ~Queued)
             /\ Out \/ (~Held /\ ~Queued)
             /\ ~Held \/ ~Queued
             /\ OwnIn /\ OwnOut
             /\ Running => current = calls
             /\ Held => note.job = calls
             /\ Queued => Head(respq).job = calls
  BY DEF OneJob, NothingOnTheWay, OnePlace, OwnJob, In, Out, OwnIn, OwnOut
<1>goal. ASSUME /\ NoteShape'
                /\ slot' \in {"start", "await_hello_ack", "await_session_ack", "idle"}
                     => In' /\ ~Running' /\ Out' /\ ~Held' /\ ~Queued'
                /\ slot' = "await_resp" =>
                     /\ In' \/ (~Running' /\ Out' /\ ~Held' /\ ~Queued')
                     /\ ~Running' \/ (Out' /\ ~Held' /\ ~Queued')
                     /\ Out' \/ (~Held' /\ ~Queued')
                     /\ ~Held' \/ ~Queued'
                     /\ OwnIn' /\ OwnOut'
                     /\ Running' => current' = calls'
                     /\ Held' => note'.job = calls'
                     /\ Queued' => Head(respq').job = calls'
         PROVE  OneJob'
  BY <1>goal DEF OneJob, NothingOnTheWay, OnePlace, OwnJob, In, Out, OwnIn, OwnOut
\* What stays as it is.
<1>sin.  UNCHANGED <<stdin, calls>> => UNCHANGED <<In, OwnIn>>
  BY DEF In, OwnIn, Clear, Only
<1>sout. UNCHANGED <<stdout, calls>> => UNCHANGED <<Out, OwnOut>>
  BY DEF Out, OwnOut, Clear, Only
<1>sworker. UNCHANGED WorkerVars => UNCHANGED <<Running, current>>
  BY DEF Running
<1>shelper. UNCHANGED HelperVars => UNCHANGED <<NoteShape, Held, Queued, note, respq>>
  BY DEF NoteShape, Held, Queued
<1>1. CASE SlotHello
  <2>1. slot' = "failed"
          \/ (stdin' = Append(stdin, Msg("HELLO")) /\ slot = "start" /\ slot' = "await_hello_ack")
    BY <1>1 DEF SlotHello, FailOpen
  <2>2. UNCHANGED <<calls, stdout, WorkerVars, HelperVars>>
    BY <1>1 DEF SlotHello
  <2>3. stdin' = Append(stdin, Msg("HELLO")) => (In => In')
    BY <2>2, <1>put DEF Kinds
  <2>4. QED
    BY <1>inv, <1>goal, <2>1, <2>2, <2>3, <1>sout, <1>sworker, <1>shelper
<1>2. CASE RecvHelloAck
  <2>1. \/ slot' = "failed"
        \/ /\ stdin' = Append(stdin, Msg("SESSION_INIT")) /\ slot = "await_hello_ack"
           /\ slot' = "await_session_ack" /\ stdout # <<>> /\ stdout' = Tail(stdout)
    BY <1>2 DEF RecvHelloAck, FailOpen
  <2>2. UNCHANGED <<calls, WorkerVars, HelperVars>>
    BY <1>2 DEF RecvHelloAck
  <2>3. stdin' = Append(stdin, Msg("SESSION_INIT")) => (In => In')
    BY <2>2, <1>put DEF Kinds
  <2>4. stdout # <<>> /\ stdout' = Tail(stdout) => (Out => Out')
    BY <2>2, <1>out
  <2>5. QED
    BY <1>inv, <1>goal, <2>1, <2>2, <2>3, <2>4, <1>sworker, <1>shelper
<1>3. CASE RecvSessionAck
  <2>1. \/ slot' = "failed" /\ UNCHANGED helper
        \/ /\ slot = "await_session_ack" /\ slot' = "idle" /\ stdout # <<>>
                /\ stdout' = Tail(stdout)
           /\ helper' = "read"
    BY <1>3 DEF RecvSessionAck, FailOpen
  <2>2. UNCHANGED <<calls, stdin, WorkerVars, note, respq>>
    BY <1>3 DEF RecvSessionAck
  <2>3. stdout # <<>> /\ stdout' = Tail(stdout) => (Out => Out')
    BY <2>2, <1>out
  <2>4. NoteShape' /\ (helper' = "read" => ~Held') /\ (~Queued => ~Queued')
    BY <1>inv, <2>1, <2>2 DEF NoteShape, Held, Queued
  <2>5. QED
    BY <1>inv, <1>goal, <2>1, <2>2, <2>3, <2>4, <1>sin, <1>sworker
<1>4. CASE SendJob
  <2>1. /\ slot = "idle" /\ UNCHANGED <<stdout, WorkerVars, HelperVars>>
        /\ \/ slot' = "lost"
           \/ /\ slot' = "await_resp" /\ calls' = calls + 1 /\ calls < MaxCalls
              /\ stdin' = Append(stdin, [kind |-> "JOB", job |-> calls + 1])
    BY <1>4 DEF SendJob
  <2>2. ASSUME slot' = "await_resp"
        PROVE  OwnIn' /\ OwnOut' /\ Out'
    <3>1. Clear(stdin, {"JOB"}) /\ Clear(stdout, AnswerKinds)
      BY <1>inv, <2>1 DEF In, Out
    <3>2. [kind |-> "JOB", job |-> calls + 1] \in WSFrame
      BY <1>t, <2>1, <2>2, FrameType, SessionAssumption DEF Kinds
    <3>3. OwnIn'
      BY <1>t, <2>1, <2>2, <3>1, <3>2, OnlyAppended DEF OwnIn
    <3>4. OwnOut' /\ Out'
      BY <2>1, <3>1 DEF OwnOut, Out, Clear, Only
    <3>5. QED
      BY <3>3, <3>4
  <2>3. QED
    BY <1>inv, <1>goal, <2>1, <2>2, <1>sworker, <1>shelper
<1>5. CASE RecvResp
  <2>1. /\ slot = "await_resp" /\ respq # <<>> /\ respq' = Tail(respq)
        /\ slot' = "lost" \/ (slot' = "idle" /\ Head(respq) # ReadError)
        /\ UNCHANGED <<calls, stdin, stdout, WorkerVars, helper, note>>
    BY <1>5 DEF RecvResp
  <2>2. respq' = <<>>
    BY <1>t, <2>1, Taken, EmptySeq, LenProperties
  <2>3. NoteShape' /\ ~Queued' /\ (~Held => ~Held')
    BY <1>inv, <2>1, <2>2 DEF NoteShape, Queued, Held
  <2>4. slot' = "idle" => Queued
    BY <1>inv, <2>1 DEF NoteShape, Queued
  <2>5. QED
    BY <1>inv, <1>goal, <2>1, <2>3, <2>4, <1>sin, <1>sout, <1>sworker
<1>6. CASE LoseWaiting \/ KillSession \/ SendShutdown \/ ReapChild
  <2>1. slot' \in {"lost", "dead", "closing", "closed"} /\ UNCHANGED HelperVars
    BY <1>6 DEF LoseWaiting, KillSession, SendShutdown, ReapChild
  <2>2. QED
    BY <1>inv, <1>goal, <2>1, <1>shelper
<1>7. CASE HelperReads
  <2>1. /\ helper = "read" /\ stdout # <<>> /\ stdout' = Tail(stdout)
        /\ \/ /\ Head(stdout).kind \in AnswerKinds
              /\ helper' = "forward" /\ note' = Head(stdout)
           \/ helper' \in {"forward", "swallow"} /\ note' = ReadError
        /\ UNCHANGED <<slot, calls, stdin, WorkerVars, respq>>
    BY <1>7 DEF HelperReads, AnswerKinds
  <2>2. NoteShape' /\ (Queued' <=> Queued)
    BY <1>inv, <2>1 DEF NoteShape, Queued
  <2>3. ~Held
    BY <2>1 DEF Held
  <2>4. Held' => Head(stdout).kind \in AnswerKinds /\ note' = Head(stdout)
    BY <1>ke, <2>1 DEF Held
  <2>5. /\ Out => Out' /\ Head(stdout).kind \notin AnswerKinds
        /\ OwnOut => OwnOut'
        /\ OwnOut /\ Head(stdout).kind \in AnswerKinds => Out' /\ Head(stdout).job = calls
    BY <1>out, <2>1
  <2>6. QED
    BY <1>inv, <1>goal, <2>1, <2>2, <2>3, <2>4, <2>5, <1>sin, <1>sworker
<1>8. CASE HelperSwallows
  <2>1. /\ helper = "swallow" /\ stdout # <<>> /\ stdout' = Tail(stdout)
        /\ helper' \in {"swallow", "forward"}
        /\ UNCHANGED <<slot, calls, stdin, WorkerVars, note, respq>>
    BY <1>8 DEF HelperSwallows
  <2>2. NoteShape' /\ (Queued' <=> Queued) /\ ~Held /\ ~Held'
    BY <1>inv, <1>ke, <2>1 DEF NoteShape, Queued, Held
  <2>3. (Out => Out') /\ (OwnOut => OwnOut')
    BY <1>out, <2>1
  <2>4. QED
    BY <1>inv, <1>goal, <2>1, <2>2, <2>3, <1>sin, <1>sworker
<1>9. CASE HelperEof
  <2>1. /\ helper' = "forward" /\ note' = ReadError
        /\ UNCHANGED <<slot, calls, stdin, stdout, WorkerVars, respq>>
    BY <1>9 DEF HelperEof
  <2>2. NoteShape' /\ (Queued' <=> Queued) /\ ~Held'
    BY <1>inv, <1>ke, <2>1 DEF NoteShape, Queued, Held
  <2>3. QED
    BY <1>inv, <1>goal, <2>1, <2>2, <1>sin, <1>sout, <1>sworker
<1>10. CASE HelperForwards
  <2>1. /\ helper = "forward"
        /\ \/ helper' = "gone" /\ UNCHANGED respq
           \/ /\ respq = <<>> /\ respq' = Append(respq, note)
              /\ helper' \in {"gone", "read"}
        /\ UNCHANGED <<slot, calls, stdin, stdout, WorkerVars, note>>
    BY <1>10 DEF HelperForwards
  <2>2. ASSUME respq = <<>>, respq' = Append(respq, note)
        PROVE  ~Queued /\ Head(respq') = note /\ respq' # <<>>
    <3>1. respq' = <<note>>
      BY <2>2
    <3>2. QED
      BY <2>2, <3>1 DEF Queued
  <2>3. NoteShape' /\ ~Held'
    BY <1>inv, <2>1, <2>2 DEF NoteShape, Held
  <2>4. \/ ~Queued'
        \/ Queued /\ Head(respq') = Head(respq)
        \/ Held /\ Head(respq') = note
    <3>1. CASE UNCHANGED respq
      BY <3>1 DEF Queued
    <3>2. CASE respq = <<>> /\ respq' = Append(respq, note)
      BY <2>1, <2>2, <3>2 DEF Queued, Held
    <3>3. QED
      BY <2>1, <3>1, <3>2
  <2>5. QED
    BY <1>inv, <1>goal, <2>1, <2>3, <2>4, <1>sin, <1>sout, <1>sworker
<1>11. CASE WorkerHello \/ WorkerInit
  <2>1. /\ ~Running /\ stdin # <<>> /\ stdin' = Tail(stdin)
        /\ worker' \in {"exit", "init", "loop"}
        /\ \/ UNCHANGED stdout
           \/ \E kind \in {"HELLO_ACK", "SESSION_ACK", "SESSION_NACK"} :
                stdout' = Append(stdout, [kind |-> kind, job |-> 0])
        /\ UNCHANGED <<slot, calls, HelperVars>>
    BY <1>11 DEF WorkerHello, WorkerInit, Reply, Running
  <2>2. ~Running'
    BY <2>1 DEF Running
  <2>3. (In => In') /\ (OwnIn => OwnIn')
    BY <1>in, <2>1
  <2>4. (Out => Out') /\ (OwnOut => OwnOut')
    <3>1. CASE UNCHANGED stdout
      BY <2>1, <3>1, <1>sout
    <3>2. CASE \E kind \in {"HELLO_ACK", "SESSION_ACK", "SESSION_NACK"} :
                 stdout' = Append(stdout, [kind |-> kind, job |-> 0])
      <4>1. PICK kind \in {"HELLO_ACK", "SESSION_ACK", "SESSION_NACK"} :
              stdout' = Append(stdout, [kind |-> kind, job |-> 0])
        BY <3>2
      <4>2. kind \in Kinds \ AnswerKinds /\ 0 \in 0..MaxCalls
        BY SessionAssumption DEF Kinds, AnswerKinds
      <4>3. QED
        BY <2>1, <4>1, <4>2, <1>reply
    <3>3. QED
      BY <2>1, <3>1, <3>2
  <2>5. QED
    BY <1>inv, <1>goal, <2>1, <2>2, <2>3, <2>4, <1>shelper
<1>12. CASE WorkerTakes
  <2>1. /\ ~Running /\ stdin # <<>> /\ stdin' = Tail(stdin)
        /\ \/ Head(stdin).kind = "JOB" /\ Running' /\ current' = Head(stdin).job
           \/ ~Running'
        /\ UNCHANGED <<slot, calls, stdout, HelperVars>>
    BY <1>12 DEF WorkerTakes, Running
  <2>2. /\ In => In' /\ Head(stdin).kind # "JOB"
        /\ OwnIn => OwnIn'
        /\ OwnIn /\ Head(stdin).kind = "JOB" => In' /\ Head(stdin).job = calls
    BY <1>in, <2>1
  <2>3. QED
    BY <1>inv, <1>goal, <2>1, <2>2, <1>sout, <1>shelper
<1>13. CASE WorkerResponds
  <2>1. /\ Running /\ ~Running'
        /\ \/ UNCHANGED stdout
           \/ \E kind \in AnswerKinds : stdout' = Append(stdout, [kind |-> kind, job |-> current])
        /\ UNCHANGED <<slot, calls, stdin, HelperVars>>
    BY <1>13 DEF WorkerResponds, Reply, Running, AnswerKinds
  <2>2. ASSUME NEW kind \in AnswerKinds, stdout' = Append(stdout, [kind |-> kind, job |-> current]),
               Out, current = calls
        PROVE  OwnOut'
    <3>1. [kind |-> kind, job |-> current] \in WSFrame
      BY <1>t, FrameType DEF AnswerKinds, Kinds
    <3>2. Only(stdout', AnswerKinds, calls)
      BY <1>t, <2>2, <3>1, OnlyAppended DEF Out
    <3>3. QED
      BY <2>1, <3>2 DEF OwnOut
  <2>3. slot # "idle" /\ slot \notin {"start", "await_hello_ack", "await_session_ack"}
    BY <1>inv, <2>1
  <2>4. slot = "await_resp" => OwnOut'
    BY <1>inv, <2>1, <2>2, <1>sout
  <2>5. QED
    BY <1>inv, <1>goal, <2>1, <2>3, <2>4, <1>sin, <1>shelper
<1>14. CASE WorkerPrints
  <2>1. /\ stdout' = Append(stdout, [kind |-> "noise", job |-> 0])
        /\ UNCHANGED <<slot, calls, stdin, WorkerVars, HelperVars>>
    BY <1>14 DEF WorkerPrints, Msg
  <2>2. (Out => Out') /\ (OwnOut => OwnOut')
    <3>1. "noise" \in Kinds \ AnswerKinds /\ 0 \in 0..MaxCalls
      BY SessionAssumption DEF Kinds, AnswerKinds
    <3>2. QED
      BY <2>1, <3>1, <1>reply
  <2>3. QED
    BY <1>inv, <1>goal, <2>1, <2>2, <1>sin, <1>sworker, <1>shelper
<1>15. CASE WorkerEof \/ WorkerCrashes
  <2>1. ~Running' /\ UNCHANGED <<slot, calls, stdin, stdout, HelperVars>>
    BY <1>15 DEF WorkerEof, WorkerCrashes, Running
  <2>2. QED
    BY <1>inv, <1>goal, <2>1, <1>sin, <1>sout, <1>shelper
<1>16. CASE Ended \/ UNCHANGED WSvars
  <2>1. UNCHANGED <<slot, calls, stdin, stdout, WorkerVars, HelperVars>>
    BY <1>16 DEF Ended, WSvars
  <2>2. QED
    BY <1>inv, <1>goal, <2>1, <1>sin, <1>sout, <1>sworker, <1>shelper
<1>17. QED
  BY <1>1, <1>2, <1>3, <1>4, <1>5, <1>6, <1>7, <1>8, <1>9, <1>10, <1>11, <1>12, <1>13, <1>14,
     <1>15, <1>16
     DEF WSNext, SlotStep, HelperStep, WorkerStep

-----------------------------------------------------------------------------
(* Whatever noise, crash or timeout a session meets, each answer run_job    *)
(* returns is the answer to the job it was called for, and a session that   *)
(* lost one is never used again: the contract the dispatcher relies on.     *)
THEOREM AnswersOwnJob == WSSpec => KeepsContract
<1> DEFINE phase == CASE slot \in {"start", "await_hello_ack", "await_session_ack"} -> "opening"
                      [] slot = "idle" -> "idle"
                      [] slot = "await_resp" -> "running"
                      [] OTHER -> "over"
<1>1. WSInit => OneJob
  BY EmptySeq DEF WSInit, OneJob, NoteShape, NothingOnTheWay, Running, Held, Queued, Clear
<1>2. WSSpec => []OneJob
  <2>1. WSTypeOK /\ WSTypeOK' /\ OneJob /\ [WSNext]_WSvars => OneJob'
    BY OneJobInductive
  <2>2. QED
    BY <1>1, <2>1, SessionTypeCorrect, PTL DEF WSSpec
<1>3. WSInit => Contract!Init
  BY DEF WSInit, Contract!Init
<1>4. WSTypeOK /\ OneJob /\ [WSNext]_WSvars => [Contract!Next]_Contract!vars
  <2> SUFFICES ASSUME WSTypeOK, OneJob, [WSNext]_WSvars PROVE [Contract!Next]_Contract!vars
    OBVIOUS
  \* A step by the phases before and after it.
  <2>ph. slot \in {"start", "await_hello_ack", "await_session_ack", "idle", "await_resp",
                   "closing", "failed", "lost", "dead", "closed"}
    BY DEF WSTypeOK
  <2>past. ASSUME UNCHANGED <<calls, answers>>, phase' = "over" PROVE [Contract!Next]_Contract!vars
    BY <2>past DEF Contract!Next, Contract!Over, Contract!vars
  <2>same. ASSUME UNCHANGED <<calls, answers>>, phase' = phase PROVE [Contract!Next]_Contract!vars
    BY <2>same DEF Contract!vars
  <2> HIDE DEF phase
  <2>late. slot' \in {"closing", "failed", "lost", "dead", "closed"} => phase' = "over"
    BY DEF phase
  <2>stay. UNCHANGED slot => phase' = phase
    BY DEF phase
  <2>1. CASE SlotHello \/ RecvHelloAck
    <3>1. UNCHANGED <<calls, answers>>
      BY <2>1 DEF SlotHello, RecvHelloAck
    <3>2. \/ slot' = "failed"
          \/ /\ slot \in {"start", "await_hello_ack"}
             /\ slot' \in {"await_hello_ack", "await_session_ack"}
      BY <2>1 DEF SlotHello, RecvHelloAck, FailOpen
    <3>3. phase' = "over" \/ phase' = phase
      BY <2>late, <3>2 DEF phase
    <3>4. QED
      BY <2>past, <2>same, <3>1, <3>3
  <2>2. CASE RecvSessionAck
    <3>1. UNCHANGED <<calls, answers>>
      BY <2>2 DEF RecvSessionAck
    <3>2. slot' = "failed" \/ (slot = "await_session_ack" /\ slot' = "idle")
      BY <2>2 DEF RecvSessionAck, FailOpen
    <3>3. phase' = "over" \/ (phase = "opening" /\ phase' = "idle")
      BY <2>late, <3>2 DEF phase
    <3>4. phase = "opening" /\ phase' = "idle" => Contract!Open
      BY <3>1 DEF Contract!Open, phase
    <3>5. QED
      BY <2>past, <3>1, <3>3, <3>4 DEF Contract!Next
  <2>3. CASE SendJob
    <3>1. CASE slot' = "lost" /\ UNCHANGED calls
      BY <2>3, <2>late, <2>past, <3>1 DEF SendJob
    <3>2. CASE slot' = "await_resp" /\ calls' = calls + 1
      <4>1. slot = "idle" /\ calls < MaxCalls /\ UNCHANGED answers
        BY <2>3 DEF SendJob
      <4>2. phase = "idle" /\ phase' = "running"
        BY <3>2, <4>1 DEF phase
      <4>3. Contract!Call
        BY <3>2, <4>1, <4>2 DEF Contract!Call, phase
      <4>4. QED
        BY <4>3 DEF Contract!Next
    <3>3. QED
      BY <2>3, <3>1, <3>2 DEF SendJob
  <2>4. CASE RecvResp
    <3>1. CASE Head(respq) = ReadError
      BY <2>4, <2>late, <2>past, <3>1 DEF RecvResp
    <3>2. CASE Head(respq) # ReadError
      <4>1. /\ slot = "await_resp" /\ slot' = "idle" /\ respq # <<>> /\ UNCHANGED calls
            /\ answers' = Append(answers, [job |-> Head(respq).job,
                                           ok  |-> Head(respq).kind = "RESP_OK"])
        BY <2>4, <3>2 DEF RecvResp
      <4>2. Head(respq).job = calls
        BY <3>2, <4>1 DEF OneJob, NoteShape, OwnJob, Queued
      <4>3. phase = "running" /\ phase' = "idle"
        BY <4>1 DEF phase
      <4>4. PICK ok \in BOOLEAN : ok = (Head(respq).kind = "RESP_OK")
        OBVIOUS
      <4>5. Contract!Answer(ok)
        BY <4>1, <4>2, <4>3, <4>4 DEF Contract!Answer, phase
      <4>6. QED
        BY <4>5 DEF Contract!Next
    <3>3. QED
      BY <3>1, <3>2
  <2>5. CASE LoseWaiting \/ KillSession \/ SendShutdown \/ ReapChild
    <3>1. UNCHANGED <<calls, answers>> /\ slot' \in {"lost", "dead", "closing", "closed"}
      BY <2>5 DEF LoseWaiting, KillSession, SendShutdown, ReapChild
    <3>2. QED
      BY <2>late, <2>past, <3>1
  <2>6. CASE HelperStep \/ WorkerStep \/ WorkerPrints \/ WorkerCrashes \/ Ended \/ UNCHANGED WSvars
    <3>1. UNCHANGED SlotVars
      BY <2>6 DEF HelperStep, HelperReads, HelperSwallows, HelperEof, HelperForwards,
         WorkerStep, WorkerHello, WorkerInit, WorkerTakes, WorkerResponds, WorkerEof,
         WorkerPrints, WorkerCrashes, Ended, WSvars, SlotVars
    <3>2. QED
      BY <2>stay, <2>same, <3>1 DEF SlotVars
  <2>7. QED
    BY <2>1, <2>2, <2>3, <2>4, <2>5, <2>6 DEF WSNext, SlotStep
<1>5. QED
  BY <1>2, <1>3, <1>4, SessionTypeCorrect, PTL DEF WSSpec, KeepsContract, Contract!Spec
-----------------------------------------------------------------------------
(* Frames of one kind in a connection.                                      *)
LEMMA IdsAppended ==
  ASSUME NEW s \in Seq(Frames), NEW f \in Frames, NEW kind
  PROVE  /\ Ids(Append(s, f), kind) = Ids(s, kind) \union (IF f.kind = kind THEN {f.id} ELSE {})
         /\ Rising(s, kind) /\ (f.kind = kind => Below(Ids(s, kind), {f.id}))
              => Rising(Append(s, f), kind)
<1> DEFINE r == Append(s, f)
<1>1. /\ DOMAIN r = DOMAIN s \union {Len(s) + 1} /\ r[Len(s) + 1] = f /\ Len(s) \in Nat
      /\ DOMAIN s = 1..Len(s) /\ \A i \in DOMAIN s : r[i] = s[i]
  BY Appended, LenProperties
<1> HIDE DEF r
<1>2. Ids(r, kind) = Ids(s, kind) \union (IF f.kind = kind THEN {f.id} ELSE {})
  <2>1. ASSUME NEW i \in DOMAIN r, r[i].kind = kind
        PROVE  r[i].id \in Ids(s, kind) \union (IF f.kind = kind THEN {f.id} ELSE {})
    BY <1>1, <2>1 DEF Ids
  <2>2. ASSUME NEW i \in DOMAIN s, s[i].kind = kind
        PROVE  s[i].id \in Ids(r, kind)
    <3>1. i \in DOMAIN r /\ r[i] = s[i]
      BY <1>1
    <3>2. QED
      BY <2>2, <3>1 DEF Ids
  <2>3. f.kind = kind => f.id \in Ids(r, kind)
    BY <1>1 DEF Ids
  <2>4. QED
    BY <2>1, <2>2, <2>3 DEF Ids
<1>3. ASSUME Rising(s, kind), f.kind = kind => Below(Ids(s, kind), {f.id}),
             NEW i \in DOMAIN r, NEW j \in DOMAIN r, i < j, r[i].kind = kind, r[j].kind = kind
      PROVE  r[i].id < r[j].id
  <2>1. i \in DOMAIN s /\ r[i] = s[i]
    BY <1>1, <1>3
  <2>2. CASE j \in DOMAIN s
    BY <1>1, <1>3, <2>1, <2>2 DEF Rising
  <2>3. CASE j = Len(s) + 1
    <3>1. s[i].id \in Ids(s, kind)
      BY <1>3, <2>1 DEF Ids
    <3>2. QED
      BY <1>1, <1>3, <2>1, <2>3, <3>1 DEF Below
  <2>4. QED
    BY <1>1, <2>2, <2>3
<1>4. QED
  BY <1>2, <1>3 DEF Rising, r

(* What is left of a connection when n frames of it were taken, with or     *)
(* without a frame of another kind before it.                               *)
LEMMA IdsTrimmed ==
  ASSUME NEW s \in Seq(Frames), NEW r \in Seq(Frames), NEW n \in Nat, NEW c \in Nat, NEW kind,
         Len(r) + n = Len(s) + c, n <= Len(s),
         \A i \in 1..Len(r) : IF i <= c THEN r[i].kind # kind ELSE r[i] = s[(i - c) + n],
         Rising(s, kind)
  PROVE  Rising(r, kind) /\ Ids(r, kind) \subseteq Ids(s, kind)
         /\ Below(Ids(s, kind) \ Ids(r, kind), Ids(r, kind))
<1>1. DOMAIN r = 1..Len(r) /\ DOMAIN s = 1..Len(s) /\ Len(r) \in Nat /\ Len(s) \in Nat
  BY LenProperties
<1>2. ASSUME NEW i \in DOMAIN r, r[i].kind = kind
      PROVE  i > c /\ (i - c) + n \in DOMAIN s /\ (i - c) + n \in Nat /\ r[i] = s[(i - c) + n]
  BY <1>1, <1>2
<1>3. Rising(r, kind)
  <2>1. ASSUME NEW i \in DOMAIN r, NEW j \in DOMAIN r, i < j, r[i].kind = kind, r[j].kind = kind
        PROVE  r[i].id < r[j].id
    <3>1. (i - c) + n < (j - c) + n
      BY <1>1, <2>1
    <3>2. QED
      BY <1>2, <2>1, <3>1 DEF Rising
  <2>2. QED
    BY <2>1 DEF Rising
<1>4. Ids(r, kind) \subseteq Ids(s, kind)
  BY <1>2 DEF Ids
<1>5. ASSUME NEW k \in DOMAIN s, s[k].kind = kind, s[k].id \notin Ids(r, kind),
             NEW i \in DOMAIN r, r[i].kind = kind
      PROVE  s[k].id < r[i].id
  <2>1. k <= n
    <3>1. SUFFICES ASSUME k > n PROVE FALSE
      BY <1>1
    <3>2. (k - n) + c \in DOMAIN r /\ (k - n) + c > c /\ (((k - n) + c) - c) + n = k
      BY <1>1, <3>1
    <3>3. r[(k - n) + c] = s[k]
      BY <1>1, <3>2
    <3>4. QED
      BY <1>5, <3>2, <3>3 DEF Ids
  <2>2. k < (i - c) + n
    BY <1>1, <1>2, <1>5, <2>1
  <2>3. QED
    BY <1>2, <1>5, <2>2 DEF Rising
<1>6. Below(Ids(s, kind) \ Ids(r, kind), Ids(r, kind))
  BY <1>5 DEF Ids, Below
<1>7. QED
  BY <1>3, <1>4, <1>6

LEMMA IdsTail ==
  ASSUME NEW s \in Seq(Frames), s # <<>>, NEW kind, Rising(s, kind)
  PROVE  /\ Rising(Tail(s), kind) /\ Ids(Tail(s), kind) \subseteq Ids(s, kind)
         /\ Head(s).kind # kind => Ids(Tail(s), kind) = Ids(s, kind)
         /\ Head(s).kind = kind => /\ Head(s).id \in Ids(s, kind)
                                   /\ Ids(Tail(s), kind) = Ids(s, kind) \ {Head(s).id}
                                   /\ Below({Head(s).id}, Ids(Tail(s), kind))
<1> DEFINE r == Tail(s)
<1>1. /\ r \in Seq(Frames) /\ Len(r) = Len(s) - 1 /\ Len(s) \in Nat /\ Len(r) \in Nat
      /\ DOMAIN r = 1..Len(r) /\ DOMAIN s = 1..Len(s) /\ 1 \in DOMAIN s /\ Head(s) = s[1]
      /\ \A i \in DOMAIN r : r[i] = s[i + 1]
  BY Taken, LenProperties
<1> HIDE DEF r
<1>2. Rising(r, kind) /\ Ids(r, kind) \subseteq Ids(s, kind)
  <2>1. \A i \in 1..Len(r) : IF i <= 0 THEN r[i].kind # kind ELSE r[i] = s[(i - 0) + 1]
    BY <1>1
  <2>2. Len(r) + 1 = Len(s) + 0 /\ 1 <= Len(s)
    BY <1>1
  <2>3. QED
    BY <1>1, <2>1, <2>2, IdsTrimmed
<1>3. ASSUME NEW k \in DOMAIN s, k # 1, s[k].kind = kind
      PROVE  s[k].id \in Ids(r, kind)
  <2>1. k - 1 \in DOMAIN r /\ (k - 1) + 1 = k
    BY <1>1, <1>3
  <2>2. r[k - 1] = s[k]
    BY <1>1, <2>1
  <2>3. QED
    BY <1>3, <2>1, <2>2 DEF Ids
<1>4. Head(s).kind # kind => Ids(r, kind) = Ids(s, kind)
  BY <1>1, <1>2, <1>3 DEF Ids
<1>5. ASSUME Head(s).kind = kind
      PROVE  /\ Head(s).id \in Ids(s, kind) /\ Ids(r, kind) = Ids(s, kind) \ {Head(s).id}
             /\ Below({Head(s).id}, Ids(r, kind))
  <2>1. Head(s).id \in Ids(s, kind)
    BY <1>1, <1>5 DEF Ids
  <2>2. ASSUME NEW i \in DOMAIN r, r[i].kind = kind
        PROVE  s[1].id < r[i].id
    <3>1. i + 1 \in DOMAIN s /\ 1 < i + 1
      BY <1>1
    <3>2. QED
      BY <1>1, <1>5, <2>2, <3>1 DEF Rising
  <2>3. Below({Head(s).id}, Ids(r, kind))
    BY <1>1, <2>2 DEF Below, Ids
  <2>4. \A i \in DOMAIN s : s[i].id \in Nat
    <3>1. \A i \in DOMAIN s : s[i] \in Frames
      BY ElementOfSeq
    <3>2. QED
      BY <3>1 DEF Frames
  <2>5. Head(s).id \notin Ids(r, kind)
    <3>1. Head(s).id \in Nat /\ \A n \in Nat : ~(n < n)
      BY <1>1, <2>4
    <3>2. QED
      BY <2>3, <3>1 DEF Below
  <2>6. Ids(s, kind) \subseteq Ids(r, kind) \union {Head(s).id}
    BY <1>1, <1>3 DEF Ids
  <2>7. QED
    BY <1>2, <2>1, <2>3, <2>5, <2>6
<1>6. QED
  BY <1>2, <1>4, <1>5 DEF r

-----------------------------------------------------------------------------
(* InTurn for given connections f and t, results read R and EVALs written   *)
(* 1..n, first of the numbers in them alone: A of results, E of EVALs.      *)
NumbersInTurn(A, E, R, n, lost) ==
  /\ Below(A, E) /\ Below(R, A \union E) /\ R \union (A \union E) \subseteq 1..n
  /\ Below((1..n) \ (A \union E), A \union E)
  /\ ~lost => 1..n \subseteq R \union (A \union E)

FramesInTurn(f, t, R, n, lost) ==
  /\ Rising(f, "EVAL_RESULT") /\ Rising(t, "EVAL")
  /\ NumbersInTurn(Ids(f, "EVAL_RESULT"), Ids(t, "EVAL"), R, n, lost)

LEMMA Bounds ==
  ASSUME NEW n \in Nat
  PROVE  /\ \A m \in 1..n : m \in Nat /\ m < n + 1 /\ ~(m < m) /\ m \in 1..(n + 1)
         /\ n + 1 \in 1..(n + 1) /\ n + 1 \notin 1..n
         /\ \A m \in 1..(n + 1) : m \in 1..n \/ m = n + 1
OBVIOUS

(* An EVAL is written: it has the next number.                              *)
LEMMA NextNumber ==
  ASSUME NEW A, NEW E, NEW R, NEW n \in Nat, NEW lost, NumbersInTurn(A, E, R, n, lost)
  PROVE  NumbersInTurn(A, E \union {n + 1}, R, n + 1, lost)
BY Bounds DEF NumbersInTurn, Below

(* The least EVAL is run: its number is that of the last result.            *)
LEMMA LeastRun ==
  ASSUME NEW A, NEW E, NEW R, NEW n \in Nat, NEW lost, NumbersInTurn(A, E, R, n, lost),
         NEW m \in E, Below({m}, E \ {m})
  PROVE  NumbersInTurn(A \union {m}, E \ {m}, R, n, lost)
<1>1. (A \union {m}) \union (E \ {m}) = A \union E
  OBVIOUS
<1>2. Below(A \union {m}, E \ {m})
  BY DEF NumbersInTurn, Below
<1>3. QED
  BY <1>1, <1>2 DEF NumbersInTurn

(* The least result is read.                                                *)
LEMMA LeastRead ==
  ASSUME NEW A, NEW E, NEW R, NEW n \in Nat, NEW lost, NumbersInTurn(A, E, R, n, lost),
         NEW m \in A, Below({m}, A \ {m})
  PROVE  NumbersInTurn(A \ {m}, E, R \union {m}, n, lost)
<1>1. m \notin E /\ (A \ {m}) \union E = (A \union E) \ {m}
  BY Bounds DEF NumbersInTurn, Below
<1>2. Below(A \ {m}, E) /\ Below(R \union {m}, (A \union E) \ {m})
  BY <1>1 DEF NumbersInTurn, Below
<1>3. Below((1..n) \ ((A \union E) \ {m}), (A \union E) \ {m})
  BY <1>1 DEF NumbersInTurn, Below
<1>4. QED
  BY <1>1, <1>2, <1>3 DEF NumbersInTurn

(* Results are lost, none of them behind one that is left.                  *)
LEMMA FirstLost ==
  ASSUME NEW A, NEW E, NEW R, NEW n \in Nat, NEW lost, NumbersInTurn(A, E, R, n, lost),
         NEW B, B \subseteq A, Below(A \ B, B)
  PROVE  NumbersInTurn(B, E, R, n, TRUE)
<1>1. Below(B, E) /\ Below(R, B \union E) /\ R \union (B \union E) \subseteq 1..n
  BY DEF NumbersInTurn, Below
<1>2. ASSUME NEW k \in (1..n) \ (B \union E), NEW i \in B \union E
      PROVE  k < i
  <2>1. CASE k \in A
    BY <1>2, <2>1 DEF NumbersInTurn, Below
  <2>2. CASE k \notin A
    BY <1>2, <2>2 DEF NumbersInTurn, Below
  <2>3. QED
    BY <2>1, <2>2
<1>3. Below((1..n) \ (B \union E), B \union E)
  BY <1>2 DEF Below
<1>4. QED
  BY <1>1, <1>3 DEF NumbersInTurn

-----------------------------------------------------------------------------
(* What moves frames keeps them in turn: a frame is written, one is read,   *)
(* an EVAL is run, a result is read, results are lost.                      *)
LEMMA TurnWritten ==
  ASSUME NEW f \in Seq(Frames), NEW t \in Seq(Frames), NEW R, NEW n \in Nat, NEW lost,
         FramesInTurn(f, t, R, n, lost), NEW g \in Frames
  PROVE  /\ g.kind # "EVAL" => FramesInTurn(f, Append(t, g), R, n, lost)
         /\ g.kind # "EVAL_RESULT" => FramesInTurn(Append(f, g), t, R, n, lost)
<1>1. ASSUME NEW s \in Seq(Frames), NEW kind, g.kind # kind, Rising(s, kind)
      PROVE  Ids(Append(s, g), kind) = Ids(s, kind) /\ Rising(Append(s, g), kind)
  <2>1. Ids(Append(s, g), kind) = Ids(s, kind) \union (IF g.kind = kind THEN {g.id} ELSE {})
    BY IdsAppended
  <2>2. Rising(Append(s, g), kind)
    BY <1>1, IdsAppended
  <2>3. QED
    BY <1>1, <2>1, <2>2
<1>2. QED
  BY <1>1 DEF FramesInTurn

LEMMA TurnEval ==
  ASSUME NEW f \in Seq(Frames), NEW t \in Seq(Frames), NEW R, NEW n \in Nat, NEW lost,
         FramesInTurn(f, t, R, n, lost)
  PROVE  FramesInTurn(f, Append(t, Frame("EVAL", n + 1)), R, n + 1, lost)
<1> DEFINE g == Frame("EVAL", n + 1)
<1>1. g \in Frames /\ g.kind = "EVAL" /\ g.id = n + 1
  BY DEF Frames, FrameKinds, Frame
<1> HIDE DEF g
<1>2. Below(Ids(t, "EVAL"), {g.id})
  BY <1>1, Bounds DEF FramesInTurn, NumbersInTurn, Below
<1>3. Ids(Append(t, g), "EVAL") = Ids(t, "EVAL") \union {n + 1} /\ Rising(Append(t, g), "EVAL")
  BY <1>1, <1>2, IdsAppended DEF FramesInTurn
<1>4. QED
  BY <1>3, NextNumber DEF FramesInTurn, g

LEMMA TurnTaken ==
  ASSUME NEW f \in Seq(Frames), NEW t \in Seq(Frames), NEW R, NEW n \in Nat, NEW lost,
         FramesInTurn(f, t, R, n, lost)
  PROVE  /\ t # <<>> /\ Head(t).kind # "EVAL" => FramesInTurn(f, Tail(t), R, n, lost)
         /\ f # <<>> /\ Head(f).kind # "EVAL_RESULT" => FramesInTurn(Tail(f), t, R, n, lost)
BY IdsTail DEF FramesInTurn

LEMMA TurnRun ==
  ASSUME NEW f \in Seq(Frames), NEW t \in Seq(Frames), NEW R, NEW n \in Nat, NEW lost,
         FramesInTurn(f, t, R, n, lost), t # <<>>, Head(t).kind = "EVAL"
  PROVE  FramesInTurn(Append(f, Frame("EVAL_RESULT", Head(t).id)), Tail(t), R, n, lost)
<1> DEFINE m == Head(t).id
<1> DEFINE g == Frame("EVAL_RESULT", m)
<1>1. /\ m \in Ids(t, "EVAL") /\ Ids(Tail(t), "EVAL") = Ids(t, "EVAL") \ {m}
      /\ Below({m}, Ids(Tail(t), "EVAL")) /\ Rising(Tail(t), "EVAL")
  BY IdsTail DEF FramesInTurn
<1>2. m \in 1..n
  BY <1>1 DEF FramesInTurn, NumbersInTurn
<1>3. g \in Frames /\ g.kind = "EVAL_RESULT" /\ g.id = m
  BY <1>2 DEF Frames, FrameKinds, Frame
<1> HIDE DEF g, m
<1>4. Below(Ids(f, "EVAL_RESULT"), {g.id})
  BY <1>1, <1>3 DEF FramesInTurn, NumbersInTurn, Below
<1>5. /\ Ids(Append(f, g), "EVAL_RESULT") = Ids(f, "EVAL_RESULT") \union {m}
      /\ Rising(Append(f, g), "EVAL_RESULT")
  BY <1>3, <1>4, IdsAppended DEF FramesInTurn
<1>6. QED
  BY <1>1, <1>5, LeastRun DEF FramesInTurn, g, m

LEMMA TurnRead ==
  ASSUME NEW f \in Seq(Frames), NEW t \in Seq(Frames), NEW R, NEW n \in Nat, NEW lost,
         FramesInTurn(f, t, R, n, lost), f # <<>>, Head(f).kind = "EVAL_RESULT"
  PROVE  FramesInTurn(Tail(f), t, R \union {Head(f).id}, n, lost)
<1> DEFINE m == Head(f).id
<1>1. /\ m \in Ids(f, "EVAL_RESULT") /\ Ids(Tail(f), "EVAL_RESULT") = Ids(f, "EVAL_RESULT") \ {m}
      /\ Below({m}, Ids(Tail(f), "EVAL_RESULT")) /\ Rising(Tail(f), "EVAL_RESULT")
  BY IdsTail DEF FramesInTurn
<1>2. QED
  BY <1>1, LeastRead DEF FramesInTurn

LEMMA Prefixed ==
  ASSUME NEW g \in Frames, NEW s \in Seq(Frames)
  PROVE  /\ <<g>> \o s \in Seq(Frames) /\ Len(<<g>> \o s) = 1 + Len(s) /\ Len(s) \in Nat
         /\ (<<g>> \o s)[1] = g
         /\ \A i \in 1..(1 + Len(s)) : i # 1 => i - 1 \in 1..Len(s) /\ (<<g>> \o s)[i] = s[i - 1]
<1> DEFINE h == <<g>>
<1>1. h \in Seq(Frames) /\ Len(h) = 1 /\ h[1] = g /\ Len(s) \in Nat
  BY LenProperties
<1> HIDE DEF h
<1>2. /\ h \o s \in Seq(Frames) /\ Len(h \o s) = Len(h) + Len(s)
      /\ \A i \in 1..(Len(h) + Len(s)) : (h \o s)[i] = IF i <= Len(h) THEN h[i] ELSE s[i - Len(h)]
  BY <1>1, ConcatProperties
<1>3. 1 \in 1..(1 + Len(s)) /\ (h \o s)[1] = g
  BY <1>1, <1>2
<1>4. ASSUME NEW i \in 1..(1 + Len(s)), i # 1
      PROVE  i - 1 \in 1..Len(s) /\ (h \o s)[i] = s[i - 1]
  BY <1>1, <1>2, <1>4
<1>5. QED
  BY <1>1, <1>2, <1>3, <1>4 DEF h

(* k frames are gone from the front, or the rest of the last of them is     *)
(* left in their place.                                                     *)
LEMMA TurnLost ==
  ASSUME NEW f \in Seq(Frames), NEW t \in Seq(Frames), NEW R, NEW n \in Nat, NEW lost,
         FramesInTurn(f, t, R, n, lost), NEW k \in 1..Len(f),
         NEW s \in Seq(Frames), Len(s) = Len(f) - k, \A i \in 1..Len(s) : s[i] = f[i + k],
         NEW r \in {s, <<Frame("rest", 0)>> \o s}
  PROVE  r \in Seq(Frames) /\ FramesInTurn(r, t, R, n, TRUE)
<1>1. Len(f) \in Nat /\ k \in Nat /\ k <= Len(f)
  BY LenProperties
<1>2. s \in Seq(Frames) /\ Len(s) = Len(f) - k /\ \A i \in 1..Len(s) : s[i] = f[i + k]
  OBVIOUS
<1>3. r \in Seq(Frames) /\ Rising(r, "EVAL_RESULT")
      /\ Ids(r, "EVAL_RESULT") \subseteq Ids(f, "EVAL_RESULT")
      /\ Below(Ids(f, "EVAL_RESULT") \ Ids(r, "EVAL_RESULT"), Ids(r, "EVAL_RESULT"))
  <2>1. CASE r = s
    <3>1. Len(r) + k = Len(f) + 0
      BY <1>1, <1>2, <2>1
    <3>2. \A i \in 1..Len(r) : IF i <= 0 THEN r[i].kind # "EVAL_RESULT" ELSE r[i] = f[(i - 0) + k]
      BY <1>2, <2>1
    <3>3. QED
      BY <1>1, <1>2, <2>1, <3>1, <3>2, IdsTrimmed DEF FramesInTurn
  <2>2. CASE r = <<Frame("rest", 0)>> \o s
    <3> DEFINE g == Frame("rest", 0)
    <3>1. g \in Frames /\ g.kind # "EVAL_RESULT"
      BY DEF Frame, Frames, FrameKinds
    <3> HIDE DEF g
    <3>2. r = <<g>> \o s
      BY <2>2 DEF g
    <3>3. /\ r \in Seq(Frames) /\ Len(r) = 1 + Len(s) /\ Len(s) \in Nat /\ r[1] = g
          /\ \A i \in 1..(1 + Len(s)) : i # 1 => i - 1 \in 1..Len(s) /\ r[i] = s[i - 1]
      <4>1. g \in Frames /\ s \in Seq(Frames)
        BY <3>1
      <4>2. /\ <<g>> \o s \in Seq(Frames) /\ Len(<<g>> \o s) = 1 + Len(s) /\ Len(s) \in Nat
            /\ (<<g>> \o s)[1] = g
            /\ \A i \in 1..(1 + Len(s)) : i # 1 => i - 1 \in 1..Len(s) /\ (<<g>> \o s)[i] = s[i - 1]
        BY <4>1, Prefixed
      <4>3. QED
        BY <3>2, <4>2
    <3>4. Len(r) + k = Len(f) + 1 /\ Len(s) \in Nat
      BY <1>1, <1>2, <3>3
    <3>5. ASSUME NEW i \in 1..Len(r)
          PROVE  IF i <= 1 THEN r[i].kind # "EVAL_RESULT" ELSE r[i] = f[(i - 1) + k]
      <4>1. CASE i <= 1
        <5>1. i = 1
          BY <1>2, <3>3, <3>4, <4>1
        <5>2. r[i] = g
          BY <3>2, <3>3, <3>4, <5>1
        <5>3. QED
          BY <3>1, <4>1, <5>2
      <4>2. CASE ~(i <= 1)
        <5>1. i - 1 \in 1..Len(s) /\ r[i] = s[i - 1]
          BY <1>2, <3>3, <3>4, <4>2
        <5>2. QED
          BY <1>2, <4>2, <5>1
      <4>3. QED
        BY <4>1, <4>2
    <3>6. QED
      BY <1>1, <3>3, <3>4, <3>5, IdsTrimmed DEF FramesInTurn
  <2>3. QED
    BY <2>1, <2>2
<1>4. QED
  BY <1>3, FirstLost DEF FramesInTurn

-----------------------------------------------------------------------------
(* Where the two threads are, and what they hold.                           *)
Posts ==
  /\ op.at \in {"scatter", "half", "gather"} => op.id \in Petitions
  /\ op.at = "chant" => op.id \in Chants
  /\ op.at = "gather" => lock = "op"
  /\ op.todo \subseteq roster
  /\ op.at \notin {"scatter", "half", "gather"} => op.todo = {}
  /\ IF accept.at \in {"listen", "ended"} THEN accept.who = None ELSE accept.who \in Agents
  /\ accept.at \in {"write", "half"} => lock = "accept" /\ accept.who \in roster

LEMMA Bound ==
  ASSUME Types
  PROVE  session.petitions \in Nat /\ session.stress \in Nat
<1>1. session \in Session
  BY ControllerAssumption DEF Types
<1>2. QED
  BY <1>1 DEF Session

LEMMA Wire ==
  /\ \A s \in Seq(Frames), f \in Frames : Append(s, f) \in Seq(Frames)
  /\ \A s \in Seq(Frames) : s # <<>> => Tail(s) \in Seq(Frames) /\ Head(s) \in Frames
  /\ \A kind \in FrameKinds, n \in Nat : Frame(kind, n) \in Frames /\ Frame(kind, n).kind = kind
       /\ Frame(kind, n).id = n
<1>1. \A s \in Seq(Frames), f \in Frames : Append(s, f) \in Seq(Frames)
  BY Appended
<1>2. \A s \in Seq(Frames) : s # <<>> => Tail(s) \in Seq(Frames) /\ Head(s) \in Frames
  BY Taken
<1>3. \A kind \in FrameKinds, n \in Nat : Frame(kind, n) \in Frames
        /\ Frame(kind, n).kind = kind /\ Frame(kind, n).id = n
  BY DEF Frame, Frames
<1>4. QED
  BY <1>1, <1>2, <1>3

LEMMA PostsInitial == Init => Types /\ Posts
<1> SUFFICES ASSUME Init PROVE Types /\ Posts
  OBVIOUS
<1>1. session \in Session
  BY ControllerAssumption DEF Init
<1>2. session.petitions \in Nat /\ session.stress \in Nat
  BY <1>1 DEF Session
<1>3. <<>> \in Seq(Frames) /\ <<>> \in Seq(Agents \union {None})
        /\ <<>> \in Seq(Petitions \union Chants)
  BY EmptySeq
<1>4. Types
  BY <1>2, <1>3 DEF Init, Types, Listening, Idle, AcceptStates, OpStates, AgentStates
<1>5. Posts
  BY DEF Init, Posts, Listening, Idle
<1>6. QED
  BY <1>4, <1>5

(* The records of the two threads.                                          *)
Accepts == [at : AcceptStates, who : Agents \union {None}, codes : SUBSET Chants]
Ops == [at : OpStates, id : 0..session.petitions \union Chants, todo : SUBSET Agents,
        ok : SUBSET Agents]

LEMMA ListeningFields ==
  Listening \in Accepts /\ Listening.at = "listen" /\ Listening.who = None /\ Listening.codes = {}
BY DEF Listening, Accepts, AcceptStates


LEMMA IdleFields ==
  ASSUME Types
  PROVE  Idle \in Ops /\ Idle.at = "idle" /\ Idle.todo = {}
<1>1. 0 \in 0..session.petitions
  BY Bound
<1>2. QED
  BY <1>1 DEF Idle, Ops, OpStates

LEMMA TailType ==
  \A t \in [Agents -> Seq(Frames)], a \in Agents :
    t[a] # <<>> => [t EXCEPT ![a] = Tail(t[a])] \in [Agents -> Seq(Frames)]
BY Wire

LEMMA AppendType ==
  /\ \A t \in [Agents -> Seq(Frames)], ids, f \in Frames :
       [a \in Agents |-> IF a \in ids THEN Append(t[a], f) ELSE t[a]] \in [Agents -> Seq(Frames)]
  /\ \A t \in [Agents -> Seq(Frames)], ids, h \in [Agents -> Frames] :
       [a \in Agents |-> IF a \in ids THEN Append(t[a], h[a]) ELSE t[a]] \in [Agents -> Seq(Frames)]
BY Wire

LEMMA SentType ==
  ASSUME NEW S
  PROVE  \A t \in [Agents -> Seq(S)], ids, x \in S :
           [a \in Agents |-> IF a \in ids THEN Append(t[a], x) ELSE t[a]] \in [Agents -> Seq(S)]
BY Appended

LEMMA Delivered ==
  ASSUME Types, NEW ids, NEW f \in Frames, Deliver(ids, f)
  PROVE  /\ to' \in [Agents -> Seq(Frames)]
         /\ \A a \in Agents : to'[a] = IF a \in ids
              /\ agent[a] # "gone" THEN Append(to[a], f) ELSE to[a]
<1>1. to \in [Agents -> Seq(Frames)]
  BY DEF Types
<1>2. to' = [a \in Agents |-> IF a \in Reachable(ids) THEN Append(to[a], f) ELSE to[a]]
  BY DEF Deliver
<1>3. to' \in [Agents -> Seq(Frames)]
  BY <1>1, <1>2, AppendType
<1>4. ASSUME NEW a \in Agents
      PROVE  to'[a] = IF a \in ids /\ agent[a] # "gone" THEN Append(to[a], f) ELSE to[a]
  BY <1>2 DEF Reachable
<1>5. QED
  BY <1>3, <1>4

LEMMA EvalDelivered ==
  ASSUME Types, NEW ids, NEW x \in Petitions \union Chants, DeliverEval(ids, x)
  PROVE  /\ to' \in [Agents -> Seq(Frames)] /\ sent' \in [Agents -> Seq(Petitions \union Chants)]
         /\ \A a \in Agents : IF a \in ids /\ agent[a] # "gone"
                              THEN /\ to'[a] = Append(to[a], Frame("EVAL", Len(sent[a]) + 1))
                                   /\ sent'[a] = Append(sent[a], x)
                              ELSE to'[a] = to[a] /\ sent'[a] = sent[a]
<1> DEFINE h == [a \in Agents |-> Frame("EVAL", Len(sent[a]) + 1)]
<1>1. to \in [Agents -> Seq(Frames)] /\ sent \in [Agents -> Seq(Petitions \union Chants)]
  BY DEF Types
<1>2. h \in [Agents -> Frames]
  <2>1. ASSUME NEW a \in Agents
        PROVE  Frame("EVAL", Len(sent[a]) + 1) \in Frames
    <3>1. Len(sent[a]) + 1 \in Nat
      BY <1>1, LenProperties
    <3>2. QED
      BY <3>1, Wire DEF FrameKinds
  <2>2. QED
    BY <2>1
<1>3. to' = [a \in Agents |-> IF a \in Reachable(ids) THEN Append(to[a], h[a]) ELSE to[a]]
  BY DEF DeliverEval
<1>4. sent' = [a \in Agents |-> IF a \in Reachable(ids) THEN Append(sent[a], x) ELSE sent[a]]
  BY DEF DeliverEval
<1>5. to' \in [Agents -> Seq(Frames)]
  <2> HIDE DEF h
  <2>1. QED
    BY <1>1, <1>2, <1>3, AppendType
<1>6. sent' \in [Agents -> Seq(Petitions \union Chants)]
  BY <1>1, <1>4, SentType
<1>7. ASSUME NEW a \in Agents
      PROVE  IF a \in ids /\ agent[a] # "gone"
             THEN /\ to'[a] = Append(to[a], Frame("EVAL", Len(sent[a]) + 1))
                  /\ sent'[a] = Append(sent[a], x)
             ELSE to'[a] = to[a] /\ sent'[a] = sent[a]
  BY <1>3, <1>4 DEF Reachable
<1>8. QED
  BY <1>5, <1>6, <1>7

(* Every step keeps the types and the posts.                                *)
LEMMA PostsKept == Types /\ Posts /\ [Next]_vars => Types' /\ Posts'
<1> SUFFICES ASSUME Types, Posts, [Next]_vars PROVE Types' /\ Posts'
  OBVIOUS
<1> USE ControllerAssumption DEF AcceptVars, AgentVars, OpVars, Past
<1>0. session.petitions \in Nat /\ session.stress \in Nat
  BY Bound
<1>a. to \in [Agents -> Seq(Frames)]
  BY DEF Types
<1>b. from \in [Agents -> Seq(Frames)]
  BY DEF Types
<1>c. sent \in [Agents -> Seq(Petitions \union Chants)]
  BY DEF Types
<1>1. CASE Accept
  <2>1. accept \in Accepts
    BY DEF Types, Accepts
  <2>2. Tail(backlog) \in Seq(Agents \union {None}) /\ Head(backlog) \in Agents \union {None}
    BY <1>1, Taken DEF Accept, Types
  <2>3. accept' \in Accepts /\ accept'.at \in {"listen", "ended", "hello"}
        /\ IF accept'.at \in {"listen", "ended"} THEN accept'.who = None ELSE accept'.who \in Agents
    BY <1>1, <2>2, ListeningFields DEF Accepts, Accept, AcceptStates
  <2>4. Types'
    BY <1>1, <2>1, <2>2, <2>3 DEF Accept, Accepts, Types, Petitions
  <2>5. Posts'
    BY <1>1, <2>1, <2>2, <2>3 DEF Accept, Posts, Petitions
  <2>6. QED
    BY <2>4, <2>5
<1>2. CASE ReadHello
  <2>1. accept \in Accepts
    BY DEF Types, Accepts
  <2>2. accept' \in Accepts
          /\ (accept' = Listening \/ (accept'.at \in {"auth", "ack"} /\ accept'.who = accept.who))
    BY <1>2, <2>1, ListeningFields DEF Accepts, ReadHello, Reject, AcceptTo, AcceptStates
  <2>3. accept.who \in Agents
    BY <1>2 DEF ReadHello, Posts
  <2>4. from' = from \/ (from[accept.who] # <<>>
          /\ from' = [from EXCEPT ![accept.who] = Tail(from[accept.who])])
    BY <1>2 DEF ReadHello
  <2>5. from' \in [Agents -> Seq(Frames)]
    <3>1. CASE from' = from
      BY <1>b, <3>1
    <3>2. CASE from[accept.who] # <<>>
                 /\ from' = [from EXCEPT ![accept.who] = Tail(from[accept.who])]
      BY <1>b, <2>3, <3>2, TailType
    <3>3. QED
      BY <2>4, <3>1, <3>2
  <2>6. Types'
    BY <1>2, <2>1, <2>2, <2>3, <2>4, <2>5 DEF ReadHello, Accepts, Reject, Types, Petitions
  <2>7. Posts'
    BY <1>2, <2>1, <2>2, <2>3, <2>4, <2>5, ListeningFields DEF ReadHello, Reject, Posts, Petitions
  <2>8. QED
    BY <2>6, <2>7
<1>3. CASE ReadAuth
  <2>1. accept \in Accepts
    BY DEF Types, Accepts
  <2>2. accept' \in Accepts
          /\ (accept' = Listening \/ (accept'.at = "ack" /\ accept'.who = accept.who))
    BY <1>3, <2>1, ListeningFields DEF Accepts, ReadAuth, Reject, AcceptTo, AcceptStates
  <2>3. accept.who \in Agents
    BY <1>3 DEF ReadAuth, Posts
  <2>4. from' = from \/ (from[accept.who] # <<>>
          /\ from' = [from EXCEPT ![accept.who] = Tail(from[accept.who])])
    BY <1>3 DEF ReadAuth
  <2>5. from' \in [Agents -> Seq(Frames)]
    <3>1. CASE from' = from
      BY <1>b, <3>1
    <3>2. CASE from[accept.who] # <<>>
                 /\ from' = [from EXCEPT ![accept.who] = Tail(from[accept.who])]
      BY <1>b, <2>3, <3>2, TailType
    <3>3. QED
      BY <2>4, <3>1, <3>2
  <2>6. Frame("NAK", 0) \in Frames
    BY Wire DEF FrameKinds
  <2>7. to' = to \/ Deliver({accept.who}, Frame("NAK", 0))
    BY <1>3 DEF ReadAuth
  <2>8. to' \in [Agents -> Seq(Frames)]
    BY <1>a, <2>6, <2>7, Delivered
  <2>9. Types'
    BY <1>3, <2>1, <2>2, <2>3, <2>4, <2>5, <2>6, <2>7, <2>8 DEF ReadAuth, Accepts, Reject, Types,
       Petitions
  <2>10. Posts'
    BY <1>3, <2>1, <2>2, <2>3, <2>4, <2>5, <2>6, <2>7, <2>8, ListeningFields DEF ReadAuth, Posts,
       Petitions
  <2>11. QED
    BY <2>9, <2>10
<1>4. CASE WriteAck
  <2>1. accept \in Accepts
    BY DEF Types, Accepts
  <2>2. accept' \in Accepts
          /\ (accept' = Listening \/ (accept'.at = "insert" /\ accept'.who = accept.who))
    BY <1>4, <2>1, ListeningFields DEF Accepts, WriteAck, Reject, AcceptTo, AcceptStates
  <2>3. accept.who \in Agents
    BY <1>4 DEF WriteAck, Posts
  <2>4. Frame("ACK", 0) \in Frames
    BY Wire DEF FrameKinds
  <2>5. to' = to \/ Deliver({accept.who}, Frame("ACK", 0))
    BY <1>4 DEF WriteAck
  <2>6. to' \in [Agents -> Seq(Frames)]
    BY <1>a, <2>4, <2>5, Delivered
  <2>7. Types'
    BY <1>4, <2>1, <2>2, <2>3, <2>4, <2>5, <2>6 DEF WriteAck, Accepts, Reject, Types, Petitions
  <2>8. Posts'
    BY <1>4, <2>1, <2>2, <2>3, <2>4, <2>5, <2>6, ListeningFields DEF WriteAck, Posts, Petitions
  <2>9. QED
    BY <2>7, <2>8
<1>5. CASE Insert
  <2>1. accept \in Accepts
    BY DEF Types, Accepts
  <2>2. accept' \in Accepts /\ accept'.at = "snapshot" /\ accept'.who = accept.who
    BY <1>5, <2>1 DEF Accepts, Insert, AcceptTo, AcceptStates
  <2>3. accept.who \in Agents
    BY <1>5 DEF Insert, Posts
  <2>4. Types'
    BY <1>5, <2>1, <2>2, <2>3 DEF Insert, Accepts, Types, Petitions
  <2>5. Posts'
    BY <1>5, <2>1, <2>2, <2>3 DEF Insert, Posts, Petitions
  <2>6. QED
    BY <2>4, <2>5
<1>6. CASE Snapshot
  <2>1. Types'
    BY <1>6 DEF Snapshot, Listening, AcceptTo, AcceptStates, Types, Petitions
  <2>2. Posts'
    BY <1>6 DEF Snapshot, Listening, Posts, Petitions, Types
  <2>3. QED
    BY <2>1, <2>2
<1>7. CASE BeginChants
  <2>1. accept \in Accepts
    BY DEF Types, Accepts
  <2>2. accept' \in Accepts
          /\ (accept' = Listening
               \/ (accept'.at = "write" /\ accept'.who = accept.who /\ accept.who \in roster))
    BY <1>7, <2>1, ListeningFields DEF Accepts, BeginChants, AcceptTo, AcceptStates
  <2>3. accept.who \in Agents
    BY <1>7 DEF BeginChants, Posts
  <2>4. Types'
    BY <1>7, <2>1, <2>2, <2>3 DEF BeginChants, Accepts, Types, Petitions
  <2>5. Posts'
    BY <1>7, <2>1, <2>2, <2>3, ListeningFields DEF BeginChants, Posts, Petitions
  <2>6. QED
    BY <2>4, <2>5
<1>8. CASE WriteChant
  <2>1. Types'
    BY <1>8 DEF WriteChant, AcceptTo, AcceptStates, Types, Petitions
  <2>2. Posts'
    BY <1>8 DEF WriteChant, AcceptTo, AcceptStates, Posts, Petitions, Types
  <2>3. QED
    BY <2>1, <2>2
<1>9. CASE ChantWritten
  <2>1. accept \in Accepts
    BY DEF Types, Accepts
  <2>2. accept' \in Accepts /\ accept'.at = "write" /\ accept'.who = accept.who
          /\ accept.who \in Agents
    <3>1. PICK c \in accept.codes : accept' = [accept EXCEPT !.at = "write", !.codes = @ \ {c}]
      BY <1>9 DEF ChantWritten
    <3>2. accept' \in Accepts /\ accept'.at = "write" /\ accept'.who = accept.who
      BY <2>1, <3>1 DEF Accepts, AcceptStates
    <3>3. accept.at = "half"
      BY <1>9 DEF ChantWritten
    <3>4. accept.who \in Agents
      BY <3>3 DEF Posts
    <3>5. QED
      BY <3>2, <3>4
  <2>3. accept.codes \subseteq Chants
    BY DEF Types
  <2>4. Frame("torn", 0) \in Frames
    BY Wire DEF FrameKinds
  <2>5. \/ Deliver({accept.who}, Frame("torn", 0)) /\ sent' = sent
        \/ \E c \in accept.codes : DeliverEval({accept.who}, c)
    BY <1>9 DEF ChantWritten
  <2>6. to' \in [Agents -> Seq(Frames)]
        /\ sent' \in [Agents -> Seq(Petitions \union Chants)]
    BY <1>c, <2>3, <2>4, <2>5, Delivered, EvalDelivered
  <2>7. Types'
    BY <1>9, <2>1, <2>2, <2>3, <2>4, <2>5, <2>6 DEF ChantWritten, Accepts, Types, Petitions
  <2>8. Posts'
    BY <1>9, <2>1, <2>2, <2>3, <2>4, <2>5, <2>6 DEF ChantWritten, Posts, Petitions
  <2>9. QED
    BY <2>7, <2>8
<1>10. CASE EndChants
  <2>1. Types'
    BY <1>10 DEF EndChants, Listening, AcceptTo, AcceptStates, Types, Petitions
  <2>2. Posts'
    BY <1>10 DEF EndChants, Listening, Posts, Petitions, Types
  <2>3. QED
    BY <2>1, <2>2
<1>11. ASSUME NEW a \in Agents, Connect(a)
      PROVE  Types' /\ Posts'
  <2>1. Types'
    BY <1>11, Appended DEF Connect, AgentTo, AgentStates, Types, Petitions
  <2>2. Posts'
    BY <1>11 DEF Connect, AgentTo, Posts, Petitions, Types
  <2>3. QED
    BY <2>1, <2>2
<1>12. ASSUME NEW a \in Agents, SendHello(a)
      PROVE  Types' /\ Posts'
  <2>1. Types'
    BY <1>12, Wire DEF SendHello, AgentTo, AgentStates, Answer, FrameKinds, NextIs, Types, Petitions
  <2>2. Posts'
    BY <1>12 DEF SendHello, Posts, Petitions, Types
  <2>3. QED
    BY <2>1, <2>2
<1>13. ASSUME NEW a \in Agents, SendAuth(a)
      PROVE  Types' /\ Posts'
  <2>1. Types'
    BY <1>13, Wire DEF SendAuth, AgentTo, AgentStates, Answer, FrameKinds, NextIs, Types, Petitions
  <2>2. Posts'
    BY <1>13 DEF SendAuth, Posts, Petitions, Types
  <2>3. QED
    BY <2>1, <2>2
<1>14. ASSUME NEW a \in Agents, ReadAck(a)
      PROVE  Types' /\ Posts'
  <2>1. to' = to \/ (to[a] # <<>> /\ to' = [to EXCEPT ![a] = Tail(to[a])])
    BY <1>14 DEF ReadAck
  <2>2. to' \in [Agents -> Seq(Frames)]
    <3>1. CASE to' = to
      BY <1>a, <3>1
    <3>2. CASE to[a] # <<>> /\ to' = [to EXCEPT ![a] = Tail(to[a])]
      BY <1>a, <3>2, TailType
    <3>3. QED
      BY <2>1, <3>1, <3>2
  <2>3. Types'
    BY <1>14, <2>1, <2>2 DEF ReadAck, AgentTo, AgentStates, Types, Petitions
  <2>4. Posts'
    BY <1>14, <2>1, <2>2 DEF ReadAck, Posts, Petitions, Types
  <2>5. QED
    BY <2>3, <2>4
<1>15. ASSUME NEW a \in Agents, HandleEval(a)
      PROVE  Types' /\ Posts'
  <2>1. Types'
    BY <1>15, Wire DEF HandleEval, AgentTo, AgentStates, Answer, FrameKinds, NextIs, Frames, Types,
       Petitions
  <2>2. Posts'
    BY <1>15 DEF HandleEval, Posts, Petitions, Types
  <2>3. QED
    BY <2>1, <2>2
<1>16. ASSUME NEW a \in Agents, HandleFire(a)
      PROVE  Types' /\ Posts'
  <2>1. Types'
    BY <1>16, Wire DEF HandleFire, AgentTo, AgentStates, Answer, FrameKinds, NextIs, Types,
       Petitions
  <2>2. Posts'
    BY <1>16 DEF HandleFire, Posts, Petitions, Types
  <2>3. QED
    BY <2>1, <2>2
<1>17. ASSUME NEW a \in Agents, WorkloadEnds(a)
      PROVE  Types' /\ Posts'
  <2>1. Types'
    BY <1>17, Wire DEF WorkloadEnds, AgentTo, AgentStates, Answer, FrameKinds, NextIs, Types,
       Petitions
  <2>2. Posts'
    BY <1>17 DEF WorkloadEnds, Posts, Petitions, Types
  <2>3. QED
    BY <2>1, <2>2
<1>18. ASSUME NEW a \in Agents, HandleTerminate(a)
      PROVE  Types' /\ Posts'
  <2>1. Types'
    BY <1>18, Wire DEF HandleTerminate, AgentTo, AgentStates, Answer, FrameKinds, NextIs, Types,
       Petitions
  <2>2. Posts'
    BY <1>18 DEF HandleTerminate, Posts, Petitions, Types
  <2>3. QED
    BY <2>1, <2>2
<1>19. ASSUME NEW a \in Agents, HandleShutdown(a)
      PROVE  Types' /\ Posts'
  <2>1. Types'
    BY <1>19, Wire DEF HandleShutdown, AgentTo, AgentStates, Answer, FrameKinds, NextIs, Types,
       Petitions
  <2>2. Posts'
    BY <1>19 DEF HandleShutdown, Posts, Petitions, Types
  <2>3. QED
    BY <2>1, <2>2
<1>20. ASSUME NEW a \in Agents, Disconnected(a)
      PROVE  Types' /\ Posts'
  <2>1. Types'
    BY <1>20, Wire DEF Disconnected, AgentTo, AgentStates, Answer, FrameKinds, NextIs, Types,
       Petitions
  <2>2. Posts'
    BY <1>20 DEF Disconnected, Posts, Petitions, Types
  <2>3. QED
    BY <2>1, <2>2
<1>21. ASSUME NEW a \in Agents, Dies(a)
      PROVE  Types' /\ Posts'
  <2>1. Types'
    BY <1>21, Wire DEF Dies, AgentTo, AgentStates, Answer, FrameKinds, NextIs, Types, Petitions
  <2>2. Posts'
    BY <1>21 DEF Dies, Posts, Petitions, Types
  <2>3. QED
    BY <2>1, <2>2
<1>22. ASSUME NEW a \in Agents, HandleTorn(a)
      PROVE  Types' /\ Posts'
  <2>1. to' \in [Agents -> Seq(Frames)]
    BY <1>22, Wire DEF HandleTorn, NextIs, Types
  <2>2. Types'
    BY <1>22, <2>1 DEF HandleTorn, AgentTo, AgentStates, Types, Petitions
  <2>3. Posts'
    BY <1>22, <2>1 DEF HandleTorn, Posts, Petitions, Types
  <2>4. QED
    BY <2>2, <2>3
<1>23. ASSUME NEW ids \in SUBSET roster, Pray(ids)
      PROVE  Types' /\ Posts'
  <2>1. Types'
    BY <1>23, <1>0 DEF Pray, OpStates, Types, Petitions
  <2>2. Posts'
    BY <1>23 DEF Pray, Posts, Petitions, Types
  <2>3. QED
    BY <2>1, <2>2
<1>24. ASSUME NEW a \in Agents, BeginFrame(a)
      PROVE  Types' /\ Posts'
  <2>1. Types'
    BY <1>24 DEF BeginFrame, OpStates, Types, Petitions
  <2>2. Posts'
    BY <1>24 DEF BeginFrame, Posts, Petitions, Types
  <2>3. QED
    BY <2>1, <2>2
<1>25. ASSUME NEW a \in Agents, EndFrame(a)
      PROVE  Types' /\ Posts'
  <2>1. op \in Ops /\ Ops' = Ops
    BY <1>25 DEF EndFrame, Types, Ops
  <2>2. op' \in Ops /\ op'.at = "scatter" /\ op'.id = op.id /\ op'.todo = op.todo \ {a}
    BY <1>25, <2>1 DEF Ops, EndFrame, Dispatched, OpStates
  <2>3. op.id \in Petitions
    BY <1>25 DEF EndFrame, Posts
  <2>4. Frame("torn", 0) \in Frames
    BY Wire DEF FrameKinds
  <2>5. \/ Deliver({a}, Frame("torn", 0)) /\ sent' = sent
        \/ DeliverEval({a}, op.id)
    BY <1>25 DEF EndFrame
  <2>6. to' \in [Agents -> Seq(Frames)]
        /\ sent' \in [Agents -> Seq(Petitions \union Chants)]
    BY <1>c, <2>3, <2>4, <2>5, Delivered, EvalDelivered
  <2>7. Types'
    BY <1>25, <2>1, <2>2, <2>3, <2>4, <2>5, <2>6 DEF EndFrame, Ops, Types, Petitions
  <2>8. Posts'
    BY <1>25, <2>1, <2>2, <2>3, <2>4, <2>5, <2>6 DEF EndFrame, Posts, Petitions
  <2>9. QED
    BY <2>7, <2>8
<1>26. CASE EndPray
  <2>1. Ops' = Ops
    BY <1>26 DEF EndPray, Ops
  <2>2. op' \in Ops /\ op'.at = "idle" /\ op'.todo = {}
    BY <1>26, IdleFields DEF EndPray
  <2>3. op.id \in Petitions /\ op.ok \subseteq Agents
    BY <1>26 DEF EndPray, Posts, Types
  <2>4. Types'
    BY <1>26, <2>1, <2>2, <2>3 DEF EndPray, Ops, Types, Petitions
  <2>5. Posts'
    BY <1>26, <2>1, <2>2, <2>3 DEF EndPray, Posts, Petitions
  <2>6. QED
    BY <2>4, <2>5
<1>27. ASSUME NEW p \in pending, Annex(p)
      PROVE  Types' /\ Posts'
  <2>1. Ops' = Ops
    BY <1>27 DEF Annex, Ops
  <2>2. p.id \in Petitions /\ p.agents \subseteq Agents
    BY DEF Types
  <2>3. op' \in Ops /\ op'.at = "gather" /\ op'.id = p.id /\ op'.todo \subseteq roster
    BY <1>27, <2>2, <1>0 DEF Annex, Ops, OpStates, Types, Petitions
  <2>4. Types'
    BY <1>27, <2>1, <2>2, <2>3 DEF Annex, Ops, Types, Petitions
  <2>5. Posts'
    BY <1>27, <2>1, <2>2, <2>3 DEF Annex, Posts, Petitions
  <2>6. QED
    BY <2>4, <2>5
<1>28. CASE Eval
  <2>1. Ops' = Ops
    BY <1>28 DEF Eval, Ops
  <2>2. op' \in Ops /\ op'.at = "gather" /\ op'.id = petition /\ op'.todo \subseteq roster
    BY <1>28, <1>0 DEF Eval, Ops, OpStates, Types, Dispatched
  <2>3. petition \in Petitions /\ petition + 1 \in 1..(session.petitions + 1)
    BY <1>28, <1>0 DEF Eval, Types, Petitions
  <2>4. to' \in [Agents -> Seq(Frames)]
        /\ sent' \in [Agents -> Seq(Petitions \union Chants)]
    BY <1>28, <2>3, EvalDelivered DEF Eval
  <2>5. Types'
    BY <1>28, <2>1, <2>2, <2>3, <2>4 DEF Eval, Ops, Types, Petitions
  <2>6. Posts'
    BY <1>28, <2>1, <2>2, <2>3, <2>4 DEF Eval, Posts, Petitions
  <2>7. QED
    BY <2>5, <2>6
<1>29. ASSUME NEW a \in Agents, GatherRead(a)
      PROVE  Types' /\ Posts'
  <2>1. op \in Ops /\ Ops' = Ops
    BY <1>29 DEF GatherRead, Types, Ops
  <2>2. Head(from[a]) \in Frames /\ Tail(from[a]) \in Seq(Frames)
    BY <1>29, Wire DEF GatherRead, Types
  <2>3. op' \in Ops /\ op'.at = op.at /\ op'.id = op.id /\ op'.todo \subseteq op.todo
    BY <1>29, <2>1 DEF Ops, GatherRead
  <2>4. op.id \in Petitions /\ Head(from[a]).id \in Nat
    BY <1>29, <2>2 DEF GatherRead, Posts, Frames
  <2>5. Types'
    <3>1. got' \subseteq [petition : Petitions, agent : Agents, id : Nat]
      BY <1>29, <2>4 DEF GatherRead, Types
    <3>2. from' \in [Agents -> Seq(Frames)]
      BY <1>29, <1>b, <2>2 DEF GatherRead
    <3>3. QED
      BY <1>29, <2>1, <2>3, <3>1, <3>2 DEF GatherRead, Ops, Types, Petitions
  <2>6. Posts'
    BY <1>29, <2>1, <2>2, <2>3, <2>4 DEF GatherRead, Posts, Petitions
  <2>7. QED
    BY <2>5, <2>6
<1>30. ASSUME NEW a \in Agents, GatherFails(a)
      PROVE  Types' /\ Posts'
  <2>1. Types'
    BY <1>30 DEF GatherFails, OpStates, Types, Petitions
  <2>2. Posts'
    BY <1>30 DEF GatherFails, Posts, Petitions, Types
  <2>3. QED
    BY <2>1, <2>2
<1>31. ASSUME NEW a \in Agents, GatherCut(a)
      PROVE  Types' /\ Posts'
  <2>1. op \in Ops /\ Ops' = Ops
    BY <1>31 DEF GatherCut, Types, Ops
  <2>2. <<Frame("rest", 0)>> \in Seq(Frames)
    BY Wire DEF FrameKinds
  <2>3. Tail(from[a]) \in Seq(Frames)
    BY <1>31, Wire DEF GatherCut, Types
  <2>4. <<Frame("rest", 0)>> \o Tail(from[a]) \in Seq(Frames)
    BY <2>2, <2>3, ConcatProperties
  <2>5. op' \in Ops /\ op'.at = op.at /\ op'.id = op.id /\ op'.todo \subseteq op.todo
    BY <1>31, <2>1 DEF Ops, GatherCut
  <2>6. Types'
    BY <1>31, <2>1, <2>2, <2>3, <2>4, <2>5 DEF GatherCut, Ops, Types, Petitions
  <2>7. Posts'
    BY <1>31, <2>1, <2>2, <2>3, <2>4, <2>5 DEF GatherCut, Posts, Petitions
  <2>8. QED
    BY <2>6, <2>7
<1>32. ASSUME NEW a \in Agents, Misread(a)
      PROVE  Types' /\ Posts'
  <2>1. op \in Ops /\ Ops' = Ops
    BY <1>32 DEF Misread, Types, Ops
  <2>2. op' \in Ops /\ op'.at = op.at /\ op'.id = op.id /\ op'.todo \subseteq op.todo
    <3>1. op' = op \/ op' = [op EXCEPT !.todo = @ \ {a}]
      BY <1>32 DEF Misread
    <3>2. QED
      BY <2>1, <3>1 DEF Ops
  <2>3. PICK n \in 1..Len(from[a]), whole \in BOOLEAN :
          from' = [from EXCEPT ![a] = IF whole THEN SubSeq(from[a], n + 1, Len(from[a]))
                                      ELSE <<Frame("rest", 0)>> \o SubSeq(from[a], n + 1, Len(from[a]))]
    BY <1>32 DEF Misread
  <2>4. from[a] \in Seq(Frames)
    BY DEF Types
  <2>5. SubSeq(from[a], n + 1, Len(from[a])) \in Seq(Frames)
    BY <2>4, LenProperties, SubSeqProperties, ElementOfSeq
  <2>6. <<Frame("rest", 0)>> \in Seq(Frames)
    BY Wire DEF FrameKinds
  <2>7. <<Frame("rest", 0)>> \o SubSeq(from[a], n + 1, Len(from[a])) \in Seq(Frames)
    BY <2>5, <2>6, ConcatProperties
  <2>8. Types'
    BY <1>32, <2>1, <2>2, <2>3, <2>4, <2>5, <2>6, <2>7 DEF Misread, Ops, Types, Petitions
  <2>9. Posts'
    BY <1>32, <2>1, <2>2, <2>3, <2>4, <2>5, <2>6, <2>7 DEF Misread, Posts, Petitions
  <2>10. QED
    BY <2>8, <2>9
<1>33. ASSUME NEW a \in Agents, GatherDies(a)
      PROVE  Types' /\ Posts'
  <2>1. Ops' = Ops
    BY <1>33 DEF GatherDies, Ops
  <2>2. op' \in Ops /\ op'.at = "exited" /\ op'.todo = {}
    BY <1>33, IdleFields DEF Ops, GatherDies, OpStates
  <2>3. accept' \in Accepts /\ accept'.at = "ended" /\ accept'.who = None
    BY <1>33, ListeningFields DEF Accepts, GatherDies, AcceptStates
  <2>4. Types'
    BY <1>33, <2>1, <2>2, <2>3 DEF GatherDies, Ops, Accepts, Types, Petitions
  <2>5. Posts'
    BY <1>33, <2>1, <2>2, <2>3 DEF GatherDies, Posts, Petitions
  <2>6. QED
    BY <2>4, <2>5
<1>34. CASE EndGather
  <2>1. Ops' = Ops
    BY <1>34 DEF EndGather, Ops
  <2>2. op' \in Ops /\ op'.at = "idle" /\ op'.todo = {}
    BY <1>34, IdleFields DEF Ops, EndGather, OpStates
  <2>3. Types'
    BY <1>34, <2>1, <2>2 DEF EndGather, Ops, Types, Petitions
  <2>4. Posts'
    BY <1>34, <2>1, <2>2 DEF EndGather, Posts, Petitions
  <2>5. QED
    BY <2>3, <2>4
<1>35. ASSUME NEW p \in pending, Forget(p)
      PROVE  Types' /\ Posts'
  <2>1. Types'
    BY <1>35 DEF Forget, OpStates, Types, Petitions
  <2>2. Posts'
    BY <1>35 DEF Forget, Posts, Petitions, Types
  <2>3. QED
    BY <2>1, <2>2
<1>36. ASSUME NEW c \in Chants, Chant(c)
      PROVE  Types' /\ Posts'
  <2>1. Ops' = Ops
    BY <1>36 DEF Chant, Ops
  <2>2. op' \in Ops /\ op'.at = "chant" /\ op'.todo = {} /\ op'.id = c
    BY <1>36, IdleFields DEF Ops, Chant, OpStates
  <2>3. to' \in [Agents -> Seq(Frames)]
        /\ sent' \in [Agents -> Seq(Petitions \union Chants)]
    BY <1>36, EvalDelivered DEF Chant
  <2>4. Types'
    BY <1>36, <2>1, <2>2, <2>3 DEF Chant, Ops, Types, Petitions
  <2>5. Posts'
    BY <1>36, <2>1, <2>2, <2>3 DEF Chant, Posts, Petitions
  <2>6. QED
    BY <2>4, <2>5
<1>37. CASE RecordChant
  <2>1. Ops' = Ops
    BY <1>37 DEF RecordChant, Ops
  <2>2. op' \in Ops /\ op'.at = "idle" /\ op'.todo = {}
    BY <1>37, IdleFields DEF Ops, RecordChant, OpStates
  <2>3. op.id \in Chants
    BY <1>37 DEF RecordChant, Posts
  <2>4. Types'
    BY <1>37, <2>1, <2>2, <2>3 DEF RecordChant, Ops, Types, Petitions
  <2>5. Posts'
    BY <1>37, <2>1, <2>2, <2>3 DEF RecordChant, Posts, Petitions
  <2>6. QED
    BY <2>4, <2>5
<1>38. ASSUME NEW c \in Chants, Amen(c)
      PROVE  Types' /\ Posts'
  <2>1. Types'
    BY <1>38 DEF Amen, Types, Petitions
  <2>2. Posts'
    BY <1>38 DEF Amen, Posts, Petitions, Types
  <2>3. QED
    BY <2>1, <2>2
<1>39. ASSUME NEW ids \in SUBSET roster, Excommunicate(ids)
      PROVE  Types' /\ Posts'
  <2>1. Types'
    BY <1>39, Wire DEF Excommunicate, Deliver, FrameKinds, Types, Petitions
  <2>2. Posts'
    BY <1>39 DEF Excommunicate, Posts, Petitions, Types
  <2>3. QED
    BY <2>1, <2>2
<1>40. ASSUME NEW kind \in {"FIRE", "TERMINATE"}, Stress(kind)
      PROVE  Types' /\ Posts'
  <2>1. Frame(kind, 0) \in Frames
    BY Wire DEF FrameKinds
  <2>2. to' \in [Agents -> Seq(Frames)]
    BY <1>40, <2>1, Delivered DEF Stress
  <2>3. Types'
    BY <1>40, <2>1, <2>2, <1>0 DEF Stress, Deliver, FrameKinds, Types, Petitions
  <2>4. Posts'
    BY <1>40, <2>1, <2>2 DEF Stress, Posts, Petitions, Types
  <2>5. QED
    BY <2>3, <2>4
<1>41. CASE Quit
  <2>1. Ops' = Ops
    BY <1>41 DEF Quit, Ops
  <2>2. op' \in Ops /\ op'.at = "wake" /\ op'.todo = {}
    BY <1>41, IdleFields DEF Ops, Quit, OpStates
  <2>3. Frame("SHUTDOWN", 0) \in Frames
    BY Wire DEF FrameKinds
  <2>4. to' \in [Agents -> Seq(Frames)]
    BY <1>41, <2>3, Delivered DEF Quit
  <2>5. Types'
    BY <1>41, <2>1, <2>2, <2>3, <2>4 DEF Quit, Ops, Types, Petitions
  <2>6. Posts'
    BY <1>41, <2>1, <2>2, <2>3, <2>4 DEF Quit, Posts, Petitions
  <2>7. QED
    BY <2>5, <2>6
<1>42. CASE Wake
  <2>1. Ops' = Ops
    BY <1>42 DEF Wake, Ops
  <2>2. op' \in Ops /\ op'.at = "join" /\ op'.todo = {}
    BY <1>42, IdleFields DEF Ops, Wake, OpStates
  <2>3. Append(backlog, None) \in Seq(Agents \union {None})
    BY Appended DEF Types
  <2>4. Types'
    BY <1>42, <2>1, <2>2, <2>3 DEF Wake, Ops, Types, Petitions
  <2>5. Posts'
    BY <1>42, <2>1, <2>2, <2>3 DEF Wake, Posts, Petitions
  <2>6. QED
    BY <2>4, <2>5
<1>43. CASE Join
  <2>1. Ops' = Ops
    BY <1>43 DEF Join, Ops
  <2>2. op' \in Ops /\ op'.at = "exited" /\ op'.todo = {}
    BY <1>43, IdleFields DEF Ops, Join, OpStates
  <2>3. Types'
    BY <1>43, <2>1, <2>2 DEF Join, Ops, Types, Petitions
  <2>4. Posts'
    BY <1>43, <2>1, <2>2 DEF Join, Posts, Petitions
  <2>5. QED
    BY <2>3, <2>4
<1>44. CASE UNCHANGED vars
  <2>1. Types'
    BY <1>44 DEF vars, Types, Petitions
  <2>2. Posts'
    BY <1>44 DEF vars, Posts, Petitions
  <2>3. QED
    BY <2>1, <2>2
<1>45. QED
  BY <1>1, <1>2, <1>3, <1>4, <1>5, <1>6, <1>7, <1>8, <1>9, <1>10, <1>11, <1>12,
     <1>13, <1>14, <1>15, <1>16, <1>17, <1>18, <1>19, <1>20, <1>21, <1>22, <1>23,
     <1>24, <1>25, <1>26, <1>27, <1>28, <1>29, <1>30, <1>31, <1>32, <1>33, <1>34,
     <1>35, <1>36, <1>37, <1>38, <1>39, <1>40, <1>41, <1>42, <1>43, <1>44
  DEF Next, AcceptStep, AgentStep, Command, CommandStep, Finished

-----------------------------------------------------------------------------
(* An agent the accept thread has not put on the roster yet.                *)
Unmet(a) ==
  \/ agent[a] = "off"
  \/ \E i \in DOMAIN backlog : backlog[i] = a
  \/ accept.who = a /\ accept.at \in {"hello", "auth", "ack", "insert"}

(* Nothing is sent to an agent before it is on the roster.                  *)
Unwritten == \A a \in Agents : Unmet(a) => a \notin roster /\ sent[a] = <<>>

(* Each agent comes once.                                                   *)
InLine ==
  \A i \in DOMAIN backlog : backlog[i] \in Agents =>
    /\ agent[backlog[i]] # "off" /\ accept.who # backlog[i]
    /\ \A j \in DOMAIN backlog : backlog[j] = backlog[i] => j = i

(* No agent is on the roster before it has said hello.                      *)
Silent ==
  \A a \in Agents : agent[a] \in {"off", "hello"} =>
    /\ from[a] = <<>> /\ a \notin roster
    /\ accept.who = a => agent[a] = "hello" /\ accept.at = "hello"

Newcomers == Unwritten /\ InLine /\ Silent

LEMMA NewcomersInitial == Init => Newcomers
<1> SUFFICES ASSUME Init PROVE Newcomers
  OBVIOUS
<1>1. Unwritten
  BY DEF Init, Unwritten
<1>2. InLine
  BY DEF Init, InLine
<1>3. Silent
  BY ControllerAssumption DEF Init, Silent, Listening
<1>4. QED
  BY <1>1, <1>2, <1>3 DEF Newcomers

(* What the accept thread does with the agent it has, and the operator with *)
(* those on the roster.                                                     *)
LEMMA HandshakeGoesOn ==
  ASSUME Types, Newcomers, agent' = agent, backlog' = backlog, roster' \subseteq roster,
         accept' = accept \/ accept'.who = None
         \/ (/\ accept'.who = accept.who /\ agent[accept.who] \notin {"off", "hello"}
             /\ accept'.at \in {"hello", "auth", "ack", "insert"} =>
                  accept.at \in {"hello", "auth", "ack", "insert"}),
         \A a \in Agents : a \notin roster => sent'[a] = sent[a],
         \A a \in Agents : a \notin roster /\ agent[a] \in {"off", "hello"} => from'[a] = from[a]
  PROVE  Newcomers'
<1> USE ControllerAssumption
<1>1. ASSUME NEW a \in Agents, Unmet(a)'
      PROVE  Unmet(a)
  <2>1. a # None
    OBVIOUS
  <2>2. QED
    BY <1>1, <2>1 DEF Unmet
<1>2. Unwritten'
  BY <1>1 DEF Unwritten, Newcomers
<1>3. InLine'
  <2>1. ASSUME NEW i \in DOMAIN backlog, backlog[i] \in Agents
        PROVE  accept'.who # backlog[i]
    BY <2>1 DEF Newcomers, InLine
  <2>2. QED
    BY <2>1 DEF Newcomers, InLine
<1>4. Silent'
  BY DEF Newcomers, Silent
<1>5. QED
  BY <1>2, <1>3, <1>4 DEF Newcomers

(* What an agent does once it has connected.                                *)
LEMMA AgentGoesOn ==
  ASSUME Types, Newcomers, NEW a \in Agents, agent[a] # "off", agent'[a] \notin {"off", "hello"},
         \A b \in Agents : b # a => agent'[b] = agent[b] /\ from'[b] = from[b],
         UNCHANGED <<backlog, accept, roster, sent>>
  PROVE  Newcomers'
<1>1. ASSUME NEW b \in Agents, Unmet(b)'
      PROVE  Unmet(b)
  BY <1>1 DEF Unmet
<1>2. Unwritten'
  BY <1>1 DEF Unwritten, Newcomers
<1>3. InLine'
  BY DEF Newcomers, InLine
<1>4. Silent'
  BY DEF Newcomers, Silent
<1>5. QED
  BY <1>2, <1>3, <1>4 DEF Newcomers

LEMMA NewcomerConnects ==
  ASSUME Types, Newcomers, NEW a \in Agents, Connect(a)
  PROVE  Newcomers'
<1>0. /\ agent' = [agent EXCEPT ![a] = "hello"] /\ backlog' = Append(backlog, a) /\ agent[a] = "off"
      /\ UNCHANGED <<accept, roster, sent, from>> /\ agent \in [Agents -> AgentStates]
  BY DEF Connect, AgentTo, OpVars, AcceptVars, Types
<1>1. /\ DOMAIN backlog' = DOMAIN backlog \union {Len(backlog) + 1}
      /\ \A i \in DOMAIN backlog : backlog'[i] = backlog[i]
      /\ backlog'[Len(backlog) + 1] = a
  BY <1>0, Appended DEF Types
<1>2. ASSUME NEW b \in Agents, Unmet(b)'
      PROVE  Unmet(b)
  <2>1. CASE b = a
    BY <1>0, <2>1 DEF Unmet
  <2>2. CASE b # a
    BY <1>0, <1>1, <1>2, <2>2 DEF Unmet
  <2>3. QED
    BY <2>1, <2>2
<1>3. Unwritten'
  BY <1>0, <1>2 DEF Unwritten, Newcomers
<1>4. \A i \in DOMAIN backlog : backlog[i] # a
  BY <1>0 DEF Newcomers, InLine
<1>5. accept.who # a
  BY <1>0 DEF Newcomers, Silent
<1>6. InLine'
  <2>1. ASSUME NEW i \in DOMAIN backlog', backlog'[i] \in Agents
        PROVE  /\ agent'[backlog'[i]] # "off" /\ accept'.who # backlog'[i]
               /\ \A j \in DOMAIN backlog' : backlog'[j] = backlog'[i] => j = i
    <3>1. CASE i \in DOMAIN backlog
      BY <1>0, <1>1, <1>4, <2>1, <3>1 DEF Newcomers, InLine
    <3>2. CASE i = Len(backlog) + 1
      BY <1>0, <1>1, <1>4, <1>5, <2>1, <3>2
    <3>3. QED
      BY <1>1, <2>1, <3>1, <3>2
  <2>2. QED
    BY <2>1 DEF InLine
<1>7. Silent'
  BY <1>0, <1>5 DEF Newcomers, Silent
<1>8. QED
  BY <1>3, <1>6, <1>7 DEF Newcomers

LEMMA NewcomerAccepted ==
  ASSUME Types, Posts, Newcomers, Accept
  PROVE  Newcomers'
<1> USE ControllerAssumption
<1>0. /\ backlog # <<>> /\ backlog' = Tail(backlog)
      /\ UNCHANGED <<agent, roster, sent, from>>
      /\ accept'.who = None \/ (accept'.who = Head(backlog) /\ accept'.at = "hello")
  <2>1. /\ backlog # <<>> /\ backlog' = Tail(backlog)
        /\ UNCHANGED <<agent, roster, sent, from>>
    BY DEF Accept, OpVars, AgentVars
  <2>2. \/ accept' = [Listening EXCEPT !.at = "hello", !.who = Head(backlog)]
        \/ accept' = Listening \/ accept' = [Listening EXCEPT !.at = "ended"]
    BY DEF Accept
  <2>3. accept'.who = None \/ (accept'.who = Head(backlog) /\ accept'.at = "hello")
    <3>1. CASE accept' = [Listening EXCEPT !.at = "hello", !.who = Head(backlog)]
      BY <3>1 DEF Listening
    <3>2. CASE accept' = Listening
      BY <3>2, ListeningFields
    <3>3. CASE accept' = [Listening EXCEPT !.at = "ended"]
      BY <3>3 DEF Listening
    <3>4. QED
      BY <2>2, <3>1, <3>2, <3>3
  <2>4. QED
    BY <2>1, <2>3
<1>1. /\ Head(backlog) = backlog[1] /\ 1 \in DOMAIN backlog
      /\ \A i \in DOMAIN Tail(backlog) : i + 1 \in DOMAIN backlog /\ i + 1 # 1
           /\ Tail(backlog)[i] = backlog[i + 1]
      /\ \A i, k \in DOMAIN Tail(backlog) : i + 1 = k + 1 => i = k
  BY <1>0, Taken DEF Types
<1>2. ASSUME NEW a \in Agents, Unmet(a)'
      PROVE  Unmet(a)
  <2>1. CASE agent'[a] = "off"
    BY <1>0, <2>1 DEF Unmet
  <2>2. CASE \E i \in DOMAIN backlog' : backlog'[i] = a
    BY <1>0, <1>1, <2>2 DEF Unmet
  <2>3. CASE accept'.who = a
    BY <1>0, <1>1, <2>3 DEF Unmet
  <2>4. QED
    BY <1>2, <2>1, <2>2, <2>3 DEF Unmet
<1>3. Unwritten'
  BY <1>0, <1>2 DEF Unwritten, Newcomers
<1>4. InLine'
  <2>1. ASSUME NEW i \in DOMAIN backlog', backlog'[i] \in Agents
        PROVE  /\ agent'[backlog'[i]] # "off" /\ accept'.who # backlog'[i]
               /\ \A j \in DOMAIN backlog' : backlog'[j] = backlog'[i] => j = i
    BY <1>0, <1>1, <2>1 DEF Newcomers, InLine
  <2>2. QED
    BY <2>1 DEF InLine
<1>5. Silent'
  <2>1. ASSUME NEW a \in Agents, agent'[a] \in {"off", "hello"}, accept'.who = a
        PROVE  agent'[a] = "hello" /\ accept'.at = "hello"
    BY <1>0, <1>1, <2>1 DEF Newcomers, InLine
  <2>2. QED
    BY <1>0, <2>1 DEF Newcomers, Silent
<1>6. QED
  BY <1>3, <1>4, <1>5 DEF Newcomers

LEMMA NewcomerInserted ==
  ASSUME Types, Posts, Newcomers, Insert
  PROVE  Newcomers'
<1>0. /\ accept.at = "insert" /\ accept.who \in Agents
      /\ accept'.who = accept.who /\ accept'.at = "snapshot"
      /\ roster' = roster \union {accept.who}
      /\ UNCHANGED <<agent, backlog, sent, from>>
  BY DEF Insert, Posts, OpVars, AgentVars, AcceptTo, Types
<1>1. agent[accept.who] \notin {"off", "hello"}
  BY <1>0 DEF Newcomers, Silent
<1>2. \A i \in DOMAIN backlog : backlog[i] # accept.who
  BY <1>0 DEF Newcomers, InLine
<1>3. ASSUME NEW a \in Agents, Unmet(a)'
      PROVE  Unmet(a) /\ a # accept.who
  BY <1>0, <1>1, <1>2, <1>3 DEF Unmet
<1>4. Unwritten'
  BY <1>0, <1>3 DEF Unwritten, Newcomers
<1>5. InLine'
  BY <1>0 DEF InLine, Newcomers
<1>6. Silent'
  BY <1>0, <1>1 DEF Silent, Newcomers
<1>7. QED
  BY <1>4, <1>5, <1>6 DEF Newcomers

LEMMA WokenUp ==
  ASSUME Types, Newcomers, Wake
  PROVE  Newcomers'
<1> USE ControllerAssumption
<1>0. /\ backlog' = Append(backlog, None)
      /\ UNCHANGED <<agent, accept, roster, sent, from>>
  BY DEF Wake, AgentVars
<1>1. /\ DOMAIN backlog' = DOMAIN backlog \union {Len(backlog) + 1}
      /\ \A i \in DOMAIN backlog : backlog'[i] = backlog[i]
      /\ backlog'[Len(backlog) + 1] = None
  BY <1>0, Appended DEF Types
<1>2. ASSUME NEW a \in Agents, Unmet(a)'
      PROVE  Unmet(a)
  BY <1>0, <1>1, <1>2 DEF Unmet
<1>3. Unwritten'
  BY <1>0, <1>2 DEF Unwritten, Newcomers
<1>4. InLine'
  BY <1>0, <1>1 DEF Newcomers, InLine
<1>5. Silent'
  BY <1>0 DEF Newcomers, Silent
<1>6. QED
  BY <1>3, <1>4, <1>5 DEF Newcomers

(* Every step keeps what is known of newcomers.                             *)
LEMMA NewcomersKept == Types /\ Posts /\ Newcomers /\ [Next]_vars => Newcomers'
<1> SUFFICES ASSUME Types, Posts, Newcomers, [Next]_vars PROVE Newcomers'
  OBVIOUS
<1> USE DEF AcceptVars, AgentVars, OpVars, Past
<1>b. from \in [Agents -> Seq(Frames)]
  BY DEF Types
<1>c. sent \in [Agents -> Seq(Petitions \union Chants)]
  BY DEF Types
<1>d. agent \in [Agents -> AgentStates]
  BY DEF Types
<1>1. CASE Accept
  BY <1>1, NewcomerAccepted
<1>2. CASE ReadHello
  <2>1. accept.who \in Agents /\ accept.at = "hello"
    BY <1>2 DEF ReadHello, Posts
  <2>2. UNCHANGED <<agent, backlog, roster, sent>>
    BY <1>2 DEF ReadHello
  <2>3. CASE from[accept.who] = <<>>
    <3>1. accept' = Listening /\ from' = from
      BY <1>2, <2>3 DEF ReadHello, Reject
    <3>2. QED
      BY <2>2, <3>1, HandshakeGoesOn, ListeningFields
  <2>4. CASE from[accept.who] # <<>>
    <3>1. agent[accept.who] \notin {"off", "hello"}
      BY <2>1, <2>4 DEF Newcomers, Silent
    <3>2. accept'.who = accept.who /\ from' = [from EXCEPT ![accept.who] = Tail(from[accept.who])]
      BY <1>2, <2>4 DEF ReadHello, AcceptTo, Types
    <3>3. \A b \in Agents : b # accept.who => from'[b] = from[b]
      BY <1>b, <3>2
    <3>4. QED
      BY <2>1, <2>2, <3>1, <3>2, <3>3, HandshakeGoesOn
  <2>5. QED
    BY <2>3, <2>4
<1>3. CASE ReadAuth
  <2>1. accept.who \in Agents /\ agent[accept.who] \notin {"off", "hello"}
    BY <1>3 DEF ReadAuth, Posts, Newcomers, Silent
  <2>2. accept' = Listening
          \/ (accept'.who = accept.who /\ (accept'.at \in {"hello", "auth", "ack", "insert"} =>
          accept.at \in {"hello", "auth", "ack", "insert"}))
    BY <1>3 DEF ReadAuth, AcceptTo, Reject, Types
  <2>3. UNCHANGED <<agent, backlog, roster>>
    BY <1>3 DEF ReadAuth
  <2>4. \A b \in Agents : b \notin roster => sent'[b] = sent[b]
    BY <1>3 DEF ReadAuth, DeliverEval, Reachable, Posts
  <2>5. \A b \in Agents : b # accept.who => from'[b] = from[b]
    BY <1>3, <1>b DEF ReadAuth
  <2>6. QED
    BY <2>1, <2>2, <2>3, <2>4, <2>5, HandshakeGoesOn, ListeningFields
<1>4. CASE WriteAck
  <2>1. accept.who \in Agents /\ agent[accept.who] \notin {"off", "hello"}
    BY <1>4 DEF WriteAck, Posts, Newcomers, Silent
  <2>2. accept' = Listening
          \/ (accept'.who = accept.who /\ (accept'.at \in {"hello", "auth", "ack", "insert"} =>
          accept.at \in {"hello", "auth", "ack", "insert"}))
    BY <1>4 DEF WriteAck, AcceptTo, Reject, Types
  <2>3. UNCHANGED <<agent, backlog, roster>>
    BY <1>4 DEF WriteAck
  <2>4. \A b \in Agents : b \notin roster => sent'[b] = sent[b]
    BY <1>4 DEF WriteAck, DeliverEval, Reachable, Posts
  <2>5. \A b \in Agents : b # accept.who => from'[b] = from[b]
    BY <1>4, <1>b DEF WriteAck
  <2>6. QED
    BY <2>1, <2>2, <2>3, <2>4, <2>5, HandshakeGoesOn, ListeningFields
<1>5. CASE Insert
  BY <1>5, NewcomerInserted
<1>6. CASE Snapshot
  <2>1. accept.who \in Agents /\ agent[accept.who] \notin {"off", "hello"}
    BY <1>6 DEF Snapshot, Posts, Newcomers, Silent
  <2>2. accept' = Listening
          \/ (accept'.who = accept.who /\ (accept'.at \in {"hello", "auth", "ack", "insert"} =>
          accept.at \in {"hello", "auth", "ack", "insert"}))
    BY <1>6 DEF Snapshot, AcceptTo, Reject, Types
  <2>3. UNCHANGED <<agent, backlog, roster>>
    BY <1>6 DEF Snapshot
  <2>4. \A b \in Agents : b \notin roster => sent'[b] = sent[b]
    BY <1>6 DEF Snapshot, DeliverEval, Reachable, Posts
  <2>5. \A b \in Agents : b # accept.who => from'[b] = from[b]
    BY <1>6, <1>b DEF Snapshot
  <2>6. QED
    BY <2>1, <2>2, <2>3, <2>4, <2>5, HandshakeGoesOn, ListeningFields
<1>7. CASE BeginChants
  <2>1. accept.who \in Agents /\ agent[accept.who] \notin {"off", "hello"}
    BY <1>7 DEF BeginChants, Posts, Newcomers, Silent
  <2>2. accept' = Listening
          \/ (accept'.who = accept.who /\ (accept'.at \in {"hello", "auth", "ack", "insert"} =>
          accept.at \in {"hello", "auth", "ack", "insert"}))
    BY <1>7 DEF BeginChants, AcceptTo, Reject, Types
  <2>3. UNCHANGED <<agent, backlog, roster>>
    BY <1>7 DEF BeginChants
  <2>4. \A b \in Agents : b \notin roster => sent'[b] = sent[b]
    BY <1>7 DEF BeginChants, DeliverEval, Reachable, Posts
  <2>5. \A b \in Agents : b # accept.who => from'[b] = from[b]
    BY <1>7, <1>b DEF BeginChants
  <2>6. QED
    BY <2>1, <2>2, <2>3, <2>4, <2>5, HandshakeGoesOn, ListeningFields
<1>8. CASE WriteChant
  <2>1. accept.who \in Agents /\ agent[accept.who] \notin {"off", "hello"}
    BY <1>8 DEF WriteChant, Posts, Newcomers, Silent
  <2>2. accept' = Listening
          \/ (accept'.who = accept.who /\ (accept'.at \in {"hello", "auth", "ack", "insert"} =>
          accept.at \in {"hello", "auth", "ack", "insert"}))
    BY <1>8 DEF WriteChant, AcceptTo, Reject, Types
  <2>3. UNCHANGED <<agent, backlog, roster>>
    BY <1>8 DEF WriteChant
  <2>4. \A b \in Agents : b \notin roster => sent'[b] = sent[b]
    BY <1>8 DEF WriteChant, DeliverEval, Reachable, Posts
  <2>5. \A b \in Agents : b # accept.who => from'[b] = from[b]
    BY <1>8, <1>b DEF WriteChant
  <2>6. QED
    BY <2>1, <2>2, <2>3, <2>4, <2>5, HandshakeGoesOn, ListeningFields
<1>9. CASE ChantWritten
  <2>1. accept.who \in Agents /\ agent[accept.who] \notin {"off", "hello"}
    BY <1>9 DEF ChantWritten, Posts, Newcomers, Silent
  <2>2. accept' = Listening
          \/ (accept'.who = accept.who /\ (accept'.at \in {"hello", "auth", "ack", "insert"} =>
          accept.at \in {"hello", "auth", "ack", "insert"}))
    BY <1>9 DEF ChantWritten, AcceptTo, Reject, Types
  <2>3. UNCHANGED <<agent, backlog, roster>>
    BY <1>9 DEF ChantWritten
  <2>4. \A b \in Agents : b \notin roster => sent'[b] = sent[b]
    BY <1>9, <1>c DEF ChantWritten, DeliverEval, Reachable, Posts
  <2>5. \A b \in Agents : b # accept.who => from'[b] = from[b]
    BY <1>9, <1>b DEF ChantWritten
  <2>6. QED
    BY <2>1, <2>2, <2>3, <2>4, <2>5, HandshakeGoesOn, ListeningFields
<1>10. CASE EndChants
  <2>1. accept.who \in Agents /\ agent[accept.who] \notin {"off", "hello"}
    BY <1>10 DEF EndChants, Posts, Newcomers, Silent
  <2>2. accept' = Listening
          \/ (accept'.who = accept.who /\ (accept'.at \in {"hello", "auth", "ack", "insert"} =>
          accept.at \in {"hello", "auth", "ack", "insert"}))
    BY <1>10 DEF EndChants, AcceptTo, Reject, Types
  <2>3. UNCHANGED <<agent, backlog, roster>>
    BY <1>10 DEF EndChants
  <2>4. \A b \in Agents : b \notin roster => sent'[b] = sent[b]
    BY <1>10 DEF EndChants, DeliverEval, Reachable, Posts
  <2>5. \A b \in Agents : b # accept.who => from'[b] = from[b]
    BY <1>10, <1>b DEF EndChants
  <2>6. QED
    BY <2>1, <2>2, <2>3, <2>4, <2>5, HandshakeGoesOn, ListeningFields
<1>11. ASSUME NEW a \in Agents, Connect(a)
      PROVE  Newcomers'
  BY <1>11, NewcomerConnects
<1>12. ASSUME NEW a \in Agents, SendHello(a)
      PROVE  Newcomers'
  <2>1. agent[a] # "off" /\ agent'[a] \notin {"off", "hello"}
    BY <1>12, <1>d DEF SendHello, AgentTo, NextIs
  <2>2. \A b \in Agents : b # a => agent'[b] = agent[b] /\ from'[b] = from[b]
    BY <1>12, <1>b, <1>d DEF SendHello, AgentTo, Answer
  <2>3. UNCHANGED <<backlog, accept, roster, sent>>
    BY <1>12 DEF SendHello
  <2>4. QED
    BY <2>1, <2>2, <2>3, AgentGoesOn
<1>13. ASSUME NEW a \in Agents, SendAuth(a)
      PROVE  Newcomers'
  <2>1. agent[a] # "off" /\ agent'[a] \notin {"off", "hello"}
    BY <1>13, <1>d DEF SendAuth, AgentTo, NextIs
  <2>2. \A b \in Agents : b # a => agent'[b] = agent[b] /\ from'[b] = from[b]
    BY <1>13, <1>b, <1>d DEF SendAuth, AgentTo, Answer
  <2>3. UNCHANGED <<backlog, accept, roster, sent>>
    BY <1>13 DEF SendAuth
  <2>4. QED
    BY <2>1, <2>2, <2>3, AgentGoesOn
<1>14. ASSUME NEW a \in Agents, ReadAck(a)
      PROVE  Newcomers'
  <2>1. agent[a] # "off" /\ agent'[a] \notin {"off", "hello"}
    BY <1>14, <1>d DEF ReadAck, AgentTo, NextIs
  <2>2. \A b \in Agents : b # a => agent'[b] = agent[b] /\ from'[b] = from[b]
    BY <1>14, <1>b, <1>d DEF ReadAck, AgentTo, Answer
  <2>3. UNCHANGED <<backlog, accept, roster, sent>>
    BY <1>14 DEF ReadAck
  <2>4. QED
    BY <2>1, <2>2, <2>3, AgentGoesOn
<1>15. ASSUME NEW a \in Agents, HandleEval(a)
      PROVE  Newcomers'
  <2>1. agent[a] # "off" /\ agent'[a] \notin {"off", "hello"}
    BY <1>15, <1>d DEF HandleEval, AgentTo, NextIs
  <2>2. \A b \in Agents : b # a => agent'[b] = agent[b] /\ from'[b] = from[b]
    BY <1>15, <1>b, <1>d DEF HandleEval, AgentTo, Answer
  <2>3. UNCHANGED <<backlog, accept, roster, sent>>
    BY <1>15 DEF HandleEval
  <2>4. QED
    BY <2>1, <2>2, <2>3, AgentGoesOn
<1>16. ASSUME NEW a \in Agents, HandleFire(a)
      PROVE  Newcomers'
  <2>1. agent[a] # "off" /\ agent'[a] \notin {"off", "hello"}
    BY <1>16, <1>d DEF HandleFire, AgentTo, NextIs
  <2>2. \A b \in Agents : b # a => agent'[b] = agent[b] /\ from'[b] = from[b]
    BY <1>16, <1>b, <1>d DEF HandleFire, AgentTo, Answer
  <2>3. UNCHANGED <<backlog, accept, roster, sent>>
    BY <1>16 DEF HandleFire
  <2>4. QED
    BY <2>1, <2>2, <2>3, AgentGoesOn
<1>17. ASSUME NEW a \in Agents, WorkloadEnds(a)
      PROVE  Newcomers'
  <2>1. agent[a] # "off" /\ agent'[a] \notin {"off", "hello"}
    BY <1>17, <1>d DEF WorkloadEnds, AgentTo, NextIs
  <2>2. \A b \in Agents : b # a => agent'[b] = agent[b] /\ from'[b] = from[b]
    BY <1>17, <1>b, <1>d DEF WorkloadEnds, AgentTo, Answer
  <2>3. UNCHANGED <<backlog, accept, roster, sent>>
    BY <1>17 DEF WorkloadEnds
  <2>4. QED
    BY <2>1, <2>2, <2>3, AgentGoesOn
<1>18. ASSUME NEW a \in Agents, HandleTerminate(a)
      PROVE  Newcomers'
  <2>1. agent[a] # "off" /\ agent'[a] \notin {"off", "hello"}
    BY <1>18, <1>d DEF HandleTerminate, AgentTo, NextIs
  <2>2. \A b \in Agents : b # a => agent'[b] = agent[b] /\ from'[b] = from[b]
    BY <1>18, <1>b, <1>d DEF HandleTerminate, AgentTo, Answer
  <2>3. UNCHANGED <<backlog, accept, roster, sent>>
    BY <1>18 DEF HandleTerminate
  <2>4. QED
    BY <2>1, <2>2, <2>3, AgentGoesOn
<1>19. ASSUME NEW a \in Agents, HandleShutdown(a)
      PROVE  Newcomers'
  <2>1. agent[a] # "off" /\ agent'[a] \notin {"off", "hello"}
    BY <1>19, <1>d DEF HandleShutdown, AgentTo, NextIs
  <2>2. \A b \in Agents : b # a => agent'[b] = agent[b] /\ from'[b] = from[b]
    BY <1>19, <1>b, <1>d DEF HandleShutdown, AgentTo, Answer
  <2>3. UNCHANGED <<backlog, accept, roster, sent>>
    BY <1>19 DEF HandleShutdown
  <2>4. QED
    BY <2>1, <2>2, <2>3, AgentGoesOn
<1>20. ASSUME NEW a \in Agents, HandleTorn(a)
      PROVE  Newcomers'
  <2>1. agent[a] # "off" /\ agent'[a] \notin {"off", "hello"}
    BY <1>20, <1>d DEF HandleTorn, AgentTo, NextIs
  <2>2. \A b \in Agents : b # a => agent'[b] = agent[b] /\ from'[b] = from[b]
    BY <1>20, <1>b, <1>d DEF HandleTorn, AgentTo, Answer
  <2>3. UNCHANGED <<backlog, accept, roster, sent>>
    BY <1>20 DEF HandleTorn
  <2>4. QED
    BY <2>1, <2>2, <2>3, AgentGoesOn
<1>21. ASSUME NEW a \in Agents, Disconnected(a)
      PROVE  Newcomers'
  <2>1. agent[a] # "off" /\ agent'[a] \notin {"off", "hello"}
    BY <1>21, <1>d DEF Disconnected, AgentTo, NextIs
  <2>2. \A b \in Agents : b # a => agent'[b] = agent[b] /\ from'[b] = from[b]
    BY <1>21, <1>b, <1>d DEF Disconnected, AgentTo, Answer
  <2>3. UNCHANGED <<backlog, accept, roster, sent>>
    BY <1>21 DEF Disconnected
  <2>4. QED
    BY <2>1, <2>2, <2>3, AgentGoesOn
<1>22. ASSUME NEW a \in Agents, Dies(a)
      PROVE  Newcomers'
  <2>1. agent[a] # "off" /\ agent'[a] \notin {"off", "hello"}
    BY <1>22, <1>d DEF Dies, AgentTo, NextIs
  <2>2. \A b \in Agents : b # a => agent'[b] = agent[b] /\ from'[b] = from[b]
    BY <1>22, <1>b, <1>d DEF Dies, AgentTo, Answer
  <2>3. UNCHANGED <<backlog, accept, roster, sent>>
    BY <1>22 DEF Dies
  <2>4. QED
    BY <2>1, <2>2, <2>3, AgentGoesOn
<1>23. ASSUME NEW ids \in SUBSET roster, Pray(ids)
      PROVE  Newcomers'
  BY <1>23, HandshakeGoesOn DEF Pray
<1>24. ASSUME NEW a \in Agents, BeginFrame(a)
      PROVE  Newcomers'
  BY <1>24, HandshakeGoesOn DEF BeginFrame
<1>25. ASSUME NEW a \in Agents, EndFrame(a)
      PROVE  Newcomers'
  <2>1. UNCHANGED <<agent, backlog, accept, roster, from>>
    BY <1>25 DEF EndFrame
  <2>2. \A b \in Agents : b \notin roster => sent'[b] = sent[b]
    BY <1>25, <1>c DEF EndFrame, DeliverEval, Reachable, Posts
  <2>3. QED
    BY <2>1, <2>2, HandshakeGoesOn
<1>26. CASE EndPray
  BY <1>26, HandshakeGoesOn DEF EndPray
<1>27. ASSUME NEW p \in pending, Annex(p)
      PROVE  Newcomers'
  BY <1>27, HandshakeGoesOn DEF Annex
<1>28. CASE Eval
  <2>1. UNCHANGED <<agent, backlog, accept, roster, from>>
    BY <1>28 DEF Eval
  <2>2. \A b \in Agents : b \notin roster => sent'[b] = sent[b]
    BY <1>28, <1>c DEF Eval, DeliverEval, Reachable, Posts
  <2>3. QED
    BY <2>1, <2>2, HandshakeGoesOn
<1>29. ASSUME NEW a \in Agents, GatherRead(a)
      PROVE  Newcomers'
  <2>1. UNCHANGED <<agent, backlog, accept, roster, sent>>
    BY <1>29 DEF GatherRead
  <2>2. \A b \in Agents : b \notin roster => from'[b] = from[b]
    BY <1>29, <1>b DEF GatherRead, Posts
  <2>3. QED
    BY <2>1, <2>2, HandshakeGoesOn
<1>30. ASSUME NEW a \in Agents, GatherFails(a)
      PROVE  Newcomers'
  BY <1>30, HandshakeGoesOn DEF GatherFails
<1>31. ASSUME NEW a \in Agents, GatherCut(a)
      PROVE  Newcomers'
  <2>1. UNCHANGED <<agent, backlog, accept, roster, sent>>
    BY <1>31 DEF GatherCut
  <2>2. \A b \in Agents : b \notin roster => from'[b] = from[b]
    BY <1>31, <1>b DEF GatherCut, Posts
  <2>3. QED
    BY <2>1, <2>2, HandshakeGoesOn
<1>32. ASSUME NEW a \in Agents, Misread(a)
      PROVE  Newcomers'
  <2>1. UNCHANGED <<agent, backlog, accept, roster, sent>>
    BY <1>32 DEF Misread
  <2>2. \A b \in Agents : b \notin roster => from'[b] = from[b]
    BY <1>32, <1>b DEF Misread, Posts
  <2>3. QED
    BY <2>1, <2>2, HandshakeGoesOn
<1>33. ASSUME NEW a \in Agents, GatherDies(a)
      PROVE  Newcomers'
  <2>1. accept'.who = None
    BY <1>33 DEF GatherDies, Listening
  <2>2. UNCHANGED <<agent, backlog, roster, sent, from>>
    BY <1>33 DEF GatherDies
  <2>3. QED
    BY <2>1, <2>2, HandshakeGoesOn
<1>34. CASE EndGather
  BY <1>34, HandshakeGoesOn DEF EndGather
<1>35. ASSUME NEW p \in pending, Forget(p)
      PROVE  Newcomers'
  BY <1>35, HandshakeGoesOn DEF Forget
<1>36. ASSUME NEW c \in Chants, Chant(c)
      PROVE  Newcomers'
  <2>1. UNCHANGED <<agent, backlog, accept, roster, from>>
    BY <1>36 DEF Chant
  <2>2. \A b \in Agents : b \notin roster => sent'[b] = sent[b]
    BY <1>36, <1>c DEF Chant, DeliverEval, Reachable, Posts
  <2>3. QED
    BY <2>1, <2>2, HandshakeGoesOn
<1>37. CASE RecordChant
  BY <1>37, HandshakeGoesOn DEF RecordChant
<1>38. ASSUME NEW c \in Chants, Amen(c)
      PROVE  Newcomers'
  BY <1>38, HandshakeGoesOn DEF Amen
<1>39. ASSUME NEW ids \in SUBSET roster, Excommunicate(ids)
      PROVE  Newcomers'
  BY <1>39, HandshakeGoesOn DEF Excommunicate
<1>40. ASSUME NEW kind \in {"FIRE", "TERMINATE"}, Stress(kind)
      PROVE  Newcomers'
  BY <1>40, HandshakeGoesOn DEF Stress
<1>41. CASE Quit
  <2>1. UNCHANGED <<agent, backlog, accept, sent, from>> /\ roster' = {}
    BY <1>41 DEF Quit
  <2>2. QED
    BY <2>1, HandshakeGoesOn
<1>42. CASE Wake
  BY <1>42, WokenUp
<1>43. CASE Join
  BY <1>43, HandshakeGoesOn DEF Join
<1>44. CASE UNCHANGED vars
  BY <1>44, HandshakeGoesOn DEF vars
<1>45. QED
  BY <1>1, <1>2, <1>3, <1>4, <1>5, <1>6, <1>7, <1>8, <1>9, <1>10, <1>11, <1>12,
     <1>13, <1>14, <1>15, <1>16, <1>17, <1>18, <1>19, <1>20, <1>21, <1>22, <1>23,
     <1>24, <1>25, <1>26, <1>27, <1>28, <1>29, <1>30, <1>31, <1>32, <1>33, <1>34,
     <1>35, <1>36, <1>37, <1>38, <1>39, <1>40, <1>41, <1>42, <1>43, <1>44
  DEF Next, AcceptStep, AgentStep, Command, CommandStep, Finished

-----------------------------------------------------------------------------
(* An agent that can still answer and was sent only whole frames.           *)
Sound(a) ==
  /\ open[a] /\ agent[a] \notin {"gone", "stuck"}
  /\ \A i \in DOMAIN to[a] : to[a][i].kind # "torn"

(* No frame has the number of an EVAL that was not written, and only a read *)
(* that was given up leaves the rest of a frame.                            *)
Numbered ==
  \A a \in Agents : /\ Read(a) \union Ahead(a) \subseteq Written(a)
                    /\ \A i \in DOMAIN from[a] : from[a][i].kind = "rest" => a \in cut

Turns == \A a \in Agents : Sound(a) => InTurn(a)

(* What a step does with the frames of one agent.                           *)
Unrecorded(a) == sent'[a] = sent[a] /\ Read(a)' = Read(a) /\ (a \in cut' <=> a \in cut)

Says(a) ==
  \/ from'[a] = from[a]
  \/ \E x \in Frames : x.kind \notin {"EVAL_RESULT", "rest"} /\ from'[a] = Append(from[a], x)

FrameWritten(a) ==
  /\ from'[a] = from[a] /\ Unrecorded(a)
  /\ to'[a] = to[a] \/ \E x \in Frames : x.kind # "EVAL" /\ to'[a] = Append(to[a], x)

EvalWritten(a) ==
  /\ from'[a] = from[a] /\ Read(a)' = Read(a) /\ (a \in cut' <=> a \in cut)
  /\ to'[a] = Append(to[a], Frame("EVAL", Len(sent[a]) + 1))
  /\ \E x \in Petitions \union Chants : sent'[a] = Append(sent[a], x)

FrameHandled(a) ==
  /\ Says(a) /\ Unrecorded(a)
  /\ \/ to'[a] = to[a]
     \/ to[a] # <<>> /\ to'[a] = Tail(to[a]) /\ (Head(to[a]).kind = "EVAL" => ~Sound(a)')

EvalRun(a) ==
  /\ to[a] # <<>> /\ to'[a] = Tail(to[a]) /\ Head(to[a]).kind = "EVAL" /\ Unrecorded(a)
  /\ from'[a] = Append(from[a], Frame("EVAL_RESULT", Head(to[a]).id))

FrameSkipped(a) ==
  /\ from[a] # <<>> /\ from'[a] = Tail(from[a]) /\ Head(from[a]).kind # "EVAL_RESULT"
  /\ to'[a] = to[a] /\ Unrecorded(a)

ResultRead(a) ==
  /\ from[a] # <<>> /\ from'[a] = Tail(from[a]) /\ Head(from[a]).kind = "EVAL_RESULT"
  /\ Read(a)' = Read(a) \union {Head(from[a]).id}
  /\ to'[a] = to[a] /\ sent'[a] = sent[a] /\ (a \in cut' <=> a \in cut)

ReadGivenUp(a) ==
  /\ a \in cut' /\ to'[a] = to[a] /\ sent'[a] = sent[a] /\ Read(a)' = Read(a)
  /\ \E k \in 1..Len(from[a]), s \in Seq(Frames) :
       /\ Len(s) = Len(from[a]) - k /\ \A i \in 1..Len(s) : s[i] = from[a][i + k]
       /\ from'[a] \in {s, <<Frame("rest", 0)>> \o s}

Move(a) ==
  \/ FrameWritten(a) \/ EvalWritten(a) \/ FrameHandled(a) \/ EvalRun(a)
  \/ FrameSkipped(a) \/ ResultRead(a) \/ ReadGivenUp(a)

LEMMA NoneMoved ==
  ASSUME NEW a, from'[a] = from[a], to'[a] = to[a], sent'[a] = sent[a], got' = got, cut' = cut
  PROVE  Move(a)
BY DEF Move, FrameWritten, Unrecorded, Read

LEMMA IdsWithin ==
  ASSUME NEW s, NEW r, NEW kind,
         \A i \in DOMAIN r : r[i].kind = kind => \E j \in DOMAIN s : r[i] = s[j]
  PROVE  Ids(r, kind) \subseteq Ids(s, kind)
BY DEF Ids

LEMMA IdsLost ==
  ASSUME NEW s \in Seq(Frames), NEW k \in 1..Len(s), NEW t \in Seq(Frames),
         Len(t) = Len(s) - k, \A i \in 1..Len(t) : t[i] = s[i + k],
         NEW r \in {t, <<Frame("rest", 0)>> \o t}
  PROVE  Ids(r, "EVAL_RESULT") \subseteq Ids(s, "EVAL_RESULT")
<1>1. \A i \in DOMAIN t : i + k \in DOMAIN s /\ t[i] = s[i + k]
  <2>1. /\ Len(s) \in Nat /\ Len(t) \in Nat /\ DOMAIN t = 1..Len(t) /\ DOMAIN s = 1..Len(s)
        /\ k \in Nat
    BY LenProperties
  <2>2. ASSUME NEW i \in 1..Len(t)
        PROVE  i + k \in 1..Len(s)
    BY <2>1, <2>2
  <2>3. QED
    BY <2>1, <2>2
<1>2. CASE r = t
  BY <1>1, <1>2, IdsWithin
<1>3. CASE r = <<Frame("rest", 0)>> \o t
  <2>1. Frame("rest", 0) \in Frames /\ Frame("rest", 0).kind # "EVAL_RESULT"
    BY Wire DEF FrameKinds
  <2> DEFINE g == Frame("rest", 0)
  <2>2. g \in Frames /\ g.kind # "EVAL_RESULT" /\ r = <<g>> \o t
    BY <1>3, <2>1
  <2> HIDE DEF g
  <2>3. /\ r \in Seq(Frames) /\ Len(r) = 1 + Len(t) /\ Len(t) \in Nat /\ r[1] = g
        /\ \A i \in 1..(1 + Len(t)) : i # 1 => i - 1 \in 1..Len(t) /\ r[i] = t[i - 1]
    <3>1. g \in Frames /\ t \in Seq(Frames)
      BY <2>2
    <3>2. /\ <<g>> \o t \in Seq(Frames) /\ Len(<<g>> \o t) = 1 + Len(t) /\ Len(t) \in Nat
          /\ (<<g>> \o t)[1] = g
          /\ \A i \in 1..(1 + Len(t)) : i # 1 => i - 1 \in 1..Len(t) /\ (<<g>> \o t)[i] = t[i - 1]
      BY <3>1, Prefixed
    <3>3. QED
      BY <2>2, <3>2
  <2>4. ASSUME NEW i \in DOMAIN r, r[i].kind = "EVAL_RESULT"
        PROVE  \E j \in DOMAIN s : r[i] = s[j]
    <3>1. i \in 1..(1 + Len(t)) /\ DOMAIN t = 1..Len(t)
      BY <2>3, LenProperties
    <3>2. i # 1
      BY <2>2, <2>3, <2>4
    <3>3. i - 1 \in DOMAIN t /\ r[i] = t[i - 1]
      BY <2>3, <3>1, <3>2
    <3>4. QED
      BY <1>1, <3>3
  <2>5. QED
    BY <2>4, IdsWithin
<1>4. QED
  BY <1>2, <1>3

(* The rest of a frame is left only by a read that was given up.            *)
RestsGivenUp(a) == \A i \in DOMAIN from[a] : from[a][i].kind = "rest" => a \in cut

LEMMA IdsOfTail ==
  ASSUME NEW s \in Seq(Frames), s # <<>>, NEW kind
  PROVE  /\ Ids(Tail(s), kind) \subseteq Ids(s, kind)
         /\ Head(s).kind = kind => Head(s).id \in Ids(s, kind)
         /\ \A i \in DOMAIN Tail(s) : \E j \in DOMAIN s : Tail(s)[i] = s[j]
<1>1. /\ 1 \in DOMAIN s /\ Head(s) = s[1]
      /\ \A i \in DOMAIN Tail(s) : i + 1 \in DOMAIN s /\ Tail(s)[i] = s[i + 1]
  BY Taken
<1>2. \A i \in DOMAIN Tail(s) : \E j \in DOMAIN s : Tail(s)[i] = s[j]
  BY <1>1
<1>3. Ids(Tail(s), kind) \subseteq Ids(s, kind)
  BY <1>2, IdsWithin
<1>4. Head(s).kind = kind => Head(s).id \in Ids(s, kind)
  BY <1>1 DEF Ids
<1>5. QED
  BY <1>2, <1>3, <1>4

LEMMA IdsOfAppend ==
  ASSUME NEW s \in Seq(Frames), NEW x \in Frames, NEW kind
  PROVE  /\ x.kind # kind => Ids(Append(s, x), kind) = Ids(s, kind)
         /\ Ids(Append(s, x), kind) \subseteq Ids(s, kind) \union {x.id}
         /\ \A i \in DOMAIN Append(s, x) : Append(s, x)[i] = x
              \/ \E j \in DOMAIN s : Append(s, x)[i] = s[j]
<1>1. Ids(Append(s, x), kind) = Ids(s, kind) \union (IF x.kind = kind THEN {x.id} ELSE {})
  BY IdsAppended
<1>2. \A i \in DOMAIN Append(s, x) : Append(s, x)[i] = x
        \/ \E j \in DOMAIN s : Append(s, x)[i] = s[j]
  BY Appended
<1>3. QED
  BY <1>1, <1>2

LEMMA MoveNumbered ==
  ASSUME Types, NEW a \in Agents, Move(a),
         Read(a) \union Ahead(a) \subseteq Written(a), RestsGivenUp(a)
  PROVE  (Read(a) \union Ahead(a) \subseteq Written(a))' /\ RestsGivenUp(a)'
<1>0. from[a] \in Seq(Frames) /\ to[a] \in Seq(Frames) /\ sent[a] \in Seq(Petitions \union Chants)
      /\ Len(sent[a]) \in Nat
  BY LenProperties DEF Types
<1>1. /\ Ids(from[a], "EVAL_RESULT") \subseteq 1..Len(sent[a])
      /\ Ids(to[a], "EVAL") \subseteq 1..Len(sent[a]) /\ Read(a) \subseteq 1..Len(sent[a])
  BY DEF Ahead, Results, Evals, Written
<1>2. SUFFICES /\ Ids(from'[a], "EVAL_RESULT") \subseteq 1..Len(sent'[a])
               /\ Ids(to'[a], "EVAL") \subseteq 1..Len(sent'[a])
                    /\ Read(a)' \subseteq 1..Len(sent'[a])
               /\ RestsGivenUp(a)'
  BY DEF Ahead, Results, Evals, Written
<1>3. CASE FrameWritten(a)
  <2>1. Ids(to'[a], "EVAL") = Ids(to[a], "EVAL")
    <3>1. CASE to'[a] = to[a]
      BY <3>1
    <3>2. ASSUME NEW x \in Frames, x.kind # "EVAL", to'[a] = Append(to[a], x)
          PROVE  Ids(to'[a], "EVAL") = Ids(to[a], "EVAL")
      BY <1>0, <3>2, IdsOfAppend
    <3>3. QED
      BY <1>3, <3>1, <3>2 DEF FrameWritten
  <2>2. QED
    BY <1>1, <1>3, <2>1 DEF FrameWritten, Unrecorded, RestsGivenUp
<1>4. CASE EvalWritten(a)
  <2>1. Len(sent'[a]) = Len(sent[a]) + 1
    BY <1>0, <1>4, Appended DEF EvalWritten
  <2>2. 1..Len(sent[a]) \subseteq 1..Len(sent'[a]) /\ Len(sent[a]) + 1 \in 1..Len(sent'[a])
    BY <1>0, <2>1
  <2>3. Frame("EVAL", Len(sent[a]) + 1) \in Frames
          /\ Frame("EVAL", Len(sent[a]) + 1).id = Len(sent[a]) + 1
    <3>1. Len(sent[a]) + 1 \in Nat
      BY <1>0
    <3>2. QED
      BY <3>1, Wire DEF FrameKinds
  <2>4. Ids(to'[a], "EVAL") \subseteq Ids(to[a], "EVAL") \union {Len(sent[a]) + 1}
    BY <1>0, <1>4, <2>3, IdsOfAppend DEF EvalWritten
  <2>5. QED
    BY <1>1, <1>4, <2>2, <2>4 DEF EvalWritten, RestsGivenUp
<1>5. CASE FrameHandled(a)
  <2>1. Ids(to'[a], "EVAL") \subseteq Ids(to[a], "EVAL")
    BY <1>0, <1>5, IdsOfTail DEF FrameHandled
  <2>2. Ids(from'[a], "EVAL_RESULT") = Ids(from[a], "EVAL_RESULT")
    <3>1. CASE from'[a] = from[a]
      BY <3>1
    <3>2. ASSUME NEW x \in Frames, x.kind \notin {"EVAL_RESULT", "rest"},
                   from'[a] = Append(from[a], x)
          PROVE  Ids(from'[a], "EVAL_RESULT") = Ids(from[a], "EVAL_RESULT")
      BY <1>0, <3>2, IdsOfAppend
    <3>3. QED
      BY <1>5, <3>1, <3>2 DEF FrameHandled, Says
  <2>3. RestsGivenUp(a)'
    <3>1. CASE from'[a] = from[a]
      BY <1>5, <3>1 DEF FrameHandled, Unrecorded, RestsGivenUp
    <3>2. ASSUME NEW x \in Frames, x.kind \notin {"EVAL_RESULT", "rest"},
                   from'[a] = Append(from[a], x)
          PROVE  RestsGivenUp(a)'
      <4>1. \A i \in DOMAIN from'[a] : from'[a][i] = x
              \/ \E j \in DOMAIN from[a] : from'[a][i] = from[a][j]
        BY <1>0, <3>2, IdsOfAppend
      <4>2. QED
        BY <1>5, <3>2, <4>1 DEF FrameHandled, Unrecorded, RestsGivenUp
    <3>3. QED
      BY <1>5, <3>1, <3>2 DEF FrameHandled, Says
  <2>4. QED
    BY <1>1, <1>5, <2>1, <2>2, <2>3 DEF FrameHandled, Unrecorded
<1>6. CASE EvalRun(a)
  <2>1. Ids(to'[a], "EVAL") \subseteq Ids(to[a], "EVAL") /\ Head(to[a]).id \in Ids(to[a], "EVAL")
    BY <1>0, <1>6, IdsOfTail DEF EvalRun
  <2> DEFINE x == Frame("EVAL_RESULT", Head(to[a]).id)
  <2>2. x \in Frames /\ x.id = Head(to[a]).id /\ x.kind = "EVAL_RESULT"
    <3>1. Head(to[a]).id \in Nat
      BY <1>0, <1>1, <2>1
    <3>2. QED
      BY <3>1, Wire DEF FrameKinds
  <2> HIDE DEF x
  <2>3. from'[a] = Append(from[a], x)
    BY <1>6 DEF EvalRun, x
  <2>4. Ids(from'[a], "EVAL_RESULT") \subseteq Ids(from[a], "EVAL_RESULT") \union {x.id}
        /\ \A i \in DOMAIN from'[a] : from'[a][i] = x
             \/ \E j \in DOMAIN from[a] : from'[a][i] = from[a][j]
    BY <1>0, <2>2, <2>3, IdsOfAppend
  <2>5. QED
    BY <1>1, <1>6, <2>1, <2>2, <2>4 DEF EvalRun, Unrecorded, RestsGivenUp
<1>7. CASE FrameSkipped(a)
  BY <1>0, <1>1, <1>7, IdsOfTail DEF FrameSkipped, Unrecorded, RestsGivenUp
<1>8. CASE ResultRead(a)
  BY <1>0, <1>1, <1>8, IdsOfTail DEF ResultRead, RestsGivenUp
<1>9. CASE ReadGivenUp(a)
  BY <1>0, <1>1, <1>9, IdsLost DEF ReadGivenUp, RestsGivenUp
<1>10. QED
  BY <1>3, <1>4, <1>5, <1>6, <1>7, <1>8, <1>9 DEF Move


LEMMA TurnOfAgent ==
  ASSUME NEW a
  PROVE  InTurn(a) <=> FramesInTurn(from[a], to[a], Read(a), Len(sent[a]), a \in cut)
BY DEF InTurn, FramesInTurn, NumbersInTurn, Results, Evals, Ahead, Written

(* A step that leaves an agent sound leaves its results in turn.            *)
LEMMA MoveInTurn ==
  ASSUME Types, NEW a \in Agents, Move(a), Sound(a)', InTurn(a)
  PROVE  InTurn(a)'
<1>0. from[a] \in Seq(Frames) /\ to[a] \in Seq(Frames) /\ sent[a] \in Seq(Petitions \union Chants)
      /\ Len(sent[a]) \in Nat
  BY LenProperties DEF Types
<1>1. FramesInTurn(from[a], to[a], Read(a), Len(sent[a]), a \in cut)
  BY TurnOfAgent
<1>2. SUFFICES FramesInTurn(from'[a], to'[a], Read(a)', Len(sent'[a]), a \in cut')
  BY DEF InTurn, FramesInTurn, NumbersInTurn, Results, Evals, Ahead, Written
<1>3. CASE FrameWritten(a)
  <2>1. CASE to'[a] = to[a]
    BY <1>1, <1>3, <2>1 DEF FrameWritten, Unrecorded
  <2>2. ASSUME NEW x \in Frames, x.kind # "EVAL", to'[a] = Append(to[a], x)
        PROVE  FramesInTurn(from'[a], to'[a], Read(a)', Len(sent'[a]), a \in cut')
    <3>1. FramesInTurn(from[a], Append(to[a], x), Read(a), Len(sent[a]), a \in cut)
      BY <1>0, <1>1, <2>2, TurnWritten
    <3>2. QED
      BY <1>3, <2>2, <3>1 DEF FrameWritten, Unrecorded
  <2>3. QED
    BY <1>3, <2>1, <2>2 DEF FrameWritten
<1>4. CASE EvalWritten(a)
  <2>1. Len(sent'[a]) = Len(sent[a]) + 1
    BY <1>0, <1>4, Appended DEF EvalWritten
  <2>2. FramesInTurn(from[a], Append(to[a], Frame("EVAL", Len(sent[a]) + 1)), Read(a), Len(sent[a]) + 1, a \in cut)
    BY <1>0, <1>1, TurnEval
  <2>3. QED
    BY <1>4, <2>1, <2>2 DEF EvalWritten
<1>5. CASE FrameHandled(a)
  <2>1. FramesInTurn(from[a], to'[a], Read(a), Len(sent[a]), a \in cut) /\ to'[a] \in Seq(Frames)
    <3>1. CASE to'[a] = to[a]
      BY <1>0, <1>1, <3>1
    <3>2. CASE to[a] # <<>> /\ to'[a] = Tail(to[a]) /\ (Head(to[a]).kind = "EVAL" => ~Sound(a)')
      BY <1>0, <1>1, <3>2, TurnTaken, Taken
    <3>3. QED
      BY <1>5, <3>1, <3>2 DEF FrameHandled
  <2>2. FramesInTurn(from'[a], to'[a], Read(a), Len(sent[a]), a \in cut)
    <3>1. CASE from'[a] = from[a]
      BY <2>1, <3>1
    <3>2. ASSUME NEW x \in Frames, x.kind \notin {"EVAL_RESULT", "rest"},
                   from'[a] = Append(from[a], x)
          PROVE  FramesInTurn(from'[a], to'[a], Read(a), Len(sent[a]), a \in cut)
      BY <1>0, <2>1, <3>2, TurnWritten
    <3>3. QED
      BY <1>5, <3>1, <3>2 DEF FrameHandled, Says
  <2>3. QED
    BY <1>5, <2>2 DEF FrameHandled, Unrecorded
<1>6. CASE EvalRun(a)
  <2>1. FramesInTurn(from'[a], to'[a], Read(a), Len(sent[a]), a \in cut)
    BY <1>0, <1>1, <1>6, TurnRun DEF EvalRun
  <2>2. QED
    BY <1>6, <2>1 DEF EvalRun, Unrecorded
<1>7. CASE FrameSkipped(a)
  <2>1. FramesInTurn(from'[a], to[a], Read(a), Len(sent[a]), a \in cut)
    BY <1>0, <1>1, <1>7, TurnTaken DEF FrameSkipped
  <2>2. QED
    BY <1>7, <2>1 DEF FrameSkipped, Unrecorded
<1>8. CASE ResultRead(a)
  <2>1. FramesInTurn(from'[a], to[a], Read(a) \union {Head(from[a]).id}, Len(sent[a]), a \in cut)
    BY <1>0, <1>1, <1>8, TurnRead DEF ResultRead
  <2>2. QED
    BY <1>8, <2>1 DEF ResultRead
<1>9. CASE ReadGivenUp(a)
  <2>1. PICK k \in 1..Len(from[a]), s \in Seq(Frames) :
          /\ Len(s) = Len(from[a]) - k /\ \A i \in 1..Len(s) : s[i] = from[a][i + k]
          /\ from'[a] \in {s, <<Frame("rest", 0)>> \o s}
    BY <1>9 DEF ReadGivenUp
  <2>2. FramesInTurn(from'[a], to[a], Read(a), Len(sent[a]), TRUE)
    <3> DEFINE f == from[a]  t == to[a]  R == Read(a)  n == Len(sent[a])  r == from'[a]
    <3>1. /\ f \in Seq(Frames) /\ t \in Seq(Frames) /\ n \in Nat /\ k \in 1..Len(f)
          /\ FramesInTurn(f, t, R, n, a \in cut) /\ r \in {s, <<Frame("rest", 0)>> \o s}
      BY <1>0, <1>1, <2>1
    <3>2. Len(s) = Len(f) - k /\ \A i \in 1..Len(s) : s[i] = f[i + k]
      BY <2>1
    <3>3. FramesInTurn(r, t, R, n, TRUE)
      <4> HIDE DEF f, t, R, n, r
      <4>1. QED
        BY <3>1, <3>2, TurnLost
    <3>4. QED
      BY <3>3
  <2>3. QED
    BY <1>9, <2>2 DEF ReadGivenUp, FramesInTurn, NumbersInTurn
<1>10. QED
  BY <1>3, <1>4, <1>5, <1>6, <1>7, <1>8, <1>9 DEF Move

(* Where nothing was written nothing is out of turn.                        *)
LEMMA UnwrittenInTurn ==
  ASSUME NEW f, NEW t, NEW R, NEW lost,
         R \union (Ids(f, "EVAL_RESULT") \union Ids(t, "EVAL")) \subseteq 1..0
  PROVE  FramesInTurn(f, t, R, 0, lost)
<1>1. Ids(f, "EVAL_RESULT") = {} /\ Ids(t, "EVAL") = {} /\ R = {} /\ 1..0 = {}
  OBVIOUS
<1>2. Rising(f, "EVAL_RESULT") /\ Rising(t, "EVAL")
  BY <1>1 DEF Rising, Ids
<1>3. QED
  BY <1>1, <1>2 DEF FramesInTurn, NumbersInTurn, Below

-----------------------------------------------------------------------------
(* A step is one of the moves for each agent, and only a newcomer becomes   *)
(* sound.                                                                   *)
StepOf(a) == Move(a) /\ (Sound(a)' => Sound(a) \/ (Unmet(a) /\ sent'[a] = sent[a]))

Stays(a) == agent'[a] = agent[a] /\ (open'[a] => open[a])

LEMMA SoundBefore ==
  ASSUME Types, NEW a \in Agents, Sound(a)', open'[a] => open[a], agent[a] \notin {"gone", "stuck"},
         \/ to'[a] = to[a]
         \/ \E x \in Frames : to'[a] = Append(to[a], x)
         \/ to[a] # <<>> /\ to'[a] = Tail(to[a]) /\ Head(to[a]).kind # "torn"
  PROVE  Sound(a)
<1>0. to[a] \in Seq(Frames)
  BY DEF Types
<1>1. CASE to'[a] = to[a]
  BY <1>1 DEF Sound
<1>2. ASSUME NEW x \in Frames, to'[a] = Append(to[a], x)
      PROVE  Sound(a)
  <2>1. \A i \in DOMAIN to[a] : i \in DOMAIN to'[a] /\ to'[a][i] = to[a][i]
    BY <1>0, <1>2, Appended
  <2>2. QED
    BY <2>1 DEF Sound
<1>3. CASE to[a] # <<>> /\ to'[a] = Tail(to[a]) /\ Head(to[a]).kind # "torn"
  <2>1. ASSUME NEW i \in DOMAIN to[a]
        PROVE  to[a][i].kind # "torn"
    <3>1. CASE i = 1
      BY <1>0, <1>3, <3>1, Taken
    <3>2. CASE i # 1
      <4>1. i - 1 \in DOMAIN to'[a] /\ (i - 1) + 1 = i
        BY <1>0, <1>3, <2>1, <3>2, Taken, LenProperties
      <4>2. to'[a][i - 1] = to[a][i]
        BY <1>0, <1>3, <4>1, Taken
      <4>3. QED
        BY <4>1, <4>2 DEF Sound
    <3>3. QED
      BY <3>1, <3>2
  <2>2. QED
    BY <2>1 DEF Sound
<1>4. QED
  BY <1>1, <1>2, <1>3

LEMMA StillStep ==
  ASSUME Types, NEW a \in Agents, from'[a] = from[a], to'[a] = to[a], sent'[a] = sent[a],
         got' = got, cut' = cut, Stays(a)
  PROVE  StepOf(a)
<1>1. Move(a)
  BY NoneMoved
<1>2. Sound(a)' => Sound(a)
  BY DEF Sound, Stays
<1>3. QED
  BY <1>1, <1>2 DEF StepOf

LEMMA WrittenStep ==
  ASSUME Types, NEW a \in Agents, from'[a] = from[a], sent'[a] = sent[a], got' = got, cut' = cut,
         Stays(a), NEW x \in Frames, x.kind # "EVAL", to'[a] = Append(to[a], x)
  PROVE  StepOf(a)
<1>1. Move(a)
  BY DEF Move, FrameWritten, Unrecorded, Read
<1>2. Sound(a)' => Sound(a)
  <2>1. Sound(a)' => agent[a] \notin {"gone", "stuck"}
    BY DEF Sound, Stays
  <2>2. QED
    BY <2>1, SoundBefore DEF Stays
<1>3. QED
  BY <1>1, <1>2 DEF StepOf

LEMMA EvalStep ==
  ASSUME Types, NEW a \in Agents, from'[a] = from[a], got' = got, cut' = cut, Stays(a),
         NEW x \in Petitions \union Chants, sent'[a] = Append(sent[a], x),
         to'[a] = Append(to[a], Frame("EVAL", Len(sent[a]) + 1))
  PROVE  StepOf(a)
<1>1. Move(a)
  BY DEF Move, EvalWritten, Read
<1>2. Frame("EVAL", Len(sent[a]) + 1) \in Frames
  <2>1. Len(sent[a]) + 1 \in Nat
    BY LenProperties DEF Types
  <2>2. QED
    BY <2>1, Wire DEF FrameKinds
<1>3. Sound(a)' => Sound(a)
  <2>1. Sound(a)' => agent[a] \notin {"gone", "stuck"}
    BY DEF Sound, Stays
  <2>2. QED
    BY <1>2, <2>1, SoundBefore DEF Stays
<1>4. QED
  BY <1>1, <1>3 DEF StepOf

(* An agent takes the frame at the head, and may answer it.                 *)
LEMMA HandledStep ==
  ASSUME Types, NEW a \in Agents, sent'[a] = sent[a], got' = got, cut' = cut, open'[a] = open[a],
         Says(a), agent[a] \notin {"gone", "stuck"},
         \/ to'[a] = to[a]
         \/ /\ to[a] # <<>> /\ to'[a] = Tail(to[a])
            /\ Head(to[a]).kind \in {"EVAL", "torn"} => agent'[a] \in {"gone", "stuck"}
  PROVE  StepOf(a)
<1>1. agent'[a] \in {"gone", "stuck"} => ~Sound(a)'
  BY DEF Sound
<1>2. Move(a)
  BY <1>1 DEF Move, FrameHandled, Unrecorded, Read
<1>3. Sound(a)' => Sound(a)
  BY <1>1, SoundBefore
<1>4. QED
  BY <1>2, <1>3 DEF StepOf

(* A frame of the handshake is read: the agent has no results on the way.   *)
LEMMA SkippedStep ==
  ASSUME Types, NEW a \in Agents, from[a] # <<>>, from'[a] = Tail(from[a]), to'[a] = to[a],
         Head(from[a]).kind # "EVAL_RESULT", sent'[a] = sent[a], got' = got, cut' = cut, Stays(a)
  PROVE  StepOf(a)
<1>1. Move(a)
  BY DEF Move, FrameSkipped, Unrecorded, Read
<1>2. Sound(a)' => Sound(a)
  BY DEF Sound, Stays
<1>3. QED
  BY <1>1, <1>2 DEF StepOf

LEMMA NewcomerHasNoResult ==
  ASSUME Types, Newcomers, Numbered, NEW a \in Agents, Unmet(a), from[a] # <<>>
  PROVE  Head(from[a]).kind # "EVAL_RESULT"
<1>1. Written(a) = {}
  BY LenProperties DEF Newcomers, Unwritten, Written
<1>2. Results(a) = {}
  BY <1>1 DEF Numbered, Ahead
<1>3. QED
  BY <1>2, IdsOfTail DEF Results, Types

LEMMA Rest ==
  ASSUME NEW f \in Seq(Frames), NEW n \in 1..Len(f)
  PROVE  LET s == SubSeq(f, n + 1, Len(f)) IN
           s \in Seq(Frames) /\ Len(s) = Len(f) - n /\ \A i \in 1..Len(s) : s[i] = f[i + n]
<1>1. Len(f) \in Nat /\ n \in Nat /\ n <= Len(f)
  BY LenProperties
<1> DEFINE s == SubSeq(f, n + 1, Len(f))
<1>2. \A i \in (n + 1)..Len(f) : f[i] \in Frames
  BY <1>1, ElementOfSeq
<1>3. /\ s \in Seq(Frames)
      /\ Len(s) = IF n + 1 <= Len(f) THEN Len(f) - (n + 1) + 1 ELSE 0
      /\ \A i \in 1..(Len(f) - (n + 1) + 1) : s[i] = f[(n + 1) + i - 1]
  BY <1>1, <1>2, SubSeqProperties
<1> HIDE DEF s
<1>4. Len(s) = Len(f) - n
  BY <1>1, <1>3
<1>5. ASSUME NEW i \in 1..Len(s)
      PROVE  s[i] = f[i + n]
  BY <1>1, <1>3, <1>4
<1>6. QED
  BY <1>3, <1>4, <1>5 DEF s

(* Every step of the controller and its agents.                             *)
LEMMA EveryStep ==
  ASSUME Types, Posts, Newcomers, Numbered, [Next]_vars, NEW a \in Agents
  PROVE  StepOf(a)
<1> USE DEF AcceptVars, AgentVars, OpVars, Past
<1>0. session.petitions \in Nat
  BY Bound
<1>d. /\ to \in [Agents -> Seq(Frames)] /\ from \in [Agents -> Seq(Frames)]
      /\ agent \in [Agents -> AgentStates] /\ open \in [Agents -> BOOLEAN]
  BY DEF Types
<1>1. CASE Accept
  BY <1>1, StillStep DEF Accept, Stays
<1>2. CASE ReadHello
  <2>1. accept.who \in Agents /\ Unmet(accept.who)
    BY <1>2 DEF ReadHello, Posts, Unmet
  <2>2. UNCHANGED <<agent, sent, got, cut>> /\ Stays(a)
    BY <1>2, <1>d DEF ReadHello, Stays, Reject
  <2>3. CASE from[accept.who] # <<>>
    <3>1. from' = [from EXCEPT ![accept.who] = Tail(from[accept.who])] /\ to' = to
      BY <1>2, <2>3 DEF ReadHello
    <3>2. CASE a = accept.who
      <4>1. Head(from[a]).kind # "EVAL_RESULT" /\ from'[a] = Tail(from[a])
        BY <1>d, <2>1, <2>3, <3>1, <3>2, NewcomerHasNoResult
      <4>2. QED
        BY <2>2, <2>3, <3>1, <3>2, <4>1, SkippedStep
    <3>3. CASE a # accept.who
      <4>1. from'[a] = from[a]
        BY <1>d, <3>1, <3>3
      <4>2. QED
        BY <2>2, <3>1, <4>1, StillStep
    <3>4. QED
      BY <3>2, <3>3
  <2>4. CASE from[accept.who] = <<>>
    <3>1. from' = from /\ to' = to
      BY <1>2, <2>4 DEF ReadHello
    <3>2. QED
      BY <2>2, <3>1, StillStep
  <2>5. QED
    BY <2>3, <2>4
<1>3. CASE ReadAuth
  <2>1. accept.who \in Agents /\ Unmet(accept.who)
    BY <1>3 DEF ReadAuth, Posts, Unmet
  <2>2. UNCHANGED <<agent, sent, got, cut>> /\ Stays(a)
    BY <1>3, <1>d DEF ReadAuth, Stays, Reject
  <2>3. CASE from[accept.who] # <<>>
    <3>1. from' = [from EXCEPT ![accept.who] = Tail(from[accept.who])] /\ to' = to
      BY <1>3, <2>3 DEF ReadAuth
    <3>2. CASE a = accept.who
      <4>1. Head(from[a]).kind # "EVAL_RESULT" /\ from'[a] = Tail(from[a])
        BY <1>d, <2>1, <2>3, <3>1, <3>2, NewcomerHasNoResult
      <4>2. QED
        BY <2>2, <2>3, <3>1, <3>2, <4>1, SkippedStep
    <3>3. CASE a # accept.who
      <4>1. from'[a] = from[a]
        BY <1>d, <3>1, <3>3
      <4>2. QED
        BY <2>2, <3>1, <4>1, StillStep
    <3>4. QED
      BY <3>2, <3>3
  <2>4. CASE from[accept.who] = <<>>
    <3>1. from' = from /\ Deliver({accept.who}, Frame("NAK", 0))
      BY <1>3, <2>4 DEF ReadAuth
    <3>2. Frame("NAK", 0) \in Frames /\ Frame("NAK", 0).kind # "EVAL"
      BY Wire DEF FrameKinds
    <3>3. to'[a] = to[a] \/ to'[a] = Append(to[a], Frame("NAK", 0))
      BY <3>1, <3>2, Delivered
    <3>4. QED
      BY <2>2, <3>1, <3>2, <3>3, StillStep, WrittenStep
  <2>5. QED
    BY <2>3, <2>4
<1>4. CASE WriteAck
  <2>1. Frame("ACK", 0) \in Frames /\ Frame("ACK", 0).kind # "EVAL"
    BY Wire DEF FrameKinds
  <2>2. to' = to \/ Deliver({accept.who}, Frame("ACK", 0))
    BY <1>4 DEF WriteAck
  <2>3. to'[a] = to[a] \/ to'[a] = Append(to[a], Frame("ACK", 0))
    BY <2>1, <2>2, Delivered
  <2>4. UNCHANGED <<from, sent, got, cut>> /\ Stays(a)
    BY <1>4, <1>d DEF WriteAck, Stays, Reject
  <2>5. QED
    BY <2>1, <2>3, <2>4, StillStep, WrittenStep
<1>5. CASE Insert
  BY <1>5, StillStep DEF Insert, Stays
<1>6. CASE Snapshot
  BY <1>6, StillStep DEF Snapshot, Stays
<1>7. CASE BeginChants
  BY <1>7, StillStep DEF BeginChants, Stays
<1>8. CASE WriteChant
  BY <1>8, StillStep DEF WriteChant, Stays
<1>9. CASE ChantWritten
  <2>1. Frame("torn", 0) \in Frames /\ Frame("torn", 0).kind # "EVAL"
    BY Wire DEF FrameKinds
  <2>2. UNCHANGED <<from, got, cut>> /\ Stays(a)
    BY <1>9 DEF ChantWritten, Stays
  <2>3. PICK c \in accept.codes :
          \/ Deliver({accept.who}, Frame("torn", 0)) /\ sent' = sent
          \/ DeliverEval({accept.who}, c)
    BY <1>9 DEF ChantWritten
  <2>4. c \in Petitions \union Chants
    BY <1>9, <2>3 DEF ChantWritten, Types
  <2>5. CASE Deliver({accept.who}, Frame("torn", 0)) /\ sent' = sent
    <3>1. to'[a] = to[a] \/ to'[a] = Append(to[a], Frame("torn", 0))
      BY <2>1, <2>5, Delivered
    <3>2. QED
      BY <2>1, <2>2, <2>5, <3>1, StillStep, WrittenStep
  <2>6. CASE DeliverEval({accept.who}, c)
    <3>1. \/ to'[a] = to[a] /\ sent'[a] = sent[a]
          \/ to'[a] = Append(to[a], Frame("EVAL", Len(sent[a]) + 1))
               /\ sent'[a] = Append(sent[a], c)
      BY <2>4, <2>6, EvalDelivered
    <3>2. QED
      BY <2>2, <2>4, <3>1, StillStep, EvalStep
  <2>7. QED
    BY <1>9, <2>3, <2>5, <2>6 DEF ChantWritten
<1>10. CASE EndChants
  BY <1>10, StillStep DEF EndChants, Stays
<1>11. ASSUME NEW b \in Agents, Connect(b)
      PROVE  StepOf(a)
  <2>1. UNCHANGED <<from, to, sent, got, cut>>
    BY <1>11 DEF Connect
  <2>2. CASE a = b
    BY <1>11, <2>1, <2>2, NoneMoved DEF Connect, StepOf, Unmet
  <2>3. CASE a # b
    BY <1>11, <2>1, <2>3, <1>d, StillStep DEF Connect, Stays, AgentTo
  <2>4. QED
    BY <2>2, <2>3
<1>12. ASSUME NEW b \in Agents, SendHello(b)
      PROVE  StepOf(a)
  <2>1. UNCHANGED <<sent, got, cut, open>>
    BY <1>12 DEF SendHello
  <2>2. CASE a # b
    <3>1. from'[a] = from[a] /\ to'[a] = to[a] /\ agent'[a] = agent[a]
      BY <1>12, <2>2, <1>d DEF SendHello, Answer, AgentTo
    <3>2. QED
      BY <2>1, <3>1, StillStep DEF Stays
  <2>3. CASE a = b
    <3>1. Frame("AGENT_HELLO", 0) \in Frames
            /\ Frame("AGENT_HELLO", 0).kind \notin {"EVAL_RESULT", "rest"}
      BY Wire DEF FrameKinds
    <3>2. from'[a] = from[a] \/ from'[a] = Append(from[a], Frame("AGENT_HELLO", 0))
      BY <1>12, <2>3, <1>d DEF SendHello, Answer
    <3>3. Says(a)
      BY <3>1, <3>2 DEF Says
    <3>4. \/ to'[a] = to[a]
          \/ /\ to[a] # <<>> /\ to'[a] = Tail(to[a])
             /\ Head(to[a]).kind \in {"EVAL", "torn"} => agent'[a] \in {"gone", "stuck"}
      BY <1>12, <2>3, <1>d DEF SendHello, NextIs, AgentTo
    <3>5. agent[a] \notin {"gone", "stuck"}
      BY <1>12, <2>3 DEF SendHello, NextIs
    <3>6. QED
      BY <2>1, <3>3, <3>4, <3>5, HandledStep
  <2>4. QED
    BY <2>2, <2>3
<1>13. ASSUME NEW b \in Agents, SendAuth(b)
      PROVE  StepOf(a)
  <2>1. UNCHANGED <<sent, got, cut, open>>
    BY <1>13 DEF SendAuth
  <2>2. CASE a # b
    <3>1. from'[a] = from[a] /\ to'[a] = to[a] /\ agent'[a] = agent[a]
      BY <1>13, <2>2, <1>d DEF SendAuth, Answer, AgentTo
    <3>2. QED
      BY <2>1, <3>1, StillStep DEF Stays
  <2>3. CASE a = b
    <3>1. Frame("AGENT_AUTH", 0) \in Frames
            /\ Frame("AGENT_AUTH", 0).kind \notin {"EVAL_RESULT", "rest"}
      BY Wire DEF FrameKinds
    <3>2. from'[a] = from[a] \/ from'[a] = Append(from[a], Frame("AGENT_AUTH", 0))
      BY <1>13, <2>3, <1>d DEF SendAuth, Answer
    <3>3. Says(a)
      BY <3>1, <3>2 DEF Says
    <3>4. \/ to'[a] = to[a]
          \/ /\ to[a] # <<>> /\ to'[a] = Tail(to[a])
             /\ Head(to[a]).kind \in {"EVAL", "torn"} => agent'[a] \in {"gone", "stuck"}
      BY <1>13, <2>3, <1>d DEF SendAuth, NextIs, AgentTo
    <3>5. agent[a] \notin {"gone", "stuck"}
      BY <1>13, <2>3 DEF SendAuth, NextIs
    <3>6. QED
      BY <2>1, <3>3, <3>4, <3>5, HandledStep
  <2>4. QED
    BY <2>2, <2>3
<1>14. ASSUME NEW b \in Agents, ReadAck(b)
      PROVE  StepOf(a)
  <2>1. UNCHANGED <<sent, got, cut, open>>
    BY <1>14 DEF ReadAck
  <2>2. CASE a # b
    <3>1. from'[a] = from[a] /\ to'[a] = to[a] /\ agent'[a] = agent[a]
      BY <1>14, <2>2, <1>d DEF ReadAck, Answer, AgentTo
    <3>2. QED
      BY <2>1, <3>1, StillStep DEF Stays
  <2>3. CASE a = b
    <3>3. Says(a)
      BY <1>14 DEF ReadAck, Says
    <3>4. \/ to'[a] = to[a]
          \/ /\ to[a] # <<>> /\ to'[a] = Tail(to[a])
             /\ Head(to[a]).kind \in {"EVAL", "torn"} => agent'[a] \in {"gone", "stuck"}
      BY <1>14, <2>3, <1>d DEF ReadAck, NextIs, AgentTo
    <3>5. agent[a] \notin {"gone", "stuck"}
      BY <1>14, <2>3 DEF ReadAck, NextIs
    <3>6. QED
      BY <2>1, <3>3, <3>4, <3>5, HandledStep
  <2>4. QED
    BY <2>2, <2>3
<1>15. ASSUME NEW b \in Agents, HandleEval(b)
      PROVE  StepOf(a)
  <2>1. UNCHANGED <<sent, got, cut, open, agent>>
    BY <1>15 DEF HandleEval
  <2>2. CASE a # b
    <3>1. from'[a] = from[a] /\ to'[a] = to[a]
      BY <1>15, <2>2, <1>d DEF HandleEval, Answer
    <3>2. QED
      BY <2>1, <3>1, StillStep DEF Stays
  <2>3. CASE a = b
    <3>1. to[a] # <<>> /\ Head(to[a]).kind = "EVAL" /\ to'[a] = Tail(to[a]) /\ agent[a] = "loop"
      BY <1>15, <2>3, <1>d DEF HandleEval, NextIs
    <3>2. Sound(a)' => Sound(a)
      BY <2>1, <3>1, SoundBefore
    <3>3. CASE open[a]
      <4>1. from'[a] = Append(from[a], Frame("EVAL_RESULT", Head(to[a]).id))
        BY <1>15, <2>3, <3>3, <1>d DEF HandleEval, Answer
      <4>2. QED
        BY <2>1, <3>1, <3>2, <4>1 DEF StepOf, Move, EvalRun, Unrecorded, Read
    <3>4. CASE ~open[a]
      <4>1. from'[a] = from[a] /\ ~Sound(a)'
        BY <1>15, <2>1, <2>3, <3>4, <1>d DEF HandleEval, Answer, Sound
      <4>2. QED
        BY <2>1, <3>1, <4>1 DEF StepOf, Move, FrameHandled, Says, Unrecorded, Read
    <3>5. QED
      BY <3>3, <3>4
  <2>4. QED
    BY <2>2, <2>3
<1>16. ASSUME NEW b \in Agents, HandleFire(b)
      PROVE  StepOf(a)
  <2>1. UNCHANGED <<sent, got, cut, open>>
    BY <1>16 DEF HandleFire
  <2>2. CASE a # b
    <3>1. from'[a] = from[a] /\ to'[a] = to[a] /\ agent'[a] = agent[a]
      BY <1>16, <2>2, <1>d DEF HandleFire, Answer, AgentTo
    <3>2. QED
      BY <2>1, <3>1, StillStep DEF Stays
  <2>3. CASE a = b
    <3>3. Says(a)
      BY <1>16 DEF HandleFire, Says
    <3>4. \/ to'[a] = to[a]
          \/ /\ to[a] # <<>> /\ to'[a] = Tail(to[a])
             /\ Head(to[a]).kind \in {"EVAL", "torn"} => agent'[a] \in {"gone", "stuck"}
      BY <1>16, <2>3, <1>d DEF HandleFire, NextIs, AgentTo
    <3>5. agent[a] \notin {"gone", "stuck"}
      BY <1>16, <2>3 DEF HandleFire, NextIs
    <3>6. QED
      BY <2>1, <3>3, <3>4, <3>5, HandledStep
  <2>4. QED
    BY <2>2, <2>3
<1>17. ASSUME NEW b \in Agents, WorkloadEnds(b)
      PROVE  StepOf(a)
  <2>1. UNCHANGED <<sent, got, cut, open>>
    BY <1>17 DEF WorkloadEnds
  <2>2. CASE a # b
    <3>1. from'[a] = from[a] /\ to'[a] = to[a] /\ agent'[a] = agent[a]
      BY <1>17, <2>2, <1>d DEF WorkloadEnds, Answer, AgentTo
    <3>2. QED
      BY <2>1, <3>1, StillStep DEF Stays
  <2>3. CASE a = b
    <3>1. Frame("METRICS", 0) \in Frames /\ Frame("METRICS", 0).kind \notin {"EVAL_RESULT", "rest"}
      BY Wire DEF FrameKinds
    <3>2. from'[a] = from[a] \/ from'[a] = Append(from[a], Frame("METRICS", 0))
      BY <1>17, <2>3, <1>d DEF WorkloadEnds, Answer
    <3>3. Says(a)
      BY <3>1, <3>2 DEF Says
    <3>4. \/ to'[a] = to[a]
          \/ /\ to[a] # <<>> /\ to'[a] = Tail(to[a])
             /\ Head(to[a]).kind \in {"EVAL", "torn"} => agent'[a] \in {"gone", "stuck"}
      BY <1>17, <2>3, <1>d DEF WorkloadEnds, NextIs, AgentTo
    <3>5. agent[a] \notin {"gone", "stuck"}
      BY <1>17, <2>3 DEF WorkloadEnds, NextIs
    <3>6. QED
      BY <2>1, <3>3, <3>4, <3>5, HandledStep
  <2>4. QED
    BY <2>2, <2>3
<1>18. ASSUME NEW b \in Agents, HandleTerminate(b)
      PROVE  StepOf(a)
  <2>1. UNCHANGED <<sent, got, cut, open>>
    BY <1>18 DEF HandleTerminate
  <2>2. CASE a # b
    <3>1. from'[a] = from[a] /\ to'[a] = to[a] /\ agent'[a] = agent[a]
      BY <1>18, <2>2, <1>d DEF HandleTerminate, Answer, AgentTo
    <3>2. QED
      BY <2>1, <3>1, StillStep DEF Stays
  <2>3. CASE a = b
    <3>1. Frame("TERM_ACK", 0) \in Frames
            /\ Frame("TERM_ACK", 0).kind \notin {"EVAL_RESULT", "rest"}
      BY Wire DEF FrameKinds
    <3>2. from'[a] = from[a] \/ from'[a] = Append(from[a], Frame("TERM_ACK", 0))
      BY <1>18, <2>3, <1>d DEF HandleTerminate, Answer
    <3>3. Says(a)
      BY <3>1, <3>2 DEF Says
    <3>4. \/ to'[a] = to[a]
          \/ /\ to[a] # <<>> /\ to'[a] = Tail(to[a])
             /\ Head(to[a]).kind \in {"EVAL", "torn"} => agent'[a] \in {"gone", "stuck"}
      BY <1>18, <2>3, <1>d DEF HandleTerminate, NextIs, AgentTo
    <3>5. agent[a] \notin {"gone", "stuck"}
      BY <1>18, <2>3 DEF HandleTerminate, NextIs
    <3>6. QED
      BY <2>1, <3>3, <3>4, <3>5, HandledStep
  <2>4. QED
    BY <2>2, <2>3
<1>19. ASSUME NEW b \in Agents, HandleShutdown(b)
      PROVE  StepOf(a)
  <2>1. UNCHANGED <<sent, got, cut, open>>
    BY <1>19 DEF HandleShutdown
  <2>2. CASE a # b
    <3>1. from'[a] = from[a] /\ to'[a] = to[a] /\ agent'[a] = agent[a]
      BY <1>19, <2>2, <1>d DEF HandleShutdown, Answer, AgentTo
    <3>2. QED
      BY <2>1, <3>1, StillStep DEF Stays
  <2>3. CASE a = b
    <3>3. Says(a)
      BY <1>19 DEF HandleShutdown, Says
    <3>4. \/ to'[a] = to[a]
          \/ /\ to[a] # <<>> /\ to'[a] = Tail(to[a])
             /\ Head(to[a]).kind \in {"EVAL", "torn"} => agent'[a] \in {"gone", "stuck"}
      BY <1>19, <2>3, <1>d DEF HandleShutdown, NextIs, AgentTo
    <3>5. agent[a] \notin {"gone", "stuck"}
      BY <1>19, <2>3 DEF HandleShutdown, NextIs
    <3>6. QED
      BY <2>1, <3>3, <3>4, <3>5, HandledStep
  <2>4. QED
    BY <2>2, <2>3
<1>20. ASSUME NEW b \in Agents, HandleTorn(b)
      PROVE  StepOf(a)
  <2>1. UNCHANGED <<sent, got, cut, open>>
    BY <1>20 DEF HandleTorn
  <2>2. CASE a # b
    <3>1. from'[a] = from[a] /\ to'[a] = to[a] /\ agent'[a] = agent[a]
      BY <1>20, <2>2, <1>d DEF HandleTorn, Answer, AgentTo
    <3>2. QED
      BY <2>1, <3>1, StillStep DEF Stays
  <2>3. CASE a = b
    <3>3. Says(a)
      BY <1>20 DEF HandleTorn, Says
    <3>4. \/ to'[a] = to[a]
          \/ /\ to[a] # <<>> /\ to'[a] = Tail(to[a])
             /\ Head(to[a]).kind \in {"EVAL", "torn"} => agent'[a] \in {"gone", "stuck"}
      BY <1>20, <2>3, <1>d DEF HandleTorn, NextIs, AgentTo
    <3>5. agent[a] \notin {"gone", "stuck"}
      BY <1>20, <2>3 DEF HandleTorn, NextIs
    <3>6. QED
      BY <2>1, <3>3, <3>4, <3>5, HandledStep
  <2>4. QED
    BY <2>2, <2>3
<1>21. ASSUME NEW b \in Agents, Disconnected(b)
      PROVE  StepOf(a)
  <2>1. UNCHANGED <<from, to, sent, got, cut, open>>
    BY <1>21 DEF Disconnected
  <2>2. Sound(a)' => Sound(a)
    BY <1>21, <2>1, <1>d DEF Disconnected, AgentTo, Sound
  <2>3. QED
    BY <2>1, <2>2, NoneMoved DEF StepOf
<1>22. ASSUME NEW b \in Agents, Dies(b)
      PROVE  StepOf(a)
  <2>1. UNCHANGED <<from, to, sent, got, cut, open>>
    BY <1>22 DEF Dies
  <2>2. Sound(a)' => Sound(a)
    BY <1>22, <2>1, <1>d DEF Dies, AgentTo, Sound
  <2>3. QED
    BY <2>1, <2>2, NoneMoved DEF StepOf
<1>23. ASSUME NEW ids \in SUBSET roster, Pray(ids)
      PROVE  StepOf(a)
  BY <1>23, StillStep DEF Pray, Stays
<1>24. ASSUME NEW b \in Agents, BeginFrame(b)
      PROVE  StepOf(a)
  BY <1>24, StillStep DEF BeginFrame, Stays
<1>25. ASSUME NEW b \in Agents, EndFrame(b)
      PROVE  StepOf(a)
  <2>1. Frame("torn", 0) \in Frames /\ Frame("torn", 0).kind # "EVAL"
    BY Wire DEF FrameKinds
  <2>2. UNCHANGED <<from, got, cut>> /\ Stays(a)
    BY <1>25 DEF EndFrame, Stays
  <2>4. op.id \in Petitions \union Chants
    BY <1>25 DEF EndFrame, Posts
  <2>5. CASE Deliver({b}, Frame("torn", 0)) /\ sent' = sent
    <3>1. to'[a] = to[a] \/ to'[a] = Append(to[a], Frame("torn", 0))
      BY <2>1, <2>5, Delivered
    <3>2. QED
      BY <2>1, <2>2, <2>5, <3>1, StillStep, WrittenStep
  <2>6. CASE DeliverEval({b}, op.id)
    <3>1. \/ to'[a] = to[a] /\ sent'[a] = sent[a]
          \/ to'[a] = Append(to[a], Frame("EVAL", Len(sent[a]) + 1))
               /\ sent'[a] = Append(sent[a], op.id)
      BY <2>4, <2>6, EvalDelivered
    <3>2. QED
      BY <2>2, <2>4, <3>1, StillStep, EvalStep
  <2>7. QED
    BY <1>25, <2>5, <2>6 DEF EndFrame
<1>26. CASE EndPray
  BY <1>26, StillStep DEF EndPray, Stays
<1>27. ASSUME NEW p \in pending, Annex(p)
      PROVE  StepOf(a)
  BY <1>27, StillStep DEF Annex, Stays
<1>28. CASE Eval
  <2>1. petition \in Petitions \union Chants
    BY <1>28, <1>0 DEF Eval, Types, Petitions
  <2>2. \/ to'[a] = to[a] /\ sent'[a] = sent[a]
        \/ to'[a] = Append(to[a], Frame("EVAL", Len(sent[a]) + 1))
             /\ sent'[a] = Append(sent[a], petition)
    BY <1>28, <2>1, EvalDelivered DEF Eval
  <2>3. UNCHANGED <<from, got, cut>> /\ Stays(a)
    BY <1>28 DEF Eval, Stays
  <2>4. QED
    BY <2>1, <2>2, <2>3, StillStep, EvalStep
<1>29. ASSUME NEW b \in Agents, GatherRead(b)
      PROVE  StepOf(a)
  <2>1. UNCHANGED <<to, sent, agent, open>>
    BY <1>29 DEF GatherRead
  <2>2. CASE a # b
    <3>1. from'[a] = from[a] /\ cut' = cut
      BY <1>29, <2>2, <1>d DEF GatherRead
    <3>2. Read(a)' = Read(a)
      BY <1>29, <2>2 DEF GatherRead, Read
    <3>3. QED
      BY <2>1, <3>1, <3>2 DEF StepOf, Move, FrameWritten, Unrecorded, Sound
  <2>3. CASE a = b
    <3>1. from[a] # <<>> /\ from'[a] = Tail(from[a]) /\ cut' = cut
      BY <1>29, <2>3, <1>d DEF GatherRead
    <3>2. CASE Head(from[a]).kind = "EVAL_RESULT"
      <4>1. got' = got \union {[petition |-> op.id, agent |-> a, id |-> Head(from[a]).id]}
        BY <1>29, <2>3, <3>2 DEF GatherRead
      <4>2. Read(a)' = Read(a) \union {Head(from[a]).id}
        <5> DEFINE r == [petition |-> op.id, agent |-> a, id |-> Head(from[a]).id]
        <5>1. r.agent = a /\ r.id = Head(from[a]).id
          OBVIOUS
        <5> HIDE DEF r
        <5>2. got' = got \union {r}
          BY <4>1 DEF r
        <5>3. {x \in got' : x.agent = a} = {x \in got : x.agent = a} \union {r}
          BY <5>1, <5>2
        <5>4. QED
          BY <5>1, <5>3 DEF Read
      <4>3. QED
        BY <2>1, <3>1, <3>2, <4>2 DEF StepOf, Move, ResultRead, Sound
    <3>3. CASE Head(from[a]).kind # "EVAL_RESULT"
      <4>1. got' = got
        BY <1>29, <2>3, <3>3 DEF GatherRead
      <4>2. QED
        BY <2>1, <3>1, <3>3, <4>1, SkippedStep DEF Stays
    <3>4. QED
      BY <3>2, <3>3
  <2>4. QED
    BY <2>2, <2>3
<1>30. ASSUME NEW b \in Agents, GatherFails(b)
      PROVE  StepOf(a)
  BY <1>30, StillStep DEF GatherFails, Stays
<1>31. ASSUME NEW b \in Agents, GatherCut(b)
      PROVE  StepOf(a)
  <2>1. UNCHANGED <<to, sent, agent, open>>
    BY <1>31 DEF GatherCut
  <2>2. CASE a # b
    <3>1. from'[a] = from[a] /\ (a \in cut' <=> a \in cut) /\ got' = got
      BY <1>31, <2>2, <1>d DEF GatherCut
    <3>2. QED
      BY <2>1, <3>1 DEF StepOf, Move, FrameWritten, Unrecorded, Read, Sound
  <2>3. CASE a = b
    <3>1. from[a] # <<>> /\ from'[a] = <<Frame("rest", 0)>> \o Tail(from[a]) /\ a \in cut'
            /\ got' = got
      BY <1>31, <2>3, <1>d DEF GatherCut
    <3>2. /\ Tail(from[a]) \in Seq(Frames) /\ Len(Tail(from[a])) = Len(from[a]) - 1
               /\ 1 \in 1..Len(from[a])
          /\ \A i \in 1..Len(Tail(from[a])) : Tail(from[a])[i] = from[a][i + 1]
      BY <1>d, <3>1, Taken, LenProperties
    <3>3. ReadGivenUp(a)
      BY <2>1, <3>1, <3>2 DEF ReadGivenUp, Read
    <3>4. QED
      BY <2>1, <3>3 DEF StepOf, Move, Sound
  <2>4. QED
    BY <2>2, <2>3
<1>32. ASSUME NEW b \in Agents, Misread(b)
      PROVE  StepOf(a)
  <2>1. UNCHANGED <<to, sent, agent, open>>
    BY <1>32 DEF Misread
  <2>2. CASE a # b
    <3>1. from'[a] = from[a] /\ (a \in cut' <=> a \in cut) /\ got' = got
      BY <1>32, <2>2, <1>d DEF Misread
    <3>2. QED
      BY <2>1, <3>1 DEF StepOf, Move, FrameWritten, Unrecorded, Read, Sound
  <2>3. CASE a = b
    <3>1. from[a] # <<>> /\ Head(from[a]).kind = "rest" /\ cut' = cut /\ got' = got
      BY <1>32, <2>3 DEF Misread
    <3>2. a \in cut'
      <4>1. 1 \in DOMAIN from[a] /\ Head(from[a]) = from[a][1]
        BY <1>d, <3>1, Taken
      <4>2. QED
        BY <3>1, <4>1 DEF Numbered
    <3>3. PICK n \in 1..Len(from[a]), whole \in BOOLEAN :
            from'[a] = IF whole THEN SubSeq(from[a], n + 1, Len(from[a]))
                       ELSE <<Frame("rest", 0)>> \o SubSeq(from[a], n + 1, Len(from[a]))
      BY <1>32, <2>3, <1>d DEF Misread
    <3> DEFINE s == SubSeq(from[a], n + 1, Len(from[a]))
    <3>4. s \in Seq(Frames) /\ Len(s) = Len(from[a]) - n
            /\ \A i \in 1..Len(s) : s[i] = from[a][i + n]
      BY <1>d, Rest
    <3> HIDE DEF s
    <3>5. from'[a] \in {s, <<Frame("rest", 0)>> \o s}
      BY <3>3 DEF s
    <3>6. ReadGivenUp(a)
      BY <2>1, <3>1, <3>2, <3>4, <3>5 DEF ReadGivenUp, Read
    <3>7. QED
      BY <2>1, <3>6 DEF StepOf, Move, Sound
  <2>4. QED
    BY <2>2, <2>3
<1>33. ASSUME NEW b \in Agents, GatherDies(b)
      PROVE  StepOf(a)
  BY <1>33, StillStep DEF GatherDies, Stays
<1>34. CASE EndGather
  BY <1>34, StillStep DEF EndGather, Stays
<1>35. ASSUME NEW p \in pending, Forget(p)
      PROVE  StepOf(a)
  BY <1>35, StillStep DEF Forget, Stays
<1>36. ASSUME NEW c \in Chants, Chant(c)
      PROVE  StepOf(a)
  <2>1. c \in Petitions \union Chants
    BY <1>36, <1>0 DEF Chant, Types
  <2>2. \/ to'[a] = to[a] /\ sent'[a] = sent[a]
        \/ to'[a] = Append(to[a], Frame("EVAL", Len(sent[a]) + 1)) /\ sent'[a] = Append(sent[a], c)
    BY <1>36, <2>1, EvalDelivered DEF Chant
  <2>3. UNCHANGED <<from, got, cut>> /\ Stays(a)
    BY <1>36 DEF Chant, Stays
  <2>4. QED
    BY <2>1, <2>2, <2>3, StillStep, EvalStep
<1>37. CASE RecordChant
  BY <1>37, StillStep DEF RecordChant, Stays
<1>38. ASSUME NEW c \in Chants, Amen(c)
      PROVE  StepOf(a)
  BY <1>38, StillStep DEF Amen, Stays
<1>39. ASSUME NEW ids \in SUBSET roster, Excommunicate(ids)
      PROVE  StepOf(a)
  <2>1. Frame("SHUTDOWN", 0) \in Frames /\ Frame("SHUTDOWN", 0).kind # "EVAL"
    BY Wire DEF FrameKinds
  <2>2. to'[a] = to[a] \/ to'[a] = Append(to[a], Frame("SHUTDOWN", 0))
    BY <1>39, <2>1, Delivered DEF Excommunicate
  <2>3. UNCHANGED <<from, sent, got, cut>> /\ Stays(a)
    BY <1>39 DEF Excommunicate, Stays
  <2>4. QED
    BY <2>1, <2>2, <2>3, StillStep, WrittenStep
<1>40. ASSUME NEW kind \in {"FIRE", "TERMINATE"}, Stress(kind)
      PROVE  StepOf(a)
  <2>1. Frame(kind, 0) \in Frames /\ Frame(kind, 0).kind # "EVAL"
    BY Wire DEF FrameKinds
  <2>2. to'[a] = to[a] \/ to'[a] = Append(to[a], Frame(kind, 0))
    BY <1>40, <2>1, Delivered DEF Stress
  <2>3. UNCHANGED <<from, sent, got, cut>> /\ Stays(a)
    BY <1>40 DEF Stress, Stays
  <2>4. QED
    BY <2>1, <2>2, <2>3, StillStep, WrittenStep
<1>41. CASE Quit
  <2>1. Frame("SHUTDOWN", 0) \in Frames /\ Frame("SHUTDOWN", 0).kind # "EVAL"
    BY Wire DEF FrameKinds
  <2>2. to'[a] = to[a] \/ to'[a] = Append(to[a], Frame("SHUTDOWN", 0))
    BY <1>41, <2>1, Delivered DEF Quit
  <2>3. UNCHANGED <<from, sent, got, cut>> /\ Stays(a)
    BY <1>41 DEF Quit, Stays
  <2>4. QED
    BY <2>1, <2>2, <2>3, StillStep, WrittenStep
<1>42. CASE Wake
  BY <1>42, StillStep DEF Wake, Stays
<1>43. CASE Join
  BY <1>43, StillStep DEF Join, Stays
<1>44. CASE UNCHANGED vars
  BY <1>44, StillStep DEF vars, Stays
<1>45. QED
  BY <1>1, <1>2, <1>3, <1>4, <1>5, <1>6, <1>7, <1>8, <1>9, <1>10, <1>11, <1>12,
     <1>13, <1>14, <1>15, <1>16, <1>17, <1>18, <1>19, <1>20, <1>21, <1>22, <1>23,
     <1>24, <1>25, <1>26, <1>27, <1>28, <1>29, <1>30, <1>31, <1>32, <1>33, <1>34,
     <1>35, <1>36, <1>37, <1>38, <1>39, <1>40, <1>41, <1>42, <1>43, <1>44
  DEF Next, AcceptStep, AgentStep, Command, CommandStep, Finished


LEMMA NumbersKept ==
  ASSUME Types, Posts, Newcomers, Numbered, [Next]_vars
  PROVE  Numbered'
<1>1. ASSUME NEW a \in Agents
      PROVE  (Read(a) \union Ahead(a) \subseteq Written(a))' /\ RestsGivenUp(a)'
  <2>1. Move(a)
    BY EveryStep DEF StepOf
  <2>2. (Read(a) \union Ahead(a) \subseteq Written(a)) /\ RestsGivenUp(a)
    BY DEF Numbered, RestsGivenUp
  <2>3. QED
    BY <2>1, <2>2, MoveNumbered
<1>2. QED
  BY <1>1 DEF Numbered, RestsGivenUp

LEMMA TurnsKept ==
  ASSUME Types, Posts, Newcomers, Numbered, Numbered', Turns, [Next]_vars
  PROVE  Turns'
<1>1. ASSUME NEW a \in Agents, Sound(a)'
      PROVE  InTurn(a)'
  <2>1. Move(a) /\ (Sound(a) \/ (Unmet(a) /\ sent'[a] = sent[a]))
    BY <1>1, EveryStep DEF StepOf
  <2>2. CASE Sound(a)
    BY <1>1, <2>1, <2>2, MoveInTurn DEF Turns
  <2>3. CASE Unmet(a) /\ sent'[a] = sent[a]
    <3>1. sent'[a] = <<>> /\ Len(<<>>) = 0
      BY <2>3 DEF Newcomers, Unwritten
    <3>2. Read(a)' \union (Ids(from'[a], "EVAL_RESULT") \union Ids(to'[a], "EVAL")) \subseteq 1..0
      BY <3>1 DEF Numbered, Ahead, Results, Evals, Written
    <3>3. FramesInTurn(from'[a], to'[a], Read(a)', Len(sent'[a]), a \in cut')
      BY <3>1, <3>2, UnwrittenInTurn
    <3>4. QED
      BY <3>3 DEF InTurn, FramesInTurn, NumbersInTurn, Results, Evals, Ahead, Written
  <2>4. QED
    BY <2>1, <2>2, <2>3
<1>2. QED
  BY <1>1 DEF Turns

LEMMA TurnsInitial == Init => Numbered /\ Turns
<1> SUFFICES ASSUME Init PROVE Numbered /\ Turns
  OBVIOUS
<1>1. ASSUME NEW a \in Agents
      PROVE  from[a] = <<>> /\ to[a] = <<>> /\ sent[a] = <<>> /\ got = {} /\ open[a] = FALSE
  BY DEF Init
<1>2. Ids(<<>>, "EVAL_RESULT") = {} /\ Ids(<<>>, "EVAL") = {} /\ \A i \in DOMAIN <<>> : FALSE
  <2>1. DOMAIN <<>> = {}
    OBVIOUS
  <2>2. QED
    BY <2>1 DEF Ids
<1>3. Numbered
  <2>1. ASSUME NEW a \in Agents
        PROVE  Read(a) = {} /\ Results(a) = {} /\ Evals(a) = {} /\ \A i \in DOMAIN from[a] : FALSE
    BY <1>1, <1>2 DEF Read, Results, Evals
  <2>2. QED
    BY <2>1 DEF Numbered, Ahead
<1>4. Turns
  BY <1>1 DEF Turns, Sound
<1>5. QED
  BY <1>3, <1>4

-----------------------------------------------------------------------------
(* Chants that are over do not come back.                                   *)
OverForGood ==
  /\ chants \cap over = {}
  /\ op.at = "chant" => op.id \notin over
  /\ \A a \in Agents : joined[a].over \subseteq over /\ joined[a].over \cap Given(a) = {}
  /\ accept.at \in {"chants", "write", "half"} => accept.codes \cap joined[accept.who].over = {}

(* What an agent is owed of the chants that ran when it came.               *)
Owed(a) == joined[a].active \ over

Promised(a) ==
  IF accept.who # a THEN Given(a)
  ELSE IF accept.at = "snapshot" THEN chants
  ELSE Given(a) \union accept.codes

Told == \A a \in roster : Sound(a) => Owed(a) \subseteq Promised(a)

(* An EVAL written to an agent is not a chant that was over when it came.   *)
Gift(a) ==
  \/ sent'[a] = sent[a]
  \/ \E x \in Petitions \union Chants : x \notin joined[a].over /\ sent'[a] = Append(sent[a], x)

LEMMA GivenAppended ==
  ASSUME NEW S, NEW s \in Seq(S), NEW x \in S
  PROVE  {Append(s, x)[i] : i \in DOMAIN Append(s, x)} = {s[i] : i \in DOMAIN s} \union {x}
<1> DEFINE r == Append(s, x)
<1>1. /\ DOMAIN r = DOMAIN s \union {Len(s) + 1} /\ r[Len(s) + 1] = x
      /\ \A i \in DOMAIN s : r[i] = s[i]
  BY Appended
<1> HIDE DEF r
<1>2. {r[i] : i \in DOMAIN r} = {s[i] : i \in DOMAIN s} \union {x}
  <2>1. ASSUME NEW i \in DOMAIN r
        PROVE  r[i] \in {s[j] : j \in DOMAIN s} \union {x}
    BY <1>1, <2>1
  <2>2. ASSUME NEW i \in DOMAIN s
        PROVE  s[i] \in {r[j] : j \in DOMAIN r}
    <3>1. i \in DOMAIN r /\ r[i] = s[i]
      BY <1>1
    <3>2. QED
      BY <3>1
  <2>3. x \in {r[j] : j \in DOMAIN r}
    BY <1>1
  <2>4. QED
    BY <2>1, <2>2, <2>3
<1>3. QED
  BY <1>2 DEF r

LEMMA GiftGiven ==
  ASSUME Types, NEW a \in Agents, Gift(a)
  PROVE  /\ Given(a) \subseteq Given(a)'
         /\ joined[a].over \cap Given(a) = {} => joined[a].over \cap Given(a)' = {}
<1>1. CASE sent'[a] = sent[a]
  BY <1>1 DEF Given
<1>2. ASSUME NEW x \in Petitions \union Chants, x \notin joined[a].over,
               sent'[a] = Append(sent[a], x)
      PROVE  /\ Given(a) \subseteq Given(a)'
             /\ joined[a].over \cap Given(a) = {} => joined[a].over \cap Given(a)' = {}
  <2>1. sent[a] \in Seq(Petitions \union Chants)
    BY DEF Types
  <2>2. Given(a)' = Given(a) \union {x}
    BY <1>2, <2>1, GivenAppended DEF Given
  <2>3. QED
    BY <1>2, <2>2
<1>3. QED
  BY <1>1, <1>2 DEF Gift

LEMMA BooksGoOn ==
  ASSUME Types, OverForGood, Told, UNCHANGED <<chants, over, joined>>, roster' \subseteq roster,
         \A a \in Agents : Gift(a), \A a \in roster : Sound(a)' => Sound(a),
         op' = op \/ op'.at # "chant" \/ op'.id \notin over,
         accept' = accept \/
           /\ accept'.at \in {"chants", "write", "half"} =>
                /\ accept'.who = accept.who /\ accept'.codes \subseteq accept.codes
                /\ accept.at \in {"chants", "write", "half"}
           /\ \A a \in roster : Sound(a)' =>
                IF accept'.who = a THEN /\ accept.who = a /\ accept'.codes = accept.codes
                                        /\ accept.at # "snapshot" /\ accept'.at # "snapshot"
                                   ELSE accept.who # a
  PROVE  OverForGood' /\ Told'
<1>1. \A a \in Agents : /\ Given(a) \subseteq Given(a)'
                        /\ joined[a].over \cap Given(a) = {} => joined[a].over \cap Given(a)' = {}
  BY GiftGiven
<1>2. (chants \cap over = {})' /\ (op.at = "chant" => op.id \notin over)'
  BY DEF OverForGood
<1>3. (\A a \in Agents : joined[a].over \subseteq over /\ joined[a].over \cap Given(a) = {})'
  BY <1>1 DEF OverForGood
<1>4. (accept.at \in {"chants", "write", "half"} => accept.codes \cap joined[accept.who].over = {})'
  BY DEF OverForGood
<1>5. ASSUME NEW a \in roster', Sound(a)'
      PROVE  Owed(a)' \subseteq Promised(a)'
  <2>1. a \in roster /\ a \in Agents /\ Owed(a)' = Owed(a) /\ Owed(a) \subseteq Promised(a)
          /\ Given(a) \subseteq Given(a)'
    BY <1>1, <1>5 DEF Told, Types, Owed
  <2>2. CASE accept' = accept
    BY <2>1, <2>2 DEF Promised
  <2>3. CASE IF accept'.who = a THEN /\ accept.who = a /\ accept'.codes = accept.codes
                                     /\ accept.at # "snapshot" /\ accept'.at # "snapshot"
                                ELSE accept.who # a
    BY <2>1, <2>3 DEF Promised
  <2>4. QED
    BY <1>5, <2>1, <2>2, <2>3
<1>6. QED
  BY <1>2, <1>3, <1>4, <1>5 DEF OverForGood, Told

(* Every step keeps what is known of chants.                                *)
LEMMA BooksKept ==
  ASSUME Types, Posts, Newcomers, Numbered, OverForGood, Told, [Next]_vars
  PROVE  OverForGood' /\ Told'
<1> USE ControllerAssumption DEF AcceptVars, AgentVars, OpVars, Past
<1>0. session.petitions \in Nat
  BY Bound
<1>n. \A a \in Agents : Unmet(a) => a \notin roster
  BY DEF Newcomers, Unwritten
<1>s. \A a \in roster : Sound(a)' => Sound(a)
  <2>1. ASSUME NEW a \in roster, Sound(a)'
        PROVE  Sound(a)
    <3>1. a \in Agents
      BY DEF Types
    <3>2. QED
      BY <2>1, <3>1, <1>n, EveryStep DEF StepOf
  <2>2. QED
    BY <2>1
<1>o. \A a \in Agents : joined[a].over \subseteq over /\ joined[a].over \subseteq Chants
  BY DEF OverForGood, Types
<1>1. CASE Accept
  <2>1. UNCHANGED <<chants, over, joined, op, sent, roster>>
    BY <1>1 DEF Accept
  <2>2. accept.who = None /\ backlog # <<>>
    BY <1>1 DEF Accept, Posts
  <2>3. accept'.at \notin {"chants", "write", "half"} /\ accept'.who \in {None, Head(backlog)}
    <3>1. CASE accept' = [Listening EXCEPT !.at = "hello", !.who = Head(backlog)]
      BY <3>1 DEF Listening
    <3>2. CASE accept' = Listening
      BY <3>2, ListeningFields
    <3>3. CASE accept' = [Listening EXCEPT !.at = "ended"]
      BY <3>3 DEF Listening
    <3>4. QED
      BY <1>1, <3>1, <3>2, <3>3 DEF Accept
  <2>4. \A a \in Agents : Gift(a)
    BY <2>1 DEF Gift
  <2>5. Head(backlog) \notin roster
    <3>1. 1 \in DOMAIN backlog /\ Head(backlog) = backlog[1]
      BY <2>2, Taken DEF Types
    <3>2. QED
      BY <2>2, <3>1, <1>n DEF Unmet, Types
  <2>6. \A a \in roster : a # None
    BY DEF Types
  <2>7. QED
    BY <2>1, <2>2, <2>3, <2>4, <2>5, <2>6, <1>s, BooksGoOn
<1>2. CASE ReadHello
  <2>1. UNCHANGED <<chants, over, joined, op, sent, roster>>
    BY <1>2 DEF ReadHello
  <2>2. accept.who \notin roster
    BY <1>2, <1>n DEF ReadHello, Posts, Unmet
  <2>3. accept' = Listening
          \/ (accept'.who = accept.who /\ accept'.at \in {"auth", "ack", "insert"})
    BY <1>2 DEF ReadHello, Reject, AcceptTo, Types
  <2>4. \A a \in Agents : Gift(a)
    BY <2>1 DEF Gift
  <2>5. \A a \in roster : a # None
    BY DEF Types
  <2>6. QED
    BY <2>1, <2>2, <2>3, <2>4, <2>5, <1>s, BooksGoOn, ListeningFields
<1>3. CASE ReadAuth
  <2>1. UNCHANGED <<chants, over, joined, op, sent, roster>>
    BY <1>3 DEF ReadAuth
  <2>2. accept.who \notin roster
    BY <1>3, <1>n DEF ReadAuth, Posts, Unmet
  <2>3. accept' = Listening
          \/ (accept'.who = accept.who /\ accept'.at \in {"auth", "ack", "insert"})
    BY <1>3 DEF ReadAuth, Reject, AcceptTo, Types
  <2>4. \A a \in Agents : Gift(a)
    BY <2>1 DEF Gift
  <2>5. \A a \in roster : a # None
    BY DEF Types
  <2>6. QED
    BY <2>1, <2>2, <2>3, <2>4, <2>5, <1>s, BooksGoOn, ListeningFields
<1>4. CASE WriteAck
  <2>1. UNCHANGED <<chants, over, joined, op, sent, roster>>
    BY <1>4 DEF WriteAck
  <2>2. accept.who \notin roster
    BY <1>4, <1>n DEF WriteAck, Posts, Unmet
  <2>3. accept' = Listening
          \/ (accept'.who = accept.who /\ accept'.at \in {"auth", "ack", "insert"})
    BY <1>4 DEF WriteAck, Reject, AcceptTo, Types
  <2>4. \A a \in Agents : Gift(a)
    BY <2>1 DEF Gift
  <2>5. \A a \in roster : a # None
    BY DEF Types
  <2>6. QED
    BY <2>1, <2>2, <2>3, <2>4, <2>5, <1>s, BooksGoOn, ListeningFields
<1>5. CASE Insert
  <2>0. PICK w \in Agents : w = accept.who
    BY <1>5 DEF Insert, Posts
  <2>1. /\ accept.at = "insert" /\ w \in Agents /\ accept'.at = "snapshot" /\ accept'.who = w
        /\ roster' = roster \union {w} /\ w \notin roster /\ sent[w] = <<>>
    BY <1>5, <2>0, <1>n DEF Insert, Posts, AcceptTo, Types, Unmet, Newcomers, Unwritten
  <2>2. UNCHANGED <<chants, over, sent, op>>
    BY <1>5 DEF Insert
  <2>3. /\ joined'[w].active = chants /\ joined'[w].over = over
        /\ \A a \in Agents : a # w => joined'[a] = joined[a]
    BY <1>5, <2>0, <2>1 DEF Insert, Types
  <2>4. Given(w)' = {}
    BY <2>1, <2>2 DEF Given
  <2>5. \A a \in Agents : Given(a)' = Given(a)
    BY <2>2 DEF Given
  <2>6. OverForGood'
    <3>1. (\A a \in Agents : joined[a].over \subseteq over /\ joined[a].over \cap Given(a) = {})'
      BY <2>2, <2>3, <2>4, <2>5 DEF OverForGood
    <3>2. QED
      BY <2>1, <2>2, <3>1 DEF OverForGood
  <2>7. ASSUME NEW a \in roster', Sound(a)'
        PROVE  Owed(a)' \subseteq Promised(a)'
    <3>1. CASE a = w
      BY <2>0, <2>1, <2>2, <2>3, <3>1 DEF Owed, Promised
    <3>2. CASE a # w
      <4>1. a \in roster /\ a \in Agents /\ Sound(a) /\ joined'[a] = joined[a]
        BY <2>1, <2>3, <2>7, <3>2, <1>s DEF Types
      <4>2. QED
        BY <2>0, <2>1, <2>2, <2>5, <3>2, <4>1 DEF Owed, Promised, Told
    <3>3. QED
      BY <3>1, <3>2
  <2>8. QED
    BY <2>6, <2>7 DEF Told
<1>6. CASE Snapshot
  <2>1. UNCHANGED <<chants, over, joined, op, sent, roster>> /\ accept.at = "snapshot"
          /\ accept.who \in Agents
    BY <1>6 DEF Snapshot, Posts
  <2>2. \/ chants = {} /\ accept' = Listening
        \/ accept'.at = "chants" /\ accept'.codes = chants /\ accept'.who = accept.who
    BY <1>6 DEF Snapshot, Types
  <2>3. \A a \in Agents : Given(a)' = Given(a)
    BY <2>1 DEF Given
  <2>4. OverForGood'
    BY <2>1, <2>2, <2>3, ListeningFields DEF OverForGood
  <2>5. ASSUME NEW a \in roster', Sound(a)'
        PROVE  Owed(a)' \subseteq Promised(a)'
    <3>1. a \in roster /\ a \in Agents /\ Owed(a) \subseteq Promised(a) /\ a # None
      BY <2>1, <2>5, <1>s DEF Told, Types
    <3>2. QED
      BY <2>1, <2>2, <2>3, <3>1, ListeningFields DEF Owed, Promised
  <2>6. QED
    BY <2>4, <2>5 DEF Told
<1>7. CASE BeginChants
  <2>1. UNCHANGED <<chants, over, joined, op, sent, roster>> /\ accept.at = "chants"
    BY <1>7 DEF BeginChants
  <2>2. \/ accept' = Listening /\ accept.who \notin roster
        \/ accept'.at = "write" /\ accept'.codes = accept.codes /\ accept'.who = accept.who
    BY <1>7 DEF BeginChants, AcceptTo, Types
  <2>3. \A a \in Agents : Gift(a)
    BY <2>1 DEF Gift
  <2>4. \A a \in roster : a # None
    BY DEF Types
  <2>5. QED
    BY <2>1, <2>2, <2>3, <2>4, <1>s, BooksGoOn, ListeningFields
<1>8. CASE WriteChant
  <2>1. UNCHANGED <<chants, over, joined, op, sent, roster>> /\ accept.at = "write"
    BY <1>8 DEF WriteChant
  <2>2. accept'.at = "half" /\ accept'.codes = accept.codes /\ accept'.who = accept.who
    BY <1>8 DEF WriteChant, AcceptTo, Types
  <2>3. \A a \in Agents : Gift(a)
    BY <2>1 DEF Gift
  <2>4. QED
    BY <2>1, <2>2, <2>3, <1>s, BooksGoOn
<1>9. CASE ChantWritten
  <2>0. PICK w \in Agents : w = accept.who
    BY <1>9 DEF ChantWritten, Posts
  <2>1. UNCHANGED <<chants, over, joined, op, roster, agent>> /\ accept.at = "half" 
    BY <1>9 DEF ChantWritten
  <2>2. PICK c \in accept.codes :
          /\ \/ Deliver({w}, Frame("torn", 0)) /\ sent' = sent
             \/ DeliverEval({w}, c)
          /\ accept' = [accept EXCEPT !.at = "write", !.codes = @ \ {c}]
    BY <1>9, <2>0 DEF ChantWritten
  <2>3. /\ accept'.at = "write" /\ accept'.who = w /\ accept'.codes = accept.codes \ {c}
        /\ c \in Petitions \union Chants /\ c \notin joined[w].over
    BY <2>0, <2>1, <2>2 DEF Types, OverForGood
  <2>4. Frame("torn", 0) \in Frames /\ Frame("torn", 0).kind = "torn"
    BY Wire DEF FrameKinds
  <2>5. /\ \A a \in Agents : Gift(a)
        /\ agent[w] # "gone" /\ Sound(w)' => sent'[w] = Append(sent[w], c)
    <3>1. CASE Deliver({w}, Frame("torn", 0)) /\ sent' = sent
      <4>1. agent[w] # "gone" => to'[w] = Append(to[w], Frame("torn", 0))
        BY <2>1, <2>4, <3>1, Delivered
      <4>2. /\ Len(to[w]) + 1 \in DOMAIN Append(to[w], Frame("torn", 0))
            /\ Append(to[w], Frame("torn", 0))[Len(to[w]) + 1] = Frame("torn", 0)
        BY <2>1, <2>4, Appended DEF Types
      <4>3. agent[w] # "gone" => ~Sound(w)'
        BY <2>1, <2>4, <4>1, <4>2 DEF Sound
      <4>4. QED
        BY <3>1, <4>3 DEF Gift
    <3>2. CASE DeliverEval({w}, c)
      <4>1. \A a \in Agents : IF a \in {w}
              /\ agent[a] # "gone" THEN sent'[a] = Append(sent[a], c) ELSE sent'[a] = sent[a]
        BY <2>3, <3>2, EvalDelivered
      <4>2. QED
        BY <2>1, <2>3, <4>1 DEF Gift
    <3>3. QED
      BY <2>2, <3>1, <3>2
  <2>6. \A a \in Agents : /\ Given(a) \subseteq Given(a)'
                          /\ joined[a].over \cap Given(a) = {} => joined[a].over \cap Given(a)' = {}
    BY <2>5, GiftGiven
  <2>7. OverForGood'
    BY <2>0, <2>1, <2>3, <2>6 DEF OverForGood
  <2>8. ASSUME NEW a \in roster', Sound(a)'
        PROVE  Owed(a)' \subseteq Promised(a)'
    <3>1. a \in roster /\ a \in Agents /\ Owed(a) \subseteq Promised(a) /\ Owed(a)' = Owed(a)
      BY <2>1, <2>8, <1>s DEF Told, Types, Owed
    <3>2. CASE a # w
      BY <2>0, <2>1, <2>3, <2>6, <3>1, <3>2 DEF Promised
    <3>3. CASE a = w
      <4>1. agent[w] # "gone"
        BY <2>1, <2>8, <3>3 DEF Sound
      <4>2. sent'[w] = Append(sent[w], c) /\ sent[w] \in Seq(Petitions \union Chants)
        BY <2>1, <2>5, <2>8, <3>3, <4>1 DEF Types
      <4>3. Given(w)' = Given(w) \union {c}
        BY <2>3, <4>2, GivenAppended DEF Given
      <4>4. QED
        BY <2>0, <2>1, <2>3, <3>1, <3>3, <4>3 DEF Promised
    <3>4. QED
      BY <3>2, <3>3
  <2>9. QED
    BY <2>7, <2>8 DEF Told
<1>10. CASE EndChants
  <2>1. UNCHANGED <<chants, over, joined, op, sent, roster>> /\ accept.at = "write"
          /\ accept.codes = {} /\ accept' = Listening
    BY <1>10 DEF EndChants
  <2>2. \A a \in Agents : Given(a)' = Given(a)
    BY <2>1 DEF Given
  <2>3. OverForGood'
    BY <2>1, <2>2, ListeningFields DEF OverForGood
  <2>4. ASSUME NEW a \in roster', Sound(a)'
        PROVE  Owed(a)' \subseteq Promised(a)'
    <3>1. a \in roster /\ a \in Agents /\ Owed(a) \subseteq Promised(a) /\ a # None
      BY <2>1, <2>4, <1>s DEF Told, Types
    <3>2. QED
      BY <2>1, <2>2, <3>1, ListeningFields DEF Owed, Promised
  <2>5. QED
    BY <2>3, <2>4 DEF Told
<1>11. ASSUME NEW b \in Agents, Connect(b)
      PROVE  OverForGood' /\ Told'
  <2>1. UNCHANGED <<chants, over, joined, accept>> /\ roster' \subseteq roster
    BY <1>11 DEF Connect
  <2>2. op' = op \/ op'.at # "chant" \/ op'.id \notin over
    BY <1>11 DEF Connect, Idle, Types
  <2>3. \A a \in Agents : Gift(a)
    BY <1>11 DEF Connect, Gift
  <2>4. QED
    BY <2>1, <2>2, <2>3, <1>s, BooksGoOn
<1>12. ASSUME NEW b \in Agents, SendHello(b)
      PROVE  OverForGood' /\ Told'
  <2>1. UNCHANGED <<chants, over, joined, accept>> /\ roster' \subseteq roster
    BY <1>12 DEF SendHello
  <2>2. op' = op \/ op'.at # "chant" \/ op'.id \notin over
    BY <1>12 DEF SendHello, Idle, Types
  <2>3. \A a \in Agents : Gift(a)
    BY <1>12 DEF SendHello, Gift
  <2>4. QED
    BY <2>1, <2>2, <2>3, <1>s, BooksGoOn
<1>13. ASSUME NEW b \in Agents, SendAuth(b)
      PROVE  OverForGood' /\ Told'
  <2>1. UNCHANGED <<chants, over, joined, accept>> /\ roster' \subseteq roster
    BY <1>13 DEF SendAuth
  <2>2. op' = op \/ op'.at # "chant" \/ op'.id \notin over
    BY <1>13 DEF SendAuth, Idle, Types
  <2>3. \A a \in Agents : Gift(a)
    BY <1>13 DEF SendAuth, Gift
  <2>4. QED
    BY <2>1, <2>2, <2>3, <1>s, BooksGoOn
<1>14. ASSUME NEW b \in Agents, ReadAck(b)
      PROVE  OverForGood' /\ Told'
  <2>1. UNCHANGED <<chants, over, joined, accept>> /\ roster' \subseteq roster
    BY <1>14 DEF ReadAck
  <2>2. op' = op \/ op'.at # "chant" \/ op'.id \notin over
    BY <1>14 DEF ReadAck, Idle, Types
  <2>3. \A a \in Agents : Gift(a)
    BY <1>14 DEF ReadAck, Gift
  <2>4. QED
    BY <2>1, <2>2, <2>3, <1>s, BooksGoOn
<1>15. ASSUME NEW b \in Agents, HandleEval(b)
      PROVE  OverForGood' /\ Told'
  <2>1. UNCHANGED <<chants, over, joined, accept>> /\ roster' \subseteq roster
    BY <1>15 DEF HandleEval
  <2>2. op' = op \/ op'.at # "chant" \/ op'.id \notin over
    BY <1>15 DEF HandleEval, Idle, Types
  <2>3. \A a \in Agents : Gift(a)
    BY <1>15 DEF HandleEval, Gift
  <2>4. QED
    BY <2>1, <2>2, <2>3, <1>s, BooksGoOn
<1>16. ASSUME NEW b \in Agents, HandleFire(b)
      PROVE  OverForGood' /\ Told'
  <2>1. UNCHANGED <<chants, over, joined, accept>> /\ roster' \subseteq roster
    BY <1>16 DEF HandleFire
  <2>2. op' = op \/ op'.at # "chant" \/ op'.id \notin over
    BY <1>16 DEF HandleFire, Idle, Types
  <2>3. \A a \in Agents : Gift(a)
    BY <1>16 DEF HandleFire, Gift
  <2>4. QED
    BY <2>1, <2>2, <2>3, <1>s, BooksGoOn
<1>17. ASSUME NEW b \in Agents, WorkloadEnds(b)
      PROVE  OverForGood' /\ Told'
  <2>1. UNCHANGED <<chants, over, joined, accept>> /\ roster' \subseteq roster
    BY <1>17 DEF WorkloadEnds
  <2>2. op' = op \/ op'.at # "chant" \/ op'.id \notin over
    BY <1>17 DEF WorkloadEnds, Idle, Types
  <2>3. \A a \in Agents : Gift(a)
    BY <1>17 DEF WorkloadEnds, Gift
  <2>4. QED
    BY <2>1, <2>2, <2>3, <1>s, BooksGoOn
<1>18. ASSUME NEW b \in Agents, HandleTerminate(b)
      PROVE  OverForGood' /\ Told'
  <2>1. UNCHANGED <<chants, over, joined, accept>> /\ roster' \subseteq roster
    BY <1>18 DEF HandleTerminate
  <2>2. op' = op \/ op'.at # "chant" \/ op'.id \notin over
    BY <1>18 DEF HandleTerminate, Idle, Types
  <2>3. \A a \in Agents : Gift(a)
    BY <1>18 DEF HandleTerminate, Gift
  <2>4. QED
    BY <2>1, <2>2, <2>3, <1>s, BooksGoOn
<1>19. ASSUME NEW b \in Agents, HandleShutdown(b)
      PROVE  OverForGood' /\ Told'
  <2>1. UNCHANGED <<chants, over, joined, accept>> /\ roster' \subseteq roster
    BY <1>19 DEF HandleShutdown
  <2>2. op' = op \/ op'.at # "chant" \/ op'.id \notin over
    BY <1>19 DEF HandleShutdown, Idle, Types
  <2>3. \A a \in Agents : Gift(a)
    BY <1>19 DEF HandleShutdown, Gift
  <2>4. QED
    BY <2>1, <2>2, <2>3, <1>s, BooksGoOn
<1>20. ASSUME NEW b \in Agents, HandleTorn(b)
      PROVE  OverForGood' /\ Told'
  <2>1. UNCHANGED <<chants, over, joined, accept>> /\ roster' \subseteq roster
    BY <1>20 DEF HandleTorn
  <2>2. op' = op \/ op'.at # "chant" \/ op'.id \notin over
    BY <1>20 DEF HandleTorn, Idle, Types
  <2>3. \A a \in Agents : Gift(a)
    BY <1>20 DEF HandleTorn, Gift
  <2>4. QED
    BY <2>1, <2>2, <2>3, <1>s, BooksGoOn
<1>21. ASSUME NEW b \in Agents, Disconnected(b)
      PROVE  OverForGood' /\ Told'
  <2>1. UNCHANGED <<chants, over, joined, accept>> /\ roster' \subseteq roster
    BY <1>21 DEF Disconnected
  <2>2. op' = op \/ op'.at # "chant" \/ op'.id \notin over
    BY <1>21 DEF Disconnected, Idle, Types
  <2>3. \A a \in Agents : Gift(a)
    BY <1>21 DEF Disconnected, Gift
  <2>4. QED
    BY <2>1, <2>2, <2>3, <1>s, BooksGoOn
<1>22. ASSUME NEW b \in Agents, Dies(b)
      PROVE  OverForGood' /\ Told'
  <2>1. UNCHANGED <<chants, over, joined, accept>> /\ roster' \subseteq roster
    BY <1>22 DEF Dies
  <2>2. op' = op \/ op'.at # "chant" \/ op'.id \notin over
    BY <1>22 DEF Dies, Idle, Types
  <2>3. \A a \in Agents : Gift(a)
    BY <1>22 DEF Dies, Gift
  <2>4. QED
    BY <2>1, <2>2, <2>3, <1>s, BooksGoOn
<1>23. ASSUME NEW ids \in SUBSET roster, Pray(ids)
      PROVE  OverForGood' /\ Told'
  <2>1. UNCHANGED <<chants, over, joined, accept>> /\ roster' \subseteq roster
    BY <1>23 DEF Pray
  <2>2. op' = op \/ op'.at # "chant" \/ op'.id \notin over
    BY <1>23 DEF Pray, Idle, Types
  <2>3. \A a \in Agents : Gift(a)
    BY <1>23 DEF Pray, Gift
  <2>4. QED
    BY <2>1, <2>2, <2>3, <1>s, BooksGoOn
<1>24. ASSUME NEW b \in Agents, BeginFrame(b)
      PROVE  OverForGood' /\ Told'
  <2>1. UNCHANGED <<chants, over, joined, accept>> /\ roster' \subseteq roster
    BY <1>24 DEF BeginFrame
  <2>2. op' = op \/ op'.at # "chant" \/ op'.id \notin over
    BY <1>24 DEF BeginFrame, Idle, Types
  <2>3. \A a \in Agents : Gift(a)
    BY <1>24 DEF BeginFrame, Gift
  <2>4. QED
    BY <2>1, <2>2, <2>3, <1>s, BooksGoOn
<1>25. ASSUME NEW b \in Agents, EndFrame(b)
      PROVE  OverForGood' /\ Told'
  <2>1. UNCHANGED <<chants, over, joined, accept>> /\ roster' \subseteq roster
    BY <1>25 DEF EndFrame
  <2>2. op' = op \/ op'.at # "chant" \/ op'.id \notin over
    BY <1>25 DEF EndFrame, Idle, Types
  <2>g. op.id \in Petitions \union Chants /\ \A a \in Agents : op.id \notin joined[a].over
    <3>1. op.id \in Petitions
      BY <1>25, <1>0 DEF EndFrame, Posts
    <3>2. QED
      BY <3>1, <1>0, <1>o DEF Petitions
  <2>3. \A a \in Agents : Gift(a)
    <3>1. CASE sent' = sent
      BY <3>1 DEF Gift
    <3>2. CASE DeliverEval({b}, op.id)
      BY <2>g, <3>2, EvalDelivered DEF Gift
    <3>3. QED
      BY <1>25, <3>1, <3>2 DEF EndFrame
  <2>4. QED
    BY <2>1, <2>2, <2>3, <1>s, BooksGoOn
<1>26. CASE EndPray
  <2>1. UNCHANGED <<chants, over, joined, accept>> /\ roster' \subseteq roster
    BY <1>26 DEF EndPray
  <2>2. op' = op \/ op'.at # "chant" \/ op'.id \notin over
    BY <1>26 DEF EndPray, Idle, Types
  <2>3. \A a \in Agents : Gift(a)
    BY <1>26 DEF EndPray, Gift
  <2>4. QED
    BY <2>1, <2>2, <2>3, <1>s, BooksGoOn
<1>27. ASSUME NEW p \in pending, Annex(p)
      PROVE  OverForGood' /\ Told'
  <2>1. UNCHANGED <<chants, over, joined, accept>> /\ roster' \subseteq roster
    BY <1>27 DEF Annex
  <2>2. op' = op \/ op'.at # "chant" \/ op'.id \notin over
    BY <1>27 DEF Annex, Idle, Types
  <2>3. \A a \in Agents : Gift(a)
    BY <1>27 DEF Annex, Gift
  <2>4. QED
    BY <2>1, <2>2, <2>3, <1>s, BooksGoOn
<1>28. CASE Eval
  <2>1. UNCHANGED <<chants, over, joined, accept>> /\ roster' \subseteq roster
    BY <1>28 DEF Eval
  <2>2. op' = op \/ op'.at # "chant" \/ op'.id \notin over
    BY <1>28 DEF Eval, Idle, Types
  <2>g. petition \in Petitions \union Chants /\ \A a \in Agents : petition \notin joined[a].over
    <3>1. petition \in Petitions
      BY <1>28, <1>0 DEF Eval, Types, Petitions
    <3>2. QED
      BY <3>1, <1>0, <1>o DEF Petitions
  <2>3. \A a \in Agents : Gift(a)
    <3>1. CASE sent' = sent
      BY <3>1 DEF Gift
    <3>2. CASE DeliverEval(roster, petition)
      BY <2>g, <3>2, EvalDelivered DEF Gift
    <3>3. QED
      BY <1>28, <3>1, <3>2 DEF Eval
  <2>4. QED
    BY <2>1, <2>2, <2>3, <1>s, BooksGoOn
<1>29. ASSUME NEW b \in Agents, GatherRead(b)
      PROVE  OverForGood' /\ Told'
  <2>1. UNCHANGED <<chants, over, joined, accept>> /\ roster' \subseteq roster
    BY <1>29 DEF GatherRead
  <2>2. op' = op \/ op'.at # "chant" \/ op'.id \notin over
    <3>1. op \in Ops /\ op.at = "gather"
      BY <1>29 DEF GatherRead, Types, Ops
    <3>2. op' = op \/ op' = [op EXCEPT !.todo = @ \ {b}]
      BY <1>29 DEF GatherRead
    <3>3. QED
      BY <3>1, <3>2 DEF Ops
  <2>3. \A a \in Agents : Gift(a)
    BY <1>29 DEF GatherRead, Gift
  <2>4. QED
    BY <2>1, <2>2, <2>3, <1>s, BooksGoOn
<1>30. ASSUME NEW b \in Agents, GatherFails(b)
      PROVE  OverForGood' /\ Told'
  <2>1. UNCHANGED <<chants, over, joined, accept>> /\ roster' \subseteq roster
    BY <1>30 DEF GatherFails
  <2>2. op' = op \/ op'.at # "chant" \/ op'.id \notin over
    BY <1>30 DEF GatherFails, Idle, Types
  <2>3. \A a \in Agents : Gift(a)
    BY <1>30 DEF GatherFails, Gift
  <2>4. QED
    BY <2>1, <2>2, <2>3, <1>s, BooksGoOn
<1>31. ASSUME NEW b \in Agents, GatherCut(b)
      PROVE  OverForGood' /\ Told'
  <2>1. UNCHANGED <<chants, over, joined, accept>> /\ roster' \subseteq roster
    BY <1>31 DEF GatherCut
  <2>2. op' = op \/ op'.at # "chant" \/ op'.id \notin over
    BY <1>31 DEF GatherCut, Idle, Types
  <2>3. \A a \in Agents : Gift(a)
    BY <1>31 DEF GatherCut, Gift
  <2>4. QED
    BY <2>1, <2>2, <2>3, <1>s, BooksGoOn
<1>32. ASSUME NEW b \in Agents, Misread(b)
      PROVE  OverForGood' /\ Told'
  <2>1. UNCHANGED <<chants, over, joined, accept>> /\ roster' \subseteq roster
    BY <1>32 DEF Misread
  <2>2. op' = op \/ op'.at # "chant" \/ op'.id \notin over
    BY <1>32 DEF Misread, Idle, Types
  <2>3. \A a \in Agents : Gift(a)
    BY <1>32 DEF Misread, Gift
  <2>4. QED
    BY <2>1, <2>2, <2>3, <1>s, BooksGoOn
<1>33. ASSUME NEW b \in Agents, GatherDies(b)
      PROVE  OverForGood' /\ Told'
  <2>1. UNCHANGED <<chants, over, joined, sent, roster>> /\ op'.at = "exited"
          /\ accept'.at = "ended"
    BY <1>33 DEF GatherDies, Idle, Listening
  <2>2. \A a \in roster : ~Sound(a)'
    BY <1>33 DEF GatherDies, Sound, Types
  <2>3. \A a \in Agents : Gift(a)
    BY <2>1 DEF Gift
  <2>4. QED
    BY <2>1, <2>2, <2>3, BooksGoOn
<1>34. CASE EndGather
  <2>1. UNCHANGED <<chants, over, joined, accept>> /\ roster' \subseteq roster
    BY <1>34 DEF EndGather
  <2>2. op' = op \/ op'.at # "chant" \/ op'.id \notin over
    BY <1>34 DEF EndGather, Idle, Types
  <2>3. \A a \in Agents : Gift(a)
    BY <1>34 DEF EndGather, Gift
  <2>4. QED
    BY <2>1, <2>2, <2>3, <1>s, BooksGoOn
<1>35. ASSUME NEW p \in pending, Forget(p)
      PROVE  OverForGood' /\ Told'
  <2>1. UNCHANGED <<chants, over, joined, accept>> /\ roster' \subseteq roster
    BY <1>35 DEF Forget
  <2>2. op' = op \/ op'.at # "chant" \/ op'.id \notin over
    BY <1>35 DEF Forget, Idle, Types
  <2>3. \A a \in Agents : Gift(a)
    BY <1>35 DEF Forget, Gift
  <2>4. QED
    BY <2>1, <2>2, <2>3, <1>s, BooksGoOn
<1>36. ASSUME NEW c \in Chants, Chant(c)
      PROVE  OverForGood' /\ Told'
  <2>1. UNCHANGED <<chants, over, joined, accept>> /\ roster' \subseteq roster
    BY <1>36 DEF Chant
  <2>2. op' = op \/ op'.at # "chant" \/ op'.id \notin over
    BY <1>36 DEF Chant, Idle, Types
  <2>g. c \in Petitions \union Chants /\ \A a \in Agents : c \notin joined[a].over
    <3>1. c \in Chants \ over
      BY <1>36, <1>0 DEF Chant, OverForGood
    <3>2. QED
      BY <3>1, <1>o
  <2>3. \A a \in Agents : Gift(a)
    <3>1. CASE sent' = sent
      BY <3>1 DEF Gift
    <3>2. CASE DeliverEval(roster, c)
      BY <2>g, <3>2, EvalDelivered DEF Gift
    <3>3. QED
      BY <1>36, <3>1, <3>2 DEF Chant
  <2>4. QED
    BY <2>1, <2>2, <2>3, <1>s, BooksGoOn
<1>37. CASE RecordChant
  <2>1. UNCHANGED <<over, joined, sent, roster, accept>> /\ op'.at = "idle"
          /\ chants' = chants \union {op.id} /\ op.at = "chant"
    BY <1>37 DEF RecordChant, Idle
  <2>2. \A a \in Agents : Given(a)' = Given(a)
    BY <2>1 DEF Given
  <2>3. OverForGood'
    BY <2>1, <2>2 DEF OverForGood
  <2>4. ASSUME NEW a \in roster', Sound(a)'
        PROVE  Owed(a)' \subseteq Promised(a)'
    <3>1. a \in roster /\ a \in Agents /\ Owed(a) \subseteq Promised(a)
      BY <2>1, <2>4, <1>s DEF Told, Types
    <3>2. QED
      BY <2>1, <2>2, <3>1 DEF Owed, Promised
  <2>5. QED
    BY <2>3, <2>4 DEF Told
<1>38. ASSUME NEW c \in Chants, Amen(c)
      PROVE  OverForGood' /\ Told'
  <2>1. /\ UNCHANGED <<op, joined, sent, roster, accept>> /\ op.at = "idle"
        /\ chants' = chants \ {c} /\ over' = over \union {c}
    BY <1>38 DEF Amen
  <2>2. \A a \in Agents : Given(a)' = Given(a)
    BY <2>1 DEF Given
  <2>3. OverForGood'
    BY <2>1, <2>2 DEF OverForGood
  <2>4. ASSUME NEW a \in roster', Sound(a)'
        PROVE  Owed(a)' \subseteq Promised(a)'
    <3>1. a \in roster /\ a \in Agents /\ Owed(a) \subseteq Promised(a)
      BY <2>1, <2>4, <1>s DEF Told, Types
    <3>2. QED
      BY <2>1, <2>2, <3>1 DEF Owed, Promised
  <2>5. QED
    BY <2>3, <2>4 DEF Told
<1>39. ASSUME NEW ids \in SUBSET roster, Excommunicate(ids)
      PROVE  OverForGood' /\ Told'
  <2>1. UNCHANGED <<chants, over, joined, accept>> /\ roster' \subseteq roster
    BY <1>39 DEF Excommunicate
  <2>2. op' = op \/ op'.at # "chant" \/ op'.id \notin over
    BY <1>39 DEF Excommunicate, Idle, Types
  <2>3. \A a \in Agents : Gift(a)
    BY <1>39 DEF Excommunicate, Gift
  <2>4. QED
    BY <2>1, <2>2, <2>3, <1>s, BooksGoOn
<1>40. ASSUME NEW kind \in {"FIRE", "TERMINATE"}, Stress(kind)
      PROVE  OverForGood' /\ Told'
  <2>1. UNCHANGED <<chants, over, joined, accept>> /\ roster' \subseteq roster
    BY <1>40 DEF Stress
  <2>2. op' = op \/ op'.at # "chant" \/ op'.id \notin over
    BY <1>40 DEF Stress, Idle, Types
  <2>3. \A a \in Agents : Gift(a)
    BY <1>40 DEF Stress, Gift
  <2>4. QED
    BY <2>1, <2>2, <2>3, <1>s, BooksGoOn
<1>41. CASE Quit
  <2>1. UNCHANGED <<chants, over, joined, accept>> /\ roster' \subseteq roster
    BY <1>41 DEF Quit
  <2>2. op' = op \/ op'.at # "chant" \/ op'.id \notin over
    BY <1>41 DEF Quit, Idle, Types
  <2>3. \A a \in Agents : Gift(a)
    BY <1>41 DEF Quit, Gift
  <2>4. QED
    BY <2>1, <2>2, <2>3, <1>s, BooksGoOn
<1>42. CASE Wake
  <2>1. UNCHANGED <<chants, over, joined, accept>> /\ roster' \subseteq roster
    BY <1>42 DEF Wake
  <2>2. op' = op \/ op'.at # "chant" \/ op'.id \notin over
    BY <1>42 DEF Wake, Idle, Types
  <2>3. \A a \in Agents : Gift(a)
    BY <1>42 DEF Wake, Gift
  <2>4. QED
    BY <2>1, <2>2, <2>3, <1>s, BooksGoOn
<1>43. CASE Join
  <2>1. UNCHANGED <<chants, over, joined, accept>> /\ roster' \subseteq roster
    BY <1>43 DEF Join
  <2>2. op' = op \/ op'.at # "chant" \/ op'.id \notin over
    BY <1>43 DEF Join, Idle, Types
  <2>3. \A a \in Agents : Gift(a)
    BY <1>43 DEF Join, Gift
  <2>4. QED
    BY <2>1, <2>2, <2>3, <1>s, BooksGoOn
<1>44. CASE UNCHANGED vars
  <2>1. \A a \in Agents : Gift(a)
    BY <1>44 DEF vars, Gift
  <2>2. QED
    BY <1>44, <2>1, <1>s, BooksGoOn DEF vars
<1>45. QED
  BY <1>1, <1>2, <1>3, <1>4, <1>5, <1>6, <1>7, <1>8, <1>9, <1>10, <1>11, <1>12,
     <1>13, <1>14, <1>15, <1>16, <1>17, <1>18, <1>19, <1>20, <1>21, <1>22, <1>23,
     <1>24, <1>25, <1>26, <1>27, <1>28, <1>29, <1>30, <1>31, <1>32, <1>33, <1>34,
     <1>35, <1>36, <1>37, <1>38, <1>39, <1>40, <1>41, <1>42, <1>43, <1>44
  DEF Next, AcceptStep, AgentStep, Command, CommandStep, Finished

LEMMA BooksInitial == Init => OverForGood /\ Told
<1> SUFFICES ASSUME Init PROVE OverForGood /\ Told
  OBVIOUS
<1>1. \A a \in Agents : sent[a] = <<>> /\ joined[a].over = {}
  BY DEF Init
<1>2. chants = {} /\ over = {} /\ roster = {} /\ op.at = "idle" /\ accept.at = "listen"
  BY DEF Init, Idle, Listening
<1>3. OverForGood
  BY <1>1, <1>2 DEF OverForGood
<1>4. Told
  BY <1>2 DEF Told
<1>5. QED
  BY <1>3, <1>4

-----------------------------------------------------------------------------
(* The invariant, and that every run keeps it.                              *)
InOrder ==
  Types /\ Posts /\ Newcomers /\ Numbered /\ Turns /\ OverForGood /\ Told

LEMMA ControllerInductive == Spec => []InOrder
<1>1. Init => InOrder
  BY PostsInitial, NewcomersInitial, TurnsInitial, BooksInitial DEF InOrder
<1>2. InOrder /\ [Next]_vars => InOrder'
  <2> SUFFICES ASSUME InOrder, [Next]_vars PROVE InOrder'
    OBVIOUS
  <2> USE DEF InOrder
  <2>1. Types' /\ Posts'
    BY PostsKept
  <2>2. Newcomers'
    BY NewcomersKept
  <2>3. Numbered'
    BY NumbersKept
  <2>4. Turns'
    BY <2>3, TurnsKept
  <2>5. OverForGood' /\ Told'
    BY BooksKept
  <2>6. QED
    BY <2>1, <2>2, <2>3, <2>4, <2>5
<1>3. QED
  BY <1>1, <1>2, PTL DEF Spec

(* Every variable of the controller keeps its type, and an agent is on the  *)
(* roster only after its hello.                                             *)
THEOREM ControllerTypeCorrect == Spec => []TypeOK
<1>1. InOrder => TypeOK
  BY DEF InOrder, TypeOK, Newcomers, Silent, Types
<1>2. QED
  BY <1>1, ControllerInductive, PTL

(* Results come in the order of the EVALs: whichever petitions and chants   *)
(* were written, whichever reads timed out within a frame, no result is     *)
(* read twice or out of its turn, and none is lost but with one before it.  *)
THEOREM ResultsStayInOrder == Spec => []ResultsInOrder
<1>1. InOrder => ResultsInOrder
  <2> SUFFICES ASSUME InOrder, NEW a \in roster, Whole(a) PROVE InTurn(a)
    BY DEF ResultsInOrder
  <2>1. a \in Agents /\ Sound(a)
    BY DEF InOrder, Types, Whole, Sound
  <2>2. QED
    BY <2>1 DEF InOrder, Turns
<1>2. QED
  BY <1>1, ControllerInductive, PTL

(* An agent that joined is sent every chant that ran then and still does,   *)
(* and none that was over, though the operator starts and stops chants      *)
(* while the accept thread copies and writes them.                          *)
THEOREM JoinersAreTold == Spec => []JoinersGetChants
<1>1. InOrder => JoinersGetChants
  <2> SUFFICES ASSUME InOrder PROVE JoinersGetChants
    OBVIOUS
  <2>1. ASSUME NEW a \in roster, Whole(a), accept.who # a
        PROVE  joined[a].active \ over \subseteq Given(a)
    <3>1. Sound(a)
      BY <2>1 DEF Whole, Sound
    <3>2. QED
      BY <2>1, <3>1 DEF InOrder, Told, Owed, Promised
  <2>2. \A a \in Agents : joined[a].over \cap Given(a) = {}
    BY DEF InOrder, OverForGood
  <2>3. QED
    BY <2>1, <2>2 DEF JoinersGetChants
<1>2. QED
  BY <1>1, ControllerInductive, PTL
=============================================================================
