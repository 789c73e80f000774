--------------------------- MODULE WorkerSession ---------------------------
(***************************************************************************)
(* One slot's session: the SlotSession of src/strykelang/cluster.rs, its   *)
(* response helper thread, the two pipes of the ssh child, and the remote  *)
(* process, run_remote_worker_session of src/strykelang/remote_wire.rs.    *)
(*                                                                         *)
(* Frames are records of a kind and the job they are about (0 for none).   *)
(* The remote worker's block shares stdout with the frames, so a block     *)
(* that prints puts "noise" among them; bytes that are not a frame make    *)
(* the reader fail, or wait for as many bytes as they happen to announce.  *)
(* A name that Controller has too starts with WS here.                     *)
(***************************************************************************)
EXTENDS Naturals, Sequences

CONSTANT MaxCalls   \* jobs the slot hands to this session

ASSUME SessionAssumption == MaxCalls \in Nat

VARIABLES
  slot,     \* where the slot thread is
  calls,    \* JOB frames written
  answers,  \* what run_job returned, answer by answer (history)
  stdin,    \* frames on the way to the worker
  fed,      \* FALSE once the slot dropped its end of stdin
  stdout,   \* frames on the way back
  worker,   \* where the remote process is
  current,  \* the job the worker runs
  helper,   \* where the response helper thread is
  note,     \* what the helper is about to forward
  respq     \* the helper's bounded(1) channel

WSvars == <<slot, calls, answers, stdin, fed, stdout, worker, current, helper,
            note, respq>>

SlotVars   == <<slot, calls, answers>>
WorkerVars == <<worker, current>>
HelperVars == <<helper, note, respq>>

Kinds == {"HELLO", "HELLO_ACK", "SESSION_INIT", "SESSION_ACK", "SESSION_NACK",
          "JOB", "RESP_OK", "RESP_ERR", "SHUTDOWN", "noise"}
WSFrame == [kind : Kinds, job : 0..MaxCalls]
Msg(kind) == [kind |-> kind, job |-> 0]

\* What the helper forwards: a response, or the text of a read error.
ReadError == Msg("noise")

SessionOver == slot \in {"failed", "lost", "dead", "closed"}
Gone        == worker = "exit"

\* The pipe to the worker is broken when the worker is gone; the pipe back
\* is at its end when the worker, or the local ssh child, is gone.
Eof == stdout = <<>> /\ (Gone \/ slot = "dead")

WSInit ==
  /\ slot = "start" /\ calls = 0 /\ answers = <<>>
  /\ stdin = <<>> /\ fed = TRUE /\ stdout = <<>>
  /\ worker = "hello" /\ current = 0
  /\ helper = "none" /\ note = ReadError /\ respq = <<>>

-----------------------------------------------------------------------------
(* Mutants: plausible bugs, put in place of the action each comment names. *)

\* LoseWaiting: the slot goes on with the session after a timeout.
LoseWaitingKeepsSession ==
  /\ slot = "await_resp" /\ respq = <<>>
  /\ slot' = "idle"
  /\ UNCHANGED <<calls, answers, stdin, fed, stdout, WorkerVars, HelperVars>>

\* LoseWaiting: recv instead of recv_timeout.
LoseOnlyWhenClosed ==
  /\ slot = "await_resp" /\ respq = <<>> /\ helper = "gone"
  /\ slot' = "lost"
  /\ UNCHANGED <<calls, answers, stdin, fed, stdout, WorkerVars, HelperVars>>

\* KillSession: the write end of stdin is leaked.
KillKeepsStdin ==
  /\ slot = "lost"
  /\ slot' = "dead"
  /\ UNCHANGED <<calls, answers, stdin, fed, stdout, WorkerVars, HelperVars>>

\* HelperForwards: an unbounded response channel.
HelperForwardsUnbounded ==
  /\ helper = "forward"
  /\ respq' = Append(respq, note)
  /\ helper' = IF note = ReadError THEN "gone" ELSE "read"
  /\ UNCHANGED <<SlotVars, stdin, fed, stdout, WorkerVars, note>>

-----------------------------------------------------------------------------
(* The slot thread: SlotSession::open, run_job, shutdown, kill.            *)

\* Drop of the child handles on a failed open: nobody writes stdin any more.
FailOpen == slot' = "failed" /\ fed' = FALSE

\* Spawn the child and write HELLO; either can fail.
SlotHello ==
  /\ slot = "start"
  /\ \/ /\ slot' = "await_hello_ack"
        /\ stdin' = Append(stdin, Msg("HELLO"))
        /\ UNCHANGED fed
     \/ FailOpen /\ UNCHANGED stdin
  /\ UNCHANGED <<calls, answers, stdout, WorkerVars, HelperVars>>

\* Read HELLO_ACK and write SESSION_INIT.  There is no timeout here.
RecvHelloAck ==
  /\ slot = "await_hello_ack"
  /\ stdout # <<>> \/ Eof
  /\ IF stdout # <<>> /\ Head(stdout).kind = "HELLO_ACK" /\ ~Gone
     THEN /\ slot' = "await_session_ack"
          /\ stdin' = Append(stdin, Msg("SESSION_INIT"))
          /\ UNCHANGED fed
     ELSE FailOpen /\ UNCHANGED stdin
  /\ stdout' = IF stdout = <<>> THEN stdout ELSE Tail(stdout)
  /\ UNCHANGED <<calls, answers, WorkerVars, HelperVars>>

\* Read SESSION_ACK and start the helper thread.
RecvSessionAck ==
  /\ slot = "await_session_ack"
  /\ stdout # <<>> \/ Eof
  /\ IF stdout # <<>> /\ Head(stdout).kind = "SESSION_ACK"
     THEN slot' = "idle" /\ helper' = "read" /\ UNCHANGED fed
     ELSE FailOpen /\ UNCHANGED helper
  /\ stdout' = IF stdout = <<>> THEN stdout ELSE Tail(stdout)
  /\ UNCHANGED <<calls, answers, stdin, WorkerVars, note, respq>>

\* run_job writes JOB.  A pipe known to be broken is a transport error; one
\* whose far end has just gone still takes the frame.
SendJob ==
  /\ slot = "idle"
  /\ calls < MaxCalls
  /\ \/ /\ slot' = "await_resp"
        /\ calls' = calls + 1
        /\ stdin' = Append(stdin, [kind |-> "JOB", job |-> calls + 1])
     \/ Gone /\ slot' = "lost" /\ UNCHANGED <<calls, stdin>>
  /\ UNCHANGED <<answers, fed, stdout, WorkerVars, HelperVars>>

\* resp_rx.recv_timeout: a response, whatever its seq, is this job's answer;
\* a forwarded error is a transport error.
RecvResp ==
  /\ slot = "await_resp"
  /\ respq # <<>>
  /\ IF Head(respq) = ReadError
     THEN slot' = "lost" /\ UNCHANGED answers
     ELSE /\ slot' = "idle"
          /\ answers' = Append(answers, [job |-> Head(respq).job,
                                         ok  |-> Head(respq).kind = "RESP_OK"])
  /\ respq' = Tail(respq)
  /\ UNCHANGED <<calls, stdin, fed, stdout, WorkerVars, helper, note>>

\* The helper is gone and its channel closed, or job_timeout_ms is over.
LoseWaiting ==
  /\ slot = "await_resp"
  /\ respq = <<>>
  /\ slot' = "lost"
  /\ UNCHANGED <<calls, answers, stdin, fed, stdout, WorkerVars, HelperVars>>

\* session.kill, and the drop of the session: both pipes are closed here.
KillSession ==
  /\ slot = "lost"
  /\ slot' = "dead"
  /\ fed' = FALSE
  /\ UNCHANGED <<calls, answers, stdin, stdout, WorkerVars, HelperVars>>

\* session.shutdown: a SHUTDOWN frame if it can be written, then wait for
\* the child before the session is dropped.
SendShutdown ==
  /\ slot = "idle"
  /\ slot' = "closing"
  /\ stdin' = IF Gone THEN stdin ELSE Append(stdin, Msg("SHUTDOWN"))
  /\ UNCHANGED <<calls, answers, fed, stdout, WorkerVars, HelperVars>>

ReapChild ==
  /\ slot = "closing"
  /\ Gone
  /\ slot' = "closed"
  /\ fed' = FALSE
  /\ UNCHANGED <<calls, answers, stdin, stdout, WorkerVars, HelperVars>>

-----------------------------------------------------------------------------
(* The response helper thread: one frame in, one note out.                 *)

\* Bytes that are no frame: an error, or a length that more bytes must fill.
HelperReads ==
  /\ helper = "read"
  /\ stdout # <<>>
  /\ \/ /\ Head(stdout).kind \in {"RESP_OK", "RESP_ERR"}
        /\ helper' = "forward" /\ note' = Head(stdout)
     \/ /\ Head(stdout).kind \notin {"RESP_OK", "RESP_ERR"}
        /\ helper' \in {"forward", "swallow"} /\ note' = ReadError
  /\ stdout' = Tail(stdout)
  /\ UNCHANGED <<SlotVars, stdin, fed, WorkerVars, respq>>

HelperSwallows ==
  /\ helper = "swallow"
  /\ stdout # <<>>
  /\ stdout' = Tail(stdout)
  /\ helper' \in {"swallow", "forward"}
  /\ UNCHANGED <<SlotVars, stdin, fed, WorkerVars, note, respq>>

HelperEof ==
  /\ helper \in {"read", "swallow"}
  /\ Eof
  /\ helper' = "forward" /\ note' = ReadError
  /\ UNCHANGED <<SlotVars, stdin, fed, stdout, WorkerVars, respq>>

\* resp_tx.send: blocks while the one place is taken, fails when the session
\* is dropped.  After an error the thread ends.
HelperForwards ==
  /\ helper = "forward"
  /\ \/ /\ slot \in {"dead", "closed"}
        /\ helper' = "gone" /\ UNCHANGED respq
     \/ /\ slot \notin {"dead", "closed"}
        /\ respq = <<>>
        /\ respq' = Append(respq, note)
        /\ helper' = IF note = ReadError THEN "gone" ELSE "read"
  /\ UNCHANGED <<SlotVars, stdin, fed, stdout, WorkerVars, note>>

-----------------------------------------------------------------------------
(* The remote process: run_remote_worker_session.                          *)

\* A write succeeds while somebody may read; else the process ends.
Reply(kind, job, next) ==
  IF slot \in {"failed", "dead", "closed"}
  THEN worker' = "exit" /\ UNCHANGED stdout
  ELSE worker' = next /\ stdout' = Append(stdout, [kind |-> kind, job |-> job])

WorkerHello ==
  /\ worker = "hello"
  /\ stdin # <<>>
  /\ \/ Reply("HELLO_ACK", 0, "init")
     \/ worker' = "exit" /\ UNCHANGED stdout   \* another protocol version
  /\ stdin' = Tail(stdin)
  /\ UNCHANGED <<SlotVars, fed, current, HelperVars>>

\* Parse and run the prelude; whatever fails there is a nack and an exit.
WorkerInit ==
  /\ worker = "init"
  /\ stdin # <<>>
  /\ \/ Reply("SESSION_ACK", 0, "loop")
     \/ Reply("SESSION_NACK", 0, "exit")
  /\ stdin' = Tail(stdin)
  /\ UNCHANGED <<SlotVars, fed, current, HelperVars>>

\* The head of the JOB loop: a JOB frame, or SHUTDOWN.
WorkerTakes ==
  /\ worker = "loop"
  /\ stdin # <<>>
  /\ IF Head(stdin).kind = "JOB"
     THEN /\ worker' = "run"
          /\ current' = Head(stdin).job
     ELSE worker' = "exit" /\ UNCHANGED current
  /\ stdin' = Tail(stdin)
  /\ UNCHANGED <<SlotVars, fed, stdout, HelperVars>>

\* run_one_session_job: the block's value, or any of its failures.
WorkerResponds ==
  /\ worker = "run"
  /\ \E kind \in {"RESP_OK", "RESP_ERR"} : Reply(kind, current, "loop")
  /\ UNCHANGED <<SlotVars, stdin, fed, current, HelperVars>>

\* The block prints and then its response follows.  One run of noise at a
\* time in the pipe: more of it looks the same to the reader.
WorkerPrints ==
  /\ worker = "run"
  /\ ~SessionOver
  /\ \A i \in DOMAIN stdout : stdout[i].kind # "noise"
  /\ stdout' = Append(stdout, Msg("noise"))
  /\ UNCHANGED <<SlotVars, stdin, fed, WorkerVars, HelperVars>>

WorkerEof ==
  /\ worker \in {"hello", "init", "loop"}
  /\ stdin = <<>> /\ ~fed
  /\ worker' = "exit"
  /\ UNCHANGED <<SlotVars, stdin, fed, stdout, current, HelperVars>>

\* The remote host, the network or the process fails at any moment.
WorkerCrashes ==
  /\ worker # "exit"
  /\ worker' = "exit"
  /\ UNCHANGED <<SlotVars, stdin, fed, stdout, current, HelperVars>>

-----------------------------------------------------------------------------
SlotStep ==
  \/ SlotHello \/ RecvHelloAck \/ RecvSessionAck
  \/ SendJob \/ RecvResp \/ LoseWaiting \/ KillSession
  \/ SendShutdown \/ ReapChild

HelperStep == HelperReads \/ HelperSwallows \/ HelperEof \/ HelperForwards

WorkerStep ==
  \/ WorkerHello \/ WorkerInit \/ WorkerTakes \/ WorkerResponds \/ WorkerEof

\* Everything about the session has ended.
Ended ==
  /\ slot \in {"failed", "dead", "closed"} /\ Gone
  /\ helper \in {"none", "gone"}
  /\ UNCHANGED WSvars

WSNext == SlotStep \/ HelperStep \/ WorkerStep \/ WorkerPrints \/ WorkerCrashes \/ Ended

WSSpec == WSInit /\ [][WSNext]_WSvars

(* Threads are scheduled and recv_timeout's clock runs.  A block ends and a *)
(* healthy worker reads its pipe: the worker's own fairness.                *)
WSFairSpec == WSSpec /\ WF_WSvars(SlotStep) /\ WF_WSvars(HelperStep) /\ WF_WSvars(WorkerStep)

-----------------------------------------------------------------------------
WSTypeOK ==
  /\ slot \in {"start", "await_hello_ack", "await_session_ack", "idle", "await_resp",
               "closing", "failed", "lost", "dead", "closed"}
  /\ calls \in 0..MaxCalls
  /\ answers \in Seq([job : 0..MaxCalls, ok : BOOLEAN])
  /\ stdin \in Seq(WSFrame) /\ fed \in BOOLEAN /\ stdout \in Seq(WSFrame)
  /\ worker \in {"hello", "init", "loop", "run", "exit"}
  /\ current \in 0..MaxCalls
  /\ helper \in {"none", "read", "swallow", "forward", "gone"}
  /\ note \in WSFrame
  /\ respq \in Seq(WSFrame) /\ Len(respq) <= 1

(* The session keeps the contract the dispatcher relies on.  run_job never *)
(* looks at the seq of the response (cluster.rs:483-490), so that an answer *)
(* is the answer to this job rests on a lost session never being used again *)
(* (:287-304).                                                              *)
Contract == INSTANCE SessionContract WITH
  phase <- CASE slot \in {"start", "await_hello_ack", "await_session_ack"} -> "opening"
             [] slot = "idle" -> "idle"
             [] slot = "await_resp" -> "running"
             [] OTHER -> "over"

KeepsContract == Contract!Spec

(* However a session ends, the remote process and the helper thread end     *)
(* too: no orphan keeps running (cluster.rs:493-505, remote_wire.rs:631).   *)
NothingLeftBehind ==
  SessionOver ~> (Gone /\ helper \in {"none", "gone"})

(* run_job always comes back, even when noise leaves the helper waiting for *)
(* bytes that never come (cluster.rs:40-45).                                *)
JobsComeBack == (slot = "await_resp") ~> (slot \in {"idle", "lost"})
=============================================================================
