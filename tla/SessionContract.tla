-------------------------- MODULE SessionContract --------------------------
(***************************************************************************)
(* What a slot thread of the dispatcher relies on, whatever happens at the *)
(* other end of its ssh pipes: the session opens or it does not; each job  *)
(* is answered, by an answer to that very job, or the session is lost; a   *)
(* lost session takes no further job.  Cluster.tla uses a session this way *)
(* (its Open, OpenFails, Take, Report, Lose and SeeShutdown).              *)
(***************************************************************************)
EXTENDS Naturals, Sequences

CONSTANT MaxCalls   \* jobs a session is given

VARIABLES
  phase,    \* "opening", "idle", "running", "over"
  calls,    \* jobs handed to the session so far
  answers   \* per answered job, in order: the job the answer is for, and it

vars == <<phase, calls, answers>>

Init == phase = "opening" /\ calls = 0 /\ answers = <<>>

Open == phase = "opening" /\ phase' = "idle" /\ UNCHANGED <<calls, answers>>

Call ==
  /\ phase = "idle"
  /\ calls < MaxCalls
  /\ phase' = "running"
  /\ calls' = calls + 1
  /\ UNCHANGED answers

Answer(ok) ==
  /\ phase = "running"
  /\ phase' = "idle"
  /\ answers' = Append(answers, [job |-> calls, ok |-> ok])
  /\ UNCHANGED calls

\* Not opened, lost in the middle of a job, or shut down between two jobs.
Over == phase # "over" /\ phase' = "over" /\ UNCHANGED <<calls, answers>>

Next == Open \/ Call \/ (\E ok \in BOOLEAN : Answer(ok)) \/ Over

Spec == Init /\ [][Next]_vars
=============================================================================
