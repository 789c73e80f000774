------------------------------- MODULE PmapOn -------------------------------
(***************************************************************************)
(* What `pmap_on` promises its caller, whatever the slots do: every job is *)
(* decided at most once, the call does not answer before the map is        *)
(* settled, it answers with the list exactly when every job succeeded, and *)
(* otherwise with an error.  cluster.rs:33-38 and :81-83.                  *)
(***************************************************************************)
EXTENDS Naturals

CONSTANTS
  Slots,      \* every slot a cluster may have
  MaxJobs     \* longest list mapped

VARIABLES
  jobs,       \* sequence numbers of the list being mapped
  pool,       \* slots of the cluster in use
  dead,       \* slots lost to a failure
  verdict,    \* per job: not decided yet, succeeded, failed for good
  answer      \* what the caller got, "none" while it is blocked

vars == <<jobs, pool, dead, verdict, answer>>

Verdicts == {"none", "ok", "err"}

Init ==
  /\ \E n \in 0..MaxJobs : jobs = {j \in 0..MaxJobs : j < n}
  /\ pool \in SUBSET Slots
  /\ dead = {}
  /\ verdict = [j \in jobs |-> "none"]
  /\ answer = "none"

Succeeded == \A j \in jobs : verdict[j] = "ok"

\* Settled: nothing that could still happen would decide another job.
Settled == dead = pool \/ \A j \in jobs : verdict[j] # "none"

Decide(j, v) ==
  /\ answer = "none"
  /\ dead # pool
  /\ verdict[j] = "none"
  /\ verdict' = [verdict EXCEPT ![j] = v]
  /\ UNCHANGED <<jobs, pool, dead, answer>>

SlotDies(s) ==
  /\ answer = "none"
  /\ s \notin dead
  /\ dead' = dead \union {s}
  /\ UNCHANGED <<jobs, pool, verdict, answer>>

Answer ==
  /\ answer = "none"
  /\ Settled
  /\ answer' = IF Succeeded THEN "ok" ELSE "err"
  /\ UNCHANGED <<jobs, pool, dead, verdict>>

Next ==
  \/ \E j \in jobs, v \in Verdicts \ {"none"} : Decide(j, v)
  \/ \E s \in pool : SlotDies(s)
  \/ Answer

Spec == Init /\ [][Next]_vars
=============================================================================
