----------------------------- MODULE Controller -----------------------------
(***************************************************************************)
(* The controller of src/strykelang/controller.rs and the agents of        *)
(* agent.rs: an accept thread that shakes hands with one agent after the   *)
(* other, an operator thread (a script's pray, annex, chant, amen and      *)
(* excommunicate, or the REPL's eval, fire, terminate and quit), and       *)
(* agents that answer the frames of their socket in order.                 *)
(*                                                                         *)
(* An EVAL frame carries no request number.  The id in the model's frames  *)
(* numbers the EVALs written to an agent, and a result has that of its     *)
(* EVAL; the code never sees it.                                           *)
(* What one run of the controller is asked to do is chosen at its start    *)
(* and never changes: who may connect, and how many commands are given.    *)
(***************************************************************************)
EXTENDS Naturals, Sequences

CONSTANTS
  Agents,        \* one connection each; stands for its session id too
  TokenHolders,  \* agents that send AGENT_AUTH with a valid token
  Chants,        \* chants the script may start, each once
  Sessions,      \* runs of a controller, see below
  None

\* Agents that may connect, and bounds on pray and eval and on fire and
\* terminate.
Session == [agents : SUBSET Agents, petitions : Nat, stress : Nat]

ASSUME ControllerAssumption ==
  /\ TokenHolders \subseteq Agents
  /\ Sessions \subseteq Session
  /\ None \notin Agents \union {"op", "accept"}
  /\ Chants \cap (Nat \union Agents) = {}

VARIABLES
  session,     \* the bounds of this run
  cloistered,  \* Controller.cloistered, set before agents come
  running,     \* Controller.running
  roster,      \* Controller.agents
  lock,        \* who holds the agents mutex from one step to the next
  chants,      \* Controller.chants
  backlog,     \* connections the listener has not handed out; None wakes it
  accept,      \* the accept thread: where it is, with whom, codes to send
  agent,       \* where each agent is
  terminate,   \* each agent's terminate flag
  to, from,    \* frames on their way to and from each agent
  cut,         \* agents whose frame a read began and gave up (history)
  open,        \* the controller's end of each connection
  op,          \* the operator thread: where it is, petition, agents to do
  pending,     \* pending_divinations: petition number to agents dispatched
  petition,    \* next petition number
  stress,      \* fire and terminate commands given
  sent,        \* the EVALs written to each agent: petitions, chants (history)
  got,         \* results gathered: for which petition, agent, id (history)
  joined,      \* chants running and over when an agent came in (history)
  over         \* chants stopped (history)

vars == <<session, cloistered, running, roster, lock, chants, backlog, accept, agent,
          terminate, to, from, open, op, pending, petition, stress, sent, got,
          joined, over, cut>>

AcceptVars == <<running, backlog, accept>>
AgentVars  == <<agent, terminate>>
OpVars     == <<op, pending, petition, stress>>
Past       == <<session, got, joined, over, cut>>

Frame(kind, id) == [kind |-> kind, id |-> id]

Listening == [at |-> "listen", who |-> None, codes |-> {}]
Idle      == [at |-> "idle", id |-> 0, todo |-> {}, ok |-> {}]

Init ==
  /\ session \in Sessions
  /\ cloistered \in BOOLEAN /\ running = TRUE
  /\ roster = {} /\ lock = None /\ chants = {}
  /\ backlog = <<>> /\ accept = Listening
  /\ agent = [a \in Agents |-> "off"]
  /\ terminate = [a \in Agents |-> FALSE]
  /\ to = [a \in Agents |-> <<>>] /\ from = [a \in Agents |-> <<>>]
  /\ open = [a \in Agents |-> FALSE]
  /\ op = Idle /\ pending = {} /\ petition = 1 /\ stress = 0
  /\ sent = [a \in Agents |-> <<>>]
  /\ got = {} /\ over = {} /\ cut = {}
  /\ joined = [a \in Agents |-> [active |-> {}, over |-> {}]]

\* A write to an agent that has left goes nowhere, and may or may not fail.
Reachable(ids) == {a \in ids : agent[a] # "gone"}

Deliver(ids, f) ==
  to' = [a \in Agents |-> IF a \in Reachable(ids) THEN Append(to[a], f) ELSE to[a]]

DeliverEval(ids, what) ==
  /\ to' = [a \in Agents |-> IF a \in Reachable(ids)
                            THEN Append(to[a], Frame("EVAL", Len(sent[a]) + 1)) ELSE to[a]]
  /\ sent' = [a \in Agents |-> IF a \in Reachable(ids) THEN Append(sent[a], what) ELSE sent[a]]

\* What the operator counts as written: everyone there, perhaps others.
Dispatched(ids) == {d \in SUBSET ids : Reachable(ids) \subseteq d}

\* Both threads are within a frame to this agent: the one that ends first
\* has written a frame with the other's bytes in it.
Meet(a) == op.at = "half" /\ a \in op.todo \cap op.ok /\ accept.at = "half" /\ accept.who = a

-----------------------------------------------------------------------------
(* Mutants: plausible bugs, put in place of the action each comment names. *)

\* ReadHello: does not wait for the hello.
ReadHelloAtOnce ==
  /\ accept.at = "hello"
  /\ accept' = [accept EXCEPT !.at = IF cloistered THEN "auth" ELSE "ack"]
  /\ from' = [from EXCEPT ![accept.who] = IF @ = <<>> THEN @ ELSE Tail(@)]
  /\ UNCHANGED <<cloistered, running, roster, lock, chants, backlog, AgentVars, to, open,
                 OpVars, sent, Past>>

\* Insert: the new agent is not sent the chants that run.
InsertOnly ==
  /\ accept.at = "insert" /\ lock = None
  /\ accept' = Listening
  /\ roster' = roster \union {accept.who}
  /\ joined' = [joined EXCEPT ![accept.who] = [active |-> chants, over |-> over]]
  /\ UNCHANGED <<cloistered, running, lock, chants, backlog, AgentVars, to, from, open,
                 OpVars, session, sent, got, over, cut>>

\* WorkloadEnds: frames that came while it ran are thrown away.
WorkloadEndsFlush(a) ==
  /\ agent[a] = "firing"
  /\ agent' = [agent EXCEPT ![a] = "loop"]
  /\ to' = [to EXCEPT ![a] = <<>>]
  /\ UNCHANGED <<cloistered, AcceptVars, roster, lock, chants, terminate, from, open,
                 OpVars, sent, Past>>

\* Join: connections made after the roster was cleared stay open.
JoinKeepsOpen ==
  /\ op.at = "join" /\ accept.at = "ended"
  /\ op' = [Idle EXCEPT !.at = "exited"]
  /\ UNCHANGED <<cloistered, AcceptVars, roster, lock, chants, AgentVars, to, from, open,
                 pending, petition, stress, sent, Past>>

-----------------------------------------------------------------------------
(* The accept thread.                                                      *)

AcceptTo(place) == accept' = [accept EXCEPT !.at = place]

\* The next connection, unless running was reset before it came.
Accept ==
  /\ accept.at = "listen" /\ backlog # <<>>
  /\ backlog' = Tail(backlog)
  /\ LET a == Head(backlog) IN
       IF running /\ a # None
       THEN accept' = [Listening EXCEPT !.at = "hello", !.who = a]
       ELSE accept' = IF running THEN Listening ELSE [Listening EXCEPT !.at = "ended"]
  /\ UNCHANGED <<cloistered, running, roster, lock, chants, AgentVars, to, from, open,
                 OpVars, sent, Past>>

\* A handshake that fails: the connection is dropped.
Reject(a) ==
  /\ accept' = Listening
  /\ open' = [open EXCEPT ![a] = FALSE]

\* read_frame has no timeout: an agent that says nothing is waited for.
ReadHello ==
  /\ accept.at = "hello"
  /\ LET a == accept.who IN
       \/ /\ from[a] # <<>>
          /\ from' = [from EXCEPT ![a] = Tail(@)]
          /\ AcceptTo(IF cloistered THEN "auth" ELSE "ack")
          /\ UNCHANGED open
       \/ from[a] = <<>> /\ agent[a] = "gone" /\ Reject(a) /\ UNCHANGED from
  /\ UNCHANGED <<cloistered, running, roster, lock, chants, backlog, AgentVars, to,
                 OpVars, sent, Past>>

\* A token within 500 ms, or a refusal.
ReadAuth ==
  /\ accept.at = "auth"
  /\ LET a == accept.who IN
       \/ /\ from[a] # <<>>
          /\ from' = [from EXCEPT ![a] = Tail(@)]
          /\ AcceptTo("ack")
          /\ UNCHANGED <<open, to>>
       \/ /\ from[a] = <<>>
          /\ Reject(a)
          /\ Deliver({a}, Frame("NAK", 0))
          /\ UNCHANGED from
  /\ UNCHANGED <<cloistered, running, roster, lock, chants, backlog, AgentVars, OpVars,
                 sent, Past>>

WriteAck ==
  /\ accept.at = "ack"
  /\ LET a == accept.who IN
       \/ AcceptTo("insert") /\ Deliver({a}, Frame("ACK", 0)) /\ UNCHANGED open
       \/ agent[a] = "gone" /\ Reject(a) /\ UNCHANGED to
  /\ UNCHANGED <<cloistered, running, roster, lock, chants, backlog, AgentVars, from,
                 OpVars, sent, Past>>

Insert ==
  /\ accept.at = "insert" /\ lock = None
  /\ AcceptTo("snapshot")
  /\ roster' = roster \union {accept.who}
  /\ joined' = [joined EXCEPT ![accept.who] = [active |-> chants, over |-> over]]
  /\ UNCHANGED <<cloistered, running, lock, chants, backlog, AgentVars, to, from, open,
                 OpVars, session, sent, got, over, cut>>

\* fire_chants_at: copy the codes under the chants lock ...
Snapshot ==
  /\ accept.at = "snapshot"
  /\ accept' = IF chants = {} THEN Listening
               ELSE [accept EXCEPT !.at = "chants", !.codes = chants]
  /\ UNCHANGED <<cloistered, running, roster, lock, chants, backlog, AgentVars, to, from,
                 open, OpVars, sent, Past>>

\* ... and write them under the agents lock, if the agent is still there.
BeginChants ==
  /\ accept.at = "chants" /\ lock = None
  /\ IF accept.who \in roster
     THEN AcceptTo("write") /\ lock' = "accept"
     ELSE accept' = Listening /\ UNCHANGED lock
  /\ UNCHANGED <<cloistered, running, roster, chants, backlog, AgentVars, to, from, open,
                 OpVars, sent, Past>>

\* One chant, its frame in three writes: half is the state within it.
WriteChant ==
  /\ accept.at = "write" /\ accept.codes # {}
  /\ AcceptTo("half")
  /\ UNCHANGED <<cloistered, running, roster, lock, chants, backlog, AgentVars, to, from,
                 open, OpVars, sent, Past>>

ChantWritten ==
  /\ accept.at = "half"
  /\ \E c \in accept.codes :
       /\ IF Meet(accept.who)
          THEN Deliver({accept.who}, Frame("torn", 0)) /\ UNCHANGED sent
          ELSE DeliverEval({accept.who}, c)
       /\ accept' = [accept EXCEPT !.at = "write", !.codes = @ \ {c}]
  /\ UNCHANGED <<cloistered, running, roster, lock, chants, backlog, AgentVars, from,
                 open, OpVars, Past>>

EndChants ==
  /\ accept.at = "write" /\ accept.codes = {}
  /\ accept' = Listening /\ lock' = None
  /\ UNCHANGED <<cloistered, running, roster, chants, backlog, AgentVars, to, from, open,
                 OpVars, sent, Past>>

AcceptStep ==
  \/ Accept \/ ReadHello \/ ReadAuth \/ WriteAck \/ Insert \/ Snapshot
  \/ BeginChants \/ WriteChant \/ ChantWritten \/ EndChants

-----------------------------------------------------------------------------
(* The agents.                                                             *)

AgentTo(a, place) == agent' = [agent EXCEPT ![a] = place]

Answer(a, f) == from' = [from EXCEPT ![a] = IF open[a] THEN Append(@, f) ELSE @]

\* The process that listens is there until the operator has quit.
Connect(a) ==
  /\ a \in session.agents /\ agent[a] = "off" /\ op.at # "exited"
  /\ AgentTo(a, "hello")
  /\ backlog' = Append(backlog, a)
  /\ open' = [open EXCEPT ![a] = TRUE]
  /\ UNCHANGED <<cloistered, running, roster, lock, chants, accept, terminate, to, from,
                 OpVars, sent, Past>>

SendHello(a) ==
  /\ agent[a] = "hello"
  /\ AgentTo(a, IF a \in TokenHolders THEN "auth" ELSE "wait")
  /\ Answer(a, Frame("AGENT_HELLO", 0))
  /\ UNCHANGED <<cloistered, AcceptVars, roster, lock, chants, terminate, to, open,
                 OpVars, sent, Past>>

SendAuth(a) ==
  /\ agent[a] = "auth"
  /\ AgentTo(a, "wait")
  /\ Answer(a, Frame("AGENT_AUTH", 0))
  /\ UNCHANGED <<cloistered, AcceptVars, roster, lock, chants, terminate, to, open,
                 OpVars, sent, Past>>

\* The answer to the hello, for which the agent waits 100 ms.
ReadAck(a) ==
  /\ agent[a] = "wait"
  /\ \/ /\ to[a] # <<>>
        /\ to' = [to EXCEPT ![a] = Tail(@)]
        /\ AgentTo(a, IF Head(to[a]).kind = "ACK" THEN "loop" ELSE "gone")
     \/ to[a] = <<>> /\ AgentTo(a, "gone") /\ UNCHANGED to
  /\ UNCHANGED <<cloistered, AcceptVars, roster, lock, chants, terminate, from, open,
                 OpVars, sent, Past>>

NextIs(a, kind) == agent[a] = "loop" /\ to[a] # <<>> /\ Head(to[a]).kind = kind

HandleEval(a) ==
  /\ NextIs(a, "EVAL")
  /\ to' = [to EXCEPT ![a] = Tail(@)]
  /\ Answer(a, Frame("EVAL_RESULT", Head(to[a]).id))
  /\ UNCHANGED <<cloistered, AcceptVars, roster, lock, chants, AgentVars, open, OpVars,
                 sent, Past>>

\* The workload's thread is joined at once: no frame is read until it ends.
HandleFire(a) ==
  /\ NextIs(a, "FIRE")
  /\ to' = [to EXCEPT ![a] = Tail(@)]
  /\ AgentTo(a, "firing")
  /\ terminate' = [terminate EXCEPT ![a] = FALSE]
  /\ UNCHANGED <<cloistered, AcceptVars, roster, lock, chants, from, open, OpVars, sent,
                 Past>>

\* Its duration is over, or the flag is set.
WorkloadEnds(a) ==
  /\ agent[a] = "firing"
  /\ AgentTo(a, "loop")
  /\ Answer(a, Frame("METRICS", 0))
  /\ UNCHANGED <<cloistered, AcceptVars, roster, lock, chants, terminate, to, open,
                 OpVars, sent, Past>>

HandleTerminate(a) ==
  /\ NextIs(a, "TERMINATE")
  /\ to' = [to EXCEPT ![a] = Tail(@)]
  /\ terminate' = [terminate EXCEPT ![a] = TRUE]
  /\ Answer(a, Frame("TERM_ACK", 0))
  /\ UNCHANGED <<cloistered, AcceptVars, roster, lock, chants, agent, open, OpVars, sent,
                 Past>>

HandleShutdown(a) ==
  /\ NextIs(a, "SHUTDOWN")
  /\ to' = [to EXCEPT ![a] = Tail(@)]
  /\ AgentTo(a, "gone")
  /\ terminate' = [terminate EXCEPT ![a] = TRUE]
  /\ UNCHANGED <<cloistered, AcceptVars, roster, lock, chants, from, open, OpVars, sent,
                 Past>>

\* Two frames run into each other: a length that is none.  The agent fails,
\* or waits for bytes that never come.
HandleTorn(a) ==
  /\ NextIs(a, "torn")
  /\ to' = [to EXCEPT ![a] = Tail(@)]
  /\ AgentTo(a, "gone") \/ AgentTo(a, "stuck")
  /\ UNCHANGED <<cloistered, AcceptVars, roster, lock, chants, terminate, from, open,
                 OpVars, sent, Past>>

\* End of the stream.
Disconnected(a) ==
  /\ ~open[a]
  /\ \/ agent[a] \in {"hello", "auth", "stuck"}
     \/ agent[a] = "loop" /\ to[a] = <<>>
  /\ AgentTo(a, "gone")
  /\ UNCHANGED <<cloistered, AcceptVars, roster, lock, chants, terminate, to, from, open,
                 OpVars, sent, Past>>

Dies(a) ==
  /\ agent[a] \notin {"off", "gone"}
  /\ AgentTo(a, "gone")
  /\ UNCHANGED <<cloistered, AcceptVars, roster, lock, chants, terminate, to, from, open,
                 OpVars, sent, Past>>

AgentStep(a) ==
  \/ SendHello(a) \/ SendAuth(a) \/ ReadAck(a) \/ HandleEval(a) \/ HandleFire(a)
  \/ HandleTerminate(a) \/ HandleShutdown(a) \/ HandleTorn(a) \/ Disconnected(a)

-----------------------------------------------------------------------------
(* The operator thread: pray, annex, amen.                                 *)

\* scatter copies the streams under the lock and writes without it.
Pray(ids) ==
  /\ op.at = "idle" /\ lock = None
  /\ petition <= session.petitions /\ petition' = petition + 1
  /\ op' = [at |-> "scatter", id |-> petition, todo |-> ids \cap roster, ok |-> {}]
  /\ UNCHANGED <<cloistered, AcceptVars, roster, lock, chants, AgentVars, to, from, open,
                 pending, stress, sent, Past>>

\* The agent a frame is being written to is the one of todo and ok at once.
BeginFrame(a) ==
  /\ op.at = "scatter" /\ a \in op.todo
  /\ op' = [op EXCEPT !.at = "half", !.ok = @ \union {a}]
  /\ UNCHANGED <<cloistered, AcceptVars, roster, lock, chants, AgentVars, to, from, open,
                 pending, petition, stress, sent, Past>>

EndFrame(a) ==
  /\ op.at = "half" /\ a \in op.todo \cap op.ok
  /\ IF Meet(a) THEN Deliver({a}, Frame("torn", 0)) /\ UNCHANGED sent
                ELSE DeliverEval({a}, op.id)
  /\ \E d \in Dispatched({a}) :
       op' = [op EXCEPT !.at = "scatter", !.todo = @ \ {a}, !.ok = (@ \ {a}) \union d]
  /\ UNCHANGED <<cloistered, AcceptVars, roster, lock, chants, AgentVars, from, open,
                 pending, petition, stress, Past>>

EndPray ==
  /\ op.at = "scatter" /\ op.todo = {}
  /\ pending' = pending \union {[id |-> op.id, agents |-> op.ok]}
  /\ op' = Idle
  /\ UNCHANGED <<cloistered, AcceptVars, roster, lock, chants, AgentVars, to, from, open,
                 petition, stress, sent, Past>>

\* gather holds the lock until every agent has answered or failed to.
Annex(p) ==
  /\ op.at = "idle" /\ lock = None
  /\ pending' = pending \ {p}
  /\ lock' = "op"
  /\ op' = [at |-> "gather", id |-> p.id, todo |-> p.agents \cap roster, ok |-> {}]
  /\ UNCHANGED <<cloistered, AcceptVars, roster, chants, AgentVars, to, from, open,
                 petition, stress, sent, Past>>

\* eval_all writes to the whole roster and gathers, under one lock.
Eval ==
  /\ op.at = "idle" /\ lock = None /\ roster # {}
  /\ petition <= session.petitions /\ petition' = petition + 1
  /\ lock' = "op"
  /\ DeliverEval(roster, petition)
  /\ \E d \in Dispatched(roster) :
       op' = [at |-> "gather", id |-> petition, todo |-> d, ok |-> {}]
  /\ UNCHANGED <<cloistered, AcceptVars, roster, chants, AgentVars, from, open, pending,
                 stress, Past>>

\* The first EVAL_RESULT is the answer; any other frame is skipped.
GatherRead(a) ==
  /\ op.at = "gather" /\ a \in op.todo
  /\ from[a] # <<>> /\ Head(from[a]).kind # "rest"
  /\ LET f == Head(from[a]) IN
       IF f.kind = "EVAL_RESULT"
       THEN /\ got' = got \union {[petition |-> op.id, agent |-> a, id |-> f.id]}
            /\ op' = [op EXCEPT !.todo = @ \ {a}]
       ELSE UNCHANGED <<got, op>>
  /\ from' = [from EXCEPT ![a] = Tail(@)]
  /\ UNCHANGED <<cloistered, AcceptVars, roster, lock, chants, AgentVars, to, open,
                 pending, petition, stress, session, sent, joined, over, cut>>

\* The read times out, or finds the connection closed.
GatherFails(a) ==
  /\ op.at = "gather" /\ a \in op.todo /\ from[a] = <<>>
  /\ op' = [op EXCEPT !.todo = @ \ {a}]
  /\ UNCHANGED <<cloistered, AcceptVars, roster, lock, chants, AgentVars, to, from, open,
                 pending, petition, stress, sent, Past>>

\* The read times out within a frame: read_exact has taken its beginning.
GatherCut(a) ==
  /\ op.at = "gather" /\ a \in op.todo
  /\ from[a] # <<>> /\ Head(from[a]).kind # "rest"
  /\ from' = [from EXCEPT ![a] = <<Frame("rest", 0)>> \o Tail(@)]
  /\ cut' = cut \union {a}
  /\ op' = [op EXCEPT !.todo = @ \ {a}]
  /\ UNCHANGED <<session, cloistered, AcceptVars, roster, lock, chants, AgentVars, to, open,
                 pending, petition, stress, sent, got, joined, over>>

\* The rest of a frame is read for a length.  The read takes what has come,
\* to the end of a frame or not, and fails or passes over it as a stale frame.
Misread(a) ==
  /\ op.at = "gather" /\ a \in op.todo
  /\ from[a] # <<>> /\ Head(from[a]).kind = "rest"
  /\ \E n \in 1..Len(from[a]), whole \in BOOLEAN :
       LET after == SubSeq(from[a], n + 1, Len(from[a])) IN
       from' = [from EXCEPT ![a] = IF whole THEN after ELSE <<Frame("rest", 0)>> \o after]
  /\ \/ op' = [op EXCEPT !.todo = @ \ {a}]
     \/ op' = op /\ Len(from'[a]) < Len(from[a])
  /\ UNCHANGED <<cloistered, AcceptVars, roster, lock, chants, AgentVars, to, open,
                 pending, petition, stress, sent, Past>>

\* A length beyond what can be allocated ends the process and its connections.
GatherDies(a) ==
  /\ op.at = "gather" /\ a \in op.todo
  /\ from[a] # <<>> /\ Head(from[a]).kind = "rest"
  /\ op' = [Idle EXCEPT !.at = "exited"]
  /\ accept' = [Listening EXCEPT !.at = "ended"]
  /\ open' = [b \in Agents |-> FALSE]
  /\ UNCHANGED <<cloistered, running, backlog, roster, lock, chants, AgentVars, to, from,
                 pending, petition, stress, sent, Past>>

EndGather ==
  /\ op.at = "gather" /\ op.todo = {}
  /\ op' = Idle /\ lock' = None
  /\ UNCHANGED <<cloistered, AcceptVars, roster, chants, AgentVars, to, from, open,
                 pending, petition, stress, sent, Past>>

\* amen on a petition: nobody will read its answers.
Forget(p) ==
  /\ op.at = "idle"
  /\ pending' = pending \ {p}
  /\ UNCHANGED <<cloistered, AcceptVars, roster, lock, chants, AgentVars, to, from, open,
                 op, petition, stress, sent, Past>>

-----------------------------------------------------------------------------
(* chant, amen on a chant, excommunicate, fire, terminate, quit.           *)

Chant(c) ==
  /\ op.at = "idle" /\ lock = None
  /\ c \notin chants \union over
  /\ roster # {}
  /\ DeliverEval(roster, c)
  /\ op' = [Idle EXCEPT !.at = "chant", !.id = c]
  /\ UNCHANGED <<cloistered, AcceptVars, roster, lock, chants, AgentVars, from, open,
                 pending, petition, stress, Past>>

RecordChant ==
  /\ op.at = "chant"
  /\ chants' = chants \union {op.id}
  /\ op' = Idle
  /\ UNCHANGED <<cloistered, AcceptVars, roster, lock, AgentVars, to, from, open, pending,
                 petition, stress, sent, Past>>

Amen(c) ==
  /\ op.at = "idle" /\ c \in chants
  /\ chants' = chants \ {c} /\ over' = over \union {c}
  /\ UNCHANGED <<cloistered, AcceptVars, roster, lock, AgentVars, to, from, open, OpVars,
                 session, sent, got, joined, cut>>

Excommunicate(ids) ==
  /\ op.at = "idle" /\ lock = None
  /\ Deliver(ids, Frame("SHUTDOWN", 0))
  /\ roster' = roster \ ids
  /\ open' = [a \in Agents |-> open[a] /\ a \notin ids]
  /\ UNCHANGED <<cloistered, AcceptVars, lock, chants, AgentVars, from, OpVars, sent, Past>>

\* fire_all and terminate_all.
Stress(kind) ==
  /\ op.at = "idle" /\ lock = None
  /\ stress < session.stress /\ stress' = stress + 1
  /\ Deliver(roster, Frame(kind, 0))
  /\ UNCHANGED <<cloistered, AcceptVars, roster, lock, chants, AgentVars, from, open, op,
                 pending, petition, sent, Past>>

\* shutdown_all.
Quit ==
  /\ op.at = "idle" /\ lock = None
  /\ Deliver(roster, Frame("SHUTDOWN", 0))
  /\ open' = [a \in Agents |-> open[a] /\ a \notin roster]
  /\ roster' = {} /\ running' = FALSE
  /\ op' = [Idle EXCEPT !.at = "wake"]
  /\ UNCHANGED <<cloistered, lock, chants, backlog, accept, AgentVars, from, pending,
                 petition, stress, sent, Past>>

\* Connect to the listener, to wake the accept thread.
Wake ==
  /\ op.at = "wake"
  /\ op' = [Idle EXCEPT !.at = "join"]
  /\ backlog' = Append(backlog, None)
  /\ UNCHANGED <<cloistered, running, roster, lock, chants, accept, AgentVars, to, from,
                 open, pending, petition, stress, sent, Past>>

\* The accept thread has ended; so does the process, with its connections.
Join ==
  /\ op.at = "join" /\ accept.at = "ended"
  /\ op' = [Idle EXCEPT !.at = "exited"]
  /\ open' = [a \in Agents |-> FALSE]
  /\ UNCHANGED <<cloistered, AcceptVars, roster, lock, chants, AgentVars, to, from,
                 pending, petition, stress, sent, Past>>

Command ==
  \/ \E ids \in SUBSET roster : ids # {} /\ (Pray(ids) \/ Excommunicate(ids))
  \/ Eval \/ Quit
  \/ \E p \in pending : Annex(p) \/ Forget(p)
  \/ \E c \in Chants : Chant(c) \/ Amen(c)
  \/ \E kind \in {"FIRE", "TERMINATE"} : Stress(kind)

CommandStep ==
  \/ \E a \in Agents : BeginFrame(a) \/ EndFrame(a) \/ GatherRead(a) \/ GatherFails(a)
                      \/ GatherCut(a) \/ Misread(a) \/ GatherDies(a)
  \/ EndPray \/ EndGather \/ RecordChant \/ Wake \/ Join

Finished ==
  /\ op.at = "exited" /\ \A a \in Agents : agent[a] \in {"off", "gone"}
  /\ UNCHANGED vars

Next ==
  \/ AcceptStep
  \/ \E a \in Agents : Connect(a) \/ AgentStep(a) \/ WorkloadEnds(a) \/ Dies(a)
  \/ Command \/ CommandStep
  \/ Finished

Spec == Init /\ [][Next]_vars

(* Threads finish what they are in, agents say hello and go on with what    *)
(* comes, and a workload that finds its flag set ends; its duration may be  *)
(* longer than anybody waits, and no command need ever come.                *)
FairSpec ==
  /\ Spec
  /\ WF_vars(AcceptStep) /\ WF_vars(CommandStep)
  /\ \A a \in Agents : WF_vars(AgentStep(a)) /\ WF_vars(terminate[a] /\ WorkloadEnds(a))

\* As FairSpec, and durations are short.
ShortSpec == FairSpec /\ \A a \in Agents : WF_vars(WorkloadEnds(a))

-----------------------------------------------------------------------------
AgentStates == {"off", "hello", "auth", "wait", "loop", "firing", "stuck", "gone"}
AcceptStates == {"listen", "hello", "auth", "ack", "insert", "snapshot", "chants",
                 "write", "half", "ended"}
OpStates == {"idle", "scatter", "half", "gather", "chant", "wake", "join", "exited"}
FrameKinds == {"AGENT_HELLO", "AGENT_AUTH", "ACK", "NAK", "EVAL", "EVAL_RESULT", "FIRE",
               "METRICS", "TERMINATE", "TERM_ACK", "SHUTDOWN", "torn", "rest"}
Frames == [kind : FrameKinds, id : Nat]
Petitions == 1..session.petitions

Types ==
  /\ session \in Sessions /\ cut \subseteq Agents
  /\ cloistered \in BOOLEAN /\ running \in BOOLEAN
  /\ roster \subseteq Agents /\ chants \subseteq Chants /\ over \subseteq Chants
  /\ lock \in {"op", "accept", None}
  /\ backlog \in Seq(Agents \union {None})
  /\ accept \in [at : AcceptStates, who : Agents \union {None}, codes : SUBSET Chants]
  /\ agent \in [Agents -> AgentStates] /\ terminate \in [Agents -> BOOLEAN]
  /\ open \in [Agents -> BOOLEAN]
  /\ to \in [Agents -> Seq(Frames)] /\ from \in [Agents -> Seq(Frames)]
  /\ sent \in [Agents -> Seq(Petitions \union Chants)]
  /\ joined \in [Agents -> [active : SUBSET Chants, over : SUBSET Chants]]
  /\ op \in [at : OpStates, id : 0..session.petitions \union Chants, todo : SUBSET Agents,
             ok : SUBSET Agents]
  /\ pending \subseteq [id : Petitions, agents : SUBSET Agents]
  /\ petition \in 1..(session.petitions + 1) /\ stress \in 0..session.stress
  /\ got \subseteq [petition : Petitions, agent : Agents, id : Nat]

\* An agent is on the roster once it has said hello.
TypeOK == Types /\ \A a \in roster : agent[a] \notin {"off", "hello"}

Whole(a) == agent[a] \in {"loop", "firing"} /\ open[a] /\ \A i \in DOMAIN to[a] : to[a][i].kind # "torn"

Given(a) == {sent[a][i] : i \in DOMAIN sent[a]}

Ids(frames, kind) == {frames[i].id : i \in {j \in DOMAIN frames : frames[j].kind = kind}}

Rising(frames, kind) ==
  \A i, j \in DOMAIN frames :
    i < j /\ frames[i].kind = kind /\ frames[j].kind = kind => frames[i].id < frames[j].id

Below(S, T) == \A m \in S, n \in T : m < n

(* Numbers of EVALs: those whose result is on its way from a, those on      *)
(* their way to it, and those whose result was read.                        *)
Results(a) == Ids(from[a], "EVAL_RESULT")
Evals(a)   == Ids(to[a], "EVAL")
Ahead(a)   == Results(a) \union Evals(a)
Read(a)    == {r.id : r \in {x \in got : x.agent = a}}
Written(a) == 1..Len(sent[a])

InTurn(a) ==
  /\ Rising(from[a], "EVAL_RESULT") /\ Rising(to[a], "EVAL") /\ Below(Results(a), Evals(a))
  /\ Below(Read(a), Ahead(a)) /\ Read(a) \union Ahead(a) \subseteq Written(a)
  /\ Below(Written(a) \ Ahead(a), Ahead(a))
  /\ a \notin cut => Written(a) \subseteq Read(a) \union Ahead(a)

(* Every EVAL written to an agent that is there is waiting to be run, has   *)
(* its result waiting to be read, or has had it read, and the results come  *)
(* in the order of the EVALs (agent.rs:651-767, controller.rs:811-833).     *)
(* What is read is the oldest result there, whichever petition reads it.    *)
(* A read that times out within a frame loses results and no more: none is  *)
(* lost behind one that is left, and what is read afterwards was not read   *)
(* before and is not out of its turn.                                       *)
ResultsInOrder == \A a \in roster : Whole(a) => InTurn(a)

(* An agent that joined has, once the accept thread is done with it, got    *)
(* every chant that was running then and still is, and never gets one that  *)
(* was over, though the accept thread writes them from a copy               *)
(* (controller.rs:219-266, 868-876).                                        *)
JoinersGetChants ==
  /\ \A a \in roster : Whole(a) /\ accept.who # a => joined[a].active \ over \subseteq Given(a)
  /\ \A a \in Agents : joined[a].over \cap Given(a) = {}

-----------------------------------------------------------------------------
(* Quitting ends with every thread and every agent gone, also when an agent *)
(* was in its handshake and never saw SHUTDOWN, or a read left a connection *)
(* within a frame, if those that connected say hello and workloads end      *)
(* (controller.rs:462-472, 817, 963-973).                                   *)
QuitEndsAll ==
  op.at \in {"wake", "join", "exited"} ~>
    op.at = "exited" /\ \A a \in Agents : agent[a] \in {"off", "gone"}
============================================================================
