------------------------- MODULE ParPipelineProofs -------------------------
(***************************************************************************)
(* For every number of stages and workers, every capacity and every set of *)
(* failing bodies:                                                         *)
(*   the error answered is the one a body died of (RealErrors),            *)
(*   what is answered is what the stages kept (KeptItemsAnswered), by      *)
(*     par_pipeline_stream once each (EveryItemOnce),                      *)
(*   and by ~s> in the order of the source (SourceOrder), each as often    *)
(*     as the stages emitted it (AnswerAsExpected).                        *)
(*                                                                         *)
(* The argument for the first: as long as the error slot is empty, a       *)
(* worker can only have left because its input ended, that is, because     *)
(* every thread before it had left; so a thread that finds its receivers   *)
(* gone while it still has something to send finds the slot taken.  The    *)
(* others follow the items: StepMoves says that a step moves at most one,  *)
(* by one place, and Laid cuts the expected answer into the stretches that *)
(* are out, with a worker, in a channel and with the source.               *)
(***************************************************************************)
EXTENDS ParPipeline, SequenceTheorems, FiniteSetTheorems, WellFoundedInduction, TLAPS

PCs == {"recv", "check", "body", "emit", "gone"}

Shape ==
    /\ form \in Forms
    /\ fails \subseteq Bodies
    /\ spc \in {"pull", "send", "gone"}
    /\ wpc \in [Team -> PCs]

\* Only a stage with a next one sends.
SendersHaveNext == \A w \in Team : wpc[w] = "emit" => Stage(w) + 1 \in Stages

\* Without an error, a worker leaves only at the end of its input.
LeaveInOrder ==
    err = None => \A w \in Team : wpc[w] = "gone" => SendersGone(Stage(w))

IInv == Shape /\ SendersHaveNext /\ LeaveInOrder /\ OnlyRealErrors

-----------------------------------------------------------------------------

\* The call is frozen, and with it the threads and the bodies.
LEMMA FormStays == [Next]_vars => form' = form
BY DEF Next, Work, SourcePull, SourceSend, Recv, EndOfInput, Check, Body, Emit,
       Returned, vars, program

LEMMA SameCall ==
    ASSUME form' = form
    PROVE  Team' = Team /\ Bodies' = Bodies
BY DEF Team, Bodies, Items, Stages

LEMMA NotABody ==
    ASSUME form \in Forms
    PROVE  None \notin Bodies /\ Closed \notin Bodies /\ Closed # None
<1>1. form.items \in Nat /\ K \in Nat
  BY PipelineAssumption DEF Form
<1>2. Bodies \subseteq Nat \X Nat
  BY <1>1 DEF Bodies, Items
<1> QED BY <1>2, PipelineAssumption

\* A worker is a pair whose first half is its stage.
LEMMA TeamStage ==
    ASSUME NEW w \in Team
    PROVE  Stage(w) \in Stages
<1>1. PICK s \in Stages : w \in {s} \X (1 .. form.workers[s])
  BY DEF Team
<1> QED BY <1>1 DEF Stage

\* Every stage has a worker (parse_args: workers are at least 1).
LEMMA StageHasWorker ==
    ASSUME NEW s \in Stages, form \in Forms
    PROVE  <<s, 1>> \in Team /\ Stage(<<s, 1>>) = s
<1>1. form.workers[s] \in Nat \ {0}
  BY PipelineAssumption DEF Form
<1>2. <<s, 1>> \in {s} \X (1 .. form.workers[s])
  BY <1>1
<1> QED BY <1>2 DEF Team, Stage

\* A stage whose receivers are gone has a worker that is.
LEMMA GoneWitness ==
    ASSUME NEW s \in Stages, ReceiversGone(s), form \in Forms
    PROVE  \E w \in Team : Stage(w) = s /\ wpc[w] = "gone"
BY StageHasWorker DEF ReceiversGone

\* Threads do not come back, so ends of input last.
LEMMA GoneStays ==
    ASSUME form' = form,
           spc = "gone" => spc' = "gone",
           \A w \in Team : wpc[w] = "gone" => wpc'[w] = "gone",
           NEW s \in Stages, SendersGone(s)
    PROVE  SendersGone(s)'
BY DEF SendersGone, ReceiversGone, Team, Stage

\* When the slot is empty, the receivers of a busy sender are there: the
\* source's (par_pipeline.rs:213) and a worker's (par_pipeline.rs:165).
LEMMA SourceIsReceived ==
    ASSUME IInv, err = None, spc = "send"
    PROVE  ~ReceiversGone(1)
<1>1. 1 \in Stages
  BY PipelineAssumption DEF Stages
<1>2. SUFFICES ASSUME ReceiversGone(1) PROVE FALSE
  OBVIOUS
<1>3. PICK w \in Team : Stage(w) = 1 /\ wpc[w] = "gone"
  BY <1>1, <1>2, GoneWitness DEF IInv, Shape
<1>4. SendersGone(1)
  BY <1>3 DEF IInv, LeaveInOrder
<1> QED BY <1>4 DEF SendersGone

LEMMA WorkerIsReceived ==
    ASSUME IInv, err = None, NEW w \in Team, wpc[w] = "emit"
    PROVE  ~ReceiversGone(Stage(w) + 1)
<1>1. Stage(w) \in Stages /\ Stage(w) + 1 \in Stages
  BY TeamStage DEF IInv, SendersHaveNext
<1>2. SUFFICES ASSUME ReceiversGone(Stage(w) + 1) PROVE FALSE
  OBVIOUS
<1>3. PICK v \in Team : Stage(v) = Stage(w) + 1 /\ wpc[v] = "gone"
  BY <1>1, <1>2, GoneWitness DEF IInv, Shape
<1>4. SendersGone(Stage(w) + 1)
  BY <1>3 DEF IInv, LeaveInOrder
<1>5. Stage(w) + 1 # 1 /\ (Stage(w) + 1) - 1 = Stage(w)
  BY <1>1 DEF Stages
<1>6. ReceiversGone(Stage(w))
  BY <1>4, <1>5 DEF SendersGone
<1> QED BY <1>6 DEF ReceiversGone

-----------------------------------------------------------------------------

LEMMA InitIInv == Init => IInv
<1> SUFFICES ASSUME Init PROVE IInv
  OBVIOUS
<1>1. fails \subseteq Bodies
  BY DEF Init, Bodies, Stages
<1>2. wpc = [w \in Team |-> "recv"] /\ err = None /\ spc = "pull" /\ form \in Forms
  BY DEF Init
<1>3. Shape
  BY <1>1, <1>2 DEF Shape, PCs
<1>4. SendersHaveNext /\ LeaveInOrder
  BY <1>2 DEF SendersHaveNext, LeaveInOrder
<1>5. OnlyRealErrors
  BY <1>2, PipelineAssumption DEF OnlyRealErrors
<1> QED BY <1>3, <1>4, <1>5 DEF IInv

\* What every step that does not end a thread out of order keeps.
LEMMA KeepsOrder ==
    ASSUME IInv,
           form' = form,
           Shape', SendersHaveNext',
           spc = "gone" => spc' = "gone",
           \A w \in Team : wpc[w] = "gone" => wpc'[w] = "gone",
           err' = None => err = None,
           err' = None => \A w \in Team : wpc'[w] = "gone" =>
                              wpc[w] = "gone" \/ SendersGone(Stage(w)),
           err' # Closed
    PROVE  IInv'
<1>1. ASSUME err' = None, NEW w \in Team, wpc'[w] = "gone"
      PROVE  SendersGone(Stage(w))'
  <2>1. SendersGone(Stage(w))
    BY <1>1 DEF IInv, LeaveInOrder
  <2>2. Stage(w) \in Stages
    BY TeamStage
  <2> QED BY <2>1, <2>2, GoneStays
<1>2. LeaveInOrder'
  BY <1>1, SameCall DEF LeaveInOrder, Stage
<1> QED BY <1>2 DEF IInv, OnlyRealErrors

LEMMA NextIInv == IInv /\ [Next]_vars => IInv'
<1> SUFFICES ASSUME IInv, [Next]_vars PROVE IInv'
  OBVIOUS
<1> USE DEF Shape, PCs
<1>t. Shape /\ SendersHaveNext /\ err # Closed
  BY DEF IInv, OnlyRealErrors
<1>a. None \notin Bodies /\ Closed \notin Bodies /\ Closed # None
  BY <1>t, NotABody
<1>f. form' = form
  BY FormStays
<1>g. Team' = Team /\ Bodies' = Bodies
  BY <1>f, SameCall
<1>1. CASE SourcePull
  <2>1. wpc' = wpc /\ fails' = fails
    BY <1>1 DEF SourcePull, program
  <2>2. spc' \in {"pull", "send", "gone"} /\ spc # "gone"
    BY <1>1 DEF SourcePull
  <2>3. err' = err \/ err' \in Bodies
    BY <1>1, <1>t DEF SourcePull, SetErr
  <2>4. err' = None => err = None
    BY <2>3, <1>a
  <2>5. err' # Closed
    BY <2>3, <1>a, <1>t
  <2>6. Shape' /\ SendersHaveNext'
    BY <2>1, <2>2, <1>t, <1>f, <1>g DEF SendersHaveNext, Stages
  <2> QED BY <2>1, <2>2, <2>4, <2>5, <2>6, <1>f, KeepsOrder
<1>2. CASE SourceSend
  <2>1. wpc' = wpc /\ fails' = fails
    BY <1>2 DEF SourceSend, program
  <2>2. spc' \in {"pull", "gone"} /\ spc = "send"
    BY <1>2 DEF SourceSend
  <2>3. err' = err
    <3>1. CASE ReceiversGone(1)
      <4>1. err # None
        BY <2>2, <3>1, SourceIsReceived
      <4> QED BY <1>2, <3>1, <4>1 DEF SourceSend, SetErr
    <3>2. CASE ~ReceiversGone(1)
      BY <1>2, <3>2 DEF SourceSend
    <3> QED BY <3>1, <3>2
  <2>4. Shape' /\ SendersHaveNext'
    BY <2>1, <2>2, <1>t, <1>f, <1>g DEF SendersHaveNext, Stages
  <2> QED BY <2>1, <2>2, <2>3, <2>4, <1>t, <1>f, KeepsOrder
<1>3. ASSUME NEW w \in Team, Recv(w) PROVE IInv'
  <2>1. err' = err /\ spc' = spc /\ fails' = fails
    BY <1>3 DEF Recv, program
  <2>2. wpc' = [wpc EXCEPT ![w] = "check"] /\ wpc[w] = "recv"
    BY <1>3 DEF Recv
  <2>3. Shape'
    BY <2>1, <2>2, <1>t, <1>f, <1>g
  <2>4. SendersHaveNext'
    BY <2>1, <2>2, <1>t, <1>g DEF SendersHaveNext, Stages
  <2>5. \A v \in Team : (wpc[v] = "gone") <=> (wpc'[v] = "gone")
    BY <2>2, <1>t
  <2> QED BY <2>1, <2>3, <2>4, <2>5, <1>t, <1>f, KeepsOrder
<1>4. ASSUME NEW w \in Team, EndOfInput(w) PROVE IInv'
  <2>1. err' = err /\ spc' = spc /\ fails' = fails
    BY <1>4 DEF EndOfInput, program
  <2>2. wpc' = [wpc EXCEPT ![w] = "gone"] /\ SendersGone(Stage(w))
    BY <1>4 DEF EndOfInput, Leave
  <2>3. Shape'
    BY <2>1, <2>2, <1>t, <1>f, <1>g
  <2>4. SendersHaveNext'
    BY <2>1, <2>2, <1>t, <1>g DEF SendersHaveNext, Stages
  <2>5. \A v \in Team : /\ wpc[v] = "gone" => wpc'[v] = "gone"
                        /\ wpc'[v] = "gone" => wpc[v] = "gone" \/ SendersGone(Stage(v))
    BY <2>2, <1>t
  <2> QED BY <2>1, <2>3, <2>4, <2>5, <1>t, <1>f, KeepsOrder
<1>5. ASSUME NEW w \in Team, Check(w) PROVE IInv'
  <2>1. err' = err /\ spc' = spc /\ fails' = fails
    BY <1>5 DEF Check, program
  <2>2. wpc' = [wpc EXCEPT ![w] = IF err # None THEN "gone" ELSE "body"]
        /\ wpc[w] = "check"
    BY <1>5 DEF Check, Leave
  <2>3. Shape'
    BY <2>1, <2>2, <1>t, <1>f, <1>g
  <2>4. SendersHaveNext'
    BY <2>1, <2>2, <1>t, <1>g DEF SendersHaveNext, Stages
  <2>5. \A v \in Team : /\ wpc[v] = "gone" => wpc'[v] = "gone"
                        /\ err = None /\ wpc'[v] = "gone" => wpc[v] = "gone"
    BY <2>2, <1>t
  <2> QED BY <2>1, <2>3, <2>4, <2>5, <1>t, <1>f, KeepsOrder
<1>6. ASSUME NEW w \in Team, Body(w) PROVE IInv'
  <2>1. spc' = spc /\ fails' = fails /\ wpc[w] = "body"
    BY <1>6 DEF Body, program
  <2>2. CASE <<Stage(w), held[w]>> \in fails
    <3>1. wpc' = [wpc EXCEPT ![w] = "gone"] /\ SetErr(<<Stage(w), held[w]>>)
      BY <1>6, <2>2 DEF Body, Leave
    <3>2. err' # None /\ err' # Closed
      BY <3>1, <2>2, <1>t, <1>a DEF SetErr
    <3>3. Shape'
      BY <2>1, <3>1, <1>t, <1>f, <1>g
    <3>4. SendersHaveNext'
      BY <2>1, <3>1, <1>t, <1>g DEF SendersHaveNext, Stages
    <3>5. \A v \in Team : wpc[v] = "gone" => wpc'[v] = "gone"
      BY <3>1, <1>t
    <3> QED BY <2>1, <3>2, <3>3, <3>4, <3>5, <1>f, KeepsOrder
  <2>3. CASE <<Stage(w), held[w]>> \notin fails
    <3>1. err' = err
      BY <1>6, <2>3 DEF Body
    <3>2. wpc' = [wpc EXCEPT ![w] =
                     IF Stage(w) = K \/ yields[<<Stage(w), held[w]>>] = 0
                     THEN "recv" ELSE "emit"]
      BY <1>6, <2>3 DEF Body
    <3>3. Shape'
      BY <2>1, <3>2, <1>t, <1>f, <1>g
    <3>4. Stage(w) \in Stages /\ (Stage(w) # K => Stage(w) + 1 \in Stages)
      BY TeamStage, PipelineAssumption DEF Stages
    <3>5. SendersHaveNext'
      <4> SUFFICES ASSUME NEW v \in Team, wpc'[v] = "emit"
                   PROVE  Stage(v) + 1 \in Stages
        BY <1>g DEF SendersHaveNext, Stages
      <4>1. CASE v = w
        BY <4>1, <3>2, <3>4, <1>t
      <4>2. CASE v # w
        BY <4>2, <3>2, <1>t DEF SendersHaveNext
      <4> QED BY <4>1, <4>2
    <3>6. \A v \in Team : (wpc[v] = "gone") <=> (wpc'[v] = "gone")
      BY <3>2, <2>1, <1>t
    <3> QED BY <2>1, <3>1, <3>3, <3>5, <3>6, <1>t, <1>f, KeepsOrder
  <2> QED BY <2>2, <2>3
<1>7. ASSUME NEW w \in Team, Emit(w) PROVE IInv'
  <2>1. spc' = spc /\ fails' = fails /\ wpc[w] = "emit"
    BY <1>7 DEF Emit, program
  <2>2. CASE ReceiversGone(Stage(w) + 1)
    <3>1. err # None
      BY <2>1, <2>2, WorkerIsReceived
    <3>2. err' = err /\ wpc' = [wpc EXCEPT ![w] = "gone"]
      BY <1>7, <2>2, <3>1 DEF Emit, SetErr, Leave
    <3>3. Shape'
      BY <2>1, <3>2, <1>t, <1>f, <1>g
    <3>4. SendersHaveNext'
      BY <2>1, <3>2, <1>t, <1>g DEF SendersHaveNext, Stages
    <3>5. \A v \in Team : wpc[v] = "gone" => wpc'[v] = "gone"
      BY <3>2, <1>t
    <3> QED BY <2>1, <3>1, <3>2, <3>3, <3>4, <3>5, <1>t, <1>f, KeepsOrder
  <2>3. CASE ~ReceiversGone(Stage(w) + 1)
    <3>1. err' = err
      BY <1>7, <2>3 DEF Emit
    <3>2. wpc' = [wpc EXCEPT ![w] = IF left[w] = 1 THEN "recv" ELSE "emit"]
      BY <1>7, <2>3 DEF Emit
    <3>3. Shape'
      BY <2>1, <3>2, <1>t, <1>f, <1>g
    <3>4. SendersHaveNext'
      <4> SUFFICES ASSUME NEW v \in Team, wpc'[v] = "emit"
                   PROVE  Stage(v) + 1 \in Stages
        BY <1>g DEF SendersHaveNext, Stages
      <4>1. wpc[v] = "emit"
        BY <3>2, <2>1, <1>t
      <4> QED BY <4>1, <1>t DEF SendersHaveNext
    <3>5. \A v \in Team : (wpc[v] = "gone") <=> (wpc'[v] = "gone")
      BY <3>2, <2>1, <1>t
    <3> QED BY <2>1, <3>1, <3>3, <3>4, <3>5, <1>t, <1>f, KeepsOrder
  <2> QED BY <2>2, <2>3
<1>8. CASE UNCHANGED vars
  <2>1. UNCHANGED <<form, fails, spc, wpc, err>>
    BY <1>8 DEF vars, program
  <2>2. Shape' /\ SendersHaveNext'
    BY <2>1, <1>t, <1>g DEF SendersHaveNext, Stages
  <2> QED BY <2>1, <2>2, <1>t, <1>f, KeepsOrder
<1>9. CASE Returned
  BY <1>8, <1>9 DEF Returned
<1> QED
  BY <1>1, <1>2, <1>3, <1>4, <1>5, <1>6, <1>7, <1>8, <1>9 DEF Next, Work

\* The error a pipeline answers is always the one a body died of: no thread
\* reports "downstream closed" or "first stage stopped" (par_pipeline.rs:168,
\* 216, 389) while the slot is empty.
THEOREM RealErrors == Spec => []OnlyRealErrors
<1>1. IInv => OnlyRealErrors
  BY DEF IInv
<1> QED BY InitIInv, NextIInv, <1>1, PTL DEF Spec

\* No thread replaces the first error, whichever body it came from.
THEOREM FirstErrorIsKept == Spec => FirstErrorStays
<1>1. [Next]_vars => [err # None => err' = err]_err
  <2> SUFFICES ASSUME [Next]_vars, err # None PROVE err' = err
    OBVIOUS
  <2>1. CASE SourcePull
    BY <2>1 DEF SourcePull, SetErr
  <2>2. CASE SourceSend
    BY <2>2 DEF SourceSend, SetErr
  <2>3. ASSUME NEW w \in Team, Work(w) PROVE err' = err
    BY <2>3 DEF Work, Recv, EndOfInput, Check, Body, Emit, SetErr
  <2>4. CASE UNCHANGED vars
    BY <2>4 DEF vars
  <2> QED BY <2>1, <2>2, <2>3, <2>4 DEF Next, Returned
<1> QED BY <1>1, PTL DEF Spec, FirstErrorStays

-----------------------------------------------------------------------------
(* Types.  A thread that is past a receive has an item in its hands, one    *)
(* that emits has something left to emit, and the source sends only items   *)
(* there are.                                                               *)
InHands ==
    /\ spc = "send" => next <= form.items
    /\ \A w \in Team : wpc[w] \in {"check", "body", "emit"} => held[w] \in Items
    /\ \A w \in Team : wpc[w] = "emit" => left[w] # 0

Typed == TypeOK /\ InHands

LEMMA FormType ==
    ASSUME form \in Forms
    PROVE  /\ form.items \in Nat /\ form.emits \in Nat \ {0}
           /\ K \in Nat \ {0} /\ Cap \in Nat \ {0} /\ 1 \in Stages
BY PipelineAssumption DEF Form, Stages

LEMMA InitTyped == Init => Typed
<1> SUFFICES ASSUME Init PROVE Typed
  OBVIOUS
<1>1. form \in Forms /\ fails \subseteq Bodies
  BY InitIInv DEF IInv, Shape
<1>2. /\ form.items \in Nat /\ form.emits \in Nat \ {0} /\ Cap \in Nat
  BY <1>1, FormType
<1>3. yields \in [Stages \X Items -> 0 .. form.emits]
  BY <1>2 DEF Init
<1>4. chan \in [Stages -> Seq(Items)] /\ \A s \in Stages : Len(chan[s]) <= Cap
  BY <1>2, EmptySeq DEF Init
<1>5. out \in Seq(Items)
  BY EmptySeq DEF Init
<1>6. /\ next \in 1 .. form.items + 1 /\ spc = "pull" /\ wpc = [w \in Team |-> "recv"]
      /\ held = [w \in Team |-> None] /\ left = [w \in Team |-> 0] /\ err = None
  BY <1>2 DEF Init
<1>7. TypeOK
  BY <1>1, <1>2, <1>3, <1>4, <1>5, <1>6 DEF TypeOK
<1> QED BY <1>6, <1>7 DEF Typed, InHands

\* What a worker's step leaves alone, and what it may do to its own item.
LEMMA WorkerTyped ==
    ASSUME Typed, form' = form, UNCHANGED <<fails, yields, next, spc>>,
           NEW w \in Team,
           NEW place \in {"recv", "check", "body", "emit", "gone"},
           wpc' = [wpc EXCEPT ![w] = place],
           \/ held' = held
           \/ \E i \in Items \cup {None} : held' = [held EXCEPT ![w] = i],
           \/ left' = left
           \/ \E n \in 0 .. form.emits : left' = [left EXCEPT ![w] = n],
           place \in {"check", "body", "emit"} => held'[w] \in Items,
           place = "emit" => left'[w] # 0,
           chan' \in [Stages -> Seq(Items)], \A s \in Stages : Len(chan'[s]) <= Cap,
           err' \in Bodies \cup {None, Closed},
           out' \in Seq(Items)
    PROVE  Typed'
<1>1. Team' = Team /\ Bodies' = Bodies /\ Items' = Items
  BY SameCall DEF Items
<1>2. wpc' \in [Team -> {"recv", "check", "body", "emit", "gone"}]
  BY DEF Typed, TypeOK
<1>3. held' \in [Team -> Items \cup {None}]
  BY DEF Typed, TypeOK
<1>4. left' \in [Team -> 0 .. form.emits]
  BY DEF Typed, TypeOK
<1>5. TypeOK'
  BY <1>1, <1>2, <1>3, <1>4 DEF Typed, TypeOK
<1>6. \A v \in Team : wpc'[v] \in {"check", "body", "emit"} => held'[v] \in Items
  BY DEF Typed, TypeOK, InHands
<1>7. \A v \in Team : wpc'[v] = "emit" => left'[v] # 0
  BY DEF Typed, TypeOK, InHands
<1> QED BY <1>1, <1>5, <1>6, <1>7 DEF Typed, InHands

LEMMA SendTyped ==
    ASSUME Typed, NEW s \in Stages, Len(chan[s]) < Cap, NEW i \in Items,
           chan' = [chan EXCEPT ![s] = Append(@, i)]
    PROVE  chan' \in [Stages -> Seq(Items)] /\ \A r \in Stages : Len(chan'[r]) <= Cap
<1>1. chan[s] \in Seq(Items) /\ Len(chan[s]) \in Nat /\ Cap \in Nat
  BY FormType, LenProperties DEF Typed, TypeOK
<1>2. Append(chan[s], i) \in Seq(Items) /\ Len(Append(chan[s], i)) = Len(chan[s]) + 1
  BY <1>1, AppendProperties
<1>3. Len(Append(chan[s], i)) <= Cap
  BY <1>1, <1>2
<1> QED BY <1>2, <1>3 DEF Typed, TypeOK

LEMMA NextTyped == IInv /\ Typed /\ [Next]_vars => Typed'
<1> SUFFICES ASSUME IInv, Typed, [Next]_vars PROVE Typed'
  OBVIOUS
<1>f. form' = form /\ form \in Forms
  BY FormStays DEF Typed, TypeOK
<1>g. Team' = Team /\ Bodies' = Bodies /\ Items' = Items /\ Items = 1 .. form.items
  BY <1>f, SameCall DEF Items
<1>t. /\ form.items \in Nat /\ form.emits \in Nat /\ Cap \in Nat /\ 1 \in Stages
      /\ next \in 1 .. form.items + 1
      /\ err \in Bodies \cup {None, Closed} /\ fails \subseteq Bodies /\ out \in Seq(Items)
      /\ chan \in [Stages -> Seq(Items)] /\ \A s \in Stages : Len(chan[s]) <= Cap
      /\ wpc \in [Team -> {"recv", "check", "body", "emit", "gone"}]
      /\ held \in [Team -> Items \cup {None}] /\ left \in [Team -> 0 .. form.emits]
      /\ yields \in [Stages \X Items -> 0 .. form.emits]
  BY <1>f, FormType DEF Typed, TypeOK
<1>1. CASE SourcePull
  <2>1. UNCHANGED <<fails, yields, chan, next, wpc, held, left, out>>
    BY <1>1 DEF SourcePull, program
  <2>2. spc' = "gone" \/ (spc' = "send" /\ next # form.items + 1)
    BY <1>1 DEF SourcePull
  <2>3. err' \in Bodies \cup {None, Closed}
    BY <1>1, <1>t DEF SourcePull, SetErr
  <2>4. TypeOK'
    BY <2>1, <2>2, <2>3, <1>f, <1>g DEF Typed, TypeOK
  <2>5. InHands'
    BY <2>1, <2>2, <1>f, <1>g, <1>t DEF Typed, InHands
  <2> QED BY <2>4, <2>5 DEF Typed
<1>2. CASE SourceSend
  <2>1. UNCHANGED <<fails, yields, wpc, held, left, out>>
    BY <1>2 DEF SourceSend, program
  <2>2. err' \in Bodies \cup {None, Closed}
    BY <1>2, <1>t DEF SourceSend, SetErr
  <2>3. next \in Items
    BY <1>2, <1>g, <1>t DEF SourceSend, Typed, InHands
  <2>4. /\ spc' \in {"pull", "gone"} /\ next' \in 1 .. form.items + 1
        /\ chan' \in [Stages -> Seq(Items)] /\ \A s \in Stages : Len(chan'[s]) <= Cap
    <3>1. CASE ReceiversGone(1)
      BY <1>2, <1>t, <3>1 DEF SourceSend
    <3>2. CASE ~ReceiversGone(1)
      <4>1. /\ Len(chan[1]) < Cap /\ chan' = [chan EXCEPT ![1] = Append(@, next)]
            /\ next' = next + 1 /\ spc' = "pull"
        BY <1>2, <3>2 DEF SourceSend
      <4>2. chan' \in [Stages -> Seq(Items)] /\ \A s \in Stages : Len(chan'[s]) <= Cap
        BY <1>t, <2>3, <4>1, SendTyped
      <4> QED BY <1>g, <1>t, <2>3, <4>1, <4>2
    <3> QED BY <3>1, <3>2
  <2>5. TypeOK'
    BY <2>1, <2>2, <2>4, <1>f, <1>g DEF Typed, TypeOK
  <2>6. InHands'
    BY <2>1, <2>4, <1>f, <1>g DEF Typed, InHands
  <2> QED BY <2>5, <2>6 DEF Typed
<1>3. ASSUME NEW w \in Team, Recv(w) PROVE Typed'
  <2> DEFINE s == Stage(w)
  <2>0. s \in Stages
    BY TeamStage
  <2>1. /\ UNCHANGED <<fails, yields, next, spc, left, err, out>>
        /\ held' = [held EXCEPT ![w] = Head(chan[s])]
        /\ chan' = [chan EXCEPT ![s] = Tail(@)] /\ chan[s] # <<>>
        /\ wpc' = [wpc EXCEPT ![w] = "check"]
    BY <1>3 DEF Recv, program
  <2>2. /\ chan[s] \in Seq(Items) /\ Head(chan[s]) \in Items /\ Tail(chan[s]) \in Seq(Items)
        /\ Len(Tail(chan[s])) = Len(chan[s]) - 1 /\ Len(chan[s]) \in Nat
    BY <1>t, <2>0, <2>1, HeadTailProperties, LenProperties
  <2>3. chan' \in [Stages -> Seq(Items)] /\ \A r \in Stages : Len(chan'[r]) <= Cap
    BY <1>t, <2>0, <2>1, <2>2
  <2>4. held'[w] \in Items
    BY <1>t, <2>1, <2>2
  <2> QED BY <1>f, <1>t, <2>1, <2>2, <2>3, <2>4, WorkerTyped
<1>4. ASSUME NEW w \in Team, Leave(w), UNCHANGED <<form, fails, yields, chan, next, spc, out>>,
             err' \in Bodies \cup {None, Closed}
      PROVE  Typed'
  <2>1. /\ wpc' = [wpc EXCEPT ![w] = "gone"] /\ held' = [held EXCEPT ![w] = None]
        /\ left' = [left EXCEPT ![w] = 0]
    BY <1>4 DEF Leave
  <2>2. 0 \in 0 .. form.emits
    BY <1>t
  <2> QED BY <1>4, <1>t, <2>1, <2>2, WorkerTyped
<1>5. ASSUME NEW w \in Team, EndOfInput(w) PROVE Typed'
  BY <1>4, <1>5, <1>t DEF EndOfInput, program
<1>6. ASSUME NEW w \in Team, Check(w) PROVE Typed'
  <2>1. CASE err # None
    BY <1>4, <1>6, <1>t, <2>1 DEF Check, program
  <2>2. CASE err = None
    <3>1. /\ UNCHANGED <<fails, yields, chan, next, spc, held, left, err, out>>
          /\ wpc' = [wpc EXCEPT ![w] = "body"] /\ wpc[w] = "check"
      BY <1>6, <2>2 DEF Check, program
    <3>2. held'[w] \in Items
      BY <3>1 DEF Typed, InHands
    <3> QED BY <1>f, <1>t, <3>1, <3>2, WorkerTyped
  <2> QED BY <2>1, <2>2
<1>7. ASSUME NEW w \in Team, Body(w) PROVE Typed'
  <2> DEFINE s == Stage(w)
             i == held[w]
             n == yields[<<s, i>>]
  <2>0. s \in Stages /\ i \in Items /\ n \in 0 .. form.emits
    <3>1. wpc[w] = "body"
      BY <1>7 DEF Body
    <3>2. s \in Stages /\ i \in Items
      BY <3>1, TeamStage DEF Typed, InHands
    <3> QED BY <1>t, <3>2
  <2>1. CASE <<s, i>> \in fails
    <3>1. SetErr(<<s, i>>) /\ Leave(w) /\ UNCHANGED <<form, fails, yields, chan, next, spc, out>>
      BY <1>7, <2>1 DEF Body, program
    <3>2. err' \in Bodies \cup {None, Closed}
      BY <1>t, <2>1, <3>1 DEF SetErr
    <3> QED BY <1>4, <3>1, <3>2
  <2>2. CASE <<s, i>> \notin fails
    <3>1. /\ out' = IF s = K THEN out \o Copies(i, n) ELSE out
          /\ left' = [left EXCEPT ![w] = IF s = K THEN 0 ELSE n]
          /\ wpc' = [wpc EXCEPT ![w] = IF s = K \/ n = 0 THEN "recv" ELSE "emit"]
          /\ UNCHANGED <<fails, yields, chan, next, spc, held, err>>
      BY <1>7, <2>2 DEF Body, program
    <3>2. Copies(i, n) \in Seq(Items)
      <4>1. n \in Nat
        BY <1>t, <2>0
      <4> QED BY <2>0, <4>1 DEF Copies
    <3>3. out' \in Seq(Items)
      BY <1>t, <3>1, <3>2, ConcatProperties
    <3> DEFINE m == IF s = K THEN 0 ELSE n
               place == IF s = K \/ n = 0 THEN "recv" ELSE "emit"
    <3>4. m \in 0 .. form.emits /\ place \in {"recv", "emit"} /\ (place = "emit" => m # 0)
      BY <1>t, <2>0
    <3>5. left' = [left EXCEPT ![w] = m] /\ wpc' = [wpc EXCEPT ![w] = place]
      BY <3>1
    <3>6. left'[w] = m /\ held'[w] \in Items
      BY <1>t, <2>0, <3>1, <3>5
    <3> HIDE DEF m, place
    <3>7. place \in {"recv", "check", "body", "emit", "gone"}
      BY <3>4
    <3> QED BY <1>f, <1>t, <3>1, <3>3, <3>4, <3>5, <3>6, <3>7, WorkerTyped
  <2> QED BY <2>1, <2>2
<1>8. ASSUME NEW w \in Team, Emit(w) PROVE Typed'
  <2> DEFINE s == Stage(w)
  <2>0. /\ wpc[w] = "emit" /\ s + 1 \in Stages /\ held[w] \in Items
        /\ left[w] \in 0 .. form.emits /\ left[w] # 0
    BY <1>8, <1>t DEF Emit, IInv, SendersHaveNext, Typed, InHands
  <2>1. CASE ReceiversGone(s + 1)
    <3>1. SetErr(Closed) /\ Leave(w) /\ UNCHANGED <<form, fails, yields, chan, next, spc, out>>
      BY <1>8, <2>1 DEF Emit, program
    <3>2. err' \in Bodies \cup {None, Closed}
      BY <1>t, <3>1 DEF SetErr
    <3> QED BY <1>4, <3>1, <3>2
  <2>2. CASE ~ReceiversGone(s + 1)
    <3>1. /\ Len(chan[s + 1]) < Cap /\ chan' = [chan EXCEPT ![s + 1] = Append(@, held[w])]
          /\ left' = [left EXCEPT ![w] = left[w] - 1]
          /\ wpc' = [wpc EXCEPT ![w] = IF left[w] = 1 THEN "recv" ELSE "emit"]
          /\ UNCHANGED <<fails, yields, next, spc, held, err, out>>
      BY <1>8, <2>2 DEF Emit, program
    <3>2. chan' \in [Stages -> Seq(Items)] /\ \A r \in Stages : Len(chan'[r]) <= Cap
      BY <2>0, <3>1, SendTyped
    <3> DEFINE m == left[w] - 1
               place == IF left[w] = 1 THEN "recv" ELSE "emit"
    <3>3. m \in 0 .. form.emits /\ place \in {"recv", "emit"} /\ (place = "emit" => m # 0)
      BY <1>t, <2>0
    <3>4. left' = [left EXCEPT ![w] = m] /\ wpc' = [wpc EXCEPT ![w] = place]
      BY <3>1
    <3>5. left'[w] = m /\ held'[w] \in Items
      BY <1>t, <2>0, <3>1, <3>4
    <3> HIDE DEF m, place
    <3>6. place \in {"recv", "check", "body", "emit", "gone"}
      BY <3>3
    <3> QED BY <1>f, <1>t, <3>1, <3>2, <3>3, <3>4, <3>5, <3>6, WorkerTyped
  <2> QED BY <2>1, <2>2
<1>9. CASE UNCHANGED vars
  <2>1. UNCHANGED <<form, fails, yields, chan, next, spc, wpc, held, left, err, out>>
    BY <1>9 DEF vars, program
  <2> QED BY <2>1, <1>g DEF Typed, TypeOK, InHands
<1> QED
  BY <1>1, <1>2, <1>3, <1>5, <1>6, <1>7, <1>8, <1>9 DEF Next, Work, Returned

\* Every variable keeps its type; no channel is ever over its capacity, and
\* no thread sends or processes an item it does not have.
THEOREM TypeCorrect == Spec => []TypeOK
<1>1. Typed => TypeOK
  BY DEF Typed
<1> QED BY InitIInv, NextIInv, InitTyped, NextTyped, <1>1, PTL DEF Spec

-----------------------------------------------------------------------------
\* The ends of a channel.
LEMMA Appended ==
    ASSUME NEW S, NEW q \in Seq(S), NEW e \in S
    PROVE  /\ Range(Append(q, e)) = Range(q) \cup {e}
           /\ IsInjective(q) /\ e \notin Range(q) => IsInjective(Append(q, e))
<1>1. /\ Append(q, e) \in Seq(S) /\ Len(Append(q, e)) = Len(q) + 1
      /\ \A i \in 1 .. Len(q) : Append(q, e)[i] = q[i]
      /\ Append(q, e)[Len(q) + 1] = e
  BY AppendProperties
<1>2. /\ Len(q) \in Nat /\ DOMAIN q = 1 .. Len(q)
      /\ DOMAIN Append(q, e) = 1 .. (Len(q) + 1)
  BY <1>1, LenProperties
<1>3. /\ \A i \in 1 .. (Len(q) + 1) : i \in 1 .. Len(q) \/ i = Len(q) + 1
      /\ Len(q) + 1 \in 1 .. (Len(q) + 1) /\ 1 .. Len(q) \subseteq 1 .. (Len(q) + 1)
  BY <1>2
<1>4. Range(Append(q, e)) = Range(q) \cup {e}
  BY <1>1, <1>2, <1>3 DEF Range
<1>5. ASSUME IsInjective(q), e \notin Range(q)
      PROVE  IsInjective(Append(q, e))
  BY <1>1, <1>2, <1>3, <1>5 DEF IsInjective, Range
<1> QED BY <1>4, <1>5

LEMMA Taken ==
    ASSUME NEW S, NEW q \in Seq(S), q # <<>>
    PROVE  /\ Head(q) \in Range(q) /\ Range(Tail(q)) \subseteq Range(q)
           /\ Range(q) \subseteq Range(Tail(q)) \cup {Head(q)}
           /\ IsInjective(q) => IsInjective(Tail(q)) /\ Head(q) \notin Range(Tail(q))
<1>1. /\ Tail(q) \in Seq(S) /\ Len(Tail(q)) = Len(q) - 1 /\ Head(q) = q[1]
      /\ \A i \in 1 .. Len(Tail(q)) : Tail(q)[i] = q[i + 1]
  BY HeadTailProperties
<1>2. Len(q) \in Nat /\ Len(q) # 0 /\ DOMAIN q = 1 .. Len(q)
  BY LenProperties, EmptySeq
<1>3. DOMAIN Tail(q) = 1 .. (Len(q) - 1)
  BY <1>1, LenProperties
<1>4. /\ 1 \in 1 .. Len(q)
      /\ \A i \in 1 .. (Len(q) - 1) : i + 1 \in 1 .. Len(q) /\ i + 1 # 1
      /\ \A i \in 1 .. Len(q) : i = 1 \/ (i - 1 \in 1 .. (Len(q) - 1) /\ i = (i - 1) + 1)
  BY <1>2
<1>5. Head(q) \in Range(q)
  BY <1>1, <1>2, <1>4 DEF Range
<1>6. \A k \in DOMAIN Tail(q) : Tail(q)[k] = q[k + 1] /\ k + 1 \in DOMAIN q /\ k + 1 # 1
  BY <1>1, <1>2, <1>3, <1>4
<1>7. Range(Tail(q)) \subseteq Range(q)
  BY <1>6 DEF Range
<1>8. ASSUME NEW k \in DOMAIN q
      PROVE  q[k] \in Range(Tail(q)) \cup {Head(q)}
  <2>1. CASE k = 1
    BY <1>1, <2>1
  <2>2. CASE k # 1
    <3>1. k - 1 \in DOMAIN Tail(q) /\ k = (k - 1) + 1
      BY <1>2, <1>3, <1>4, <2>2
    <3>2. Tail(q)[k - 1] = q[k]
      BY <1>6, <3>1
    <3> QED BY <3>1, <3>2 DEF Range
  <2> QED BY <2>1, <2>2
<1>9. ASSUME IsInjective(q)
      PROVE  IsInjective(Tail(q)) /\ Head(q) \notin Range(Tail(q))
  <2>1. ASSUME NEW a \in DOMAIN Tail(q), NEW b \in DOMAIN Tail(q), Tail(q)[a] = Tail(q)[b]
        PROVE  a = b
    <3>1. a + 1 = b + 1
      BY <1>6, <1>9, <2>1 DEF IsInjective
    <3> QED BY <1>3, <3>1
  <2>2. \A a \in DOMAIN Tail(q) : Tail(q)[a] # Head(q)
    BY <1>1, <1>2, <1>4, <1>6, <1>9 DEF IsInjective
  <2> QED BY <2>1, <2>2 DEF IsInjective, Range
<1> QED BY <1>5, <1>7, <1>8, <1>9 DEF Range

-----------------------------------------------------------------------------
\* Where items are: not yet pulled, in a channel, with a worker, answered.
Busy(w) == wpc[w] \in {"check", "body", "emit"}

Ahead == {i \in Items : i >= next}
In(s) == Range(chan[s])
Holding(w) == IF Busy(w) THEN {held[w]} ELSE {}
Done == Range(out)

\* How a step moves them.  None moves on, although a thread may drop its own
\* when it leaves for an error;
OthersHold(w) == \A v \in Team : v # w => Holding(v)' = Holding(v)

Still ==
    /\ UNCHANGED <<chan, out, next>>
    /\ \A w \in Team : Holding(w)' \subseteq Holding(w)
    /\ err' = None => \A w \in Team : Holding(w)' = Holding(w)

\* the source sends one to the first stage;
Pulls(i) ==
    /\ i = next /\ next' = next + 1 /\ UNCHANGED out
    /\ chan' = [chan EXCEPT ![1] = Append(@, i)]
    /\ \A w \in Team : Holding(w)' = Holding(w)

\* a worker receives one,
Takes(w, i) ==
    /\ UNCHANGED <<out, next>>
    /\ chan[Stage(w)] # <<>> /\ i = Head(chan[Stage(w)])
    /\ chan' = [chan EXCEPT ![Stage(w)] = Tail(@)]
    /\ Holding(w) = {} /\ Holding(w)' = {i} /\ OthersHold(w)

\* drops it because the body emits nothing,
Drops(w, i) ==
    /\ yields[<<Stage(w), i>>] = 0
    /\ UNCHANGED <<chan, out, next>>
    /\ Holding(w) = {i} /\ Holding(w)' = {} /\ OthersHold(w)

\* answers what the last body emits,
Answers(w, i) ==
    /\ Stage(w) = K /\ yields[<<K, i>>] # 0
    /\ out' = out \o Copies(i, yields[<<K, i>>]) /\ UNCHANGED <<chan, next>>
    /\ Holding(w) = {i} /\ Holding(w)' = {} /\ OthersHold(w)

\* or sends it on, for the last time or not.
Sends(w, i) ==
    /\ wpc[w] = "emit" /\ Stage(w) + 1 \in Stages /\ UNCHANGED <<out, next>>
    /\ chan' = [chan EXCEPT ![Stage(w) + 1] = Append(@, i)]
    /\ Holding(w) = {i} /\ Holding(w)' = (IF left[w] = 1 THEN {} ELSE {i}) /\ OthersHold(w)

Moves(w, i) == Takes(w, i) \/ Drops(w, i) \/ Answers(w, i) \/ Sends(w, i)

LEMMA StepMoves ==
    ASSUME IInv, Typed, [Next]_vars
    PROVE  \/ Still
           \/ \E i \in Items : Pulls(i) \/ \E w \in Team : Moves(w, i)
<1>a. None \notin Bodies /\ Closed # None
  BY NotABody DEF IInv, Shape
<1>t. /\ wpc \in [Team -> PCs] /\ fails \subseteq Bodies /\ out \in Seq(Items)
      /\ chan \in [Stages -> Seq(Items)] /\ 1 \in Stages
      /\ form.items \in Nat /\ next \in 1 .. form.items + 1
      /\ held \in [Team -> Items \cup {None}]
      /\ yields \in [Stages \X Items -> 0 .. form.emits] /\ form.emits \in Nat
      /\ \A w \in Team : Busy(w) => held[w] \in Items
  BY FormType DEF IInv, Shape, Typed, TypeOK, InHands, Busy
<1>l. ASSUME NEW w \in Team, Leave(w), UNCHANGED <<chan, out, next>>,
             wpc[w] = "recv" \/ err' # None
      PROVE  Still
  <2>1. wpc' = [wpc EXCEPT ![w] = "gone"] /\ held' = [held EXCEPT ![w] = None]
    BY <1>l DEF Leave
  <2>2. \A v \in Team : IF v = w THEN Holding(v)' = {} ELSE Holding(v)' = Holding(v)
    BY <1>t, <2>1 DEF Holding, Busy
  <2>3. wpc[w] = "recv" => Holding(w) = {}
    BY DEF Holding, Busy
  <2>4. \A v \in Team : Holding(v)' \subseteq Holding(v)
    BY <2>2
  <2>5. err' = None => \A v \in Team : Holding(v)' = Holding(v)
    BY <1>l, <2>2, <2>3
  <2> QED BY <1>l, <2>4, <2>5 DEF Still
<1>1. CASE SourcePull
  BY <1>1 DEF SourcePull, Still, Holding, Busy
<1>2. CASE SourceSend
  <2>1. UNCHANGED <<out, wpc, held>> /\ spc = "send"
    BY <1>2 DEF SourceSend
  <2>2. \A w \in Team : Holding(w)' = Holding(w)
    BY <2>1 DEF Holding, Busy
  <2>3. CASE ReceiversGone(1)
    BY <1>2, <2>1, <2>2, <2>3 DEF SourceSend, Still
  <2>4. CASE ~ReceiversGone(1)
    <3>1. chan' = [chan EXCEPT ![1] = Append(@, next)] /\ next' = next + 1
      BY <1>2, <2>4 DEF SourceSend
    <3>2. next \in Items
      BY <1>t, <2>1 DEF Typed, InHands, Items
    <3> QED BY <2>1, <2>2, <3>1, <3>2 DEF Pulls
  <2> QED BY <2>3, <2>4
<1>3. ASSUME NEW w \in Team, Recv(w) PROVE \E i \in Items : Takes(w, i)
  <2>1. /\ UNCHANGED <<out, next>> /\ wpc[w] = "recv" /\ chan[Stage(w)] # <<>>
        /\ held' = [held EXCEPT ![w] = Head(chan[Stage(w)])]
        /\ wpc' = [wpc EXCEPT ![w] = "check"]
        /\ chan' = [chan EXCEPT ![Stage(w)] = Tail(@)]
    BY <1>3 DEF Recv
  <2>2. PICK i \in Items : i = Head(chan[Stage(w)])
    BY <1>t, <2>1, TeamStage, HeadTailProperties
  <2>3. Holding(w) = {} /\ Holding(w)' = {i} /\ OthersHold(w)
    BY <1>t, <2>1, <2>2 DEF Holding, Busy, OthersHold
  <2> QED BY <2>1, <2>2, <2>3 DEF Takes
<1>4. ASSUME NEW w \in Team, EndOfInput(w) PROVE Still
  BY <1>l, <1>4 DEF EndOfInput
<1>5. ASSUME NEW w \in Team, Check(w) PROVE Still
  <2>1. CASE err # None
    BY <1>l, <1>5, <2>1 DEF Check
  <2>2. CASE err = None
    <3>1. /\ UNCHANGED <<chan, out, next, held>> /\ wpc[w] = "check"
          /\ wpc' = [wpc EXCEPT ![w] = "body"]
      BY <1>5, <2>2 DEF Check
    <3>2. \A v \in Team : Holding(v)' = Holding(v)
      BY <1>t, <3>1 DEF Holding, Busy
    <3> QED BY <3>1, <3>2 DEF Still
  <2> QED BY <2>1, <2>2
<1>6. ASSUME NEW w \in Team, Body(w)
      PROVE  Still \/ \E i \in Items : Drops(w, i) \/ Answers(w, i)
  <2>i. PICK i \in Items : i = held[w]
    BY <1>6, <1>t DEF Body, Busy
  <2>n. PICK n \in Nat : n = yields[<<Stage(w), i>>]
    BY <1>t, TeamStage
  <2>0. wpc[w] = "body" /\ UNCHANGED <<chan, next>>
    BY <1>6 DEF Body
  <2>1. CASE <<Stage(w), i>> \in fails
    <3>1. Leave(w) /\ UNCHANGED out /\ err' # None
      BY <1>6, <1>a, <1>t, <2>i, <2>1 DEF Body, SetErr
    <3> QED BY <1>l, <2>0, <3>1
  <2>2. CASE <<Stage(w), i>> \notin fails
    <3>1. /\ out' = IF Stage(w) = K THEN out \o Copies(i, n) ELSE out
          /\ wpc' = [wpc EXCEPT ![w] = IF Stage(w) = K \/ n = 0 THEN "recv" ELSE "emit"]
          /\ held' = held
      BY <1>6, <2>i, <2>n, <2>2 DEF Body
    <3>2. Holding(w) = {i} /\ OthersHold(w)
      BY <1>t, <2>i, <2>0, <3>1 DEF Holding, Busy, OthersHold
    <3>3. CASE n # 0 /\ Stage(w) # K
      <4>1. \A v \in Team : Holding(v)' = Holding(v)
        BY <1>t, <2>0, <3>1, <3>3 DEF Holding, Busy
      <4> QED BY <2>0, <3>1, <3>3, <4>1 DEF Still
    <3>4. CASE n = 0 \/ Stage(w) = K
      <4>1. Holding(w)' = {}
        BY <1>t, <3>1, <3>4 DEF Holding, Busy
      <4>2. CASE n = 0
        <5>1. Copies(i, n) = <<>>
          BY <4>2 DEF Copies
        <5>2. out' = out
          BY <1>t, <3>1, <5>1, ConcatEmptySeq
        <5> QED BY <2>n, <2>0, <3>2, <4>1, <4>2, <5>2 DEF Drops
      <4>3. CASE n # 0
        BY <2>n, <2>0, <3>1, <3>2, <3>4, <4>1, <4>3 DEF Answers
      <4> QED BY <4>2, <4>3
    <3> QED BY <3>3, <3>4
  <2> QED BY <2>1, <2>2
<1>7. ASSUME NEW w \in Team, Emit(w)
      PROVE  Still \/ \E i \in Items : Sends(w, i)
  <2>i. PICK i \in Items : i = held[w]
    BY <1>7, <1>t DEF Emit, Busy
  <2>0. wpc[w] = "emit" /\ UNCHANGED <<next, out>> /\ Stage(w) + 1 \in Stages
    BY <1>7 DEF Emit, IInv, SendersHaveNext
  <2>1. CASE ReceiversGone(Stage(w) + 1)
    <3>1. err # None
      BY <2>0, <2>1, WorkerIsReceived
    <3>2. Leave(w) /\ UNCHANGED chan /\ err' # None
      BY <1>7, <2>1, <3>1 DEF Emit, SetErr
    <3> QED BY <1>l, <2>0, <3>2
  <2>2. CASE ~ReceiversGone(Stage(w) + 1)
    <3>1. /\ chan' = [chan EXCEPT ![Stage(w) + 1] = Append(@, i)] /\ held' = held
          /\ wpc' = [wpc EXCEPT ![w] = IF left[w] = 1 THEN "recv" ELSE "emit"]
      BY <1>7, <2>i, <2>2 DEF Emit
    <3>2. /\ Holding(w) = {i} /\ Holding(w)' = (IF left[w] = 1 THEN {} ELSE {i})
          /\ OthersHold(w)
      BY <1>t, <2>i, <2>0, <3>1 DEF Holding, Busy, OthersHold
    <3> QED BY <2>0, <3>1, <3>2 DEF Sends
  <2> QED BY <2>1, <2>2
<1>8. CASE UNCHANGED vars
  BY <1>8 DEF vars, Still, Holding, Busy
<1> QED
  BY <1>1, <1>2, <1>3, <1>4, <1>5, <1>6, <1>7, <1>8 DEF Next, Work, Returned, Moves

\* What that does to the channels.
LEMMA ChannelGains ==
    ASSUME Typed, NEW i \in Items, NEW s \in Stages,
           chan' = [chan EXCEPT ![s] = Append(@, i)]
    PROVE  /\ chan'[s] = Append(chan[s], i) /\ \A r \in Stages : r # s => chan'[r] = chan[r]
           /\ In(s)' = In(s) \cup {i} /\ \A r \in Stages : r # s => In(r)' = In(r)
           /\ IsInjective(chan[s]) /\ i \notin In(s) => IsInjective(chan'[s])
<1>1. chan \in [Stages -> Seq(Items)]
  BY DEF Typed, TypeOK
<1>2. chan'[s] = Append(chan[s], i) /\ \A r \in Stages : r # s => chan'[r] = chan[r]
  BY <1>1
<1>3. In(s)' = In(s) \cup {i} /\ \A r \in Stages : r # s => In(r)' = In(r)
  BY <1>1, <1>2, Appended DEF In
<1>4. IsInjective(chan[s]) /\ i \notin In(s) => IsInjective(chan'[s])
  BY <1>1, <1>2, Appended DEF In
<1> QED BY <1>2, <1>3, <1>4

LEMMA ChannelLoses ==
    ASSUME Typed, NEW s \in Stages, chan[s] # <<>>, NEW i, i = Head(chan[s]),
           chan' = [chan EXCEPT ![s] = Tail(@)]
    PROVE  /\ chan'[s] = Tail(chan[s]) /\ \A r \in Stages : r # s => chan'[r] = chan[r]
           /\ i \in In(s) /\ In(s)' \subseteq In(s) /\ In(s) \subseteq In(s)' \cup {i}
           /\ \A r \in Stages : r # s => In(r)' = In(r)
           /\ IsInjective(chan[s]) => IsInjective(chan'[s]) /\ i \notin In(s)'
<1>1. chan \in [Stages -> Seq(Items)]
  BY DEF Typed, TypeOK
<1>2. chan'[s] = Tail(chan[s]) /\ \A r \in Stages : r # s => chan'[r] = chan[r]
  BY <1>1
<1>3. /\ i \in In(s) /\ In(s)' \subseteq In(s) /\ In(s) \subseteq In(s)' \cup {i}
      /\ \A r \in Stages : r # s => In(r)' = In(r)
      /\ IsInjective(chan[s]) => IsInjective(chan'[s]) /\ i \notin In(s)'
  BY <1>1, <1>2, Taken DEF In
<1> QED BY <1>2, <1>3

\* And to the answer.
LEMMA AnswerGains ==
    ASSUME NEW S, NEW q \in Seq(S), NEW i \in S, NEW n \in Nat \ {0}
    PROVE  Range(q \o Copies(i, n)) = Range(q) \cup {i}
<1> DEFINE c == q \o Copies(i, n)
<1>0. /\ Copies(i, n) \in Seq(S) /\ Len(Copies(i, n)) = n
      /\ \A k \in 1 .. n : Copies(i, n)[k] = i
  BY DEF Copies
<1>1. /\ c \in Seq(S) /\ Len(c) = Len(q) + n /\ Len(q) \in Nat
      /\ \A k \in 1 .. Len(q) + n : c[k] = IF k <= Len(q) THEN q[k]
                                           ELSE Copies(i, n)[k - Len(q)]
  BY <1>0, ConcatProperties, LenProperties
<1>2. DOMAIN q = 1 .. Len(q) /\ DOMAIN c = 1 .. Len(q) + n
  BY <1>1, LenProperties
<1>3. \A k \in DOMAIN c : IF k <= Len(q) THEN k \in DOMAIN q /\ c[k] = q[k] ELSE c[k] = i
  <2>1. \A k \in DOMAIN c : k <= Len(q) \/ k - Len(q) \in 1 .. n
    BY <1>1, <1>2
  <2> QED BY <1>0, <1>1, <1>2, <2>1
<1>4. \A k \in DOMAIN q : k \in DOMAIN c /\ c[k] = q[k]
  BY <1>1, <1>2
<1>5. Len(q) + 1 \in DOMAIN c /\ c[Len(q) + 1] = i
  <2>1. Len(q) + 1 \in 1 .. Len(q) + n /\ ~(Len(q) + 1 <= Len(q))
    BY <1>1
  <2> QED BY <1>2, <1>3, <2>1
<1> HIDE DEF c
<1>6. Range(c) = Range(q) \cup {i}
  BY <1>3, <1>4, <1>5 DEF Range
<1> QED BY <1>6 DEF c

-----------------------------------------------------------------------------
\* par_pipeline_stream emits one item for one, so each is in one place.
OneEach ==
    /\ \A b \in Stages \X Items : yields[b] = 1
    /\ \A s \in Stages : IsInjective(chan[s])
    /\ IsInjective(out)

Apart ==
    /\ \A s, r \in Stages : s # r => In(s) \cap In(r) = {}
    /\ \A v, w \in Team : v # w => Holding(v) \cap Holding(w) = {}
    /\ \A s \in Stages, w \in Team : In(s) \cap Holding(w) = {}
    /\ \A s \in Stages : Done \cap In(s) = {} /\ Ahead \cap In(s) = {}
    /\ \A w \in Team : Done \cap Holding(w) = {} /\ Ahead \cap Holding(w) = {}
    /\ Ahead \cap Done = {}

OnePlace == ~ThreadMacro => OneEach /\ Apart

\* One item at a time goes to a place it was not in.
LEMMA ApartMoved ==
    ASSUME Apart, form' = form, NEW i,
           \A s \in Stages : In(s)' \subseteq In(s) \cup {i},
           \A w \in Team : Holding(w)' \subseteq Holding(w) \cup {i},
           Done' \subseteq Done \cup {i}, Ahead' \subseteq Ahead \ {i},
           \/ \E r \in Stages : /\ i \notin Done' /\ \A w \in Team : i \notin Holding(w)'
                                /\ \A s \in Stages : i \in In(s)' => s = r
           \/ \E v \in Team : /\ i \notin Done' /\ \A s \in Stages : i \notin In(s)'
                              /\ \A w \in Team : i \in Holding(w)' => w = v
           \/ (\A s \in Stages : i \notin In(s)') /\ (\A w \in Team : i \notin Holding(w)')
    PROVE  Apart'
<1>0. Team' = Team
  BY SameCall
<1>1. \A s, r \in Stages : s # r => In(s)' \cap In(r)' = {}
  BY DEF Apart
<1>2. \A v, w \in Team : v # w => Holding(v)' \cap Holding(w)' = {}
  BY DEF Apart
<1>3. \A s \in Stages, w \in Team : In(s)' \cap Holding(w)' = {}
  BY DEF Apart
<1>4. \A s \in Stages : Done' \cap In(s)' = {} /\ Ahead' \cap In(s)' = {}
  BY DEF Apart
<1>5. \A w \in Team : Done' \cap Holding(w)' = {} /\ Ahead' \cap Holding(w)' = {}
  BY DEF Apart
<1>6. Ahead' \cap Done' = {}
  BY DEF Apart
<1> QED BY <1>0, <1>1, <1>2, <1>3, <1>4, <1>5, <1>6 DEF Apart

\* Or none does.
LEMMA ApartStays ==
    ASSUME Apart, form' = form,
           \A s \in Stages : In(s)' \subseteq In(s),
           \A w \in Team : Holding(w)' \subseteq Holding(w),
           Done' \subseteq Done, Ahead' \subseteq Ahead
    PROVE  Apart'
<1>0. Team' = Team
  BY SameCall
<1>1. /\ \A s, r \in Stages : s # r => In(s)' \cap In(r)' = {}
      /\ \A v, w \in Team : v # w => Holding(v)' \cap Holding(w)' = {}
  BY DEF Apart
<1>2. \A s \in Stages, w \in Team : In(s)' \cap Holding(w)' = {}
  BY DEF Apart
<1>3. /\ \A s \in Stages : Done' \cap In(s)' = {} /\ Ahead' \cap In(s)' = {}
      /\ \A w \in Team : Done' \cap Holding(w)' = {} /\ Ahead' \cap Holding(w)' = {}
      /\ Ahead' \cap Done' = {}
  BY DEF Apart
<1> QED BY <1>0, <1>1, <1>2, <1>3 DEF Apart

LEMMA InitOnePlace == Init => OnePlace
<1> SUFFICES ASSUME Init, ~ThreadMacro PROVE OneEach /\ Apart
  BY DEF OnePlace
<1>1. /\ out = <<>> /\ \A s \in Stages : chan[s] = <<>>
      /\ \A w \in Team : wpc[w] = "recv"
      /\ yields \in [Stages \X Items -> {1}]
  BY DEF Init
<1>2. /\ \A s \in Stages : In(s) = {}
      /\ \A w \in Team : Holding(w) = {}
      /\ Done = {}
  BY <1>1 DEF In, Holding, Done, Busy, Range
<1>3. OneEach
  BY <1>1 DEF OneEach, IsInjective
<1>4. Apart
  BY <1>2 DEF Apart
<1> QED BY <1>3, <1>4

LEMMA NextOnePlace == IInv /\ Typed /\ OnePlace /\ [Next]_vars => OnePlace'
<1> SUFFICES ASSUME IInv, Typed, OneEach, Apart, ~ThreadMacro, [Next]_vars
             PROVE  OneEach' /\ Apart'
  BY FormStays DEF OnePlace, ThreadMacro
<1>f. form' = form /\ Team' = Team /\ Items' = Items
  BY FormStays, SameCall DEF Items
<1>t. out \in Seq(Items) /\ next \in Nat
  BY FormType DEF Typed, TypeOK
<1>y. yields' = yields /\ \A b \in Stages \X Items : yields[b] = 1
  BY DEF OneEach, Next, Work, SourcePull, SourceSend, Recv, EndOfInput, Check, Body, Emit,
     Returned, vars, program
<1>l. \A w \in Team : wpc[w] = "emit" => left[w] = 1
  <2>1. form.emits = 1
    BY PipelineAssumption DEF ThreadMacro, Typed, TypeOK
  <2> QED BY <2>1 DEF Typed, TypeOK, InHands
<1>o. /\ \A s \in Stages : IsInjective(chan[s])
      /\ IsInjective(out)
  BY DEF OneEach
<1>1. CASE Still
  <2>1. OneEach'
    BY <1>1, <1>f, <1>y, <1>o DEF Still, OneEach, Stages
  <2>2. /\ \A s \in Stages : In(s)' = In(s)
        /\ Done' = Done /\ Ahead' = Ahead
    BY <1>1, <1>f DEF Still, In, Done, Ahead
  <2>3. Apart'
    BY <1>1, <1>f, <2>2, ApartStays DEF Still
  <2> QED BY <2>1, <2>3
<1>2. ASSUME NEW i \in Items, Pulls(i) PROVE OneEach' /\ Apart'
  <2>1. /\ chan' = [chan EXCEPT ![1] = Append(@, i)] /\ 1 \in Stages
        /\ i = next /\ next' = next + 1 /\ out' = out
        /\ \A w \in Team : Holding(w)' = Holding(w)
    BY <1>2, FormType DEF Pulls, Typed, TypeOK
  <2>2. /\ In(1)' = In(1) \cup {i} /\ \A s \in Stages : s # 1 => In(s)' = In(s)
        /\ \A s \in Stages : s # 1 => chan'[s] = chan[s]
        /\ IsInjective(chan[1]) /\ i \notin In(1) => IsInjective(chan'[1])
    BY <2>1, ChannelGains
  <2>3. i \in Ahead /\ Ahead' = Ahead \ {i} /\ Done' = Done
    BY <1>f, <1>t, <2>1 DEF Ahead, Items, Done
  <2>4. /\ \A s \in Stages : i \notin In(s)
        /\ \A w \in Team : i \notin Holding(w)
        /\ i \notin Done
    BY <2>3 DEF Apart
  <2>5. OneEach'
    BY <1>f, <1>y, <1>o, <2>1, <2>2, <2>4 DEF OneEach, Stages
  <2>6. Apart'
    BY <1>f, <2>1, <2>2, <2>3, <2>4, ApartMoved
  <2> QED BY <2>5, <2>6
<1>3. ASSUME NEW w \in Team, NEW i \in Items, Takes(w, i) PROVE OneEach' /\ Apart'
  <2>s. PICK s \in Stages : s = Stage(w)
    BY TeamStage
  <2>1. /\ UNCHANGED <<out, next>> /\ chan[s] # <<>> /\ i = Head(chan[s])
        /\ chan' = [chan EXCEPT ![s] = Tail(@)]
        /\ Holding(w)' = {i} /\ \A v \in Team : v # w => Holding(v)' = Holding(v)
    BY <1>3, <2>s DEF Takes, OthersHold
  <2>2. /\ i \in In(s) /\ In(s)' \subseteq In(s)
        /\ \A r \in Stages : r # s => In(r)' = In(r) /\ chan'[r] = chan[r]
        /\ IsInjective(chan[s]) => IsInjective(chan'[s]) /\ i \notin In(s)'
    BY <2>1, ChannelLoses
  <2>3. Ahead' = Ahead /\ Done' = Done
    BY <1>f, <2>1 DEF Ahead, Done
  <2>4. OneEach' /\ i \notin In(s)'
    BY <1>f, <1>y, <1>o, <2>1, <2>2 DEF OneEach, Stages
  <2>5. /\ \A r \in Stages : i \notin In(r)'
        /\ \A v \in Team : v # w => i \notin Holding(v)
        /\ i \notin Done /\ i \notin Ahead
    BY <2>2, <2>4 DEF Apart
  <2>6. Apart'
    BY <1>f, <2>1, <2>2, <2>3, <2>5, ApartMoved
  <2> QED BY <2>4, <2>6
<1>4. ASSUME NEW w \in Team, NEW i \in Items, Drops(w, i) PROVE FALSE
  BY <1>4, <1>y, TeamStage DEF Drops
<1>5. ASSUME NEW w \in Team, NEW i \in Items, Answers(w, i) PROVE OneEach' /\ Apart'
  <2>1. /\ out' = out \o Copies(i, 1) /\ UNCHANGED <<chan, next>>
        /\ Holding(w) = {i} /\ Holding(w)' = {}
        /\ \A v \in Team : v # w => Holding(v)' = Holding(v)
    BY <1>5, <1>y, TeamStage DEF Answers, OthersHold
  <2>2. out' = Append(out, i)
    <3>1. Copies(i, 1) = <<i>>
      BY DEF Copies
    <3> QED BY <1>t, <2>1, <3>1, AppendIsConcat
  <2>3. /\ Done' = Done \cup {i}
        /\ IsInjective(out) /\ i \notin Done => IsInjective(out')
    BY <1>t, <2>2, Appended DEF Done
  <2>4. Ahead' = Ahead /\ \A r \in Stages : In(r)' = In(r)
    BY <1>f, <2>1 DEF Ahead, In
  <2>5. /\ \A r \in Stages : i \notin In(r)
        /\ \A v \in Team : v # w => i \notin Holding(v)
        /\ i \notin Ahead /\ i \notin Done
    BY <2>1 DEF Apart
  <2>6. OneEach'
    BY <1>f, <1>y, <1>o, <2>1, <2>3, <2>5 DEF OneEach, Stages
  <2>7. Apart'
    BY <1>f, <2>1, <2>3, <2>4, <2>5, ApartMoved
  <2> QED BY <2>6, <2>7
<1>6. ASSUME NEW w \in Team, NEW i \in Items, Sends(w, i) PROVE OneEach' /\ Apart'
  <2>s. PICK s \in Stages : s = Stage(w) + 1
    BY <1>6 DEF Sends
  <2>1. /\ chan' = [chan EXCEPT ![s] = Append(@, i)] /\ UNCHANGED <<out, next>>
        /\ Holding(w) = {i} /\ Holding(w)' = {}
        /\ \A v \in Team : v # w => Holding(v)' = Holding(v)
    BY <1>6, <1>l, <2>s DEF Sends, OthersHold
  <2>2. /\ In(s)' = In(s) \cup {i}
        /\ \A r \in Stages : r # s => In(r)' = In(r) /\ chan'[r] = chan[r]
        /\ IsInjective(chan[s]) /\ i \notin In(s) => IsInjective(chan'[s])
    BY <2>1, ChannelGains
  <2>3. Ahead' = Ahead /\ Done' = Done
    BY <1>f, <2>1 DEF Ahead, Done
  <2>4. /\ \A r \in Stages : i \notin In(r)
        /\ \A v \in Team : v # w => i \notin Holding(v)
        /\ i \notin Ahead /\ i \notin Done
    BY <2>1 DEF Apart
  <2>5. OneEach'
    BY <1>f, <1>y, <1>o, <2>1, <2>2, <2>4 DEF OneEach, Stages
  <2>6. Apart'
    BY <1>f, <2>1, <2>2, <2>3, <2>4, ApartMoved
  <2> QED BY <2>5, <2>6
<1> QED
  BY <1>1, <1>2, <1>3, <1>4, <1>5, <1>6, StepMoves DEF Moves

-----------------------------------------------------------------------------
\* In both builtins an item is answered unless some stage emits nothing for
\* it.  Without an error one that was not dropped is somewhere,
Kept(i) == \A s \in Stages : yields[<<s, i>>] # 0

Somewhere(i) ==
    \/ i \in Ahead \/ i \in Done
    \/ \E s \in Stages : i \in In(s)
    \/ \E w \in Team : i \in Holding(w)

Whole == err = None => \A i \in Items : Kept(i) => Somewhere(i)

\* and wherever an item is, the stages before have let it through.
Passed(i, s) == \A r \in Stages : r < s => yields[<<r, i>>] # 0

Emitting == \A w \in Team : wpc[w] = "emit" => yields[<<Stage(w), held[w]>>] # 0

Through ==
    /\ Emitting
    /\ \A s \in Stages : \A i \in In(s) : Passed(i, s)
    /\ \A w \in Team : \A i \in Holding(w) : Passed(i, Stage(w))
    /\ \A i \in Done : Kept(i)

LEMMA YieldsStay == [Next]_vars => yields' = yields /\ (err' = None => err = None)
BY DEF Next, Work, SourcePull, SourceSend, Recv, EndOfInput, Check, Body, Emit, Returned,
       SetErr, vars, program

LEMMA InitThrough == Init => Through /\ Whole
<1> SUFFICES ASSUME Init PROVE Through /\ Whole
  OBVIOUS
<1>1. /\ out = <<>> /\ next = 1 /\ \A s \in Stages : chan[s] = <<>>
      /\ \A w \in Team : wpc[w] = "recv"
  BY DEF Init
<1>2. /\ \A s \in Stages : In(s) = {}
      /\ \A w \in Team : Holding(w) = {}
      /\ Done = {} /\ form.items \in Nat
  BY <1>1, FormType DEF Init, In, Holding, Done, Busy, Range
<1>3. Through
  BY <1>1, <1>2 DEF Through, Emitting
<1>4. \A i \in Items : i \in Ahead
  BY <1>1, <1>2 DEF Ahead, Items
<1> QED BY <1>3, <1>4 DEF Whole, Somewhere

LEMMA NextEmitting == IInv /\ Typed /\ Emitting /\ [Next]_vars => Emitting'
<1> SUFFICES ASSUME IInv, Typed, Emitting, [Next]_vars,
                    NEW w \in Team, wpc'[w] = "emit"
             PROVE  yields'[<<Stage(w), held'[w]>>] # 0
  BY FormStays, SameCall DEF Emitting, Stage
<1>y. yields' = yields
  BY YieldsStay
<1>t. wpc \in [Team -> PCs] /\ held \in [Team -> Items \cup {None}]
  BY DEF IInv, Shape, Typed, TypeOK
<1>s. wpc[w] = "emit" => yields[<<Stage(w), held[w]>>] # 0
  BY DEF Emitting
<1>1. CASE UNCHANGED <<wpc, held>>
  BY <1>1, <1>y, <1>s
<1>2. ASSUME NEW v \in Team, Recv(v) PROVE wpc[w] = "emit" /\ held'[w] = held[w]
  BY <1>2, <1>t DEF Recv
<1>3. ASSUME NEW v \in Team, Leave(v) PROVE wpc[w] = "emit" /\ held'[w] = held[w]
  BY <1>3, <1>t DEF Leave
<1>4. ASSUME NEW v \in Team, Check(v) PROVE wpc[w] = "emit" /\ held'[w] = held[w]
  <2>1. CASE err # None
    BY <1>3, <1>4, <2>1 DEF Check
  <2>2. CASE err = None
    BY <1>4, <1>t, <2>2 DEF Check
  <2> QED BY <2>1, <2>2
<1>5. ASSUME NEW v \in Team, Body(v) PROVE yields[<<Stage(w), held'[w]>>] # 0
  <2>1. CASE <<Stage(v), held[v]>> \in fails
    BY <1>3, <1>5, <1>s, <2>1 DEF Body
  <2>2. CASE <<Stage(v), held[v]>> \notin fails
    <3>1. /\ held' = held
          /\ wpc' = [wpc EXCEPT ![v] = IF Stage(v) = K \/ yields[<<Stage(v), held[v]>>] = 0
                                       THEN "recv" ELSE "emit"]
      BY <1>5, <2>2 DEF Body
    <3>2. CASE v = w
      BY <1>t, <3>1, <3>2
    <3>3. CASE v # w
      BY <1>t, <1>s, <3>1, <3>3
    <3> QED BY <3>2, <3>3
  <2> QED BY <2>1, <2>2
<1>6. ASSUME NEW v \in Team, Emit(v) PROVE wpc[w] = "emit" /\ held'[w] = held[w]
  <2>1. CASE ReceiversGone(Stage(v) + 1)
    BY <1>3, <1>6, <2>1 DEF Emit
  <2>2. CASE ~ReceiversGone(Stage(v) + 1)
    <3>1. wpc' = [wpc EXCEPT ![v] = IF left[v] = 1 THEN "recv" ELSE "emit"] /\ held' = held
      BY <1>6, <2>2 DEF Emit
    <3> QED BY <1>6, <1>t, <3>1 DEF Emit
  <2> QED BY <2>1, <2>2
<1>7. SourcePull \/ SourceSend \/ UNCHANGED vars => UNCHANGED <<wpc, held>>
  BY DEF SourcePull, SourceSend, vars
<1>8. ASSUME NEW v \in Team, Work(v) PROVE yields[<<Stage(w), held'[w]>>] # 0
  BY <1>2, <1>3, <1>4, <1>5, <1>6, <1>8, <1>s DEF Work, EndOfInput
<1> QED BY <1>1, <1>7, <1>8, <1>y DEF Next, Returned

\* What it takes to follow the items that move in a step.
LEMMA WholeMoved ==
    ASSUME Whole, form' = form, yields' = yields, err' = None => err = None, NEW I,
           \A s \in Stages : In(s) \subseteq In(s)' \cup I,
           \A w \in Team : Holding(w) \subseteq Holding(w)' \cup I,
           Done \subseteq Done' \cup I, Ahead \subseteq Ahead' \cup I,
           \A i \in I : Kept(i) => Somewhere(i)'
    PROVE  Whole'
<1>1. Items' = Items /\ Team' = Team /\ Stages' = Stages /\ \A j \in Items : Kept(j)' = Kept(j)
  BY SameCall DEF Items, Stages, Kept
<1>2. ASSUME err' = None, NEW j \in Items, Kept(j)
      PROVE  Somewhere(j)'
  <2>1. CASE j \in I
    BY <1>2, <2>1
  <2>2. CASE j \notin I
    <3>1. Somewhere(j)
      BY <1>2 DEF Whole
    <3> QED BY <1>1, <2>2, <3>1 DEF Somewhere
  <2> QED BY <2>1, <2>2
<1> QED BY <1>1, <1>2 DEF Whole

LEMMA ThroughMoved ==
    ASSUME Through, Emitting', form' = form, yields' = yields, NEW I,
           \A s \in Stages : /\ In(s)' \subseteq In(s) \cup I
                             /\ \A i \in In(s)' : i \in I => i \in In(s) \/ Passed(i, s),
           \A w \in Team : /\ Holding(w)' \subseteq Holding(w) \cup I
                           /\ \A i \in Holding(w)' : i \in I => Passed(i, Stage(w)),
           Done' \subseteq Done \cup I, \A i \in Done' : i \in I => i \in Done \/ Kept(i)
    PROVE  Through'
<1>1. /\ Team' = Team /\ Stages' = Stages
      /\ \A j : Kept(j)' = Kept(j) /\ \A s \in Stages : Passed(j, s)' = Passed(j, s)
  BY SameCall DEF Stages, Kept, Passed
<1>2. /\ \A s \in Stages : \A j \in In(s)' : Passed(j, s)
      /\ \A j \in Done' : Kept(j)
  BY DEF Through
<1>3. \A w \in Team : \A j \in Holding(w)' : Passed(j, Stage(w))
  BY DEF Through
<1>4. \A w \in Team : Stage(w) \in Stages /\ Stage(w)' = Stage(w)
  BY TeamStage DEF Stage
<1> QED BY <1>1, <1>2, <1>3, <1>4 DEF Through

LEMMA NextThrough ==
    ASSUME IInv, Typed, Through, Whole, [Next]_vars
    PROVE  Through' /\ Whole'
<1>e. Emitting'
  BY NextEmitting DEF Through
<1>f. form' = form /\ Team' = Team /\ Items' = Items
  BY FormStays, SameCall DEF Items
<1>y. yields' = yields /\ (err' = None => err = None)
  BY YieldsStay
<1>t. out \in Seq(Items) /\ next \in Nat /\ K \in Nat /\ yields \in [Stages \X Items -> Nat]
  BY FormType DEF Typed, TypeOK
<1>h. \A w \in Team : \A i \in Holding(w) : Passed(i, Stage(w))
  BY DEF Through
<1>1. CASE Still
  <2>1. /\ \A s \in Stages : In(s)' = In(s)
        /\ Done' = Done /\ Ahead' = Ahead
        /\ \A w \in Team : Holding(w)' \subseteq Holding(w)
    BY <1>1, <1>f DEF Still, In, Done, Ahead
  <2>2. Through'
    <3> PICK I : I = {}
      OBVIOUS
    <3>1. /\ \A s \in Stages : In(s)' \subseteq In(s) \cup I
          /\ \A w \in Team : Holding(w)' \subseteq Holding(w) \cup I
          /\ Done' \subseteq Done \cup I
      BY <2>1
    <3>2. /\ \A s \in Stages : \A i \in In(s)' : i \in I => i \in In(s) \/ Passed(i, s)
          /\ \A w \in Team : \A i \in Holding(w)' : i \in I => Passed(i, Stage(w))
          /\ \A i \in Done' : i \in I => i \in Done \/ Kept(i)
      OBVIOUS
    <3> QED BY <1>e, <1>f, <1>y, <3>1, <3>2, ThroughMoved
  <2>3. CASE err' = None
    <3>1. \A w \in Team : Holding(w)' = Holding(w)
      BY <1>1, <2>3 DEF Still
    <3> PICK I : I = {}
      OBVIOUS
    <3>2. /\ \A s \in Stages : In(s) \subseteq In(s)' \cup I
          /\ \A w \in Team : Holding(w) \subseteq Holding(w)' \cup I
          /\ Done \subseteq Done' \cup I /\ Ahead \subseteq Ahead' \cup I
      BY <2>1, <3>1
    <3>3. \A i \in I : Kept(i) => Somewhere(i)'
      OBVIOUS
    <3>4. Whole'
      BY <1>f, <1>y, <3>2, <3>3, WholeMoved
    <3> QED BY <2>2, <3>4
  <2>4. CASE err' # None
    BY <2>2, <2>4 DEF Whole
  <2> QED BY <2>3, <2>4
<1>2. ASSUME NEW i \in Items, Pulls(i) PROVE Through' /\ Whole'
  <2>1. /\ chan' = [chan EXCEPT ![1] = Append(@, i)] /\ 1 \in Stages
        /\ i = next /\ next' = next + 1 /\ out' = out
        /\ \A w \in Team : Holding(w)' = Holding(w)
    BY <1>2, FormType DEF Pulls, Typed, TypeOK
  <2>2. In(1)' = In(1) \cup {i} /\ \A s \in Stages : s # 1 => In(s)' = In(s)
    BY <2>1, ChannelGains
  <2>3. Ahead \subseteq Ahead' \cup {i} /\ Done' = Done
    BY <1>f, <1>t, <2>1 DEF Ahead, Items, Done
  <2>4. Passed(i, 1)
    BY DEF Passed, Stages
  <2>5. Somewhere(i)'
    BY <2>1, <2>2 DEF Somewhere, Stages
  <2>6. Through'
    BY <1>e, <1>f, <1>y, <1>h, <2>1, <2>2, <2>3, <2>4, ThroughMoved
  <2>7. Whole'
    <3>i. PICK I : I = {i}
      OBVIOUS
    <3>1. /\ \A s \in Stages : In(s) \subseteq In(s)' \cup I
          /\ \A w \in Team : Holding(w) \subseteq Holding(w)' \cup I
          /\ Done \subseteq Done' \cup I /\ Ahead \subseteq Ahead' \cup I
      BY <2>1, <2>2, <2>3, <3>i
    <3>2. \A j \in I : Kept(j) => Somewhere(j)'
      BY <2>5, <3>i
    <3> QED BY <1>f, <1>y, <3>1, <3>2, WholeMoved
  <2> QED BY <2>6, <2>7
<1>3. ASSUME NEW w \in Team, NEW i \in Items, Takes(w, i) PROVE Through' /\ Whole'
  <2>s. PICK s \in Stages : s = Stage(w)
    BY TeamStage
  <2>1. /\ UNCHANGED <<out, next>> /\ chan[s] # <<>> /\ i = Head(chan[s])
        /\ chan' = [chan EXCEPT ![s] = Tail(@)] /\ Holding(w) = {}
        /\ Holding(w)' = {i} /\ \A v \in Team : v # w => Holding(v)' = Holding(v)
    BY <1>3, <2>s DEF Takes, OthersHold
  <2>2. /\ i \in In(s) /\ In(s)' \subseteq In(s) /\ In(s) \subseteq In(s)' \cup {i}
        /\ \A r \in Stages : r # s => In(r)' = In(r)
    BY <2>1, ChannelLoses
  <2>3. Ahead' = Ahead /\ Done' = Done
    BY <1>f, <2>1 DEF Ahead, Done
  <2>4. Passed(i, s)
    BY <2>2 DEF Through
  <2>5. Somewhere(i)'
    BY <1>f, <2>1 DEF Somewhere
  <2>6. Through'
    <3>i. PICK I : I = {i}
      OBVIOUS
    <3>1. \A r \in Stages : In(r)' \subseteq In(r) \cup I /\ In(r)' \subseteq In(r)
      BY <2>2
    <3>2. \A v \in Team : Holding(v)' \subseteq Holding(v) \cup I
      BY <2>1, <3>i
    <3>3. \A v \in Team : \A j \in Holding(v)' : Passed(j, Stage(v))
      BY <1>h, <2>s, <2>1, <2>4
    <3>4. form' = form /\ yields' = yields /\ Done' = Done
      BY <1>f, <1>y, <2>3
    <3> QED BY <1>e, <3>1, <3>2, <3>3, <3>4, ThroughMoved
  <2>7. Whole'
    BY <1>f, <1>y, <2>1, <2>2, <2>3, <2>5, WholeMoved
  <2> QED BY <2>6, <2>7
<1>4. ASSUME NEW w \in Team, NEW i \in Items, Drops(w, i) PROVE Through' /\ Whole'
  <2>1. /\ ~Kept(i) /\ UNCHANGED <<chan, out, next>>
        /\ Holding(w) = {i} /\ Holding(w)' = {}
        /\ \A v \in Team : v # w => Holding(v)' = Holding(v)
    BY <1>4, TeamStage DEF Drops, OthersHold, Kept
  <2>2. /\ \A s \in Stages : In(s)' = In(s)
        /\ Done' = Done /\ Ahead' = Ahead
    BY <1>f, <2>1 DEF In, Done, Ahead
  <2>6. Through'
    BY <1>e, <1>f, <1>y, <1>h, <2>1, <2>2, ThroughMoved
  <2>7. Whole'
    BY <1>f, <1>y, <2>1, <2>2, WholeMoved
  <2> QED BY <2>6, <2>7
<1>5. ASSUME NEW w \in Team, NEW i \in Items, Answers(w, i) PROVE Through' /\ Whole'
  <2>n. PICK n \in Nat \ {0} : n = yields[<<K, i>>]
    BY <1>5, <1>t, TeamStage DEF Answers
  <2>1. /\ out' = out \o Copies(i, n) /\ UNCHANGED <<chan, next>> /\ Stage(w) = K
        /\ Holding(w) = {i} /\ Holding(w)' = {}
        /\ \A v \in Team : v # w => Holding(v)' = Holding(v)
    BY <1>5, <2>n DEF Answers, OthersHold
  <2>2. Done' = Done \cup {i}
    BY <1>t, <2>1, AnswerGains DEF Done
  <2>3. Ahead' = Ahead /\ \A r \in Stages : In(r)' = In(r)
    BY <1>f, <2>1 DEF Ahead, In
  <2>4. Kept(i)
    <3>1. Passed(i, K)
      BY <1>h, <2>1
    <3>2. \A s \in Stages : s < K \/ s = K
      BY <1>t DEF Stages
    <3> QED BY <2>n, <3>1, <3>2 DEF Passed, Kept
  <2>5. Somewhere(i)'
    BY <2>2 DEF Somewhere
  <2>6. Through'
    BY <1>e, <1>f, <1>y, <1>h, <2>1, <2>2, <2>3, <2>4, ThroughMoved
  <2>7. Whole'
    BY <1>f, <1>y, <2>1, <2>2, <2>3, <2>5, WholeMoved
  <2> QED BY <2>6, <2>7
<1>6. ASSUME NEW w \in Team, NEW i \in Items, Sends(w, i) PROVE Through' /\ Whole'
  <2>s. PICK s \in Stages : s = Stage(w) + 1
    BY <1>6 DEF Sends
  <2>1. /\ chan' = [chan EXCEPT ![s] = Append(@, i)] /\ UNCHANGED <<out, next>>
        /\ Holding(w) = {i} /\ Holding(w)' \subseteq {i} /\ wpc[w] = "emit"
        /\ \A v \in Team : v # w => Holding(v)' = Holding(v)
    BY <1>6, <2>s DEF Sends, OthersHold
  <2>2. In(s)' = In(s) \cup {i} /\ \A r \in Stages : r # s => In(r)' = In(r)
    BY <2>1, ChannelGains
  <2>3. Ahead' = Ahead /\ Done' = Done
    BY <1>f, <2>1 DEF Ahead, Done
  <2>4. Passed(i, Stage(w)) /\ Passed(i, s)
    <3>1. held[w] = i
      BY <2>1 DEF Holding
    <3>2. yields[<<Stage(w), i>>] # 0
      BY <2>1, <3>1 DEF Through, Emitting
    <3>3. Passed(i, Stage(w))
      BY <1>h, <2>1
    <3>4. \A r \in Stages : r < s => r < Stage(w) \/ r = Stage(w)
      BY <2>s, TeamStage DEF Stages
    <3> QED BY <3>2, <3>3, <3>4 DEF Passed
  <2>5. Somewhere(i)'
    BY <1>f, <2>2 DEF Somewhere, Stages
  <2>6. Through'
    BY <1>e, <1>f, <1>y, <1>h, <2>1, <2>2, <2>3, <2>4, ThroughMoved
  <2>7. Whole'
    BY <1>f, <1>y, <2>1, <2>2, <2>3, <2>5, WholeMoved
  <2> QED BY <2>6, <2>7
<1> QED
  BY <1>1, <1>2, <1>3, <1>4, <1>5, <1>6, StepMoves DEF Moves

-----------------------------------------------------------------------------
\* Threads leave only when there is nothing left for them.
Drained ==
    err = None => /\ spc = "gone" => next = form.items + 1
                  /\ \A w \in Team : wpc[w] = "gone" => chan[Stage(w)] = <<>>

\* Without an error the channel of a worker that left stays empty: there is
\* no one left to send to it.
LEMMA NoSenderLeft ==
    ASSUME IInv, err = None, NEW w \in Team, wpc[w] = "gone"
    PROVE  /\ Stage(w) = 1 => spc = "gone"
           /\ \A v \in Team : Stage(v) + 1 = Stage(w) => wpc[v] = "gone"
<1>1. SendersGone(Stage(w)) /\ Stage(w) \in Nat
  BY TeamStage DEF IInv, LeaveInOrder, Stages
<1>2. ASSUME NEW v \in Team, Stage(v) + 1 = Stage(w)
      PROVE  wpc[v] = "gone"
  <2>1. Stage(v) \in Nat /\ Stage(v) # 0
    BY TeamStage DEF Stages
  <2>2. Stage(w) # 1 /\ Stage(w) - 1 = Stage(v)
    BY <1>2, <2>1
  <2>3. ReceiversGone(Stage(v))
    BY <1>1, <2>2 DEF SendersGone
  <2> QED BY <2>3 DEF ReceiversGone
<1> QED BY <1>1, <1>2 DEF SendersGone

LEMMA InitDrained == Init => Drained
BY TeamStage DEF Init, Drained

LEMMA NextDrained == IInv /\ Typed /\ Drained /\ [Next]_vars => Drained'
<1> SUFFICES ASSUME IInv, Typed, Drained, [Next]_vars, err' = None
             PROVE  /\ spc' = "gone" => next' = form'.items + 1
                    /\ \A w \in Team' : wpc'[w] = "gone" => chan'[Stage(w)] = <<>>
  BY DEF Drained, Stage
<1>f. form' = form /\ Team' = Team /\ form \in Forms
  BY FormStays, SameCall DEF IInv, Shape
<1>a. None \notin Bodies /\ Closed # None
  BY <1>f, NotABody
<1>t. /\ wpc \in [Team -> PCs] /\ fails \subseteq Bodies
      /\ chan \in [Stages -> Seq(Items)] /\ 1 \in Stages
  BY <1>f, FormType DEF IInv, Shape, Typed, TypeOK
<1>e. err = None
  BY <1>f DEF Next, Work, SourcePull, SourceSend, Recv, EndOfInput, Check,
        Body, Emit, Returned, SetErr, vars
<1>d. /\ spc = "gone" => next = form.items + 1
      /\ \A w \in Team : wpc[w] = "gone" => chan[Stage(w)] = <<>>
  BY <1>e DEF Drained
<1>1. CASE SourcePull
  <2>1. UNCHANGED <<wpc, chan, next>>
    BY <1>1 DEF SourcePull
  <2>2. ~(~ThreadMacro /\ err # None) /\ <<0, next>> \notin fails
    BY <1>1, <1>a, <1>e, <1>t DEF SourcePull, SetErr
  <2>3. spc' = "gone" => next = form.items + 1
    BY <1>1, <1>e, <2>2 DEF SourcePull
  <2> QED BY <1>d, <1>f, <2>1, <2>3
<1>2. CASE SourceSend
  <2>1. spc = "send" /\ ~ReceiversGone(1)
    BY <1>2, <1>e, SourceIsReceived DEF SourceSend
  <2>2. wpc' = wpc /\ spc' = "pull" /\ chan' = [chan EXCEPT ![1] = Append(@, next)]
    BY <1>2, <2>1 DEF SourceSend
  <2>3. \A w \in Team : wpc[w] = "gone" => Stage(w) # 1
    BY <1>e, <2>1, NoSenderLeft
  <2>4. \A w \in Team : wpc[w] = "gone" => chan'[Stage(w)] = chan[Stage(w)]
    BY <1>t, <2>2, <2>3, TeamStage
  <2> QED BY <1>d, <1>f, <2>2, <2>4
<1>3. ASSUME NEW w \in Team, Recv(w)
      PROVE  \A v \in Team : wpc'[v] = "gone" => chan'[Stage(v)] = <<>>
  <2>1. /\ wpc' = [wpc EXCEPT ![w] = "check"] /\ chan[Stage(w)] # <<>>
        /\ chan' = [chan EXCEPT ![Stage(w)] = Tail(@)]
    BY <1>3 DEF Recv
  <2>2. \A v \in Team : wpc'[v] = "gone" => wpc[v] = "gone"
    BY <1>t, <2>1
  <2>3. \A v \in Team : wpc[v] = "gone" => Stage(v) # Stage(w)
    BY <1>d, <2>1
  <2>4. \A v \in Team : wpc[v] = "gone" => chan'[Stage(v)] = chan[Stage(v)]
    BY <1>t, <2>1, <2>3, TeamStage
  <2> QED BY <1>d, <2>2, <2>4
<1>4. ASSUME NEW w \in Team, EndOfInput(w)
      PROVE  \A v \in Team : wpc'[v] = "gone" => chan'[Stage(v)] = <<>>
  BY <1>4, <1>d, <1>t DEF EndOfInput, Leave
<1>5. ASSUME NEW w \in Team, Check(w)
      PROVE  \A v \in Team : wpc'[v] = "gone" => chan'[Stage(v)] = <<>>
  BY <1>5, <1>d, <1>t, <1>e DEF Check
<1>6. ASSUME NEW w \in Team, Body(w)
      PROVE  \A v \in Team : wpc'[v] = "gone" => chan'[Stage(v)] = <<>>
  <2>1. <<Stage(w), held[w]>> \notin fails
    BY <1>6, <1>a, <1>e, <1>t DEF Body, SetErr
  <2>2. chan' = chan
    BY <1>6 DEF Body
  <2>3. \A v \in Team : wpc'[v] = "gone" => wpc[v] = "gone"
    BY <1>6, <1>t, <2>1 DEF Body
  <2> QED BY <1>d, <2>2, <2>3
<1>7. ASSUME NEW w \in Team, Emit(w)
      PROVE  \A v \in Team : wpc'[v] = "gone" => chan'[Stage(v)] = <<>>
  <2>1. wpc[w] = "emit" /\ ~ReceiversGone(Stage(w) + 1)
    BY <1>7, <1>e, WorkerIsReceived DEF Emit
  <2>2. /\ wpc' = [wpc EXCEPT ![w] = IF left[w] = 1 THEN "recv" ELSE "emit"]
        /\ chan' = [chan EXCEPT ![Stage(w) + 1] = Append(@, held[w])]
    BY <1>7, <2>1 DEF Emit
  <2>3. \A v \in Team : wpc'[v] = "gone" => wpc[v] = "gone"
    BY <1>t, <2>2
  <2>4. \A v \in Team : wpc[v] = "gone" => Stage(v) # Stage(w) + 1
    BY <1>e, <2>1, NoSenderLeft
  <2>5. \A v \in Team : wpc[v] = "gone" => chan'[Stage(v)] = chan[Stage(v)]
    BY <1>t, <2>2, <2>4, TeamStage
  <2> QED BY <1>d, <2>3, <2>5
<1>8. CASE UNCHANGED vars
  BY <1>8, <1>d, <1>f DEF vars
<1>9. ASSUME NEW w \in Team, Recv(w) \/ EndOfInput(w) \/ Check(w) \/ Body(w) \/ Emit(w)
      PROVE  spc' = spc /\ next' = next
  BY <1>9 DEF Recv, EndOfInput, Check, Body, Emit
<1>10. ASSUME NEW w \in Team, Work(w)
       PROVE  /\ spc' = "gone" => next' = form'.items + 1
              /\ \A v \in Team' : wpc'[v] = "gone" => chan'[Stage(v)] = <<>>
  <2>1. \A v \in Team : wpc'[v] = "gone" => chan'[Stage(v)] = <<>>
    BY <1>3, <1>4, <1>5, <1>6, <1>7, <1>10 DEF Work
  <2>2. spc' = spc /\ next' = next
    BY <1>9, <1>10 DEF Work
  <2> QED BY <1>d, <1>f, <2>1, <2>2
<1> QED BY <1>1, <1>2, <1>8, <1>10 DEF Next, Returned

\* Both builtins drop an item only because a stage emitted nothing for it,
\* and miss none: when the threads are gone without an error, what was
\* answered is what every stage kept (par_pipeline.rs:146, 378).  A failed
\* body, whichever thread it ran on, is never taken for an early end of the
\* input.
Answer == {i \in Items : Kept(i)}

THEOREM KeptItemsAnswered ==
    Spec => [](Range(out) \subseteq Answer /\ (Finished /\ err = None => Range(out) = Answer))
<1>1. IInv /\ Typed /\ Through /\ Whole /\ Drained =>
          Range(out) \subseteq Answer /\ (Finished /\ err = None => Range(out) = Answer)
  <2> SUFFICES ASSUME IInv, Typed, Through, Whole, Drained
               PROVE  /\ Range(out) \subseteq Answer
                      /\ Finished /\ err = None => Answer \subseteq Range(out)
    OBVIOUS
  <2>1. Range(out) \subseteq Answer
    <3>1. Range(out) \subseteq Items
      BY ElementOfSeq, LenProperties DEF Range, Typed, TypeOK
    <3> QED BY <3>1 DEF Through, Done, Answer
  <2>2. ASSUME Finished, err = None PROVE Answer \subseteq Range(out)
    <3>1. /\ form \in Forms /\ form.items \in Nat
          /\ next = form.items + 1 /\ \A w \in Team : wpc[w] = "gone"
      BY <2>2, FormType DEF Typed, TypeOK, Drained, Finished
    <3>2. Ahead = {}
      BY <3>1 DEF Ahead, Items
    <3>3. \A w \in Team : Holding(w) = {}
      BY <3>1 DEF Holding, Busy
    <3>4. ASSUME NEW s \in Stages PROVE In(s) = {}
      <4>1. chan[s] = <<>>
        BY <2>2, <3>1, StageHasWorker DEF Drained
      <4> QED BY <4>1 DEF In, Range
    <3> QED BY <2>2, <3>2, <3>3, <3>4 DEF Whole, Somewhere, Answer, Done
  <2> QED BY <2>1, <2>2
<1>2. Init => Through /\ Whole /\ Drained
  BY InitThrough, InitDrained
<1> QED
  BY InitIInv, NextIInv, InitTyped, NextTyped, NextThrough, NextDrained, <1>1, <1>2,
     PTL DEF Spec

\* par_pipeline_stream processes no item twice, and every item once when it
\* returns without an error: an item is in one place at a time, and a stage
\* of this form emits one item for one.
THEOREM EveryItemOnce == Spec => []ResultComplete
<1> DEFINE Complete == Finished /\ err = None => Range(out) = Answer
<1>1. IInv /\ Typed /\ OnePlace /\ Complete => ResultComplete
  BY DEF OnePlace, OneEach, ResultComplete, Answer, Kept
<1>2. Range(out) \subseteq Answer /\ (Finished /\ err = None => Range(out) = Answer) => Complete
  OBVIOUS
<1> QED
  BY InitIInv, NextIInv, InitTyped, NextTyped, InitOnePlace, NextOnePlace, KeptItemsAnswered,
     <1>1, <1>2, PTL DEF Spec

-----------------------------------------------------------------------------
\* The order of ~s>.  The source, then every stage's channel and its worker's
\* hand, and last the answer: an item is never behind a later one.
Sorted(q) == \A a, b \in DOMAIN q : a <= b => q[a] <= q[b]

UpTo(S, T) == \A i \in S, j \in T : i <= j

Places == 0 .. 2 * K + 1

At(p) ==
    IF p = 0 THEN {next} ELSE IF p = 2 * K + 1 THEN Done
    ELSE {i \in Items : \E s \in Stages : \/ p = 2 * s - 1 /\ i \in In(s)
                                          \/ p = 2 * s /\ i \in Holding(<<s, 1>>)}

Line == \A p, q \in Places : p < q => UpTo(At(q), At(p))

InOrder == ThreadMacro => Line /\ Sorted(out) /\ \A s \in Stages : Sorted(chan[s])

LEMMA SortedAppend ==
    ASSUME NEW q \in Seq(Nat), NEW e \in Nat, Sorted(q), UpTo(Range(q), {e})
    PROVE  Sorted(Append(q, e))
<1>1. /\ Len(Append(q, e)) = Len(q) + 1 /\ Append(q, e) \in Seq(Nat)
      /\ \A i \in 1 .. Len(q) : Append(q, e)[i] = q[i]
      /\ Append(q, e)[Len(q) + 1] = e
  BY AppendProperties
<1>2. /\ Len(q) \in Nat /\ DOMAIN q = 1 .. Len(q)
      /\ DOMAIN Append(q, e) = 1 .. (Len(q) + 1)
  BY <1>1, LenProperties
<1>3. \A i \in 1 .. Len(q) : q[i] <= e
  BY <1>2 DEF UpTo, Range
<1>4. ASSUME NEW a \in 1 .. (Len(q) + 1), NEW b \in 1 .. (Len(q) + 1), a <= b
      PROVE  Append(q, e)[a] <= Append(q, e)[b]
  <2>1. CASE b = Len(q) + 1
    <3>1. a \in 1 .. Len(q) \/ a = Len(q) + 1
      BY <1>2
    <3> QED BY <1>1, <1>3, <2>1, <3>1
  <2>2. CASE b # Len(q) + 1
    <3>1. a \in 1 .. Len(q) /\ b \in 1 .. Len(q)
      BY <1>2, <1>4, <2>2
    <3>2. q[a] <= q[b]
      BY <1>2, <1>4, <3>1 DEF Sorted
    <3> QED BY <1>1, <3>1, <3>2
  <2> QED BY <2>1, <2>2
<1> QED BY <1>2, <1>4 DEF Sorted

LEMMA SortedTail ==
    ASSUME NEW q \in Seq(Nat), q # <<>>, Sorted(q)
    PROVE  Sorted(Tail(q)) /\ UpTo({Head(q)}, Range(q))
<1>1. /\ Tail(q) \in Seq(Nat) /\ Len(Tail(q)) = Len(q) - 1 /\ Head(q) = q[1]
      /\ \A i \in 1 .. Len(Tail(q)) : Tail(q)[i] = q[i + 1]
  BY HeadTailProperties
<1>2. Len(q) \in Nat /\ Len(q) # 0 /\ DOMAIN q = 1 .. Len(q)
  BY LenProperties, EmptySeq
<1>3. DOMAIN Tail(q) = 1 .. (Len(q) - 1)
  BY <1>1, LenProperties
<1>4. ASSUME NEW a \in DOMAIN Tail(q), NEW b \in DOMAIN Tail(q), a <= b
      PROVE  Tail(q)[a] <= Tail(q)[b]
  <2>1. /\ a + 1 \in 1 .. Len(q) /\ b + 1 \in 1 .. Len(q) /\ a + 1 <= b + 1
    BY <1>2, <1>3, <1>4
  <2>2. q[a + 1] <= q[b + 1]
    BY <1>2, <2>1 DEF Sorted
  <2> QED BY <1>1, <1>3, <2>2
<1>5. \A b \in DOMAIN q : q[1] <= q[b]
  BY <1>2 DEF Sorted
<1> QED BY <1>1, <1>4, <1>5 DEF Sorted, UpTo, Range

LEMMA SortedCopies ==
    ASSUME NEW q \in Seq(Nat), NEW e \in Nat, NEW n \in Nat, Sorted(q), UpTo(Range(q), {e})
    PROVE  Sorted(q \o Copies(e, n))
<1> DEFINE c == q \o Copies(e, n)
<1>0. Copies(e, n) \in Seq(Nat) /\ Len(Copies(e, n)) = n /\ \A k \in 1 .. n : Copies(e, n)[k] = e
  BY DEF Copies
<1>1. /\ c \in Seq(Nat) /\ Len(c) = Len(q) + n /\ Len(q) \in Nat
      /\ \A i \in 1 .. Len(c) : c[i] = IF i <= Len(q) THEN q[i]
                                       ELSE Copies(e, n)[i - Len(q)]
  BY <1>0, ConcatProperties, LenProperties
<1>2. DOMAIN q = 1 .. Len(q) /\ DOMAIN c = 1 .. (Len(q) + n)
  BY <1>1, LenProperties
<1>3. \A i \in 1 .. Len(q) : q[i] <= e
  BY <1>2 DEF UpTo, Range
<1>4. ASSUME NEW a \in DOMAIN c
      PROVE  IF a <= Len(q) THEN a \in 1 .. Len(q) /\ c[a] = q[a] ELSE c[a] = e
  <2>1. a <= Len(q) \/ a - Len(q) \in 1 .. n
    BY <1>1, <1>2
  <2> QED BY <1>0, <1>1, <1>2, <2>1
<1> HIDE DEF c
<1>5. ASSUME NEW a \in DOMAIN c, NEW b \in DOMAIN c, a <= b
      PROVE  c[a] <= c[b]
  <2>1. CASE b <= Len(q)
    <3>1. a <= Len(q)
      BY <1>1, <1>2, <1>5, <2>1
    <3>2. q[a] <= q[b]
      BY <1>2, <1>4, <1>5, <2>1, <3>1 DEF Sorted
    <3> QED BY <1>4, <2>1, <3>1, <3>2
  <2>2. CASE ~(b <= Len(q))
    BY <1>3, <1>4, <2>2
  <2> QED BY <2>1, <2>2
<1> QED BY <1>5 DEF Sorted, c

\* A stage of ~s> has one worker (par_pipeline.rs:329).
LEMMA OneWorker ==
    ASSUME form \in Forms, ThreadMacro, NEW w \in Team
    PROVE  w = <<Stage(w), 1>>
<1>1. PICK s \in Stages : w \in {s} \X (1 .. form.workers[s])
  BY DEF Team
<1>2. form.workers[s] = 1
  BY PipelineAssumption DEF ThreadMacro
<1> QED BY <1>1, <1>2 DEF Stage

\* What is where.
LEMMA PlaceIs ==
    ASSUME Typed, NEW s \in Stages
    PROVE  /\ 2 * s - 1 \in Places \ {0, 2 * K + 1} /\ 2 * s \in Places \ {0, 2 * K + 1}
           /\ At(2 * s - 1) = In(s) /\ At(2 * s) = Holding(<<s, 1>>)
           /\ In(s) \subseteq Nat /\ Holding(<<s, 1>>) \subseteq Nat
<1>1. K \in Nat /\ s \in 1 .. K /\ Stages = 1 .. K
  BY FormType DEF Typed, TypeOK, Stages
<1>2. /\ 2 * s - 1 \in Places \ {0, 2 * K + 1} /\ 2 * s \in Places \ {0, 2 * K + 1}
      /\ \A r \in Stages : (2 * s - 1 = 2 * r - 1 <=> r = s) /\ 2 * s - 1 # 2 * r
                           /\ (2 * s = 2 * r <=> r = s) /\ 2 * s # 2 * r - 1
  BY <1>1 DEF Places
<1>3. Items \subseteq Nat
  BY FormType DEF Typed, TypeOK, Items
<1>4. In(s) \subseteq Items
  <2>1. chan[s] \in Seq(Items)
    BY DEF Typed, TypeOK
  <2> QED BY <2>1, ElementOfSeq, LenProperties DEF In, Range
<1>5. Holding(<<s, 1>>) \subseteq Items
  BY StageHasWorker DEF Typed, TypeOK, InHands, Holding, Busy
<1>6. At(2 * s - 1) = In(s)
  BY <1>2, <1>4 DEF At
<1>7. At(2 * s) = Holding(<<s, 1>>)
  BY <1>2, <1>5 DEF At
<1> QED BY <1>2, <1>3, <1>4, <1>5, <1>6, <1>7

LEMMA Ends ==
    ASSUME Typed
    PROVE  /\ At(0) = {next} /\ At(2 * K + 1) = Done
           /\ 0 \in Places /\ 2 * K + 1 \in Places /\ 2 * K + 1 # 0
           /\ \A p \in Places : At(p) \subseteq Nat
<1>1. K \in Nat /\ form.items \in Nat /\ next \in Nat /\ out \in Seq(Items)
  BY FormType DEF Typed, TypeOK
<1>2. /\ 0 \in Places /\ 2 * K + 1 \in Places /\ 2 * K + 1 # 0
      /\ Items \subseteq Nat
  BY <1>1 DEF Places, Items
<1>3. Done \subseteq Nat
  BY <1>1, <1>2, ElementOfSeq, LenProperties DEF Done, Range
<1> QED BY <1>1, <1>2, <1>3 DEF At

\* What a place gains in a step.
LEMMA PlaceGains ==
    ASSUME form' = form, NEW r \in Places, r # 0, NEW X,
           r = 2 * K + 1 => Done' \subseteq Done \cup X,
           \A s \in Stages : r = 2 * s - 1 => In(s)' \subseteq In(s) \cup X,
           \A s \in Stages : r = 2 * s => Holding(<<s, 1>>)' \subseteq Holding(<<s, 1>>) \cup X
    PROVE  At(r)' \subseteq At(r) \cup X
<1>1. CASE r = 2 * K + 1
  BY <1>1 DEF At
<1>2. ASSUME r # 2 * K + 1, NEW i \in At(r)'
      PROVE  i \in At(r) \cup X
  <2>1. PICK s \in Stages : \/ r = 2 * s - 1 /\ i \in In(s)'
                            \/ r = 2 * s /\ i \in Holding(<<s, 1>>)'
    BY <1>2 DEF At, Stages
  <2>2. i \in Items
    BY <1>2 DEF At, Items
  <2> QED BY <1>2, <2>1, <2>2 DEF At
<1> QED BY <1>1, <1>2

\* An item that moves one place on, from the front of its place, stays in line.
LEMMA LineMoves ==
    ASSUME Line, \A q \in Places : At(q) \subseteq Nat /\ At(q)' \subseteq Nat,
           NEW p \in Places, p + 1 \in Places, NEW i \in At(p),
           UpTo({i}, At(p)'), At(p + 1)' \subseteq At(p + 1) \cup {i},
           \A q \in Places : q # 0 /\ q # p + 1 => At(q)' \subseteq At(q),
           \A j \in At(0)' : \E k \in At(0) : k <= j
    PROVE  Line'
<1> SUFFICES ASSUME NEW q \in Places, NEW r \in Places, q < r,
                    NEW a, a \in At(r)', NEW b, b \in At(q)'
             PROVE  a <= b
  BY DEF Line, UpTo, Places
<1>0. /\ p \in Nat /\ q \in Nat /\ r \in Nat /\ r # 0
      /\ i \in Nat /\ a \in Nat /\ b \in Nat
  BY DEF Places
<1>1. CASE r = p + 1 /\ a = i
  <2>1. q = p \/ q < p
    BY <1>0, <1>1
  <2>2. CASE q = p
    BY <1>1, <2>2 DEF UpTo
  <2>3. CASE q < p
    <3>1. PICK k \in At(q) : k <= b
      BY <1>0, <2>3
    <3>2. i <= k
      BY <2>3 DEF Line, UpTo
    <3>3. k \in Nat
      BY <3>1
    <3> QED BY <1>0, <1>1, <3>1, <3>2, <3>3
  <2> QED BY <2>1, <2>2, <2>3
<1>2. CASE ~(r = p + 1 /\ a = i)
  <2>1. a \in At(r)
    BY <1>0, <1>2
  <2>2. CASE q = p + 1 /\ b = i
    <3>1. p < r
      BY <1>0, <2>2
    <3> QED BY <2>1, <2>2, <3>1 DEF Line, UpTo
  <2>3. CASE ~(q = p + 1 /\ b = i)
    <3>1. PICK k \in At(q) : k <= b
      <4>1. CASE q = 0
        BY <4>1
      <4>2. CASE q # 0
        <5>1. b \in At(q)
          BY <2>3, <4>2
        <5> QED BY <1>0, <5>1
      <4> QED BY <4>1, <4>2
    <3>2. a <= k
      BY <2>1 DEF Line, UpTo
    <3>3. k \in Nat
      BY <3>1
    <3> QED BY <1>0, <3>1, <3>2, <3>3
  <2> QED BY <2>2, <2>3
<1> QED BY <1>1, <1>2

LEMMA LineStays ==
    ASSUME Line, \A q \in Places : At(q)' \subseteq At(q)
    PROVE  Line'
BY DEF Line, UpTo, Places

LEMMA InitInOrder == Init => InOrder
<1> SUFFICES ASSUME Init, ThreadMacro
             PROVE  Line /\ Sorted(out) /\ \A s \in Stages : Sorted(chan[s])
  BY DEF InOrder
<1>1. /\ out = <<>> /\ \A s \in Stages : chan[s] = <<>>
      /\ \A w \in Team : wpc[w] = "recv"
  BY DEF Init
<1>2. Sorted(out) /\ \A s \in Stages : Sorted(chan[s])
  <2>1. Sorted(<<>>)
    BY DEF Sorted
  <2> QED BY <1>1, <2>1
<1>3. /\ \A s \in Stages : In(s) = {} /\ Holding(<<s, 1>>) = {}
      /\ Done = {}
  BY <1>1, StageHasWorker DEF Init, In, Holding, Done, Busy, Range
<1>4. \A p \in Places : p # 0 => At(p) = {}
  BY <1>3 DEF At
<1>5. \A p, q \in Places : p < q => q # 0
  BY DEF Places
<1> QED BY <1>2, <1>4, <1>5 DEF Line, UpTo

\* A step in which no item moves on.
LEMMA OrderStays ==
    ASSUME InOrder, form' = form, next' = next,
           UNCHANGED <<chan, out>>,
           \A s \in Stages : Holding(<<s, 1>>)' \subseteq Holding(<<s, 1>>)
    PROVE  InOrder'
<1>0. /\ \A s \in Stages : In(s)' = In(s)
      /\ Done' = Done /\ ThreadMacro' = ThreadMacro
  BY DEF In, Done, ThreadMacro
<1>1. ASSUME NEW q \in Places PROVE At(q)' \subseteq At(q)
  <2>1. CASE q = 0
    BY <2>1 DEF At
  <2>2. CASE q # 0
    <3>1. At(q)' \subseteq At(q) \cup {}
      BY <1>0, <2>2, PlaceGains
    <3> QED BY <3>1
  <2> QED BY <2>1, <2>2
<1>2. Line => Line'
  BY <1>1, LineStays
<1> QED BY <1>0, <1>2 DEF InOrder, Sorted, Stages

\* A step in which item i moves from place p to the next.
LEMMA OrderMoves ==
    ASSUME Typed, Typed', Line, form' = form, next <= next',
           NEW p \in Places, p + 1 \in Places, NEW i \in At(p), UpTo({i}, At(p)'),
           Done' \subseteq IF p + 1 = 2 * K + 1 THEN Done \cup {i} ELSE Done,
           \A s \in Stages : /\ In(s)' \subseteq IF p + 1 = 2 * s - 1 THEN In(s) \cup {i}
                                                 ELSE In(s)
                             /\ Holding(<<s, 1>>)' \subseteq IF p + 1 = 2 * s
                                                             THEN Holding(<<s, 1>>) \cup {i}
                                                             ELSE Holding(<<s, 1>>)
    PROVE  Line'
<1>0. p + 1 # 0
  BY DEF Places
<1>1. At(p + 1)' \subseteq At(p + 1) \cup {i}
  <2> DEFINE r == p + 1
  <2>1. r = 2 * K + 1 => Done' \subseteq Done \cup {i}
    OBVIOUS
  <2>2. \A s \in Stages : r = 2 * s - 1 => In(s)' \subseteq In(s) \cup {i}
    OBVIOUS
  <2>3. \A s \in Stages : r = 2 * s => Holding(<<s, 1>>)' \subseteq Holding(<<s, 1>>) \cup {i}
    OBVIOUS
  <2>4. r \in Places /\ r # 0
    BY <1>0
  <2> HIDE DEF r
  <2>5. At(r)' \subseteq At(r) \cup {i}
    BY <2>1, <2>2, <2>3, <2>4, PlaceGains
  <2> QED BY <2>5 DEF r
<1>2. ASSUME NEW r \in Places, r # 0, r # p + 1
      PROVE  At(r)' \subseteq At(r)
  <2>1. r = 2 * K + 1 => Done' \subseteq Done \cup {}
    BY <1>2
  <2>2. \A s \in Stages : r = 2 * s - 1 => In(s)' \subseteq In(s) \cup {}
    BY <1>2
  <2>3. \A s \in Stages : r = 2 * s => Holding(<<s, 1>>)' \subseteq Holding(<<s, 1>>) \cup {}
    BY <1>2
  <2>5. At(r)' \subseteq At(r) \cup {}
    BY <1>2, <2>1, <2>2, <2>3, PlaceGains
  <2> QED BY <2>5
<1>3. \A q \in Places : At(q) \subseteq Nat
  BY Ends
<1>4. At(0)' = {next'} /\ \A q \in Places : At(q)' \subseteq Nat
  <2>1. next' \in Nat /\ form'.items \in Nat /\ out' \in Seq(Items')
    <3>1. TypeOK'
      BY DEF Typed
    <3>2. form' \in Forms
      BY <3>1 DEF TypeOK
    <3>3. form'.items \in Nat
      BY <3>2, PipelineAssumption DEF Form
    <3> QED BY <3>1, <3>3 DEF TypeOK
  <2>2. Items' \subseteq Nat
    BY <2>1 DEF Items
  <2>3. Done' \subseteq Nat
    BY <2>1, <2>2, ElementOfSeq, LenProperties DEF Done, Range
  <2> QED BY <2>1, <2>2, <2>3 DEF At
<1>5. At(0) = {next}
  BY Ends
<1>6. \A j \in At(0)' : \E k \in At(0) : k <= j
  BY <1>4, <1>5
<1> HIDE DEF At
<1> QED BY <1>1, <1>2, <1>3, <1>4, <1>6, LineMoves

LEMMA NextInOrder == IInv /\ Typed /\ InOrder /\ [Next]_vars => InOrder'
<1> SUFFICES ASSUME IInv, Typed, InOrder, [Next]_vars, ThreadMacro PROVE InOrder'
  BY FormStays DEF InOrder, ThreadMacro
<1>f. form' = form /\ form \in Forms /\ ThreadMacro'
  BY FormStays DEF IInv, Shape, ThreadMacro
<1>p. Typed'
  BY NextTyped
<1>t. /\ out \in Seq(Nat) /\ out \in Seq(Items) /\ \A s \in Stages : chan[s] \in Seq(Nat)
      /\ 1 \in Stages /\ K \in Nat /\ next \in Nat /\ Items \subseteq Nat
      /\ yields \in [Stages \X Items -> Nat]
  <2>1. /\ form.items \in Nat /\ form.emits \in Nat /\ K \in Nat /\ 1 \in Stages
    BY <1>f, FormType
  <2>2. Items \subseteq Nat
    BY <2>1 DEF Items
  <2>3. \A q \in Seq(Items) : q \in Seq(Nat)
    BY <2>2, SeqMonotonic
  <2>4. /\ out \in Seq(Items) /\ next \in Nat /\ \A s \in Stages : chan[s] \in Seq(Items)
        /\ yields \in [Stages \X Items -> Nat]
    BY <2>1 DEF Typed, TypeOK
  <2> QED BY <2>1, <2>2, <2>3, <2>4
<1>o. Line /\ Sorted(out) /\ \A s \in Stages : Sorted(chan[s])
  BY DEF InOrder
<1>w. \A w \in Team : Stage(w) \in Stages /\ w = <<Stage(w), 1>>
  BY <1>f, TeamStage, OneWorker
<1>v. \A s \in Stages : <<s, 1>> \in Team /\ (\A w \in Team : Stage(w) # s => w # <<s, 1>>)
  BY <1>f, StageHasWorker
<1>1. CASE Still
  BY <1>1, <1>f, <1>v, OrderStays DEF Still
<1>2. ASSUME NEW i \in Items, Pulls(i) PROVE InOrder'
  <2>1. /\ chan' = [chan EXCEPT ![1] = Append(@, i)]
        /\ i = next /\ next' = next + 1 /\ out' = out /\ i \in Nat
        /\ \A w \in Team : Holding(w)' = Holding(w)
    BY <1>2, <1>t DEF Pulls
  <2>2. /\ chan'[1] = Append(chan[1], i) /\ \A s \in Stages : s # 1 => chan'[s] = chan[s]
        /\ In(1)' = In(1) \cup {i} /\ \A s \in Stages : s # 1 => In(s)' = In(s)
    BY <1>t, <2>1, ChannelGains
  <2>3. \A s \in Stages : Holding(<<s, 1>>)' = Holding(<<s, 1>>)
    BY <1>v, <2>1
  <2>4. /\ 0 \in Places /\ 1 \in Places /\ At(0) = {i} /\ At(1) = In(1) /\ i \in At(0)
    <3>1. 2 * 1 - 1 \in Places /\ At(2 * 1 - 1) = In(1)
      BY <1>t, PlaceIs
    <3>2. 2 * 1 - 1 = 1
      OBVIOUS
    <3> QED BY <2>1, <3>1, <3>2, Ends
  <2>5. UpTo(Range(chan[1]), {i})
    BY <1>o, <2>4 DEF Line, In
  <2>6. Sorted(chan'[1])
    BY <1>o, <1>t, <2>1, <2>2, <2>5, SortedAppend
  <2>7. UpTo({i}, At(0)')
    BY <1>t, <2>1 DEF UpTo, At
  <2>8. 0 + 1 \in Places /\ next <= next'
    BY <1>t, <2>1, <2>4
  <2>9. \A s \in Stages : In(s)' \subseteq IF 0 + 1 = 2 * s - 1 THEN In(s) \cup {i} ELSE In(s)
    BY <2>2 DEF Stages
  <2>10. Done' \subseteq IF 0 + 1 = 2 * K + 1 THEN Done \cup {i} ELSE Done
    BY <2>1 DEF Done
  <2>11. \A s \in Stages : Holding(<<s, 1>>)' \subseteq IF 0 + 1 = 2 * s
                                           THEN Holding(<<s, 1>>) \cup {i}
                                           ELSE Holding(<<s, 1>>)
    BY <2>3
  <2>12. Line'
    BY <1>f, <1>o, <1>p, <2>4, <2>7, <2>8, <2>9, <2>10, <2>11, OrderMoves
  <2> QED BY <1>f, <1>o, <2>1, <2>2, <2>6, <2>12 DEF InOrder
<1>3. ASSUME NEW w \in Team, NEW i \in Items, Takes(w, i) PROVE InOrder'
  <2>s. PICK s \in Stages : s = Stage(w) /\ w = <<s, 1>>
    BY <1>w
  <2>1. /\ UNCHANGED <<out, next>> /\ chan[s] # <<>> /\ i = Head(chan[s])
        /\ chan' = [chan EXCEPT ![s] = Tail(@)]
        /\ Holding(w)' = {i} /\ \A v \in Team : v # w => Holding(v)' = Holding(v)
    BY <1>3, <2>s DEF Takes, OthersHold
  <2>2. /\ i \in In(s) /\ In(s)' \subseteq In(s) /\ chan'[s] = Tail(chan[s])
        /\ \A r \in Stages : r # s => In(r)' = In(r) /\ chan'[r] = chan[r]
    BY <2>1, ChannelLoses
  <2>3. Sorted(chan'[s]) /\ UpTo({i}, In(s))
    BY <1>o, <1>t, <2>1, <2>2, SortedTail DEF In
  <2>4. /\ Holding(<<s, 1>>)' = {i}
        /\ \A r \in Stages : r # s => Holding(<<r, 1>>)' = Holding(<<r, 1>>)
    BY <1>v, <2>s, <2>1
  <2> DEFINE p == 2 * s - 1
  <2>5. /\ p \in Places /\ p + 1 \in Places /\ At(p) = In(s) /\ p # 0 /\ p # 2 * K + 1
        /\ p + 1 = 2 * s /\ s \in Nat
    <3>1. 2 * s - 1 \in Places \ {0, 2 * K + 1} /\ 2 * s \in Places /\ At(2 * s - 1) = In(s)
      BY PlaceIs
    <3>2. (2 * s - 1) + 1 = 2 * s /\ s \in Nat
      BY DEF Stages
    <3> QED BY <3>1, <3>2
  <2>6. At(p)' \subseteq In(s)
    <3>1. 2 * s - 1 \in Places /\ 2 * s - 1 # 0 /\ 2 * s - 1 # 2 * K + 1
      BY PlaceIs
    <3>2. \A r \in Stages : 2 * s - 1 = 2 * r - 1 => In(r)' \subseteq In(r) \cup {}
      BY <2>2
    <3>3. \A r \in Stages : 2 * s - 1 # 2 * r
      BY DEF Stages
    <3>4. At(2 * s - 1)' \subseteq At(2 * s - 1) \cup {}
      BY <1>f, <3>1, <3>2, <3>3, PlaceGains
    <3> QED BY <2>5, <3>4
  <2>7. UpTo({i}, At(p)')
    BY <2>3, <2>6 DEF UpTo
  <2>8. \A r \in Stages :
             /\ In(r)' \subseteq IF p + 1 = 2 * r - 1 THEN In(r) \cup {i} ELSE In(r)
             /\ Holding(<<r, 1>>)' \subseteq IF p + 1 = 2 * r THEN Holding(<<r, 1>>) \cup {i}
                                             ELSE Holding(<<r, 1>>)
    BY <2>2, <2>4, <2>5
  <2>9. Done' \subseteq IF p + 1 = 2 * K + 1 THEN Done \cup {i} ELSE Done
    BY <2>1 DEF Done
  <2>10. i \in At(p) /\ next <= next'
    BY <1>t, <2>1, <2>2, <2>5
  <2> HIDE DEF p
  <2>11. Line'
    BY <1>f, <1>o, <1>p, <2>5, <2>7, <2>8, <2>9, <2>10, OrderMoves
  <2> QED BY <1>f, <1>o, <2>1, <2>2, <2>3, <2>11 DEF InOrder
<1>4. ASSUME NEW w \in Team, NEW i \in Items, Drops(w, i) PROVE InOrder'
  <2>1. \A v \in Team : Holding(v)' \subseteq Holding(v)
    BY <1>4 DEF Drops, OthersHold
  <2> QED BY <1>4, <1>f, <1>v, <2>1, OrderStays DEF Drops
<1>5. ASSUME NEW w \in Team, NEW i \in Items, Answers(w, i) PROVE InOrder'
  <2>n. PICK n \in Nat \ {0} : n = yields[<<K, i>>]
    BY <1>5, <1>t, TeamStage DEF Answers
  <2>1. /\ out' = out \o Copies(i, n) /\ UNCHANGED <<chan, next>> /\ w = <<K, 1>> /\ K \in Stages
        /\ Holding(w) = {i} /\ Holding(w)' = {}
        /\ \A v \in Team : v # w => Holding(v)' = Holding(v)
    BY <1>5, <1>w, <2>n DEF Answers, OthersHold
  <2> DEFINE p == 2 * K
  <2>2. /\ p \in Places /\ p + 1 \in Places /\ At(p) = {i} /\ At(p + 1) = Done
        /\ p + 1 = 2 * K + 1 /\ p < p + 1 /\ p # 0 /\ p # 2 * K + 1
    <3>1. 2 * K \in Places \ {0} /\ At(2 * K) = Holding(<<K, 1>>)
      BY <2>1, PlaceIs
    <3>2. 2 * K < 2 * K + 1 /\ 2 * K # 2 * K + 1
      BY <1>t
    <3> QED BY <2>1, <3>1, <3>2, Ends
  <2>3. i \in Nat /\ UpTo(Done, {i})
    BY <1>o, <1>t, <2>2 DEF Line
  <2>4. Sorted(out')
    BY <1>o, <1>t, <2>1, <2>3, SortedCopies DEF Done
  <2>5. Done' \subseteq IF p + 1 = 2 * K + 1 THEN Done \cup {i} ELSE Done
    BY <1>t, <2>1, <2>2, AnswerGains DEF Done
  <2>6. /\ \A r \in Stages : In(r)' = In(r)
        /\ \A r \in Stages : Holding(<<r, 1>>)' \subseteq Holding(<<r, 1>>)
    BY <1>v, <2>1 DEF In
  <2>7. At(2 * K)' \subseteq At(2 * K) \cup {}
    BY <1>f, <2>2, <2>6, PlaceGains
  <2>8. UpTo({i}, At(p)')
    BY <2>2, <2>3, <2>7 DEF UpTo
  <2>9. i \in At(p) /\ next <= next'
    BY <1>t, <2>1, <2>2
  <2>10. \A r \in Stages :
             /\ In(r)' \subseteq IF p + 1 = 2 * r - 1 THEN In(r) \cup {i} ELSE In(r)
             /\ Holding(<<r, 1>>)' \subseteq IF p + 1 = 2 * r THEN Holding(<<r, 1>>) \cup {i}
                                             ELSE Holding(<<r, 1>>)
    BY <2>6
  <2> HIDE DEF p
  <2>11. Line'
    BY <1>f, <1>o, <1>p, <2>2, <2>5, <2>8, <2>9, <2>10, OrderMoves
  <2> QED BY <1>f, <1>o, <2>1, <2>4, <2>11 DEF InOrder
<1>6. ASSUME NEW w \in Team, NEW i \in Items, Sends(w, i) PROVE InOrder'
  <2>s. PICK s \in Stages : s = Stage(w) /\ w = <<s, 1>>
    BY <1>w
  <2>r. PICK r \in Stages : r = s + 1
    BY <1>6, <2>s DEF Sends
  <2>1. /\ chan' = [chan EXCEPT ![r] = Append(@, i)] /\ UNCHANGED <<out, next>>
        /\ Holding(w) = {i} /\ Holding(w)' \subseteq {i}
        /\ \A v \in Team : v # w => Holding(v)' = Holding(v)
    BY <1>6, <2>s, <2>r DEF Sends, OthersHold
  <2>2. /\ chan'[r] = Append(chan[r], i) /\ \A t \in Stages : t # r => chan'[t] = chan[t]
        /\ In(r)' = In(r) \cup {i} /\ \A t \in Stages : t # r => In(t)' = In(t)
    BY <2>1, ChannelGains
  <2>3. \A t \in Stages : Holding(<<t, 1>>)' \subseteq Holding(<<t, 1>>)
    BY <1>v, <2>1
  <2> DEFINE p == 2 * s
  <2>4. /\ p \in Places /\ p + 1 \in Places /\ At(p) = {i} /\ At(p + 1) = In(r)
        /\ p + 1 = 2 * r - 1 /\ p # 0 /\ p # 2 * K + 1 /\ p < p + 1
    <3>1. /\ 2 * s \in Places \ {0, 2 * K + 1} /\ At(2 * s) = {i}
          /\ 2 * r - 1 \in Places /\ At(2 * r - 1) = In(r)
      BY <2>s, <2>1, PlaceIs
    <3>2. 2 * s + 1 = 2 * r - 1 /\ 2 * s < 2 * s + 1
      BY <2>r DEF Stages
    <3> QED BY <3>1, <3>2
  <2>5. i \in Nat /\ UpTo(Range(chan[r]), {i})
    BY <1>o, <1>t, <2>4 DEF Line, In
  <2>6. Sorted(chan'[r])
    BY <1>o, <1>t, <2>2, <2>5, SortedAppend
  <2>7. At(2 * s)' \subseteq At(2 * s) \cup {}
    <3>1. 2 * s \in Places /\ 2 * s # 0 /\ 2 * s # 2 * K + 1
      BY <2>4
    <3>2. \A t \in Stages : 2 * s # 2 * t - 1
      BY DEF Stages
    <3> QED BY <1>f, <2>3, <3>1, <3>2, PlaceGains
  <2>8. UpTo({i}, At(p)')
    BY <2>4, <2>5, <2>7 DEF UpTo
  <2>9. i \in At(p) /\ next <= next'
    BY <1>t, <2>1, <2>4
  <2>10. \A t \in Stages :
             /\ In(t)' \subseteq IF p + 1 = 2 * t - 1 THEN In(t) \cup {i} ELSE In(t)
             /\ Holding(<<t, 1>>)' \subseteq IF p + 1 = 2 * t THEN Holding(<<t, 1>>) \cup {i}
                                             ELSE Holding(<<t, 1>>)
    BY <2>2, <2>3, <2>4
  <2>11. Done' \subseteq IF p + 1 = 2 * K + 1 THEN Done \cup {i} ELSE Done
    BY <2>1 DEF Done
  <2> HIDE DEF p
  <2>12. Line'
    BY <1>f, <1>o, <1>p, <2>4, <2>8, <2>9, <2>10, <2>11, OrderMoves
  <2> QED BY <1>f, <1>o, <2>1, <2>2, <2>6, <2>12 DEF InOrder
<1> QED
  BY <1>1, <1>2, <1>3, <1>4, <1>5, <1>6, StepMoves DEF Moves

\* ~s> answers its items in the order of the source, however many stages and
\* bodies that emit several items or none are in between, and also when it
\* stops at an error (the comment on run_thread_par_worker,
\* par_pipeline.rs:329).
THEOREM SourceOrder == Spec => [](ThreadMacro => Sorted(out))
<1>1. InOrder => (ThreadMacro => Sorted(out))
  BY DEF InOrder
<1> QED
  BY InitIInv, NextIInv, InitTyped, NextTyped, InitInOrder, NextInOrder, <1>1, PTL DEF Spec

-----------------------------------------------------------------------------
\* Induction over the numbers, from the finite sets' being well-founded.

\* A set of numbers has a least one.
LEMMA LeastNumber ==
    ASSUME NEW T \in SUBSET Nat, T # {}
    PROVE  \E x \in T : \A y \in T : x <= y
<1>0. PICK b \in T : TRUE
  OBVIOUS
<1> DEFINE S == 0 .. b
           Initials == {0 .. m : m \in {k \in T : k <= b}}
<1>1. IsWellFoundedOn(StrictSubsetOrdering(S), FiniteSubsetsOf(S))
  BY FS_StrictSubsetOrderingWellFounded
<1>2. Initials \subseteq FiniteSubsetsOf(S) /\ Initials # {}
  <2>1. \A m \in T : IsFiniteSet(0 .. m)
    BY FS_Interval
  <2>2. \A m \in T : m <= b => 0 .. m \in SUBSET S
    OBVIOUS
  <2>3. 0 .. b \in Initials
    OBVIOUS
  <2> QED BY <2>1, <2>2, <2>3 DEF FiniteSubsetsOf
<1>3. PICK X \in Initials : \A Y \in Initials : <<Y, X>> \notin StrictSubsetOrdering(S)
  <2> HIDE DEF Initials, S
  <2> QED BY <1>1, <1>2, WFMin
<1>4. PICK m \in T : X = 0 .. m /\ m <= b
  BY <1>3
<1>5. ASSUME NEW y \in T, y < m
      PROVE  FALSE
  <2>1. 0 .. y \in Initials
    BY <1>4, <1>5
  <2>2. 0 .. y \subseteq X /\ 0 .. y \in SUBSET S /\ X \in SUBSET S /\ 0 .. y # X
    <3>1. m \in X /\ m \notin 0 .. y
      BY <1>4, <1>5
    <3>2. 0 .. y \subseteq X /\ 0 .. y \in SUBSET S /\ X \in SUBSET S
      BY <1>4, <1>5
    <3> QED BY <3>1, <3>2
  <2>3. <<0 .. y, X>> \in StrictSubsetOrdering(S)
    <3> HIDE DEF S
    <3> QED BY <2>2 DEF StrictSubsetOrdering
  <2> QED BY <1>3, <2>1, <2>3
<1> QED BY <1>4, <1>5

\* A set of numbers that has 0, and with each m below n the next, has n.
LEMMA StepByStep ==
    ASSUME NEW T, 0 \in T, NEW n \in Nat, \A m \in Nat : m < n /\ m \in T => m + 1 \in T
    PROVE  n \in T
<1> SUFFICES ASSUME n \notin T PROVE FALSE
  OBVIOUS
<1> DEFINE U == {m \in 0 .. n : m \notin T}
<1>1. U \in SUBSET Nat /\ n \in U
  OBVIOUS
<1>2. PICK x \in U : \A y \in U : x <= y
  <2> HIDE DEF U
  <2> QED BY <1>1, LeastNumber
<1>3. x # 0 /\ x - 1 \in Nat /\ x - 1 < n
  BY <1>2
<1>4. x - 1 \notin T
  BY <1>3
<1>5. x - 1 \in U
  BY <1>2, <1>3, <1>4
<1> QED BY <1>2, <1>3, <1>5

-----------------------------------------------------------------------------
\* Both recursions of Expected come to an end.
-----------------------------------------------------------------------------
\* The answer the program expects.

\* The shares are numbers, and a stage multiplies what the next one has.
LEMMA Shares ==
    ASSUME Typed
    PROVE  /\ Share \in [1 .. K + 1 -> [Items -> Nat]]
           /\ \A i \in Items : Share[K + 1][i] = 1
           /\ \A s \in Stages, i \in Items : Share[s][i] = yields[<<s, i>>] * Share[s + 1][i]
<1>0. K \in Nat /\ Stages = 1 .. K /\ yields \in [Stages \X Items -> Nat]
  <2>1. form.emits \in Nat /\ K \in Nat
    BY FormType DEF Typed, TypeOK
  <2>2. 0 .. form.emits \subseteq Nat /\ yields \in [Stages \X Items -> 0 .. form.emits]
    BY <2>1 DEF Typed, TypeOK
  <2> QED BY <2>1, <2>2 DEF Stages
<1> DEFINE Shared(g, s) ==
             g[s] = [i \in Items |-> IF s = K + 1 THEN 1 ELSE yields[<<s, i>>] * g[s + 1][i]]
           T == {d \in 0 .. K : \E g \in [(K + 1 - d) .. (K + 1) -> [Items -> Nat]] :
                                  \A s \in (K + 1 - d) .. (K + 1) : Shared(g, s)}
<1>1. 0 \in T
  <2> DEFINE g == [s \in (K + 1 - 0) .. (K + 1) |-> [i \in Items |-> 1]]
  <2>1. g \in [(K + 1 - 0) .. (K + 1) -> [Items -> Nat]]
    OBVIOUS
  <2>2. \A s \in (K + 1 - 0) .. (K + 1) : Shared(g, s)
    BY <1>0
  <2> HIDE DEF g, Shared
  <2>3. \E f \in [(K + 1 - 0) .. (K + 1) -> [Items -> Nat]] :
            \A s \in (K + 1 - 0) .. (K + 1) : Shared(f, s)
    BY <2>1, <2>2
  <2>4. 0 \in 0 .. K
    BY <1>0
  <2> QED BY <2>3, <2>4
<1>2. ASSUME NEW d \in Nat, d < K, d \in T
      PROVE  d + 1 \in T
  <2>1. PICK g \in [(K + 1 - d) .. (K + 1) -> [Items -> Nat]] :
               \A s \in (K + 1 - d) .. (K + 1) : Shared(g, s)
    BY <1>2
  <2> DEFINE a == K + 1 - (d + 1)
             top == [i \in Items |-> yields[<<a, i>>] * g[a + 1][i]]
             h == [s \in a .. (K + 1) |-> IF s = a THEN top ELSE g[s]]
  <2>2. /\ a \in Stages /\ a # K + 1 /\ a + 1 = K + 1 - d /\ a \in Nat
        /\ \A s \in a .. (K + 1) : s = a \/ s \in (a + 1) .. (K + 1)
        /\ \A s \in (a + 1) .. (K + 1) : s # a /\ s \in a .. (K + 1)
                                         /\ (s = K + 1 \/ s + 1 \in (a + 1) .. (K + 1))
        /\ a + 1 \in (a + 1) .. (K + 1)
    BY <1>0, <1>2
  <2> HIDE DEF a
  <2>3. top \in [Items -> Nat]
    <3>1. g[a + 1] \in [Items -> Nat]
      BY <2>1, <2>2
    <3> QED BY <1>0, <2>2, <3>1
  <2>4. h \in [a .. (K + 1) -> [Items -> Nat]]
    BY <2>1, <2>2, <2>3
  <2>5. h[a] = top /\ \A s \in (a + 1) .. (K + 1) : h[s] = g[s]
    <3> HIDE DEF top
    <3>1. a \in a .. (K + 1)
      BY <1>0, <2>2
    <3> QED BY <2>2, <3>1
  <2>6. h[a] = top /\ h[a + 1] = g[a + 1]
    BY <2>2, <2>5
  <2>7. ASSUME NEW s \in a .. (K + 1) PROVE Shared(h, s)
    <3>1. CASE s = a
      BY <2>2, <2>6, <3>1
    <3>2. CASE s \in (a + 1) .. (K + 1)
      <4>1. Shared(g, s)
        BY <2>1, <2>2, <3>2
      <4>2. CASE s = K + 1
        BY <2>5, <3>2, <4>1, <4>2
      <4>3. CASE s # K + 1
        <5>1. h[s + 1] = g[s + 1] /\ h[s] = g[s]
          BY <2>2, <2>5, <3>2, <4>3
        <5> QED BY <4>1, <4>3, <5>1
      <4> QED BY <4>2, <4>3
    <3> QED BY <2>2, <3>1, <3>2
  <2>8. d + 1 \in 0 .. K
    BY <1>0, <1>2
  <2> QED BY <2>4, <2>7, <2>8 DEF a
<1>3. K \in T
  <2> HIDE DEF T
  <2> QED BY <1>0, <1>1, <1>2, StepByStep
<1>4. PICK g \in [1 .. (K + 1) -> [Items -> Nat]] : \A s \in 1 .. (K + 1) : Shared(g, s)
  <2>1. K + 1 - K = 1
    BY <1>0
  <2>2. \E g \in [(K + 1 - K) .. (K + 1) -> [Items -> Nat]] :
               \A s \in (K + 1 - K) .. (K + 1) : Shared(g, s)
    BY <1>3
  <2> HIDE DEF Shared
  <2> QED BY <2>1, <2>2
<1>5. g = [s \in 1 .. K + 1 |->
             [i \in Items |-> IF s = K + 1 THEN 1 ELSE yields[<<s, i>>] * g[s + 1][i]]]
  BY <1>4
<1>6. Share = [s \in 1 .. K + 1 |->
             [i \in Items |-> IF s = K + 1 THEN 1 ELSE yields[<<s, i>>] * Share[s + 1][i]]]
  <2>1. \E f : f = [s \in 1 .. K + 1 |->
                  [i \in Items |-> IF s = K + 1 THEN 1 ELSE yields[<<s, i>>] * f[s + 1][i]]]
    BY <1>5
  <2> QED BY <2>1 DEF Share
<1>7. /\ Share = [s \in 1 .. K + 1 |-> Share[s]]
      /\ \A s \in 1 .. K + 1 : Share[s] =
           [i \in Items |-> IF s = K + 1 THEN 1 ELSE yields[<<s, i>>] * Share[s + 1][i]]
  BY <1>6
<1>8. ASSUME NEW s \in 1 .. K + 1 PROVE Share[s] \in [Items -> Nat]
  <2> DEFINE U == {d \in 0 .. K : Share[K + 1 - d] \in [Items -> Nat]}
  <2>1. 0 \in U
    <3>1. K + 1 \in 1 .. K + 1 /\ K + 1 - 0 = K + 1 /\ 0 \in 0 .. K
      BY <1>0
    <3>2. Share[K + 1] = [i \in Items |-> 1]
      BY <1>7, <3>1
    <3> QED BY <3>1, <3>2
  <2>2. ASSUME NEW d \in Nat, d < K, d \in U
        PROVE  d + 1 \in U
    <3>1. PICK a \in Stages : a = K + 1 - (d + 1) /\ a + 1 = K + 1 - d
      BY <1>0, <2>2
    <3>2. Share[a + 1] \in [Items -> Nat]
      BY <2>2, <3>1
    <3>3. a \in 1 .. K + 1 /\ a # K + 1
      BY <1>0
    <3>4. Share[a] \in [Items -> Nat]
      <4>1. Share[a] = [i \in Items |-> yields[<<a, i>>] * Share[a + 1][i]]
        BY <1>7, <3>3
      <4>2. [i \in Items |-> yields[<<a, i>>] * Share[a + 1][i]] \in [Items -> Nat]
        BY <1>0, <3>2
      <4> QED BY <4>1, <4>2
    <3> QED BY <1>0, <2>2, <3>1, <3>4
  <2>3. \A d \in 0 .. K : d \in U
    <3> HIDE DEF U
    <3> QED BY <1>0, <2>1, <2>2, StepByStep
  <2>4. K + 1 - s \in 0 .. K /\ K + 1 - (K + 1 - s) = s
    BY <1>0
  <2> QED BY <2>3, <2>4
<1>9. Share \in [1 .. K + 1 -> [Items -> Nat]]
  BY <1>7, <1>8
<1>10. \A i \in Items : Share[K + 1][i] = 1
  <2>1. K + 1 \in 1 .. K + 1
    BY <1>0
  <2> QED BY <1>7, <2>1
<1>11. ASSUME NEW s \in Stages, NEW i \in Items
       PROVE  Share[s][i] = yields[<<s, i>>] * Share[s + 1][i]
  <2>1. s \in 1 .. K + 1 /\ s # K + 1
    BY <1>0
  <2> QED BY <1>7, <2>1
<1> QED BY <1>9, <1>10, <1>11

LEMMA CopiesAre ==
    ASSUME NEW S, NEW i \in S, NEW n \in Nat
    PROVE  /\ Copies(i, n) \in Seq(S) /\ Len(Copies(i, n)) = n
           /\ \A k \in 1 .. n : Copies(i, n)[k] = i
BY DEF Copies

\* What is due for n items is what is due for one fewer, and then n's.
LEMMA Dues ==
    ASSUME Typed
    PROVE  /\ \A n \in 0 .. form.items : Due[n] \in Seq(Items)
           /\ Due[0] = <<>>
           /\ \A n \in Items : Due[n] = Due[n - 1] \o Copies(n, Share[1][n])
<1>0. /\ form.items \in Nat /\ Items = 1 .. form.items
      /\ \A n \in Items : Share[1][n] \in Nat
  <2>1. form.items \in Nat /\ K \in Nat
    BY FormType DEF Typed, TypeOK
  <2>2. 1 \in 1 .. K + 1
    BY <2>1
  <2> QED BY <2>1, <2>2, Shares DEF Items
<1> DEFINE N == form.items
           More(n) == Copies(n, Share[1][n])
           Made(g, n) == g[n] = IF n = 0 THEN <<>> ELSE g[n - 1] \o More(n)
           T == {d \in 0 .. N : \E g \in [0 .. d -> Seq(Items)] : \A n \in 0 .. d : Made(g, n)}
<1>m. \A n \in Items, q \in Seq(Items) : q \o More(n) \in Seq(Items)
  BY <1>0, CopiesAre, ConcatProperties
<1>1. 0 \in T
  <2> DEFINE g == [n \in 0 .. 0 |-> <<>>]
  <2>1. g \in [0 .. 0 -> Seq(Items)] /\ \A n \in 0 .. 0 : Made(g, n)
    BY EmptySeq
  <2> HIDE DEF g, Made
  <2>2. \E f \in [0 .. 0 -> Seq(Items)] : \A n \in 0 .. 0 : Made(f, n)
    BY <2>1
  <2>3. 0 \in 0 .. N
    BY <1>0
  <2> QED BY <2>2, <2>3
<1>2. ASSUME NEW d \in Nat, d < N, d \in T
      PROVE  d + 1 \in T
  <2>1. PICK g \in [0 .. d -> Seq(Items)] : \A n \in 0 .. d : Made(g, n)
    BY <1>2
  <2> DEFINE h == [n \in 0 .. (d + 1) |-> IF n = d + 1 THEN g[d] \o More(d + 1) ELSE g[n]]
  <2>2. /\ d + 1 \in Items /\ d + 1 \in 0 .. (d + 1) /\ d + 1 # 0 /\ d \in 0 .. d
        /\ (d + 1) - 1 = d /\ d + 1 \in 0 .. N
        /\ \A n \in 0 .. (d + 1) : n = d + 1 \/ n \in 0 .. d
        /\ \A n \in 0 .. d : n # d + 1 /\ n \in 0 .. (d + 1) /\ (n = 0 \/ n - 1 \in 0 .. d)
    BY <1>0, <1>2
  <2>3. g[d] \o More(d + 1) \in Seq(Items)
    BY <1>m, <2>1, <2>2
  <2> HIDE DEF More
  <2>4. h \in [0 .. (d + 1) -> Seq(Items)]
    BY <2>1, <2>2, <2>3
  <2>5. h[d + 1] = g[d] \o More(d + 1) /\ \A n \in 0 .. d : h[n] = g[n]
    BY <2>2
  <2> HIDE DEF h
  <2>6. ASSUME NEW n \in 0 .. (d + 1) PROVE Made(h, n)
    <3>1. CASE n = d + 1
      BY <2>2, <2>5, <3>1
    <3>2. CASE n \in 0 .. d
      <4>1. Made(g, n)
        BY <2>1, <3>2
      <4> QED BY <2>2, <2>5, <3>2, <4>1
    <3> QED BY <2>2, <3>1, <3>2
  <2> HIDE DEF Made
  <2>7. \E f \in [0 .. (d + 1) -> Seq(Items)] : \A n \in 0 .. (d + 1) : Made(f, n)
    BY <2>4, <2>6
  <2> QED BY <2>2, <2>7
<1>3. N \in T
  <2> HIDE DEF T
  <2> QED BY <1>0, <1>1, <1>2, StepByStep
<1>4. PICK g \in [0 .. N -> Seq(Items)] : \A n \in 0 .. N : Made(g, n)
  BY <1>3
<1>5. g = [n \in 0 .. form.items |-> IF n = 0 THEN <<>> ELSE g[n - 1] \o Copies(n, Share[1][n])]
  BY <1>4
<1>6. Due = [n \in 0 .. form.items |->
               IF n = 0 THEN <<>> ELSE Due[n - 1] \o Copies(n, Share[1][n])]
  <2>1. \E f : f = [n \in 0 .. form.items |->
                      IF n = 0 THEN <<>> ELSE f[n - 1] \o Copies(n, Share[1][n])]
    BY <1>5
  <2> QED BY <2>1 DEF Due
<1>7. \A n \in 0 .. N : Due[n] = IF n = 0 THEN <<>> ELSE Due[n - 1] \o More(n)
  BY <1>6
<1>8. Due[0] = <<>> /\ \A n \in Items : Due[n] = Due[n - 1] \o Copies(n, Share[1][n])
  <2>1. 0 \in 0 .. N /\ \A n \in Items : n \in 0 .. N /\ n # 0
    BY <1>0
  <2> QED BY <1>7, <2>1
<1>9. \A n \in 0 .. N : Due[n] \in Seq(Items)
  <2> DEFINE U == {d \in 0 .. N : Due[d] \in Seq(Items)}
  <2>1. 0 \in U
    <3>1. Due[0] = <<>> /\ 0 \in 0 .. N
      BY <1>0, <1>8
    <3>2. Due[0] \in Seq(Items)
      BY <3>1, EmptySeq
    <3> QED BY <3>1, <3>2
  <2>2. ASSUME NEW d \in Nat, d < N, d \in U
        PROVE  d + 1 \in U
    <3>1. d + 1 \in Items /\ (d + 1) - 1 = d /\ d + 1 \in 0 .. N
      BY <1>0, <2>2
    <3> HIDE DEF More
    <3>2. Due[d + 1] = Due[d] \o More(d + 1)
      BY <1>8, <3>1 DEF More
    <3>3. Due[d + 1] \in Seq(Items)
      BY <1>m, <2>2, <3>1, <3>2
    <3> QED BY <3>1, <3>3
  <2>3. ASSUME NEW n \in 0 .. N PROVE n \in U
    <3>1. n \in Nat /\ \A d \in Nat : d < n => d < N
      BY <1>0
    <3> HIDE DEF U
    <3> QED BY <2>1, <2>2, <3>1, StepByStep
  <2> QED BY <2>3
<1> QED BY <1>8, <1>9

\* The answers for an item are one stretch of all that are expected.
LEMMA Stretch ==
    ASSUME Typed, NEW n \in Items
    PROVE  /\ Len(Due[n - 1]) \in Nat /\ Len(Due[n]) = Len(Due[n - 1]) + Share[1][n]
           /\ Share[1][n] \in Nat /\ Len(Due[n]) <= Len(Expected)
           /\ \A x \in Len(Due[n - 1]) + 1 .. Len(Due[n]) : Expected[x] = n
<1>0. /\ form.items \in Nat /\ n \in 1 .. form.items /\ Items = 1 .. form.items
      /\ \A m \in Items : Share[1][m] \in Nat
  <2>1. form.items \in Nat /\ K \in Nat
    BY FormType DEF Typed, TypeOK
  <2>2. 1 \in 1 .. K + 1
    BY <2>1
  <2> QED BY <2>1, <2>2, Shares DEF Items
<1> DEFINE More(m) == Copies(m, Share[1][m])
<1>1. ASSUME NEW m \in Items
      PROVE  /\ Len(Due[m - 1]) \in Nat /\ Len(Due[m]) = Len(Due[m - 1]) + Share[1][m]
             /\ \A x \in 1 .. Len(Due[m]) :
                  Due[m][x] = IF x <= Len(Due[m - 1]) THEN Due[m - 1][x] ELSE m
  <2>1. /\ m - 1 \in 0 .. form.items /\ Due[m - 1] \in Seq(Items)
        /\ Len(Due[m - 1]) \in Nat
    BY <1>0, Dues, LenProperties
  <2>2. /\ More(m) \in Seq(Items) /\ Len(More(m)) = Share[1][m]
        /\ \A k \in 1 .. Share[1][m] : More(m)[k] = m
    BY <1>0, CopiesAre
  <2> HIDE DEF More
  <2>3. Due[m] = Due[m - 1] \o More(m)
    BY Dues DEF More
  <2>4. /\ Len(Due[m]) = Len(Due[m - 1]) + Share[1][m]
        /\ \A x \in 1 .. Len(Due[m]) : Due[m][x] =
             IF x <= Len(Due[m - 1]) THEN Due[m - 1][x] ELSE More(m)[x - Len(Due[m - 1])]
    <3>1. /\ Len(Due[m - 1] \o More(m)) = Len(Due[m - 1]) + Len(More(m))
          /\ \A x \in 1 .. Len(Due[m - 1]) + Len(More(m)) : (Due[m - 1] \o More(m))[x] =
               IF x <= Len(Due[m - 1]) THEN Due[m - 1][x] ELSE More(m)[x - Len(Due[m - 1])]
      BY <2>1, <2>2, ConcatProperties
    <3> QED BY <2>2, <2>3, <3>1
  <2>5. ASSUME NEW x \in 1 .. Len(Due[m]), ~(x <= Len(Due[m - 1]))
        PROVE  x - Len(Due[m - 1]) \in 1 .. Share[1][m]
    BY <1>0, <2>1, <2>4, <2>5
  <2> QED BY <2>1, <2>2, <2>4, <2>5
<1> DEFINE T == {d \in 0 .. form.items - n :
                   /\ Len(Due[n + d]) \in Nat /\ Len(Due[n]) <= Len(Due[n + d])
                   /\ \A x \in 1 .. Len(Due[n]) : Due[n + d][x] = Due[n][x]}
<1>2. 0 \in T
  BY <1>0, <1>1
<1>3. ASSUME NEW d \in Nat, d < form.items - n, d \in T
      PROVE  d + 1 \in T
  <2>1. PICK m \in Items : m = n + (d + 1) /\ m - 1 = n + d
    BY <1>0, <1>3
  <2>2. Len(Due[m]) \in Nat /\ Len(Due[m - 1]) <= Len(Due[m])
    <3> DEFINE x == Len(Due[m - 1])
               y == Share[1][m]
    <3>1. x \in Nat /\ y \in Nat /\ Len(Due[m]) = x + y
      BY <1>0, <1>1
    <3> HIDE DEF x, y
    <3>2. x + y \in Nat /\ x <= x + y
      BY <3>1
    <3> QED BY <3>1, <3>2 DEF x
  <2>3. \A x \in 1 .. Len(Due[m - 1]) : x \in 1 .. Len(Due[m]) /\ Due[m][x] = Due[m - 1][x]
    BY <1>1, <2>2
  <2>4. Len(Due[n]) \in Nat
    BY <1>0, <1>1
  <2>5. /\ Len(Due[n]) <= Len(Due[m - 1])
        /\ \A x \in 1 .. Len(Due[n]) : Due[m - 1][x] = Due[n][x]
    BY <1>3, <2>1
  <2>6. /\ Len(Due[n]) <= Len(Due[m])
        /\ \A x \in 1 .. Len(Due[n]) : Due[m][x] = Due[n][x]
    BY <1>1, <2>2, <2>3, <2>4, <2>5
  <2>7. d + 1 \in 0 .. form.items - n
    BY <1>0, <1>3
  <2> QED BY <2>1, <2>2, <2>6, <2>7
<1>4. form.items - n \in T
  <2>1. form.items - n \in Nat
    BY <1>0
  <2> HIDE DEF T
  <2> QED BY <1>2, <1>3, <2>1, StepByStep
<1>5. n + (form.items - n) = form.items
  BY <1>0
<1>6. /\ Len(Due[n]) <= Len(Expected)
      /\ \A x \in 1 .. Len(Due[n]) : Expected[x] = Due[n][x]
  BY <1>4, <1>5 DEF Expected
<1>7. ASSUME NEW x \in Len(Due[n - 1]) + 1 .. Len(Due[n]) PROVE Expected[x] = n
  <2>1. x \in 1 .. Len(Due[n]) /\ ~(x <= Len(Due[n - 1]))
    BY <1>0, <1>1
  <2> QED BY <1>1, <1>6, <2>1
<1> QED BY <1>0, <1>1, <1>6, <1>7

-----------------------------------------------------------------------------
\* Answers a + 1 to b are those for item i.
For(i, a, b) == \A x \in a + 1 .. b : Expected[x] = i

\* The items of a channel have stretches that follow one another, and c says
\* where each ends.
Marks(c, q, m) ==
    /\ c \in [0 .. Len(q) -> 0 .. Len(Expected)]
    /\ \A k \in 1 .. Len(q) : c[k] = c[k - 1] + m[q[k]] /\ For(q[k], c[k - 1], c[k])

\* The answers there will be for what is left of a worker's item.
Worth(w) ==
    IF wpc[w] \in {"check", "body"} THEN Share[Stage(w)][held[w]]
    ELSE IF wpc[w] = "emit" THEN left[w] * Share[Stage(w) + 1][held[w]]
    ELSE 0

\* The one worker of stage s has the stretch from a, its channel that to b.
Placed(s, a, b, c) ==
    /\ c[0] = a + Worth(<<s, 1>>) /\ For(held[<<s, 1>>], a, c[0])
    /\ Marks(c, chan[s], Share[s]) /\ c[Len(chan[s])] = b

\* What stage s receives can still be answered.
Serves(s) == err = None \/ \A r \in s .. K : wpc[<<r, 1>>] # "gone"

\* The answer so far is a beginning of the expected one; what is with the
\* worker and in the channel of the last stage comes next, then what is with
\* the stage before it, and so on back to the source.  L[s] is where the
\* stretch of stage s ends.
Laid(L, C) ==
    /\ L \in [1 .. K + 1 -> 0 .. Len(Expected)] /\ L[K + 1] = Len(out)
    /\ \A x \in 1 .. Len(out) : out[x] = Expected[x]
    /\ \A s \in Stages : Serves(s) => Placed(s, L[s + 1], L[s], C[s])
    /\ Serves(1) => L[1] = Len(Due[next - 1])

Continued == ThreadMacro => \E L, C : Laid(L, C)

\* An item i at the end of q has its stretch from where c ends to b.
Reaches(c, q, i, m, b) ==
    b \in 0 .. Len(Expected) /\ b = c[Len(q)] + m[i] /\ For(i, c[Len(q)], b)

LEMMA MarksAppend ==
    ASSUME NEW c, NEW q \in Seq(Items), NEW i \in Items, NEW m,
           Marks(c, q, m), NEW b, Reaches(c, q, i, m, b)
    PROVE  \E d : Marks(d, Append(q, i), m) /\ d[0] = c[0] /\ d[Len(q) + 1] = b
<1>0. b \in 0 .. Len(Expected) /\ b = c[Len(q)] + m[i] /\ For(i, c[Len(q)], b)
  BY DEF Reaches
<1> DEFINE n == Len(q)
           r == Append(q, i)
           d == [k \in 0 .. n + 1 |-> IF k = n + 1 THEN b ELSE c[k]]
<1>1. n \in Nat /\ Len(r) = n + 1 /\ r[n + 1] = i /\ \A k \in 1 .. n : r[k] = q[k]
  BY AppendProperties, LenProperties
<1>2. /\ n + 1 \in 0 .. n + 1 /\ 0 \in 0 .. n + 1 /\ 0 # n + 1 /\ n # n + 1 /\ n \in 0 .. n + 1
      /\ (n + 1) - 1 = n
      /\ \A k \in 0 .. n + 1 : k = n + 1 \/ k \in 0 .. n
      /\ \A k \in 1 .. n + 1 : k = n + 1 \/ k \in 1 .. n
      /\ \A k \in 1 .. n : k # n + 1 /\ k - 1 # n + 1 /\ k \in 0 .. n + 1 /\ k - 1 \in 0 .. n + 1
  BY <1>1
<1>3. c \in [0 .. n -> 0 .. Len(Expected)]
  BY DEF Marks
<1>4. d \in [0 .. n + 1 -> 0 .. Len(Expected)]
  BY <1>0, <1>2, <1>3
<1>5. d[n + 1] = b /\ d[n] = c[n] /\ d[0] = c[0]
  BY <1>2
<1>6. \A k \in 1 .. n : d[k] = c[k] /\ d[k - 1] = c[k - 1]
  BY <1>2
<1> HIDE DEF d, r
<1>7. ASSUME NEW k \in 1 .. n + 1
      PROVE  d[k] = d[k - 1] + m[r[k]] /\ For(r[k], d[k - 1], d[k])
  <2>1. CASE k = n + 1
    BY <1>0, <1>1, <1>2, <1>5, <2>1
  <2>2. CASE k \in 1 .. n
    <3>1. c[k] = c[k - 1] + m[q[k]] /\ For(q[k], c[k - 1], c[k])
      BY <2>2 DEF Marks
    <3> QED BY <1>1, <1>6, <2>2, <3>1
  <2> QED BY <1>2, <2>1, <2>2
<1>8. Marks(d, r, m)
  BY <1>1, <1>4, <1>7 DEF Marks
<1> QED BY <1>1, <1>5, <1>8 DEF r

LEMMA MarksTail ==
    ASSUME NEW c, NEW q \in Seq(Items), q # <<>>, NEW m, Marks(c, q, m)
    PROVE  \E d : /\ Marks(d, Tail(q), m)
                  /\ d[0] = c[0] + m[Head(q)] /\ For(Head(q), c[0], d[0])
                  /\ d[Len(Tail(q))] = c[Len(q)]
<1> DEFINE n == Len(Tail(q))
           r == Tail(q)
           d == [k \in 0 .. n |-> c[k + 1]]
<1>1. /\ n \in Nat /\ Len(q) = n + 1 /\ Head(q) = q[1] /\ \A k \in 1 .. n : r[k] = q[k + 1]
  BY HeadTailProperties, LenProperties, EmptySeq
<1>2. /\ 0 \in 0 .. n /\ n \in 0 .. n /\ 1 \in 1 .. n + 1 /\ 1 - 1 = 0
      /\ \A k \in 0 .. n : k + 1 \in 0 .. n + 1
      /\ \A k \in 1 .. n : /\ k + 1 \in 1 .. n + 1 /\ (k + 1) - 1 = k /\ (k - 1) + 1 = k
                           /\ k \in 0 .. n /\ k - 1 \in 0 .. n
  BY <1>1
<1>3. /\ c \in [0 .. n + 1 -> 0 .. Len(Expected)]
      /\ \A k \in 1 .. n + 1 : c[k] = c[k - 1] + m[q[k]] /\ For(q[k], c[k - 1], c[k])
  BY <1>1 DEF Marks
<1>4. d \in [0 .. n -> 0 .. Len(Expected)]
  BY <1>2, <1>3
<1>5. d[0] = c[1] /\ d[n] = c[n + 1] /\ \A k \in 1 .. n : d[k] = c[k + 1] /\ d[k - 1] = c[k]
  BY <1>2
<1> HIDE DEF d, r
<1>6. ASSUME NEW k \in 1 .. n
      PROVE  d[k] = d[k - 1] + m[r[k]] /\ For(r[k], d[k - 1], d[k])
  <2>1. c[k + 1] = c[k] + m[q[k + 1]] /\ For(q[k + 1], c[k], c[k + 1])
    BY <1>2, <1>3
  <2> QED BY <1>1, <1>5, <2>1
<1>7. Marks(d, r, m)
  BY <1>4, <1>6 DEF Marks, r
<1>8. d[0] = c[0] + m[Head(q)] /\ For(Head(q), c[0], d[0])
  <2>1. c[1] = c[0] + m[q[1]] /\ For(q[1], c[0], c[1])
    BY <1>2, <1>3
  <2> QED BY <1>1, <1>5, <2>1
<1> QED BY <1>1, <1>5, <1>7, <1>8 DEF r

LEMMA SameExpected ==
    ASSUME UNCHANGED program
    PROVE  Share' = Share /\ Due' = Due /\ Expected' = Expected
BY DEF program, Share, Due, Expected, Items

LEMMA ServesStays ==
    ASSUME err' = None => err = None,
           \A r \in Stages : wpc[<<r, 1>>] = "gone" => wpc'[<<r, 1>>] = "gone",
           NEW s \in Stages, Serves(s)'
    PROVE  Serves(s)
<1>1. CASE err' = None
  BY <1>1 DEF Serves
<1>2. CASE err' # None
  <2>1. \A r \in s .. K : r \in Stages
    BY PipelineAssumption DEF Stages
  <2> QED BY <1>2, <2>1 DEF Serves
<1> QED BY <1>1, <1>2

\* A step that leaves each stage what it has or cuts it off.
LEMMA LaidStays ==
    ASSUME ThreadMacro, NEW L, NEW C, Laid(L, C), UNCHANGED <<program, out, chan, next>>,
           1 \in Stages, err' = None => err = None,
           \A r \in Stages : wpc[<<r, 1>>] = "gone" => wpc'[<<r, 1>>] = "gone",
           \A s \in Stages : Serves(s)' =>
               /\ Worth(<<s, 1>>)' = Worth(<<s, 1>>)
               /\ Worth(<<s, 1>>) = 0 \/ held'[<<s, 1>>] = held[<<s, 1>>]
    PROVE  Laid(L, C)'
<1>1. Share' = Share /\ Due' = Due /\ Expected' = Expected
  BY SameExpected
<1>2. ASSUME NEW s \in Stages, Serves(s)'
      PROVE  Placed(s, L[s + 1], L[s], C[s])'
  <2>1. Placed(s, L[s + 1], L[s], C[s])
    BY <1>2, ServesStays DEF Laid
  <2>2. C[s][0] = L[s + 1] + Worth(<<s, 1>>)'
    BY <1>2, <2>1 DEF Placed
  <2>3. (Marks(C[s], chan[s], Share[s]) /\ C[s][Len(chan[s])] = L[s])'
    BY <1>1, <2>1 DEF Placed, Marks, For
  <2>4. For(held[<<s, 1>>], L[s + 1], C[s][0])'
    <3>1. CASE held'[<<s, 1>>] = held[<<s, 1>>]
      BY <1>1, <2>1, <3>1 DEF Placed, For
    <3>2. CASE Worth(<<s, 1>>) = 0
      <4>1. C[s][0] = L[s + 1] /\ L[s + 1] \in Nat
        <5>1. L[s + 1] \in Nat
          <6>1. s + 1 \in 1 .. K + 1
            BY PipelineAssumption DEF Stages
          <6> QED BY <6>1 DEF Laid
        <5> QED BY <2>1, <3>2, <5>1 DEF Placed
      <4>2. L[s + 1] + 1 .. C[s][0] = {}
        BY <4>1
      <4> QED BY <4>2 DEF For
    <3> QED BY <1>2, <3>1, <3>2
  <2> QED BY <2>2, <2>3, <2>4 DEF Placed
<1>3. Serves(1)' => L[1] = Len(Due'[next' - 1])
  BY <1>1, ServesStays DEF Laid
<1> QED BY <1>1, <1>2, <1>3 DEF Laid

\* What a stage has is its own.
LEMMA WorthSame ==
    ASSUME UNCHANGED program, NEW v, wpc'[v] = wpc[v], held'[v] = held[v], left'[v] = left[v]
    PROVE  Worth(v)' = Worth(v)
BY SameExpected DEF Worth, Stage

LEMMA PlacedSame ==
    ASSUME UNCHANGED program, NEW s, chan'[s] = chan[s], Worth(<<s, 1>>)' = Worth(<<s, 1>>),
           held'[<<s, 1>>] = held[<<s, 1>>], NEW a, NEW b, NEW c, Placed(s, a, b, c)
    PROVE  Placed(s, a, b, c)'
BY SameExpected DEF Placed, Marks, For

LEMMA Numbers ==
    ASSUME Typed
    PROVE  /\ K \in Nat \ {0} /\ Stages = 1 .. K /\ Items = 1 .. form.items
           /\ form.items \in Nat /\ Len(Expected) \in Nat /\ Len(out) \in Nat
           /\ \A s \in Stages : s \in 1 .. K + 1 /\ s + 1 \in 1 .. K + 1 /\ s # K + 1
<1>1. K \in Nat \ {0} /\ Stages = 1 .. K /\ Items = 1 .. form.items /\ form.items \in Nat
  BY FormType DEF Typed, TypeOK, Stages, Items
<1>2. form.items \in 0 .. form.items
  BY <1>1
<1>3. Expected \in Seq(Items)
  BY <1>2, Dues DEF Expected
<1>4. Len(Expected) \in Nat /\ Len(out) \in Nat
  BY <1>3, LenProperties DEF Typed, TypeOK
<1> QED BY <1>1, <1>4

\* A worker leaves, or goes on with what it has.
LEMMA WorkerStays ==
    ASSUME Typed, ThreadMacro, NEW L, NEW C, Laid(L, C), UNCHANGED <<program, out, chan, next>>,
           NEW w \in Team, wpc[w] # "gone", err' = None => err = None,
           \A v \in Team : v # w => wpc'[v] = wpc[v] /\ held'[v] = held[v] /\ left'[v] = left[v],
           \/ wpc'[w] = "gone" /\ err' # None
           \/ Worth(w)' = Worth(w) /\ (Worth(w) = 0 \/ held'[w] = held[w])
    PROVE  Laid(L, C)'
<1>1. form \in Forms /\ w = <<Stage(w), 1>> /\ Stage(w) \in Stages /\ 1 \in Stages
  BY OneWorker, TeamStage, FormType DEF Typed, TypeOK
<1>2. \A r \in Stages : <<r, 1>> \in Team /\ (<<r, 1>> = w <=> r = Stage(w))
  BY <1>1, StageHasWorker
<1>3. \A r \in Stages : wpc[<<r, 1>>] = "gone" => wpc'[<<r, 1>>] = "gone"
  BY <1>2
<1>4. ASSUME NEW s \in Stages, Serves(s)'
      PROVE  /\ Worth(<<s, 1>>)' = Worth(<<s, 1>>)
             /\ Worth(<<s, 1>>) = 0 \/ held'[<<s, 1>>] = held[<<s, 1>>]
  <2>1. CASE s # Stage(w)
    BY <1>2, <2>1, WorthSame
  <2>2. CASE s = Stage(w)
    <3>1. s \in s .. K
      BY Numbers
    <3>2. ~(wpc'[w] = "gone" /\ err' # None)
      BY <1>1, <1>4, <2>2, <3>1 DEF Serves
    <3> QED BY <1>1, <2>2, <3>2
  <2> QED BY <2>1, <2>2
<1> QED BY <1>1, <1>3, <1>4, LaidStays

\* A step that leaves stage s all it has.
Alone(s, L, C, M, D) ==
    /\ chan'[s] = chan[s] /\ wpc'[<<s, 1>>] = wpc[<<s, 1>>]
    /\ held'[<<s, 1>>] = held[<<s, 1>>] /\ left'[<<s, 1>>] = left[<<s, 1>>]
    /\ M[s] = L[s] /\ M[s + 1] = L[s + 1] /\ D[s] = C[s]

\* A step after which M and D say what L and C said before it.
Rearranged(L, C, M, D) ==
    /\ UNCHANGED program /\ (err' = None => err = None)
    /\ \A r \in Stages : wpc[<<r, 1>>] = "gone" => wpc'[<<r, 1>>] = "gone"
    /\ M \in [1 .. K + 1 -> 0 .. Len(Expected)] /\ M[K + 1] = Len(out')
    /\ \A x \in 1 .. Len(out') : out'[x] = Expected[x]
    /\ \A s \in Stages :
           Alone(s, L, C, M, D) \/ (Serves(s)' => Placed(s, M[s + 1], M[s], D[s])')
    /\ Serves(1)' => M[1] = Len(Due[next' - 1])

LEMMA LaidMoves ==
    ASSUME NEW L, NEW C, Laid(L, C), NEW M, NEW D, Rearranged(L, C, M, D)
    PROVE  Laid(M, D)'
<1>1. Share' = Share /\ Due' = Due /\ Expected' = Expected
  BY SameExpected DEF Rearranged
<1>2. ASSUME NEW s \in Stages, Serves(s)'
      PROVE  Placed(s, M[s + 1], M[s], D[s])'
  <2>1. CASE Alone(s, L, C, M, D)
    <3>1. Placed(s, L[s + 1], L[s], C[s])
      BY <1>2, ServesStays DEF Laid, Rearranged
    <3>2. Worth(<<s, 1>>)' = Worth(<<s, 1>>)
      BY <2>1, WorthSame DEF Alone, Rearranged
    <3>3. Placed(s, L[s + 1], L[s], C[s])'
      BY <2>1, <3>1, <3>2, PlacedSame DEF Alone, Rearranged
    <3> QED BY <2>1, <3>3 DEF Alone
  <2> QED BY <1>2, <2>1 DEF Rearranged
<1> QED BY <1>1, <1>2 DEF Laid, Rearranged

-----------------------------------------------------------------------------
\* What each step does to the stretches.
LEMMA LaidPulled ==
    ASSUME IInv, Typed, ThreadMacro, NEW L, NEW C, Laid(L, C), SourceSend, ~ReceiversGone(1)
    PROVE  \E M, D : Laid(M, D)'
<1>0. /\ spc = "send" /\ chan' = [chan EXCEPT ![1] = Append(@, next)] /\ next' = next + 1
      /\ UNCHANGED <<program, wpc, held, left, out, err>>
  BY DEF SourceSend
<1>1. /\ next \in Items /\ next' - 1 = next /\ 1 \in Stages /\ 1 # K + 1
      /\ chan \in [Stages -> Seq(Items)] /\ chan[1] \in Seq(Items)
      /\ \A s \in Stages : s # 1 => s + 1 # 1
  <2>1. next \in 1 .. form.items + 1 /\ next <= form.items /\ chan \in [Stages -> Seq(Items)]
    BY <1>0 DEF Typed, TypeOK, InHands
  <2> QED BY <1>0, <2>1, Numbers
<1>B. PICK b : b = Len(Due[next])
  OBVIOUS
<1>M. PICK M : M = [L EXCEPT ![1] = b]
  OBVIOUS
<1>2. /\ b \in 0 .. Len(Expected) /\ b = Len(Due[next - 1]) + Share[1][next]
      /\ For(next, Len(Due[next - 1]), b)
  BY <1>1, <1>B, Stretch, Numbers DEF For
<1>3. Share[1] \in [Items -> Nat]
  BY <1>1, Numbers, Shares
<1>4. \E d : Serves(1) => /\ Marks(d, Append(chan[1], next), Share[1])
                          /\ d[0] = C[1][0] /\ d[Len(chan[1]) + 1] = b
  <2>1. CASE Serves(1)
    <3>1. /\ Marks(C[1], chan[1], Share[1]) /\ C[1][Len(chan[1])] = L[1]
          /\ L[1] = Len(Due[next - 1])
      BY <1>1, <2>1 DEF Laid, Placed
    <3>2. b = C[1][Len(chan[1])] + Share[1][next] /\ For(next, C[1][Len(chan[1])], b)
      BY <1>2, <3>1
    <3> DEFINE q == chan[1]
               c == C[1]
               m == Share[1]
    <3>3. q \in Seq(Items) /\ next \in Items /\ Marks(c, q, m) /\ Reaches(c, q, next, m, b)
      BY <1>1, <1>2, <3>1, <3>2 DEF Reaches
    <3> HIDE DEF q, c, m
    <3>4. \E d : Marks(d, Append(q, next), m) /\ d[0] = c[0] /\ d[Len(q) + 1] = b
      BY <3>3, MarksAppend
    <3> QED BY <3>4 DEF q, c, m
  <2> QED BY <2>1
<1>5. PICK d : Serves(1) => /\ Marks(d, Append(chan[1], next), Share[1])
                            /\ d[0] = C[1][0] /\ d[Len(chan[1]) + 1] = b
  BY <1>4
<1>D. PICK D : D = [s \in Stages |-> IF s = 1 THEN d ELSE C[s]]
  OBVIOUS
<1>6. /\ D[1] = d /\ \A s \in Stages \ {1} : D[s] = C[s]
  BY <1>1, <1>D
<1>7. /\ M \in [1 .. K + 1 -> 0 .. Len(Expected)] /\ M[1] = b
      /\ \A s \in 1 .. K + 1 : s # 1 => M[s] = L[s]
  <2>1. L \in [1 .. K + 1 -> 0 .. Len(Expected)] /\ 1 \in 1 .. K + 1
    BY <1>1, Numbers DEF Laid
  <2> QED BY <1>2, <1>M, <2>1
<1>8. M[K + 1] = Len(out') /\ \A x \in 1 .. Len(out') : out'[x] = Expected[x]
  BY <1>0, <1>1, <1>7, Numbers DEF Laid
<1>9. ASSUME NEW s \in Stages \ {1}
      PROVE  /\ chan'[s] = chan[s] /\ M[s] = L[s] /\ M[s + 1] = L[s + 1] /\ D[s] = C[s]
  BY <1>0, <1>1, <1>6, <1>7, Numbers
<1>10. ASSUME Serves(1)'
       PROVE  Placed(1, M[2], M[1], D[1])'
  <2>1. Serves(1)
    BY <1>0, <1>1, <1>10, ServesStays
  <2>2. Placed(1, L[2], L[1], C[1])
    BY <1>1, <2>1 DEF Laid
  <2>3. M[2] = L[2] /\ chan'[1] = Append(chan[1], next) /\ Len(chan'[1]) = Len(chan[1]) + 1
    BY <1>0, <1>1, <1>7, Numbers, AppendProperties
  <2>4. Worth(<<1, 1>>)' = Worth(<<1, 1>>)
    BY <1>0, WorthSame
  <2>5. Share' = Share /\ Expected' = Expected
    BY <1>0, SameExpected
  <2>6. d[0] = L[2] + Worth(<<1, 1>>)' /\ For(held[<<1, 1>>], L[2], d[0])'
    BY <1>0, <1>5, <2>1, <2>2, <2>4, <2>5 DEF Placed, For
  <2>7. Marks(d, chan[1], Share[1])' /\ d[Len(chan'[1])] = b
    BY <1>5, <2>1, <2>3, <2>5 DEF Marks, For
  <2> QED BY <1>6, <1>7, <2>3, <2>6, <2>7 DEF Placed
<1>11. Laid(M, D)'
  <2>1. ASSUME NEW s \in Stages
        PROVE  Alone(s, L, C, M, D) \/ (Serves(s)' => Placed(s, M[s + 1], M[s], D[s])')
    <3>1. CASE s = 1
      <4>1. 1 + 1 = 2
        OBVIOUS
      <4> QED BY <1>10, <3>1, <4>1
    <3>2. CASE s # 1
      BY <1>0, <1>9, <3>2 DEF Alone
    <3> QED BY <3>1, <3>2
  <2>2. M[1] = Len(Due[next' - 1])
    BY <1>1, <1>7, <1>B
  <2>3. Rearranged(L, C, M, D)
    BY <1>0, <1>7, <1>8, <2>1, <2>2 DEF Rearranged
  <2> QED BY <2>3, LaidMoves
<1> QED BY <1>11

\* What a stretch is made of is within the expected answer.
LEMMA PlacedWithin ==
    ASSUME Typed, NEW s \in Stages, NEW a, NEW b, NEW c, Placed(s, a, b, c)
    PROVE  /\ c[0] \in 0 .. Len(Expected) /\ chan[s] \in Seq(Items) /\ Len(chan[s]) \in Nat
           /\ Share[s] \in [Items -> Nat] /\ Share[s + 1] \in [Items -> Nat]
<1>1. chan[s] \in Seq(Items)
  BY DEF Typed, TypeOK
<1>2. Len(chan[s]) \in Nat
  BY <1>1, LenProperties
<1>3. c[0] \in 0 .. Len(Expected)
  <2>1. c \in [0 .. Len(chan[s]) -> 0 .. Len(Expected)]
    BY DEF Placed, Marks
  <2> QED BY <1>2, <2>1
<1>4. Share[s] \in [Items -> Nat] /\ Share[s + 1] \in [Items -> Nat]
  BY Numbers, Shares
<1> QED BY <1>1, <1>2, <1>3, <1>4

LEMMA LaidReceived ==
    ASSUME Typed, ThreadMacro, NEW L, NEW C, Laid(L, C), NEW w \in Team, Recv(w)
    PROVE  \E M, D : Laid(M, D)'
<1> DEFINE s == Stage(w)
<1>0. /\ wpc[w] = "recv" /\ chan[s] # <<>>
      /\ held' = [held EXCEPT ![w] = Head(chan[s])]
      /\ chan' = [chan EXCEPT ![s] = Tail(@)]
      /\ wpc' = [wpc EXCEPT ![w] = "check"]
      /\ UNCHANGED <<program, next, left, err, out>>
  BY DEF Recv
<1>1. /\ w = <<s, 1>> /\ s \in Stages /\ \A r \in Stages : r # s => <<r, 1>> # w
      /\ \A r \in Stages : <<r, 1>> \in Team
  BY OneWorker, TeamStage, StageHasWorker DEF Typed, TypeOK
<1>2. /\ \A r \in Stages : r # s => chan'[r] = chan[r] /\ wpc'[<<r, 1>>] = wpc[<<r, 1>>]
                                    /\ held'[<<r, 1>>] = held[<<r, 1>>]
      /\ chan'[s] = Tail(chan[s]) /\ wpc'[w] = "check" /\ held'[w] = Head(chan[s])
      /\ \A r \in Stages : left'[<<r, 1>>] = left[<<r, 1>>]
  <2>1. chan \in [Stages -> Seq(Items)] /\ w \in DOMAIN wpc /\ w \in DOMAIN held
    BY DEF Typed, TypeOK
  <2> HIDE DEF s
  <2> QED BY <1>0, <1>1, <2>1
<1> HIDE DEF s
<1>3. \E d : Serves(s) => /\ Marks(d, Tail(chan[s]), Share[s])
                          /\ d[0] = C[s][0] + Share[s][Head(chan[s])]
                          /\ For(Head(chan[s]), C[s][0], d[0])
                          /\ d[Len(Tail(chan[s]))] = L[s]
  <2>1. CASE Serves(s)
    <3> DEFINE q == chan[s]
               c == C[s]
               m == Share[s]
    <3>1. Placed(s, L[s + 1], L[s], c)
      BY <1>1, <2>1 DEF Laid
    <3>2. q \in Seq(Items) /\ q # <<>> /\ Marks(c, q, m) /\ c[Len(q)] = L[s]
      BY <1>0, <1>1, <3>1, PlacedWithin DEF Placed
    <3> HIDE DEF q, c, m
    <3>3. \E d : /\ Marks(d, Tail(q), m)
                 /\ d[0] = c[0] + m[Head(q)] /\ For(Head(q), c[0], d[0])
                 /\ d[Len(Tail(q))] = L[s]
      BY <3>2, MarksTail
    <3> QED BY <3>3 DEF q, c, m
  <2> QED BY <2>1
<1>4. PICK d : Serves(s) => /\ Marks(d, Tail(chan[s]), Share[s])
                            /\ d[0] = C[s][0] + Share[s][Head(chan[s])]
                            /\ For(Head(chan[s]), C[s][0], d[0])
                            /\ d[Len(Tail(chan[s]))] = L[s]
  BY <1>3
<1>S. PICK t : t = s
  OBVIOUS
<1>D. PICK D : D = [r \in Stages |-> IF r = t THEN d ELSE C[r]]
  OBVIOUS
<1>5. D[s] = d /\ \A r \in Stages : r # s => D[r] = C[r]
  BY <1>1, <1>D, <1>S
<1>6. \A r \in Stages : wpc[<<r, 1>>] = "gone" => wpc'[<<r, 1>>] = "gone"
  BY <1>0, <1>1, <1>2
<1>7. ASSUME Serves(t)'
      PROVE  Placed(t, L[t + 1], L[t], D[t])'
  <2>1. Serves(s)
    BY <1>0, <1>1, <1>6, <1>7, <1>S, ServesStays
  <2>2. Placed(s, L[s + 1], L[s], C[s])
    BY <1>1, <2>1 DEF Laid
  <2>3. C[s][0] = L[s + 1]
    <3>1. Worth(w) = 0
      BY <1>0 DEF Worth
    <3>2. L[s + 1] \in Nat
      BY <1>1, Numbers DEF Laid
    <3> QED BY <1>1, <2>2, <3>1, <3>2 DEF Placed
  <2>4. Share' = Share /\ Expected' = Expected
    BY <1>0, SameExpected
  <2>5. Worth(<<t, 1>>)' = Share[s][Head(chan[s])]
    BY <1>1, <1>2, <1>S, <2>4 DEF Worth, Stage
  <2>6. d[0] = L[t + 1] + Worth(<<t, 1>>)' /\ For(held[<<t, 1>>], L[t + 1], d[0])'
    BY <1>1, <1>2, <1>4, <1>S, <2>1, <2>3, <2>4, <2>5 DEF For
  <2>7. Marks(d, chan[t], Share[t])' /\ d[Len(chan'[t])] = L[t]
    <3>1. chan'[t] = Tail(chan[s]) /\ Share'[t] = Share[s]
      BY <1>2, <1>S, <2>4
    <3>2. Marks(d, Tail(chan[s]), Share[s]) /\ d[Len(Tail(chan[s]))] = L[t]
      BY <1>4, <1>S, <2>1
    <3> QED BY <2>4, <3>1, <3>2 DEF Marks, For
  <2>8. D[t] = d
    BY <1>5, <1>S
  <2> QED BY <2>6, <2>7, <2>8 DEF Placed
<1>8. ASSUME NEW r \in Stages
      PROVE  Alone(r, L, C, L, D) \/ (Serves(r)' => Placed(r, L[r + 1], L[r], D[r])')
  <2>1. CASE r = t
    BY <1>7, <2>1
  <2>2. CASE r # t
    BY <1>2, <1>5, <1>S, <2>2 DEF Alone
  <2> QED BY <2>1, <2>2
<1>9. Rearranged(L, C, L, D)
  <2>1. Serves(1)' => L[1] = Len(Due[next' - 1])
    <3>1. 1 \in Stages
      BY Numbers
    <3>2. Serves(1)' => Serves(1)
      BY <1>0, <1>6, <3>1, ServesStays
    <3> QED BY <1>0, <3>2 DEF Laid
  <2>2. /\ L \in [1 .. K + 1 -> 0 .. Len(Expected)] /\ L[K + 1] = Len(out')
        /\ \A x \in 1 .. Len(out') : out'[x] = Expected[x]
    BY <1>0 DEF Laid
  <2> QED BY <1>0, <1>6, <1>8, <2>1, <2>2 DEF Rearranged
<1> QED BY <1>9, LaidMoves

LEMMA LaidAnswered ==
    ASSUME Typed, ThreadMacro, NEW L, NEW C, Laid(L, C), NEW w \in Team, Body(w),
           Stage(w) = K, <<K, held[w]>> \notin fails
    PROVE  \E M, D : Laid(M, D)'
<1> DEFINE i == held[w]
           n == yields[<<K, i>>]
<1>0. /\ wpc[w] = "body" /\ out' = out \o Copies(i, n)
      /\ left' = [left EXCEPT ![w] = 0] /\ wpc' = [wpc EXCEPT ![w] = "recv"]
      /\ UNCHANGED <<program, chan, next, held, err>>
  BY DEF Body
<1>1. /\ w = <<K, 1>> /\ K \in Stages /\ \A r \in Stages : r # K => <<r, 1>> # w
      /\ \A r \in Stages : <<r, 1>> \in Team
  BY OneWorker, TeamStage, StageHasWorker DEF Typed, TypeOK
<1>2. /\ \A r \in Stages : r # K => wpc'[<<r, 1>>] = wpc[<<r, 1>>]
                                    /\ left'[<<r, 1>>] = left[<<r, 1>>]
      /\ wpc'[w] = "recv"
  <2>1. w \in DOMAIN wpc
    BY DEF Typed, TypeOK
  <2> HIDE DEF i, n
  <2> QED BY <1>0, <1>1, <2>1
<1>3. i \in Items /\ n \in Nat
  <2>1. i \in Items
    BY <1>0 DEF Typed, InHands
  <2>2. n \in 0 .. form.emits /\ form.emits \in Nat
    BY <1>1, <2>1, FormType DEF Typed, TypeOK
  <2> QED BY <2>1, <2>2
<1>4. Placed(K, L[K + 1], L[K], C[K])
  <2>1. \A r \in K .. K : r = K
    BY Numbers
  <2>2. Serves(K)
    BY <1>0, <1>1, <2>1 DEF Serves
  <2> QED BY <1>1, <2>2 DEF Laid
<1>5. /\ C[K][0] = Len(out) + n /\ For(i, Len(out), C[K][0])
      /\ C[K][0] \in 0 .. Len(Expected)
  <2>1. Share[K][i] = n
    <3>1. Share[K][i] = n * Share[K + 1][i] /\ Share[K + 1][i] = 1
      BY <1>1, <1>3, Shares
    <3> HIDE DEF n
    <3> QED BY <1>3, <3>1
  <2>2. Worth(w) = n
    BY <1>0, <1>1, <2>1 DEF Worth, Stage
  <2>3. L[K + 1] = Len(out)
    BY DEF Laid
  <2> QED BY <1>1, <1>4, <2>2, <2>3, PlacedWithin DEF Placed
<1>B. PICK b : b = C[K][0]
  OBVIOUS
<1>M. PICK M : M = [L EXCEPT ![K + 1] = b]
  OBVIOUS
<1> HIDE DEF i, n
<1>6. Len(out') = b /\ \A x \in 1 .. b : out'[x] = Expected[x]
  <2>1. /\ Copies(i, n) \in Seq(Items) /\ Len(Copies(i, n)) = n
        /\ \A k \in 1 .. n : Copies(i, n)[k] = i
    BY <1>3, CopiesAre
  <2>2. out \in Seq(Items) /\ Len(out) \in Nat
    BY Numbers DEF Typed, TypeOK
  <2>3. /\ Len(out \o Copies(i, n)) = Len(out) + Len(Copies(i, n))
        /\ \A x \in 1 .. Len(out) + Len(Copies(i, n)) :
               (out \o Copies(i, n))[x] = IF x <= Len(out) THEN out[x]
                                          ELSE Copies(i, n)[x - Len(out)]
    BY <2>1, <2>2, ConcatProperties
  <2>4. Len(out') = b
    BY <1>0, <1>5, <1>B, <2>1, <2>3
  <2>5. ASSUME NEW x \in 1 .. b
        PROVE  out'[x] = Expected[x]
    <3>1. x \in 1 .. Len(out) + n
      BY <1>5, <1>B
    <3>2. CASE x <= Len(out)
      <4>1. x \in 1 .. Len(out)
        BY <2>2, <3>1, <3>2
      <4>2. out[x] = Expected[x]
        BY <4>1 DEF Laid
      <4> QED BY <1>0, <2>1, <2>3, <3>1, <3>2, <4>2
    <3>3. CASE ~(x <= Len(out))
      <4>1. x \in Len(out) + 1 .. b /\ x - Len(out) \in 1 .. n
        BY <1>3, <2>2, <3>1, <3>3
      <4>2. Expected[x] = i
        BY <1>5, <1>B, <4>1 DEF For
      <4> QED BY <1>0, <2>1, <2>3, <3>1, <3>3, <4>1, <4>2
    <3> QED BY <3>2, <3>3
  <2> QED BY <2>4, <2>5
<1>7. /\ M \in [1 .. K + 1 -> 0 .. Len(Expected)] /\ M[K + 1] = b
      /\ \A r \in Stages : M[r] = L[r] /\ (r # K => M[r + 1] = L[r + 1])
  <2>1. L \in [1 .. K + 1 -> 0 .. Len(Expected)]
    BY DEF Laid
  <2>2. b \in 0 .. Len(Expected) /\ K + 1 \in 1 .. K + 1
    BY <1>5, <1>B, Numbers
  <2>3. \A r \in Stages : /\ r \in 1 .. K + 1 /\ r + 1 \in 1 .. K + 1 /\ r # K + 1
                          /\ (r # K => r + 1 # K + 1)
    BY Numbers
  <2> QED BY <1>M, <2>1, <2>2, <2>3
<1>8. Placed(K, M[K + 1], M[K], C[K])'
  <2>1. Share' = Share /\ Expected' = Expected
    BY <1>0, SameExpected
  <2>2. Worth(<<K, 1>>)' = 0
    BY <1>1, <1>2 DEF Worth
  <2>3. b \in Nat
    BY <1>5, <1>B
  <2>4. C[K][0] = M[K + 1] + Worth(<<K, 1>>)'
    BY <1>7, <1>B, <2>2, <2>3
  <2>5. For(held[<<K, 1>>], M[K + 1], C[K][0])'
    <3>1. M[K + 1] + 1 .. C[K][0] = {}
      BY <1>7, <1>B, <2>3
    <3> QED BY <3>1 DEF For
  <2>6. Marks(C[K], chan[K], Share[K])' /\ C[K][Len(chan'[K])] = M[K]
    BY <1>0, <1>1, <1>4, <1>7, <2>1 DEF Placed, Marks, For
  <2> QED BY <2>4, <2>5, <2>6 DEF Placed
<1>9. ASSUME NEW r \in Stages
      PROVE  Alone(r, L, C, M, C) \/ (Serves(r)' => Placed(r, M[r + 1], M[r], C[r])')
  <2>1. CASE r = K
    BY <1>8, <2>1
  <2>2. CASE r # K
    BY <1>0, <1>2, <1>7, <2>2 DEF Alone
  <2> QED BY <2>1, <2>2
<1>10. \A r \in Stages : wpc[<<r, 1>>] = "gone" => wpc'[<<r, 1>>] = "gone"
  BY <1>0, <1>1, <1>2
<1>11. Serves(1)' => M[1] = Len(Due[next' - 1])
  <2>1. 1 \in Stages
    BY Numbers
  <2>2. Serves(1)' => Serves(1)
    BY <1>0, <1>10, <2>1, ServesStays
  <2> QED BY <1>0, <1>7, <2>1, <2>2 DEF Laid
<1>12. Rearranged(L, C, M, C)
  BY <1>0, <1>6, <1>7, <1>9, <1>10, <1>11 DEF Rearranged
<1> QED BY <1>12, LaidMoves

LEMMA LaidSent ==
    ASSUME IInv, Typed, ThreadMacro, NEW L, NEW C, Laid(L, C), NEW w \in Team, Emit(w),
           ~ReceiversGone(Stage(w) + 1)
    PROVE  \E M, D : Laid(M, D)'
<1> DEFINE s == Stage(w)
           i == held[w]
           n == left[w]
<1>0. /\ wpc[w] = "emit" /\ chan' = [chan EXCEPT ![s + 1] = Append(@, i)]
      /\ left' = [left EXCEPT ![w] = n - 1]
      /\ wpc' = [wpc EXCEPT ![w] = IF n = 1 THEN "recv" ELSE "emit"]
      /\ UNCHANGED <<program, next, held, err, out>>
  BY DEF Emit
<1>1. /\ w = <<s, 1>> /\ s \in Stages /\ \A r \in Stages : r # s => <<r, 1>> # w
      /\ \A r \in Stages : <<r, 1>> \in Team
  BY OneWorker, TeamStage, StageHasWorker DEF Typed, TypeOK
<1>2. s + 1 \in Stages /\ i \in Items /\ n \in Nat \ {0}
  <2>1. n \in 0 .. form.emits /\ form.emits \in Nat /\ n # 0
    BY <1>0, FormType DEF Typed, TypeOK, InHands
  <2>2. s + 1 \in Stages /\ i \in Items
    BY <1>0 DEF IInv, SendersHaveNext, Typed, InHands
  <2> QED BY <2>1, <2>2
<1>3. /\ \A r \in Stages : r # s => wpc'[<<r, 1>>] = wpc[<<r, 1>>]
                                    /\ left'[<<r, 1>>] = left[<<r, 1>>]
      /\ wpc'[w] = (IF n = 1 THEN "recv" ELSE "emit") /\ left'[w] = n - 1
      /\ \A r \in Stages : r # s + 1 => chan'[r] = chan[r]
      /\ chan'[s + 1] = Append(chan[s + 1], i)
  <2>1. chan \in [Stages -> Seq(Items)] /\ w \in DOMAIN wpc /\ w \in DOMAIN left
    BY DEF Typed, TypeOK
  <2> HIDE DEF s, i, n
  <2> QED BY <1>0, <1>1, <1>2, <2>1
<1> HIDE DEF s, i, n
<1>4. /\ s \in Nat /\ s # s + 1 /\ \A r \in Stages : r # s => r + 1 # s + 1
      /\ s \in 1 .. K + 1 /\ s + 1 \in 1 .. K + 1 /\ s + 1 # 1 /\ s + 1 # K + 1
  BY <1>1, <1>2, Numbers
<1>5. \A r \in Stages : wpc[<<r, 1>>] = "gone" => wpc'[<<r, 1>>] = "gone"
  BY <1>0, <1>1, <1>3
<1>6. Share' = Share /\ Expected' = Expected
  BY <1>0, SameExpected
<1>7. ASSUME ~Serves(s + 1)
      PROVE  \E M, D : Laid(M, D)'
  <2>1. ~Serves(s)
    <3>1. \A r \in s + 1 .. K : r \in s .. K
      BY <1>4
    <3> QED BY <1>7, <3>1 DEF Serves
  <2>2. ~Serves(s)' /\ ~Serves(s + 1)'
    BY <1>0, <1>1, <1>2, <1>5, <1>7, <2>1, ServesStays
  <2>T. PICK t, u : t = s /\ u = s + 1
    OBVIOUS
  <2>3. ~Serves(t)' /\ ~Serves(u)'
    BY <2>2, <2>T
  <2>4. ASSUME NEW r \in Stages
        PROVE  Alone(r, L, C, L, C) \/ (Serves(r)' => Placed(r, L[r + 1], L[r], C[r])')
    <3>1. CASE r = t \/ r = u
      BY <2>3, <3>1
    <3>2. CASE r # t /\ r # u
      BY <1>0, <1>3, <2>T, <3>2 DEF Alone
    <3> QED BY <3>1, <3>2
  <2>5. Serves(1)' => L[1] = Len(Due[next' - 1])
    <3>1. 1 \in Stages
      BY Numbers
    <3>2. Serves(1)' => Serves(1)
      BY <1>0, <1>5, <3>1, ServesStays
    <3> QED BY <1>0, <3>2 DEF Laid
  <2>6. /\ L \in [1 .. K + 1 -> 0 .. Len(Expected)] /\ L[K + 1] = Len(out')
        /\ \A x \in 1 .. Len(out') : out'[x] = Expected[x]
    BY <1>0 DEF Laid
  <2>7. Rearranged(L, C, L, C)
    BY <1>0, <1>5, <2>4, <2>5, <2>6 DEF Rearranged
  <2> QED BY <2>7, LaidMoves
<1>8. ASSUME Serves(s + 1)
      PROVE  \E M, D : Laid(M, D)'
  <2>T. PICK t, u : t = s /\ u = s + 1
    OBVIOUS
  <2> DEFINE P == Share[u][i]
  <2>1. Serves(s)
    <3>1. \A r \in s .. K : r = s \/ r \in s + 1 .. K
      BY <1>4, Numbers
    <3> QED BY <1>0, <1>1, <1>8, <3>1 DEF Serves
  <2>2. Placed(t, L[u], L[t], C[t]) /\ Placed(u, L[u + 1], L[u], C[u])
    BY <1>1, <1>2, <1>8, <2>1, <2>T DEF Laid
  <2>3. t \in Stages /\ u \in Stages /\ u = t + 1 /\ L[u] \in Nat /\ L[t] \in Nat
    <3>1. L \in [1 .. K + 1 -> 0 .. Len(Expected)]
      BY DEF Laid
    <3> QED BY <1>1, <1>2, <1>4, <2>T, <3>1, Numbers
  <2>4. P \in Nat
    BY <1>2, <2>2, <2>3, PlacedWithin
  <2>5. /\ C[t][0] = L[u] + n * P /\ For(i, L[u], C[t][0])
        /\ C[t][0] \in 0 .. Len(Expected)
    <3>1. Worth(w) = n * P
      BY <1>0, <2>T DEF Worth, n, s, i
    <3>2. C[t][0] = L[u] + Worth(<<t, 1>>) /\ For(held[<<t, 1>>], L[u], C[t][0])
      BY <2>2 DEF Placed
    <3>3. C[t][0] \in 0 .. Len(Expected)
      BY <2>2, <2>3, PlacedWithin
    <3> QED BY <1>1, <2>T, <3>1, <3>2, <3>3 DEF i
  <2>B. PICK b : b = L[u] + P
    OBVIOUS
  <2> HIDE DEF P
  <2>6. n * P = P + (n - 1) * P /\ (n - 1) * P \in Nat
    <3>1. n - 1 \in Nat /\ n = (n - 1) + 1
      BY <1>2
    <3>2. \A x, y \in Nat : x * y \in Nat /\ (x + 1) * y = y + x * y
      OBVIOUS
    <3> QED BY <2>4, <3>1, <3>2
  <2>7. /\ b \in 0 .. Len(Expected) /\ b <= C[t][0] /\ C[t][0] = b + (n - 1) * P
        /\ L[u] <= b
    <3> DEFINE z == (n - 1) * P
               e == C[t][0]
               len == Len(Expected)
    <3>1. /\ len \in Nat /\ e = L[u] + (P + z) /\ e \in 0 .. len /\ z \in Nat /\ P \in Nat
          /\ L[u] \in Nat /\ b = L[u] + P
      BY <2>3, <2>4, <2>5, <2>6, <2>B, Numbers
    <3> HIDE DEF z, e, len
    <3>2. b \in 0 .. len /\ b <= e /\ e = b + z /\ L[u] <= b
      BY <3>1
    <3> QED BY <3>2 DEF z, e, len
  <2>8. For(i, L[u], b) /\ For(i, b, C[t][0])
    <3>1. \A x \in L[u] + 1 .. b : x \in L[u] + 1 .. C[t][0]
      BY <2>3, <2>5, <2>7
    <3>2. \A x \in b + 1 .. C[t][0] : x \in L[u] + 1 .. C[t][0]
      BY <2>3, <2>5, <2>7
    <3> QED BY <2>5, <3>1, <3>2 DEF For
  <2>9. \E d : /\ Marks(d, Append(chan[u], i), Share[u]) /\ d[0] = C[u][0]
               /\ d[Len(chan[u]) + 1] = b
    <3> DEFINE q == chan[u]
               c == C[u]
               m == Share[u]
    <3>1. q \in Seq(Items)
      BY <2>2, <2>3, PlacedWithin
    <3>2. Marks(c, q, m) /\ c[Len(q)] = L[u]
      BY <2>2 DEF Placed
    <3>3. Reaches(c, q, i, m, b)
      BY <2>7, <2>8, <2>B, <3>2 DEF P, Reaches
    <3> HIDE DEF q, c, m
    <3>4. \E d : Marks(d, Append(q, i), m) /\ d[0] = c[0] /\ d[Len(q) + 1] = b
      BY <1>2, <3>1, <3>2, <3>3, MarksAppend
    <3> QED BY <3>4 DEF q, c, m
  <2>10. PICK d : /\ Marks(d, Append(chan[u], i), Share[u]) /\ d[0] = C[u][0]
                  /\ d[Len(chan[u]) + 1] = b
    BY <2>9
  <2>M. PICK M : M = [L EXCEPT ![u] = b]
    OBVIOUS
  <2>D. PICK D : D = [r \in Stages |-> IF r = u THEN d ELSE C[r]]
    OBVIOUS
  <2>11. /\ M \in [1 .. K + 1 -> 0 .. Len(Expected)] /\ M[u] = b
         /\ \A r \in 1 .. K + 1 : r # u => M[r] = L[r]
         /\ D[u] = d /\ \A r \in Stages : r # u => D[r] = C[r]
    <3>1. L \in [1 .. K + 1 -> 0 .. Len(Expected)] /\ u \in 1 .. K + 1
      BY <1>4, <2>T DEF Laid
    <3> QED BY <2>3, <2>7, <2>D, <2>M, <3>1
  <2>12. /\ M[t] = L[t] /\ M[u + 1] = L[u + 1] /\ D[t] = C[t]
         /\ \A r \in Stages : r # t /\ r # u => M[r] = L[r] /\ M[r + 1] = L[r + 1]
    <3>1. /\ t \in 1 .. K + 1 /\ u + 1 \in 1 .. K + 1 /\ t # u /\ u + 1 # u
          /\ \A r \in Stages : r \in 1 .. K + 1 /\ r + 1 \in 1 .. K + 1 /\ (r # t => r + 1 # u)
      BY <1>4, <2>3, <2>T, Numbers
    <3> QED BY <2>3, <2>11, <3>1
  <2>13. Placed(u, M[u + 1], M[u], D[u])'
    <3>1. u # t /\ <<u, 1>> # w
      BY <1>1, <1>2, <1>4, <2>T
    <3>2. Worth(<<u, 1>>)' = Worth(<<u, 1>>)
      BY <1>0, <1>3, <2>3, <2>T, <3>1, WorthSame
    <3>3. d[0] = M[u + 1] + Worth(<<u, 1>>)' /\ For(held[<<u, 1>>], M[u + 1], d[0])'
      BY <1>0, <1>6, <2>2, <2>10, <2>12, <3>2 DEF Placed, For
    <3>4. chan'[u] = Append(chan[u], i) /\ Len(chan'[u]) = Len(chan[u]) + 1
      BY <1>2, <1>3, <2>2, <2>3, <2>T, PlacedWithin, AppendProperties
    <3>5. Marks(d, chan[u], Share[u])'
      BY <1>6, <2>10, <3>4 DEF Marks, For
    <3>6. d[Len(chan'[u])] = M[u]
      BY <2>10, <2>11, <3>4
    <3> QED BY <2>11, <3>3, <3>5, <3>6 DEF Placed
  <2>14. Placed(t, M[u], M[t], D[t])'
    <3>1. Worth(<<t, 1>>)' = (n - 1) * P
      <4>1. CASE n = 1
        <5>1. Worth(<<t, 1>>)' = 0
          BY <1>1, <1>3, <2>T, <4>1 DEF Worth
        <5>2. \A x \in Nat : (1 - 1) * x = 0
          OBVIOUS
        <5> QED BY <2>4, <4>1, <5>1, <5>2
      <4>2. CASE n # 1
        <5>1. wpc'[<<t, 1>>] = "emit" /\ left'[<<t, 1>>] = n - 1 /\ held'[<<t, 1>>] = i
          BY <1>0, <1>1, <1>3, <2>T, <4>2 DEF i
        <5>2. Stage(<<t, 1>>) + 1 = u
          BY <2>3 DEF Stage
        <5> QED BY <1>6, <5>1, <5>2 DEF Worth, P
      <4> QED BY <4>1, <4>2
    <3>2. C[t][0] = M[u] + Worth(<<t, 1>>)'
      BY <2>7, <2>11, <3>1
    <3>3. For(held[<<t, 1>>], M[u], C[t][0])'
      <4>1. held'[<<t, 1>>] = i
        BY <1>0, <1>1, <2>T DEF i
      <4> QED BY <1>6, <2>8, <2>11, <4>1 DEF For
    <3>4. chan'[t] = chan[t]
      BY <1>3, <1>4, <2>3, <2>T
    <3>5. (Marks(C[t], chan[t], Share[t]) /\ C[t][Len(chan[t])] = M[t])'
      BY <1>6, <2>2, <2>12, <3>4 DEF Placed, Marks, For
    <3> QED BY <2>12, <3>2, <3>3, <3>5 DEF Placed
  <2>15. ASSUME NEW r \in Stages
         PROVE  Alone(r, L, C, M, D) \/ (Serves(r)' => Placed(r, M[r + 1], M[r], D[r])')
    <3>1. CASE r = u
      BY <2>13, <3>1
    <3>2. CASE r = t
      BY <2>3, <2>14, <3>2
    <3>3. CASE r # t /\ r # u
      BY <1>0, <1>3, <2>11, <2>12, <2>T, <3>3 DEF Alone
    <3> QED BY <3>1, <3>2, <3>3
  <2>16. Serves(1)' => M[1] = Len(Due[next' - 1])
    <3>1. 1 \in Stages /\ 1 \in 1 .. K + 1 /\ 1 # u
      BY <1>4, <2>T, Numbers
    <3>2. Serves(1)' => Serves(1)
      BY <1>0, <1>5, <3>1, ServesStays
    <3> QED BY <1>0, <2>11, <3>1, <3>2 DEF Laid
  <2>17. M[K + 1] = Len(out') /\ \A x \in 1 .. Len(out') : out'[x] = Expected[x]
    <3>1. K + 1 \in 1 .. K + 1 /\ K + 1 # u
      BY <1>4, <2>T, Numbers
    <3> QED BY <1>0, <2>11, <3>1 DEF Laid
  <2>18. Rearranged(L, C, M, D)
    BY <1>0, <1>5, <2>11, <2>15, <2>16, <2>17 DEF Rearranged
  <2> QED BY <2>18, LaidMoves
<1> QED BY <1>7, <1>8

LEMMA InitContinued == Init => Continued
<1> SUFFICES ASSUME Init, ThreadMacro
             PROVE  \E L, C : Laid(L, C)
  BY DEF Continued
<1>1. Typed
  BY InitTyped
<1>2. /\ chan = [s \in Stages |-> <<>>] /\ next = 1 /\ out = <<>>
      /\ wpc = [w \in Team |-> "recv"]
  BY DEF Init
<1>3. \A s \in Stages : chan[s] = <<>> /\ Len(chan[s]) = 0 /\ Worth(<<s, 1>>) = 0
  <2>1. \A s \in Stages : <<s, 1>> \in Team
    BY <1>1, StageHasWorker DEF Typed, TypeOK
  <2>2. \A s \in Stages : wpc[<<s, 1>>] = "recv"
    BY <1>2, <2>1
  <2>3. Len(<<>>) = 0
    OBVIOUS
  <2> QED BY <1>2, <2>2, <2>3 DEF Worth
<1> DEFINE L == [s \in 1 .. K + 1 |-> 0]
           C == [s \in Stages |-> [k \in 0 .. 0 |-> 0]]
<1>4. /\ \A s \in Stages : L[s] = 0 /\ L[s + 1] = 0 /\ C[s] = [k \in 0 .. 0 |-> 0]
      /\ L \in [1 .. K + 1 -> 0 .. Len(Expected)] /\ L[K + 1] = 0 /\ 1 \in Stages
  BY <1>1, Numbers
<1> HIDE DEF L, C
<1>5. ASSUME NEW s \in Stages
      PROVE  Placed(s, L[s + 1], L[s], C[s])
  <2>1. C[s][0] = 0 /\ C[s] \in [0 .. 0 -> 0 .. Len(Expected)]
    <3>1. 0 \in 0 .. Len(Expected)
      BY <1>1, Numbers
    <3> QED BY <1>4, <3>1
  <2>2. For(held[<<s, 1>>], 0, 0)
    BY DEF For
  <2>3. Marks(C[s], chan[s], Share[s])
    <3>0. Len(chan[s]) = 0
      BY <1>3
    <3>1. 0 .. Len(chan[s]) = 0 .. 0 /\ 1 .. Len(chan[s]) = {}
      BY <3>0
    <3> QED BY <2>1, <3>1 DEF Marks
  <2> QED BY <1>3, <1>4, <2>1, <2>2, <2>3 DEF Placed
<1>6. L[1] = Len(Due[next - 1])
  <2>1. Due[0] = <<>> /\ Len(<<>>) = 0 /\ next - 1 = 0
    BY <1>1, <1>2, Dues
  <2> QED BY <1>4, <2>1
<1>7. L[K + 1] = Len(out) /\ \A x \in 1 .. Len(out) : out[x] = Expected[x]
  <2>1. Len(out) = 0
    BY <1>2
  <2> QED BY <1>4, <2>1
<1>8. Laid(L, C)
  BY <1>4, <1>5, <1>6, <1>7 DEF Laid
<1> QED BY <1>8

LEMMA LaidQuiet ==
    ASSUME Typed, ThreadMacro, NEW L, NEW C, Laid(L, C), err' = None => err = None,
           UNCHANGED <<program, out, chan, next, wpc, held, left>>
    PROVE  Laid(L, C)'
<1>1. 1 \in Stages
  BY Numbers
<1>2. \A s \in Stages : Worth(<<s, 1>>)' = Worth(<<s, 1>>)
  BY WorthSame
<1> QED BY <1>1, <1>2, LaidStays

LEMMA LaidWorked ==
    ASSUME IInv, Typed, ThreadMacro, NEW L, NEW C, Laid(L, C), err' = None => err = None,
           NEW w \in Team, Work(w)
    PROVE  \E M, D : Laid(M, D)'
<1> DEFINE s == Stage(w)
           i == held[w]
           Rest == \A v \in Team : v # w => /\ wpc'[v] = wpc[v] /\ held'[v] = held[v]
                                            /\ left'[v] = left[v]
           Kept1 == \/ wpc'[w] = "gone" /\ err' # None
                    \/ Worth(w)' = Worth(w) /\ (Worth(w) = 0 \/ held'[w] = held[w])
<1>1. w \in DOMAIN wpc /\ w \in DOMAIN held /\ w \in DOMAIN left /\ s \in Stages
  BY TeamStage DEF Typed, TypeOK
<1>2. ASSUME UNCHANGED <<program, out, chan, next>>, wpc[w] # "gone", Rest, Kept1
      PROVE  \E M, D : Laid(M, D)'
  <2>1. Laid(L, C)'
    BY <1>2, WorkerStays
  <2> QED BY <2>1
<1>3. Leave(w) => Rest /\ wpc'[w] = "gone"
  BY <1>1 DEF Leave
<1> HIDE DEF Rest, Kept1, s, i
<1>4. CASE Recv(w)
  BY <1>4, LaidReceived
<1>5. CASE EndOfInput(w)
  <2>1. Leave(w) /\ wpc[w] = "recv" /\ UNCHANGED <<program, out, chan, next>>
    BY <1>5 DEF EndOfInput
  <2>2. Worth(w) = 0 /\ Worth(w)' = 0
    BY <1>3, <2>1 DEF Worth
  <2>3. Kept1
    BY <2>2 DEF Kept1
  <2> QED BY <1>2, <1>3, <2>1, <2>3
<1>6. CASE Check(w)
  <2>1. wpc[w] = "check" /\ UNCHANGED <<program, out, chan, next, err>>
    BY <1>6 DEF Check
  <2>2. CASE err # None
    <3>1. Leave(w)
      BY <1>6, <2>2 DEF Check
    <3>2. Kept1
      BY <1>3, <2>1, <2>2, <3>1 DEF Kept1
    <3> QED BY <1>2, <1>3, <2>1, <3>1, <3>2
  <2>3. CASE err = None
    <3>1. wpc' = [wpc EXCEPT ![w] = "body"] /\ UNCHANGED <<held, left>>
      BY <1>6, <2>3 DEF Check
    <3>2. wpc'[w] = "body" /\ Rest
      BY <1>1, <3>1 DEF Rest
    <3>3. Worth(w)' = Worth(w)
      BY <2>1, <3>1, <3>2, SameExpected DEF Worth, Stage
    <3>4. Kept1
      BY <3>1, <3>3 DEF Kept1
    <3> QED BY <1>2, <2>1, <3>2, <3>4
  <2> QED BY <2>2, <2>3
<1>7. CASE Body(w)
  <2>1. wpc[w] = "body" /\ UNCHANGED <<program, chan, next>>
    BY <1>7 DEF Body
  <2>2. CASE <<s, i>> \in fails
    <3>1. SetErr(<<s, i>>) /\ Leave(w) /\ UNCHANGED out
      BY <1>7, <2>2 DEF Body, s, i
    <3>2. <<s, i>> # None
      BY <2>2, NotABody DEF Typed, TypeOK
    <3>3. err' # None
      BY <3>1, <3>2 DEF SetErr
    <3>4. Kept1
      BY <1>3, <3>1, <3>3 DEF Kept1
    <3> QED BY <1>2, <1>3, <2>1, <3>1, <3>4
  <2>3. CASE <<s, i>> \notin fails /\ s = K
    <3>1. \E M, D : Laid(M, D)'
      BY <1>7, <2>3, LaidAnswered DEF s, i
    <3> QED BY <3>1
  <2>4. CASE <<s, i>> \notin fails /\ s # K
    <3> DEFINE n == yields[<<s, i>>]
    <3>1. /\ UNCHANGED <<out, held, err>> /\ left' = [left EXCEPT ![w] = n]
          /\ wpc' = [wpc EXCEPT ![w] = IF n = 0 THEN "recv" ELSE "emit"]
      BY <1>7, <2>4 DEF Body, s, i
    <3>2. /\ Rest /\ left'[w] = n /\ wpc'[w] = IF n = 0 THEN "recv" ELSE "emit"
      <4> HIDE DEF n
      <4> QED BY <1>1, <3>1 DEF Rest
    <3>3. i \in Items /\ Share[s][i] = n * Share[s + 1][i] /\ Share[s + 1][i] \in Nat
      <4>1. i \in Items
        BY <2>1 DEF Typed, InHands, i
      <4>2. s + 1 \in 1 .. K + 1 /\ Share \in [1 .. K + 1 -> [Items -> Nat]]
        BY <1>1, Numbers, Shares
      <4> QED BY <1>1, <4>1, <4>2, Shares
    <3> HIDE DEF n
    <3>4. Worth(w) = n * Share[s + 1][i]
      BY <2>1, <3>3 DEF Worth, s, i
    <3>5. Worth(w)' = Worth(w)
      <4>1. CASE n = 0
        <5>1. Worth(w)' = 0
          BY <3>2, <4>1 DEF Worth
        <5>2. \A x \in Nat : 0 * x = 0
          OBVIOUS
        <5> QED BY <3>3, <3>4, <4>1, <5>1, <5>2
      <4>2. CASE n # 0
        <5>1. Share' = Share
          BY <2>1, SameExpected
        <5> QED BY <3>1, <3>2, <3>4, <4>2, <5>1 DEF Worth, s, i, Stage
      <4> QED BY <4>1, <4>2
    <3>6. Kept1
      BY <3>1, <3>5 DEF Kept1
    <3> QED BY <1>2, <2>1, <3>1, <3>2, <3>6
  <2> QED BY <2>2, <2>3, <2>4
<1>8. CASE Emit(w)
  <2>1. CASE ReceiversGone(s + 1)
    <3>1. /\ SetErr(Closed) /\ Leave(w) /\ wpc[w] = "emit"
          /\ UNCHANGED <<program, out, chan, next>>
      BY <1>8, <2>1 DEF Emit, s
    <3>2. err' # None
      BY <3>1, PipelineAssumption DEF SetErr
    <3>3. Kept1
      BY <1>3, <3>1, <3>2 DEF Kept1
    <3> QED BY <1>2, <1>3, <3>1, <3>3
  <2>2. CASE ~ReceiversGone(s + 1)
    BY <1>8, <2>2, LaidSent DEF s
  <2> QED BY <2>1, <2>2
<1> QED BY <1>4, <1>5, <1>6, <1>7, <1>8 DEF Work

LEMMA NextContinued == IInv /\ Typed /\ Continued /\ [Next]_vars => Continued'
<1> SUFFICES ASSUME IInv, Typed, Continued, [Next]_vars, ThreadMacro'
             PROVE  \E L, C : Laid(L, C)'
  BY DEF Continued
<1>1. ThreadMacro
  BY FormStays DEF ThreadMacro
<1>2. PICK L, C : Laid(L, C)
  BY <1>1 DEF Continued
<1>3. err' = None => err = None
  BY YieldsStay
<1>4. ASSUME UNCHANGED <<program, out, chan, next, wpc, held, left>>
      PROVE  \E M, D : Laid(M, D)'
  <2>1. Laid(L, C)'
    BY <1>1, <1>2, <1>3, <1>4, LaidQuiet
  <2> QED BY <2>1
<1>5. CASE SourcePull
  BY <1>4, <1>5 DEF SourcePull
<1>6. CASE SourceSend
  <2>1. CASE ReceiversGone(1)
    BY <1>4, <1>6, <2>1 DEF SourceSend
  <2>2. CASE ~ReceiversGone(1)
    BY <1>1, <1>2, <1>6, <2>2, LaidPulled
  <2> QED BY <2>1, <2>2
<1>7. ASSUME NEW w \in Team, Work(w)
      PROVE  \E M, D : Laid(M, D)'
  BY <1>1, <1>2, <1>3, <1>7, LaidWorked
<1>8. CASE Returned \/ UNCHANGED vars
  BY <1>4, <1>8 DEF Returned, vars, program
<1> QED BY <1>5, <1>6, <1>7, <1>8 DEF Next

\* Where the channels are empty and the workers gone, everything is out.
LEMMA AllIsOut ==
    ASSUME Typed, ThreadMacro, Drained, Finished, err = None, NEW L, NEW C, Laid(L, C)
    PROVE  Len(out) = Len(Expected)
<1>1. /\ next = form.items + 1 /\ \A w \in Team : wpc[w] = "gone" /\ chan[Stage(w)] = <<>>
      /\ form \in Forms
  BY DEF Drained, Finished, Typed, TypeOK
<1>2. L[1] = Len(Expected)
  <2>1. 1 \in Stages /\ next - 1 = form.items
    BY <1>1, Numbers
  <2>2. Serves(1)
    BY DEF Serves
  <2> QED BY <2>1, <2>2 DEF Laid, Expected
<1>3. ASSUME NEW s \in Stages
      PROVE  L[s + 1] = L[s]
  <2>1. <<s, 1>> \in Team /\ Stage(<<s, 1>>) = s
    BY <1>1, StageHasWorker
  <2>2. Worth(<<s, 1>>) = 0 /\ Len(chan[s]) = 0
    <3>1. wpc[<<s, 1>>] = "gone" /\ chan[s] = <<>>
      BY <1>1, <2>1
    <3> QED BY <3>1 DEF Worth
  <2>3. Placed(s, L[s + 1], L[s], C[s])
    BY DEF Laid, Serves
  <2>4. L[s + 1] \in Nat
    BY Numbers DEF Laid
  <2> QED BY <2>2, <2>3, <2>4 DEF Placed
<1> DEFINE T == {m \in Nat : m <= K => L[m + 1] = Len(Expected)}
<1>4. 0 \in T
  BY <1>2
<1>5. ASSUME NEW m \in Nat, m < K, m \in T
      PROVE  m + 1 \in T
  <2>1. m + 1 \in Stages /\ m + 1 \in Nat /\ m <= K
    BY <1>5, Numbers
  <2>2. L[m + 1] = Len(Expected) /\ L[(m + 1) + 1] = L[m + 1]
    BY <1>3, <1>5, <2>1
  <2> QED BY <2>1, <2>2
<1>6. K \in T
  <2> HIDE DEF T
  <2> QED BY <1>4, <1>5, Numbers, StepByStep
<1>7. L[K + 1] = Len(Expected)
  BY <1>6, Numbers
<1> QED BY <1>7 DEF Laid

\* ~s> answers the items its stages emitted in the order of the source, each
\* as often as they emitted it, and all of them unless there is an error: what
\* is with the workers and in the channels is the next stretch of the answer.
THEOREM AnswerAsExpected == Spec => []OrderKept
<1>1. IInv /\ Typed /\ Drained /\ Continued => OrderKept
  <2> SUFFICES ASSUME Typed, Drained, Continued, ThreadMacro
               PROVE  /\ IsPrefix(out, Expected)
                      /\ Finished /\ err = None => out = Expected
    BY DEF OrderKept
  <2>1. PICK L, C : Laid(L, C)
    BY DEF Continued
  <2>2. /\ out \in Seq(Items) /\ Expected \in Seq(Items)
        /\ Len(out) \in Nat /\ Len(Expected) \in Nat
    <3>1. out \in Seq(Items)
      BY DEF Typed, TypeOK
    <3>2. form.items \in 0 .. form.items
      BY Numbers
    <3>3. Expected \in Seq(Items)
      BY <3>2, Dues DEF Expected
    <3> QED BY <3>1, <3>3, Numbers
  <2>3. Len(out) <= Len(Expected) /\ \A x \in 1 .. Len(out) : out[x] = Expected[x]
    <3>1. L[K + 1] \in 0 .. Len(Expected)
      BY <2>1, Numbers DEF Laid
    <3> QED BY <2>1, <2>2, <3>1 DEF Laid
  <2>4. SubSeq(out, 1, Len(out)) = SubSeq(Expected, 1, Len(out))
    <3> DEFINE n == Len(out)
               p == SubSeq(out, 1, n)
               q == SubSeq(Expected, 1, n)
    <3>1. /\ 1 \in 1 .. Len(out) + 1 /\ 1 \in 1 .. Len(Expected) + 1 /\ (n - 1) + 1 = n
          /\ n \in 1 - 1 .. Len(out) /\ n \in 1 - 1 .. Len(Expected)
      BY <2>2, <2>3
    <3>2. /\ p \in Seq(Items) /\ Len(p) = (n - 1) + 1
          /\ \A x \in 1 .. (n - 1) + 1 : p[x] = out[1 + x - 1]
      BY <2>2, <3>1, SubSeqProperties
    <3>3. /\ q \in Seq(Items) /\ Len(q) = (n - 1) + 1
          /\ \A x \in 1 .. (n - 1) + 1 : q[x] = Expected[1 + x - 1]
      BY <2>2, <3>1, SubSeqProperties
    <3> HIDE DEF p, q
    <3>4. ASSUME NEW x \in 1 .. n
          PROVE  p[x] = q[x]
      <4>1. 1 + x - 1 = x /\ x \in 1 .. (n - 1) + 1
        BY <3>1
      <4>2. out[x] = Expected[x]
        BY <2>3
      <4> QED BY <3>2, <3>3, <4>1, <4>2
    <3>5. p = q
      BY <3>1, <3>2, <3>3, <3>4, SeqEqual
    <3> QED BY <3>5 DEF p, q
  <2>5. IsPrefix(out, Expected)
    BY <2>3, <2>4 DEF IsPrefix
  <2>6. ASSUME Finished, err = None
        PROVE  out = Expected
    <3>1. Len(out) = Len(Expected)
      BY <2>1, <2>6, AllIsOut
    <3> QED BY <2>2, <2>3, <3>1, SeqEqual
  <2> QED BY <2>5, <2>6
<1> QED
  BY InitIInv, NextIInv, InitTyped, NextTyped, InitDrained, NextDrained, InitContinued,
     NextContinued, <1>1, PTL DEF Spec
=============================================================================
