---------------------------- MODULE ParPipeline ----------------------------
(***************************************************************************)
(* The streaming pipelines of src/strykelang/par_pipeline.rs: a source     *)
(* thread and the workers of K stages, joined by bounded channels and one  *)
(* shared first-error slot.  Two builtins are built this way:              *)
(*   par_pipeline_stream(source =>, stages =>, workers =>, buffer =>),     *)
(*     which answers how many items its last stage processed, and          *)
(*   ~s>, whose stages have one worker each, may emit any number of items  *)
(*     for one, and which answers the items its last stage emitted.        *)
(*                                                                         *)
(* Items are the numbers of the source's values; what a stage emits for an *)
(* item carries its number.  Which of the two is called, with how many     *)
(* workers and items, which bodies fail and how many items each emits, are *)
(* the program's and are chosen once for a run.                            *)
(***************************************************************************)
EXTENDS Naturals, Sequences, FiniteSets, SequencesExt

CONSTANTS
    K,        \* stages
    Forms,    \* the calls a program may make, see below
    Cap,      \* the capacity of every channel
    Closed,   \* "downstream closed" or "first stage stopped"
    None

Stages == 1 .. K

\* A call: ~s> or par_pipeline_stream, the workers of each stage, the values
\* of the source before undef, and bounds on the items a body emits for one
\* and on the bodies that fail.
Form == [macro : BOOLEAN, workers : [Stages -> Nat \ {0}], items : Nat,
         emits : Nat \ {0}, failures : Nat]

ASSUME PipelineAssumption ==
    /\ K \in Nat \ {0} /\ Cap \in Nat \ {0}
    /\ Forms \subseteq Form
    /\ \A f \in Forms : IF f.macro THEN \A s \in Stages : f.workers[s] = 1
                                  ELSE f.emits = 1
    /\ None \notin Nat \X Nat /\ Closed \notin Nat \X Nat /\ Closed # None

VARIABLES
    form,   \* the call
    fails,  \* <<s, i>>: the body of stage s dies on item i; stage 0 is the source
    yields, \* per stage and item, how many items the body emits
    chan,   \* per stage, the channel it receives from
    next,   \* the item the source is at
    spc,    \* where the source is: "pull", "send" or "gone"
    wpc,    \* per worker: "recv", "check", "body", "emit" or "gone"
    held,   \* per worker, the item it has received
    left,   \* per worker, how many items it has still to send
    err,    \* the shared slot: None, <<s, i>> or Closed
    out     \* what the last stage has processed or collected

vars == <<form, fails, yields, chan, next, spc, wpc, held, left, err, out>>
program == <<form, fails, yields>>

ThreadMacro == form.macro
Items       == 1 .. form.items
Bodies      == (0 .. K) \X Items  \* stage 0 is the source

\* mutant of Team: a spare worker in every stage, whatever was asked for
TeamAndOne == UNION {{s} \X (0 .. form.workers[s]) : s \in Stages}

\* A worker is the number of its stage and its own within it.
Team == UNION {{s} \X (1 .. form.workers[s]) : s \in Stages}
Stage(w) == w[1]

TypeOK ==
    /\ form \in Forms
    /\ fails \subseteq Bodies
    /\ yields \in [Stages \X Items -> 0 .. form.emits]
    /\ chan \in [Stages -> Seq(Items)] /\ \A s \in Stages : Len(chan[s]) <= Cap
    /\ next \in 1 .. form.items + 1
    /\ spc \in {"pull", "send", "gone"}
    /\ wpc \in [Team -> {"recv", "check", "body", "emit", "gone"}]
    /\ held \in [Team -> Items \cup {None}]
    /\ left \in [Team -> 0 .. form.emits]
    /\ err \in Bodies \cup {None, Closed}
    /\ out \in Seq(Items)

Init ==
    /\ form \in Forms
    /\ fails \in {F \in SUBSET (IF ThreadMacro THEN Stages \X Items ELSE Bodies) :
                    Cardinality(F) <= form.failures}
    /\ yields \in [Stages \X Items -> IF ThreadMacro THEN 0 .. form.emits ELSE {1}]
    /\ chan = [s \in Stages |-> <<>>]
    /\ next = 1
    /\ spc = "pull"
    /\ wpc = [w \in Team |-> "recv"]
    /\ held = [w \in Team |-> None]
    /\ left = [w \in Team |-> 0]
    /\ err = None
    /\ out = <<>>

-----------------------------------------------------------------------------
\* Mutants of the operators

\* the last error wins
SetErrLast(e) == err' = e

\* the wiring thread keeps its copies of the senders between stages
SendersKept(s) == s = 1 /\ spc = "gone"

-----------------------------------------------------------------------------
\* Operators

\* A channel is closed to its senders once every receiver has gone, and to
\* its receivers once every sender has.
ReceiversGone(s) == \A w \in Team : Stage(w) = s => wpc[w] = "gone"
SendersGone(s) ==
    IF s = 1 THEN spc = "gone" ELSE ReceiversGone(s - 1)

Finished == spc = "gone" /\ \A w \in Team : wpc[w] = "gone"

\* Only the first error is kept.
SetErr(e) == err' = IF err = None THEN e ELSE err

Leave(w) ==
    /\ wpc' = [wpc EXCEPT ![w] = "gone"]
    /\ held' = [held EXCEPT ![w] = None]
    /\ left' = [left EXCEPT ![w] = 0]

Copies(i, n) == [k \in 1 .. n |-> i]

-----------------------------------------------------------------------------
\* Mutants

\* a body's failure ends its worker without a word
BodyDies(w) ==
    LET s == Stage(w)
        i == held[w]
    IN
    /\ wpc[w] = "body"
    /\ IF <<s, i>> \in fails
       THEN Leave(w) /\ UNCHANGED <<err, out>>
       ELSE /\ out' = IF s = K THEN out \o Copies(i, yields[<<s, i>>]) ELSE out
            /\ left' = [left EXCEPT ![w] = IF s = K THEN 0 ELSE yields[<<s, i>>]]
            /\ wpc' = [wpc EXCEPT ![w] = IF s = K \/ yields[<<s, i>>] = 0
                                         THEN "recv" ELSE "emit"]
            /\ UNCHANGED <<held, err>>
    /\ UNCHANGED <<program, chan, next, spc>>

\* the first channel has no bound
SourceSendUnbounded ==
    /\ spc = "send"
    /\ IF ReceiversGone(1)
       THEN /\ IF ThreadMacro THEN UNCHANGED err ELSE SetErr(Closed)
            /\ spc' = "gone"
            /\ UNCHANGED <<chan, next>>
       ELSE /\ chan' = [chan EXCEPT ![1] = Append(@, next)]
            /\ next' = next + 1
            /\ spc' = "pull"
            /\ UNCHANGED err
    /\ UNCHANGED <<program, wpc, held, left, out>>

-----------------------------------------------------------------------------
\* The source

\* par_pipeline_stream looks at the error slot and runs the source's body,
\* until it answers undef; ~s> has its list already.
SourcePull ==
    /\ spc = "pull"
    /\ LET stop == ~ThreadMacro /\ err # None
           died == ~stop /\ <<0, next>> \in fails
       IN
       /\ spc' = IF stop \/ died \/ next = form.items + 1 THEN "gone" ELSE "send"
       /\ IF died THEN SetErr(<<0, next>>) ELSE UNCHANGED err
    /\ UNCHANGED <<program, chan, next, wpc, held, left, out>>

\* It waits for room.  When the first stage has gone, par_pipeline_stream
\* reports it and ~s> says nothing.
SourceSend ==
    /\ spc = "send"
    /\ IF ReceiversGone(1)
       THEN /\ IF ThreadMacro THEN UNCHANGED err ELSE SetErr(Closed)
            /\ spc' = "gone"
            /\ UNCHANGED <<chan, next>>
       ELSE /\ Len(chan[1]) < Cap
            /\ chan' = [chan EXCEPT ![1] = Append(@, next)]
            /\ next' = next + 1
            /\ spc' = "pull"
            /\ UNCHANGED err
    /\ UNCHANGED <<program, wpc, held, left, out>>

-----------------------------------------------------------------------------
\* A worker

Recv(w) ==
    LET s == Stage(w) IN
    /\ wpc[w] = "recv"
    /\ chan[s] # <<>>
    /\ held' = [held EXCEPT ![w] = Head(chan[s])]
    /\ chan' = [chan EXCEPT ![s] = Tail(@)]
    /\ wpc' = [wpc EXCEPT ![w] = "check"]
    /\ UNCHANGED <<program, next, spc, left, err, out>>

\* recv() fails: the channel is empty and no sender is left.
EndOfInput(w) ==
    /\ wpc[w] = "recv"
    /\ chan[Stage(w)] = <<>> /\ SendersGone(Stage(w))
    /\ Leave(w)
    /\ UNCHANGED <<program, chan, next, spc, err, out>>

\* Some thread has failed: the item is dropped and the worker leaves.
Check(w) ==
    /\ wpc[w] = "check"
    /\ IF err # None
       THEN Leave(w)
       ELSE wpc' = [wpc EXCEPT ![w] = "body"] /\ UNCHANGED <<held, left>>
    /\ UNCHANGED <<program, chan, next, spc, err, out>>

\* The stage's block runs on the item.
Body(w) ==
    LET s == Stage(w)
        i == held[w]
    IN
    /\ wpc[w] = "body"
    /\ IF <<s, i>> \in fails
       THEN SetErr(<<s, i>>) /\ Leave(w) /\ UNCHANGED out
       ELSE /\ out' = IF s = K THEN out \o Copies(i, yields[<<s, i>>]) ELSE out
            /\ left' = [left EXCEPT ![w] = IF s = K THEN 0 ELSE yields[<<s, i>>]]
            /\ wpc' = [wpc EXCEPT ![w] = IF s = K \/ yields[<<s, i>>] = 0
                                         THEN "recv" ELSE "emit"]
            /\ UNCHANGED <<held, err>>
    /\ UNCHANGED <<program, chan, next, spc>>

\* Send one item to the next stage, waiting for room.
Emit(w) ==
    LET s == Stage(w) IN
    /\ wpc[w] = "emit"
    /\ IF ReceiversGone(s + 1)
       THEN SetErr(Closed) /\ Leave(w) /\ UNCHANGED chan
       ELSE /\ Len(chan[s + 1]) < Cap
            /\ chan' = [chan EXCEPT ![s + 1] = Append(@, held[w])]
            /\ left' = [left EXCEPT ![w] = @ - 1]
            /\ wpc' = [wpc EXCEPT ![w] = IF left[w] = 1 THEN "recv" ELSE "emit"]
            /\ UNCHANGED <<held, err>>
    /\ UNCHANGED <<program, next, spc, out>>

\* All threads are joined and the builtin has returned.
Returned == Finished /\ UNCHANGED vars

Work(w) == Recv(w) \/ EndOfInput(w) \/ Check(w) \/ Body(w) \/ Emit(w)

Next ==
    \/ SourcePull \/ SourceSend
    \/ \E w \in Team : Work(w)
    \/ Returned

Spec == Init /\ [][Next]_vars

AnyTeam == UNION {{s} \X (1 .. f.workers[s]) : s \in Stages, f \in Forms}

\* Every thread is scheduled, and the bodies terminate.
FairSpec ==
    /\ Spec
    /\ WF_vars(SourcePull \/ SourceSend)
    /\ \A w \in AnyTeam : WF_vars(w \in Team /\ Work(w))

-----------------------------------------------------------------------------
\* Properties

\* How many items the last stage answers for an item that stage s receives.
Share[s \in 1 .. K + 1] ==
    [i \in Items |-> IF s = K + 1 THEN 1 ELSE yields[<<s, i>>] * Share[s + 1][i]]

\* What it answers for the first n items of the source.
Due[n \in 0 .. form.items] ==
    IF n = 0 THEN <<>> ELSE Due[n - 1] \o Copies(n, Share[1][n])

Expected == Due[form.items]

\* par_pipeline_stream: no item is processed twice, and when the builtin
\* returns without an error every item of the source has been through all the
\* stages: a failed body, whichever thread it ran on, is never taken for an
\* early end of the input.
ResultComplete ==
    ~ThreadMacro =>
        /\ IsInjective(out)
        /\ Finished /\ err = None => Range(out) = Items

\* ~s> answers its items in the order of the source, as the comment on
\* run_thread_par_worker says (par_pipeline.rs:329), each as often as the
\* stages emitted it, and all of them unless there is an error.
OrderKept ==
    ThreadMacro =>
        /\ IsPrefix(out, Expected)
        /\ Finished /\ err = None => out = Expected

\* The error reported is the one a body died of, never "downstream closed" or
\* "first stage stopped": a stage is gone before its senders are done only
\* when the slot is taken already.
OnlyRealErrors == err # Closed

\* The first error is not replaced by one that follows from it.
FirstErrorStays == [][err # None => err' = err]_err

\* The call returns, whatever fails and however full the channels are.
Terminates == <>Finished
=============================================================================
