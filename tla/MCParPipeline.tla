--------------------------- MODULE MCParPipeline ---------------------------
(* Instances of ParPipeline: a pool of two workers before one worker, once *)
(* with the items it takes to fill the channels and once with two failing  *)
(* bodies, and ~s>, whose stages drop, keep or double each item.           *)
EXTENDS ParPipeline

Pool(items, failures) ==
    [macro |-> FALSE, workers |-> <<2, 1>>, items |-> items, emits |-> 1,
     failures |-> failures]

Calls ==
    {Pool(6, 1), Pool(3, 2),
     [macro |-> TRUE, workers |-> <<1, 1>>, items |-> 3, emits |-> 2, failures |-> 1]}
=============================================================================
