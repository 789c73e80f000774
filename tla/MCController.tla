---------------------------- MODULE MCController ----------------------------
(* Instances of Controller: one agent with petitions, once with stress and *)
(* once with two, and two agents, one of which has a token, with chants    *)
(* only.                                                                   *)
EXTENDS Controller

CONSTANTS a1, a2

Calls ==
    {[agents |-> {a1}, petitions |-> 1, stress |-> 1],
     [agents |-> {a1}, petitions |-> 2, stress |-> 0],
     [agents |-> {a1, a2}, petitions |-> 0, stress |-> 0]}
=============================================================================
