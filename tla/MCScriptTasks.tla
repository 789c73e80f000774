--------------------------- MODULE MCScriptTasks ---------------------------
(* The scripts TLC runs ScriptTasks on: one for each way the sources, the  *)
(* tests and the examples of the language use its tasks together.          *)
EXTENDS ScriptTasks, TLC

CONSTANTS A, B, C, g, c, d, b, x

Op(op, on) == [op |-> op, on |-> on, n |-> 0]
Try(on, n) == [op |-> "try", on |-> on, n |-> n]

SpawnAll == <<Op("spawn", {A}), Op("spawn", {B}), Op("spawn", {C})>>
AwaitAll == <<Op("await", {A}), Op("await", {B}), Op("await", {C})>>

Code4(main, a1, b1, c1) == Main :> main @@ A :> a1 @@ B :> b1 @@ C :> c1

Of(code, mutex, permits, parties, mysync) ==
  [code |-> code, mutex |-> mutex, permits |-> g :> permits,
   cap |-> c :> 2 @@ d :> 1, parties |-> b :> parties, mysync |-> mysync]

Locked(ops) == <<Op("take", {g})>> \o ops \o <<Op("give", {g})>>
ReadWrite == <<Op("load", {x}), Op("store", {x})>>

(* `$x = $x + 1` inside a mutex, by three tasks and once by trying.        *)
Mutexed == Of(Code4(SpawnAll \o Locked(ReadWrite) \o AwaitAll,
                    Locked(ReadWrite), Locked(ReadWrite),
                    <<Try({g}, 3)>> \o Tail(Locked(ReadWrite))),
              {g}, 1, 1, {x})

(* A semaphore of two permits and four threads; one permit too many is     *)
(* released by the first.                                                  *)
TwoPermits == Of(Code4(SpawnAll \o Locked(<<Op("bump", {x})>>) \o <<Op("give", {g})>> \o AwaitAll,
                       Locked(<<Op("bump", {x})>>), Locked(<<Op("bump", {x})>>),
                       Locked(<<Op("load", {x})>>)),
                 {}, 2, 1, {x})

(* semaphore(0) as a signal, unlocked by another thread than the waiter.   *)
Signals == Of(Code4(SpawnAll \o <<Op("await", {C}), Op("take", {g})>>,
                    <<Op("bump", {x}), Op("give", {g})>>,
                    <<Op("take", {g}), Op("bump", {x})>>,
                    <<Op("bump", {x}), Op("give", {g})>>),
              {}, 0, 1, {x})

(* An unlock of a free mutex, a body that dies while it holds the lock,    *)
(* and one whose awaiter fails with it.                                    *)
Dies == Of(Code4(<<Op("give", {g})>> \o SpawnAll \o <<Op("await", {B}), Op("await", {C})>>,
                 <<Op("take", {g}), Op("bump", {x}), Op("die", {})>>,
                 Locked(ReadWrite), <<Op("await", {A})>>),
           {g}, 1, 1, {x})

(* Unlocked `$x = $x + 1`: the language promises nothing here.             *)
Racy == Of(Code4(SpawnAll \o AwaitAll, ReadWrite, ReadWrite, <<Op("bump", {x})>>),
           {g}, 1, 1, {x})

(* The program drops its sender, consumes until the producers are gone and *)
(* then tries to send itself.                                              *)
Producers == Of(Code4(<<Op("spawn", {A}), Op("spawn", {B}), Op("undef", {c}), Op("drain", {c}),
                        Op("send", {c})>>,
                      <<Op("send", {c}), Op("send", {c}), Op("send", {c})>>,
                      <<Op("send", {c}), Op("spawn", {C})>>, <<Op("send", {c})>>),
                {g}, 1, 1, {x})

(* The consumer is a body, and captured the sender it never uses.          *)
Consumers == Of(Code4(<<Op("spawn", {A}), Op("spawn", {B}), Op("send", {c}), Op("send", {c}),
                        Op("send", {c}), Op("undef", {c}), Op("await", {A})>>,
                      <<Op("drain", {c})>>, <<Op("recv", {c}), Op("send", {d})>>, <<>>),
                {g}, 1, 1, {x})

(* pselect over two channels, with and without a timeout; a body that      *)
(* would drop its captured sender.                                         *)
Selects == Of(Code4(<<Op("spawn", {A}), Op("undef", {d}), Op("spawn", {B}), Op("select", {c, d}),
                      Op("poll", {c, d}), Op("poll", {d}), Op("await", {B}), Op("await", {A})>>,
                    <<Op("send", {d}), Op("undef", {d})>>, <<Op("send", {c}), Op("send", {c})>>, <<>>),
              {g}, 1, 1, {x})

(* `fan 3 { $sync->wait }` with a barrier of that many or fewer parties;   *)
(* the plain variable belongs to the main program alone.                   *)
Barrier(n) == Of(Code4(<<Op("bump", {x}), Op("fan", {A, B, C}), Op("bump", {x})>>,
                       <<Op("load", {x}), Op("meet", {b}), Op("meet", {b})>>,
                       <<Op("meet", {b}), Op("meet", {b})>>,
                       IF n = 2 THEN <<>> ELSE <<Op("meet", {b}), Op("meet", {b})>>),
                 {g}, 1, n, {})

(* A body writes a captured plain variable: the first error of a fan, the  *)
(* error of a fan_cap once all have run.                                   *)
Writes(fan, write) == Of(Code4(<<Op("load", {x}), Op("store", {x}), Op(fan, {A, B, C})>>,
                               <<Op("load", {x})>>, write, <<Op("load", {x})>>),
                         {g}, 1, 1, {})

MCScripts == {Mutexed, TwoPermits, Signals, Dies, Racy, Producers, Consumers, Selects,
              Barrier(2), Barrier(3), Writes("fan", <<Op("bump", {x})>>), Writes("fan_cap", ReadWrite)}

MCTasks == {Main, A, B, C}
=============================================================================
