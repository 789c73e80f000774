---------------------------- MODULE MCPkgStore ----------------------------
(* Packages and commands for PkgStore: two versions of x and a second tree *)
(* with the first version's name, directories that need them, a cycle of   *)
(* directories, a release that needs another, and another of x@1, forks of *)
(* x@1 that need x@1; and what two processes do with them.                 *)
EXTENDS PkgStore, TLC

CONSTANTS p1, p2, x, a, b, app, r

Package(n, v, rel, ds) == [name |-> n, ver |-> v, release |-> rel, deps |-> ds]

Packages ==
  [X1 |-> Package(x, 1, FALSE, <<>>), X2 |-> Package(x, 2, FALSE, <<>>),
   X1b |-> Package(x, 1, FALSE, <<>>), XR |-> Package(x, 1, TRUE, <<>>),
   A |-> Package(a, 1, FALSE, <<"X1">>), B |-> Package(b, 1, FALSE, <<"X2", "X1b">>),
   C |-> Package(app, 1, FALSE, <<"A", "C">>), R |-> Package(r, 1, TRUE, <<"XR">>),
   XD |-> Package(x, 1, FALSE, <<"XR">>), XF |-> Package(x, 1, TRUE, <<"X1">>)]

Install(roots) == [cmd |-> "install", roots |-> roots]
Update(roots) == [cmd |-> "update", roots |-> roots]
InstallG(t) == [cmd |-> "install -g", tree |-> t]
Use(v) == [cmd |-> "use -g", entry |-> <<x, v>>]
Uninstall == [cmd |-> "uninstall -g", name |-> x]
Gc == [cmd |-> "gc -g"]
Clean == [cmd |-> "clean --all"]

Both(s, t) == p1 :> s @@ p2 :> t

Commands ==
  {Both(<<Install(<<"A", "B">>), Update(<<"B">>)>>, <<InstallG("X1b")>>),    \* a diamond meets its own x@1
   Both(<<InstallG("X1"), Install(<<"C">>)>>, <<Install(<<"A">>)>>),   \* a cycle
   Both(<<Install(<<"R">>)>>, <<InstallG("XR"), Gc>>),      \* one staging directory
   Both(<<InstallG("R"), Uninstall>>, <<InstallG("R")>>),
   Both(<<Install(<<"X1", "R">>)>>, <<Clean, Install(<<"A">>)>>),      \* x@1 pinned, then fetched
   Both(<<InstallG("X1"), InstallG("X2"), Use(1), Gc, Use(2)>>, <<>>),
   Both(<<InstallG("X1"), InstallG("XR"), InstallG("X2"), Gc, Uninstall, Gc>>, <<Use(1)>>),
   Both(<<InstallG("X1"), InstallG("X2")>>, <<Gc, Use(1)>>),
   Both(<<Install(<<"XD">>), Install(<<"XF">>)>>, <<>>)}     \* an entry below itself
=============================================================================
