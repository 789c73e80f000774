------------------------------ MODULE PkgStore ------------------------------
(***************************************************************************)
(* The package manager's files under ~/.stryke: the store of extracted     *)
(* packages, the staging directories of downloads, the index of globally   *)
(* installed packages, and the lock file of each project.  Commands run in *)
(* processes of their own, which share these files and take no lock; a     *)
(* process may be killed between any two of its system calls.              *)
(*                                                                         *)
(* A package tree is a source directory (copied into the store in place)   *)
(* or a release (unpacked in a staging directory and renamed).  Its files  *)
(* are two parts, its manifest and the rest, so that a directory can be    *)
(* half there.                                                             *)
(***************************************************************************)
EXTENDS Naturals, Sequences

CONSTANTS Procs,       \* processes; each also stands for the project it runs in
          Trees,       \* package trees anybody may install
          About,       \* [Trees -> its name, version, kind and direct deps]
          Names,       \* package names
          Versions,    \* their versions, as numbers in the order of their text
          Scenarios,   \* sets of commands the processes run, each in its order
          MaxStops,    \* processes stopped per behaviour
          Torn,        \* what is left of a file that was cut but not yet filled
          None

Parts == {"manifest", "rest"}

ASSUME TreesAssumption ==
  /\ Versions \subseteq Nat
  /\ About \in [Trees -> [name : Names, ver : Versions, release : BOOLEAN, deps : Seq(Trees)]]
ASSUME ValuesAssumption ==
  /\ None \notin Trees /\ None \notin Versions /\ None \notin [Parts -> Trees \cup {None}]
  /\ Torn \notin [Names -> Versions \cup {None}]
  /\ MaxStops \in Nat

Entries == Names \X Versions

(* What a process can be told to do.                                       *)
Request ==
  [cmd : {"install", "update"}, roots : Seq(Trees)]
    \cup [cmd : {"install -g"}, tree : Trees] \cup [cmd : {"use -g"}, entry : Entries]
    \cup [cmd : {"uninstall -g"}, name : Names] \cup [cmd : {"gc -g", "clean --all"}]

ASSUME CommandsAssumption == Scenarios \subseteq [Procs -> Seq(Request)]

(* A directory, by the tree each part of it comes from.                    *)
Dirs == [Parts -> Trees \cup {None}]
Empty == [q \in Parts |-> None]
WholeOf(t) == [q \in Parts |-> t]

(* store_dir/<name>@<version>, which the manifest of the tree decides.     *)
Entry(t) == <<About[t].name, About[t].ver>>

VARIABLES
  scenario,    \* the commands of each process (never changes)
  store,       \* ~/.stryke/store: a directory or None per entry
  stage,       \* ~/.stryke/cache/install-stage-<asset>: one per release
  index,       \* ~/.stryke/installed.toml: name to version, or Torn
  lock,        \* stryke.lock of the process's project, None when there is none
  ran,         \* commands the process has started
  at,          \* where in its command it is
  stack,       \* the walk: trees being resolved, innermost last
  graph,       \* nodes resolved so far by this install
  idx,         \* the index as this command loaded and changed it
  rm,          \* entries gc or clean still has to remove
  stops,       \* processes killed, or stopped by a failing call, so far
  alone,       \* history: no other process has run since this command started
  overlapped,  \* history: two commands have run at the same time
  spoiled      \* history: entries left to a process that was stopped, to two
               \* processes at once or to clean

vars == <<scenario, store, stage, index, lock, ran, at, stack, graph, idx, rm,
          stops, alone, overlapped, spoiled>>

files == <<store, stage, index, lock>>
job == <<stack, graph, idx, rm>>
history == <<alone, overlapped, spoiled>>

Places == {"idle", "walk", "clear", "copy", "copyRest", "stage", "unpack", "locate",
           "replace", "rename", "unstage", "hash", "load", "save", "write", "remove"}

Edges == Names \X (Versions \cup {0})
Node == [entry : Entries, tree : Dirs, edges : SUBSET Edges]
Frame == [tree : Trees \cup {None}, deps : Seq(Trees), hash : Dirs,
          left : SUBSET Parts, edges : SUBSET Edges]
Index == [Names -> Versions \cup {None}]
NoPins == [n \in Names |-> None]

Init ==
  /\ scenario \in Scenarios
  /\ store = [e \in Entries |-> None]
  /\ stage = [t \in Trees |-> None]
  /\ index = NoPins
  /\ lock = [p \in Procs |-> None]
  /\ ran = [p \in Procs |-> 0]
  /\ at = [p \in Procs |-> "idle"]
  /\ stack = [p \in Procs |-> <<>>]
  /\ graph = [p \in Procs |-> {}]
  /\ idx = [p \in Procs |-> NoPins]
  /\ rm = [p \in Procs |-> {}]
  /\ stops = 0
  /\ alone = [p \in Procs |-> FALSE]
  /\ overlapped = FALSE
  /\ spoiled = {}

-----------------------------------------------------------------------------
Working(p) == at[p] # "idle"

Command(p) == scenario[p][ran[p]]

Present(e) == store[e] # None

Top(p) == stack[p][Len(stack[p])]

FrameOf(t, ds) == [tree |-> t, deps |-> ds, hash |-> IF t = None THEN Empty ELSE WholeOf(t),
                   left |-> IF t = None THEN {} ELSE Parts, edges |-> {}]

Push(p, t) == stack' = [stack EXCEPT ![p] = Append(@, FrameOf(t, About[t].deps))]

SetTop(p, frame) == stack' = [stack EXCEPT ![p][Len(stack[p])] = frame]

Goto(p, place) == at' = [at EXCEPT ![p] = place]

(* The command reports an error and exits: its walk is forgotten.          *)
Fail(p) == Goto(p, "idle") /\ stack' = [stack EXCEPT ![p] = <<>>]

(* The store entries a process is changing, and with them those it is      *)
(* preparing in a staging directory.                                       *)
Touching(p) == CASE at[p] \in {"clear", "copy", "copyRest", "replace", "rename"}
                      -> {Entry(Top(p).tree)}
                 [] at[p] = "remove" -> rm[p]
                 [] OTHER -> {}

Busy(p) == IF at[p] \in {"stage", "unpack", "locate", "unstage"} THEN {Entry(Top(p).tree)} ELSE Touching(p)

Others(p) == UNION {Busy(q) : q \in Procs \ {p}}

(* p takes up entries, some of which other processes have.                 *)
Meets(p, es) == spoiled' = spoiled \cup (es \cap Others(p))

-----------------------------------------------------------------------------
(* Starting a command c.                                                   *)

Begin(p, place, frames, removes) ==
  /\ Goto(p, place)
  /\ stack' = [stack EXCEPT ![p] = frames]
  /\ rm' = [rm EXCEPT ![p] = removes]

(* An update removes the lock, then installs.                              *)
BeginInstall(p, c) ==
  /\ c.cmd \in {"install", "update"}
  /\ Begin(p, "walk", <<FrameOf(None, c.roots)>>, {})
  /\ lock' = IF c.cmd = "update" THEN [lock EXCEPT ![p] = None] ELSE lock
  /\ UNCHANGED <<stage, spoiled>>

(* A global install puts the one tree into the store.                      *)
BeginGlobal(p, c) ==
  /\ c.cmd = "install -g"
  /\ Begin(p, IF About[c.tree].release THEN "stage" ELSE "clear", <<FrameOf(c.tree, <<>>)>>, {})
  /\ Meets(p, {Entry(c.tree)})
  /\ UNCHANGED <<stage, lock>>

(* The others start from the index; `use -g` looks for its entry first.    *)
BeginPinned(p, c) ==
  /\ c.cmd \in {"use -g", "uninstall -g", "gc -g"}
  /\ Begin(p, IF c.cmd = "use -g" /\ ~Present(c.entry) THEN "idle" ELSE "load", <<>>, {})
  /\ UNCHANGED <<stage, lock, spoiled>>

(* clean --all removes the cache, then the store, and not the index.       *)
BeginClean(p, c) ==
  LET held == {e \in Entries : Present(e)}
  IN /\ c.cmd = "clean --all"
     /\ Begin(p, "remove", <<>>, held)
     /\ stage' = [t \in Trees |-> None]
     /\ spoiled' = spoiled \cup held \cup Others(p)
     /\ UNCHANGED lock

Start(p) ==
  /\ ~Working(p) /\ ran[p] < Len(scenario[p])
  /\ LET c == scenario[p][ran[p] + 1]
     IN BeginInstall(p, c) \/ BeginGlobal(p, c) \/ BeginPinned(p, c) \/ BeginClean(p, c)
  /\ ran' = [ran EXCEPT ![p] = @ + 1]
  /\ graph' = [graph EXCEPT ![p] = {}]
  /\ idx' = [idx EXCEPT ![p] = NoPins]
  /\ LET others == \E q \in Procs \ {p} : Working(q)
     IN /\ alone' = [q \in Procs |-> q = p /\ ~others]
        /\ overlapped' = (overlapped \/ others)
  /\ UNCHANGED <<scenario, store, index, stops>>

-----------------------------------------------------------------------------
(* `s install`: the walk over the dependencies (Resolver::resolve).        *)

(* The version written on an edge is that of the first node of the graph,  *)
(* in the order of its keys, that has the name, or "0.0.0".                *)
FirstOf(g, n) == LET vs == {v \in Versions : \E m \in g : m.entry = <<n, v>>}
                 IN IF vs = {} THEN <<n, 0>> ELSE <<n, CHOOSE v \in vs : \A w \in vs : v <= w>>

(* Mutant: what the store already has is not walked again.                 *)
InStore(p, e) == Present(e)

Resolved(p, e) == \E m \in graph[p] : m.entry = e

(* Mutant: no cycle is ever seen.                                          *)
NoCycle(p, e) == FALSE

Visiting(p, e) == \E i \in 2..Len(stack[p]) : LET t == stack[p][i].tree IN ~About[t].release /\ Entry(t) = e

(* The dependency the innermost frame is at is settled: an edge to it.     *)
Settled(frames, g) ==
  LET f == frames[Len(frames)]
  IN [frames EXCEPT ![Len(frames)] =
       [f EXCEPT !.deps = Tail(@), !.edges = @ \cup {FirstOf(g, About[Head(f.deps)].name)}]]

(* The innermost tree needs no node of its own, or has just got it.        *)
Popped(p, g) == stack' = [stack EXCEPT ![p] = Settled(SubSeq(@, 1, Len(@) - 1), g)]

(* A dependency that is a directory: known, a cycle, or to be copied.      *)
WalkDir(p) ==
  /\ at[p] = "walk" /\ Top(p).deps # <<>>
  /\ LET t == Head(Top(p).deps)
         e == Entry(t)
     IN /\ ~About[t].release
        /\ \/ /\ Resolved(p, e)
              /\ stack' = [stack EXCEPT ![p] = Settled(@, graph[p])]
              /\ UNCHANGED <<at, spoiled>>
           \/ /\ ~Resolved(p, e) /\ Visiting(p, e)
              /\ Fail(p)
              /\ UNCHANGED spoiled
           \/ /\ ~Resolved(p, e) /\ ~Visiting(p, e)
              /\ Push(p, t)
              /\ Goto(p, "clear")
              /\ Meets(p, {e})
  /\ UNCHANGED <<scenario, files, ran, graph, idx, rm, stops, alone, overlapped>>

(* A release is fetched before the graph is asked about it; the download   *)
(* or its checksum may fail.                                               *)
WalkRelease(p) ==
  /\ at[p] = "walk" /\ Top(p).deps # <<>>
  /\ LET t == Head(Top(p).deps)
     IN /\ About[t].release
        /\ \/ Push(p, t) /\ Goto(p, "stage") /\ Meets(p, {Entry(t)})
           \/ Fail(p) /\ UNCHANGED spoiled
  /\ UNCHANGED <<scenario, files, ran, graph, idx, rm, stops, alone, overlapped>>

(* A tree's dependencies are all settled: it becomes the node of its       *)
(* entry, also when a tree below it has become that.                       *)
Insert(p) ==
  /\ at[p] = "walk" /\ Top(p).deps = <<>> /\ Top(p).tree # None
  /\ LET f == Top(p)
         g == {m \in graph[p] : m.entry # Entry(f.tree)}
                \cup {[entry |-> Entry(f.tree), tree |-> f.hash, edges |-> f.edges]}
     IN graph' = [graph EXCEPT ![p] = g] /\ Popped(p, g)
  /\ UNCHANGED <<scenario, files, ran, at, idx, rm, stops, history>>

(* The walk is over: stryke.lock is replaced by what it found.             *)
WriteLock(p) ==
  /\ at[p] = "walk" /\ Top(p).deps = <<>> /\ Top(p).tree = None
  /\ lock' = [lock EXCEPT ![p] = graph[p]]
  /\ Goto(p, "idle")
  /\ UNCHANGED <<scenario, store, stage, index, ran, job, stops, history>>

-----------------------------------------------------------------------------
(* Putting a tree into the store.                                          *)

Global(p) == Len(stack[p]) = 1

(* The entry is in place; a process that was alone has made it good.       *)
Placed(p, place) ==
  /\ Goto(p, IF Global(p) THEN "load" ELSE place)
  /\ spoiled' = IF alone[p] THEN spoiled \ {Entry(Top(p).tree)} ELSE spoiled

Has(dir, q) == dir # None /\ dir[q] # None

(* remove_dir_all of an entry: part by part, then the directory.           *)
Vanish(e) ==
  \/ store[e] \in {None, Empty} /\ store' = [store EXCEPT ![e] = None]
  \/ \E q \in Parts : Has(store[e], q) /\ store' = [store EXCEPT ![e][q] = None]

(* One part of the entry written, with the directories above it.           *)
Filled(dir, q, t) == [(IF dir = None THEN Empty ELSE dir) EXCEPT ![q] = t]

(* The old entry of a source directory or a release goes.                  *)
Clear(p) ==
  /\ at[p] \in {"clear", "replace"}
  /\ LET e == Entry(Top(p).tree)
     IN /\ Vanish(e)
        /\ Goto(p, IF store'[e] # None THEN at[p]
                   ELSE IF at[p] = "clear" THEN "copy" ELSE "rename")
  /\ UNCHANGED <<scenario, stage, index, lock, ran, job, stops, history>>

(* A source directory: its manifest is copied,                             *)
Copy(p) ==
  /\ at[p] = "copy"
  /\ LET t == Top(p).tree IN store' = [store EXCEPT ![Entry(t)] = Filled(@, "manifest", t)]
  /\ Goto(p, "copyRest")
  /\ UNCHANGED <<scenario, stage, index, lock, ran, job, stops, history>>

(* then lib/ and bin/.                                                     *)
CopyRest(p) ==
  /\ at[p] = "copyRest"
  /\ LET t == Top(p).tree IN store' = [store EXCEPT ![Entry(t)] = Filled(@, "rest", t)]
  /\ Placed(p, "walk")
  /\ UNCHANGED <<scenario, stage, index, lock, ran, job, stops, alone, overlapped>>

(* A release: the staging directory, named after the asset alone, emptied, *)
Stage(p) ==
  /\ at[p] = "stage"
  /\ stage' = [stage EXCEPT ![Top(p).tree] = Empty]
  /\ Goto(p, "unpack")
  /\ UNCHANGED <<scenario, store, index, lock, ran, job, stops, history>>

(* Mutant: unpacked straight into the store entry.                         *)
UnpackInPlace(p) ==
  /\ at[p] = "unpack"
  /\ LET f == Top(p)
         e == Entry(f.tree)
     IN \E q \in f.left :
          /\ store' = [store EXCEPT ![e] = Filled(@, q, f.tree)]
          /\ SetTop(p, [f EXCEPT !.left = @ \ {q}])
          /\ Goto(p, IF f.left = {q} THEN "unstage" ELSE "unpack")
  /\ UNCHANGED <<scenario, stage, index, lock, ran, graph, idx, rm, stops, history>>

(* the tarball unpacked into it (the library may make the directory again  *)
(* if it is gone, or give up),                                             *)
Unpack(p) ==
  /\ at[p] = "unpack"
  /\ LET f == Top(p)
     IN \/ \E q \in f.left :
             /\ stage' = [stage EXCEPT ![f.tree] = Filled(@, q, f.tree)]
             /\ SetTop(p, [f EXCEPT !.left = @ \ {q}])
             /\ Goto(p, IF f.left = {q} THEN "locate" ELSE "unpack")
        \/ stage[f.tree] = None /\ Fail(p) /\ UNCHANGED stage
  /\ UNCHANGED <<scenario, store, index, lock, ran, graph, idx, rm, stops, history>>

(* its manifest looked for,                                                *)
Locate(p) ==
  /\ at[p] = "locate"
  /\ \/ Has(stage[Top(p).tree], "manifest") /\ Goto(p, "replace") /\ UNCHANGED stack
     \/ ~Has(stage[Top(p).tree], "manifest") /\ Fail(p)
  /\ UNCHANGED <<scenario, files, ran, graph, idx, rm, stops, history>>

(* and, the old entry gone, the staging directory renamed to it,           *)
Rename(p) ==
  /\ at[p] = "rename"
  /\ LET t == Top(p).tree
         e == Entry(t)
     IN \/ /\ stage[t] # None /\ store[e] \in {None, Empty}
           /\ store' = [store EXCEPT ![e] = stage[t]]
           /\ stage' = [stage EXCEPT ![t] = None]
           /\ Goto(p, "unstage")
           /\ UNCHANGED stack
        \/ /\ stage[t] = None \/ store[e] \notin {None, Empty}
           /\ Fail(p)
           /\ UNCHANGED <<store, stage>>
  /\ UNCHANGED <<scenario, index, lock, ran, graph, idx, rm, stops, history>>

(* what is left of the staging directory, or is there again, removed.      *)
Unstage(p) ==
  /\ at[p] = "unstage"
  /\ stage' = [stage EXCEPT ![Top(p).tree] = None]
  /\ Placed(p, "hash")
  /\ UNCHANGED <<scenario, store, index, lock, ran, job, stops, alone, overlapped>>

(* A project pins a release by the hash of its entry; if it is a node      *)
(* already, it stays as it was.                                            *)
Hash(p) ==
  /\ at[p] = "hash"
  /\ LET f == Top(p)
         e == Entry(f.tree)
     IN \/ Present(e) /\ Resolved(p, e) /\ Popped(p, graph[p]) /\ Goto(p, "walk")
        \/ Present(e) /\ ~Resolved(p, e) /\ SetTop(p, [f EXCEPT !.hash = store[e]]) /\ Goto(p, "walk")
        \/ ~Present(e) /\ Fail(p)
  /\ UNCHANGED <<scenario, files, ran, graph, idx, rm, stops, history>>

-----------------------------------------------------------------------------
(* The index of global packages: loaded whole, changed, written whole.     *)

Changed(c, loaded) ==
  CASE c.cmd = "install -g" -> [loaded EXCEPT ![About[c.tree].name] = About[c.tree].ver]
    [] c.cmd = "use -g" -> [loaded EXCEPT ![c.entry[1]] = c.entry[2]]
    [] c.cmd = "uninstall -g" -> [loaded EXCEPT ![c.name] = None]
    [] OTHER -> loaded

(* Mutant: gc takes the entries of every name that has several.            *)
OrphanIfSeveral(loaded, e) ==
  Present(e) /\ (loaded[e[1]] = None \/ \E v \in Versions \ {e[2]} : Present(<<e[1], v>>))

(* scan_orphan_store_dirs: an entry whose version is not the pinned one.   *)
Orphan(loaded, e) == Present(e) /\ loaded[e[1]] # e[2]

(* A torn index stops every command that loads it.                         *)
Load(p) ==
  /\ at[p] = "load"
  /\ LET c == Command(p)
         orphans == IF c.cmd = "gc -g" THEN {e \in Entries : Orphan(index, e)} ELSE {}
     IN \/ /\ index = Torn
           /\ Fail(p)
           /\ UNCHANGED <<idx, rm, spoiled>>
        \/ /\ index # Torn
           /\ idx' = [idx EXCEPT ![p] = Changed(c, index)]
           /\ rm' = [rm EXCEPT ![p] = orphans]
           /\ Meets(p, orphans)
           /\ Goto(p, CASE c.cmd = "gc -g" -> "remove"
                        [] c.cmd = "uninstall -g" /\ index[c.name] = None -> "idle"
                        [] OTHER -> "save")
           /\ UNCHANGED stack
  /\ UNCHANGED <<scenario, files, ran, graph, stops, alone, overlapped>>

(* fs::write cuts the file to nothing, then fills it.                      *)
Truncate(p) ==
  /\ at[p] = "save"
  /\ index' = Torn
  /\ Goto(p, "write")
  /\ UNCHANGED <<scenario, store, stage, lock, ran, job, stops, history>>

Write(p) ==
  /\ at[p] = "write"
  /\ index' = idx[p]
  /\ Goto(p, "idle")
  /\ UNCHANGED <<scenario, store, stage, lock, ran, job, stops, history>>

(* gc and clean: one directory after the other.                            *)
Remove(p) ==
  /\ at[p] = "remove"
  /\ \/ rm[p] = {} /\ Goto(p, "idle") /\ UNCHANGED <<store, rm>>
     \/ \E e \in rm[p] :
          /\ Vanish(e)
          /\ rm' = [rm EXCEPT ![p] = IF store'[e] = None THEN @ \ {e} ELSE @]
          /\ UNCHANGED at
  /\ UNCHANGED <<scenario, stage, index, lock, ran, stack, graph, idx, stops, history>>

-----------------------------------------------------------------------------
(* A process is killed or one of its calls fails, for a reason of the      *)
(* machine's or because another process has the same entry.  Its files     *)
(* stay as they are.                                                       *)
Stop(p) ==
  /\ Working(p)
  /\ \/ stops < MaxStops /\ stops' = stops + 1
     \/ Busy(p) \cap Others(p) # {} /\ UNCHANGED stops
  /\ Fail(p)
  /\ spoiled' = spoiled \cup Touching(p)
  /\ UNCHANGED <<scenario, files, ran, graph, idx, rm, alone, overlapped>>

Next == \E p \in Procs :
  \/ Start(p) \/ WalkDir(p) \/ WalkRelease(p) \/ Insert(p) \/ WriteLock(p)
  \/ Clear(p) \/ Copy(p) \/ CopyRest(p)
  \/ Stage(p) \/ Unpack(p) \/ Locate(p) \/ Rename(p) \/ Unstage(p) \/ Hash(p)
  \/ Load(p) \/ Truncate(p) \/ Write(p) \/ Remove(p) \/ Stop(p)

Spec == Init /\ [][Next]_vars

-----------------------------------------------------------------------------
(* Properties.                                                             *)

(* The walk is in no directory twice.                                      *)
NoCircle(s) ==
  \A i, j \in 2..Len(s) :
    /\ ~About[s[i].tree].release /\ ~About[s[j].tree].release
    /\ Entry(s[i].tree) = Entry(s[j].tree)
    => i = j

(* Types; and the walk of the dependencies goes into no directory it is    *)
(* in, whatever cycles the directories declare and whatever releases lie   *)
(* between.                                                                *)
TypeOK ==
  /\ store \in [Entries -> Dirs \cup {None}]
  /\ stage \in [Trees -> Dirs \cup {None}]
  /\ index \in Index \cup {Torn}
  /\ \A p \in Procs : lock[p] = None \/ lock[p] \in SUBSET Node
  /\ \A p \in Procs : ran[p] \in 0..Len(scenario[p])
  /\ at \in [Procs -> Places]
  /\ \A p \in Procs : stack[p] \in Seq(Frame) /\ NoCircle(stack[p])
  /\ graph \in [Procs -> SUBSET Node]
  /\ idx \in [Procs -> Index]
  /\ rm \in [Procs -> SUBSET Entries]
  /\ stops \in 0..MaxStops
  /\ alone \in [Procs -> BOOLEAN]
  /\ overlapped \in BOOLEAN
  /\ spoiled \in SUBSET Entries

Whole(e) == \E t \in Trees : Entry(t) = e /\ store[e] = WholeOf(t)

Held == UNION {Touching(p) : p \in Procs}

(* A store entry that is not the whole of one package tree is being        *)
(* changed right now, or was left by a process stopped while it changed    *)
(* it, by two processes that had the same entry, or by clean: a download   *)
(* that fails or is killed while it unpacks leaves no half-populated entry *)
(* (commands.rs: the staging directory and the rename).                    *)
EntriesWhole == \A e \in Entries : Present(e) /\ ~Whole(e) => e \in spoiled \cup Held

Members(ds) == {ds[i] : i \in DOMAIN ds}

(* The trees a manifest reaches.                                           *)
Reached(roots) ==
  {t \in Trees : \A S \in SUBSET Trees :
    /\ Members(roots) \subseteq S
    /\ \A u \in S : Members(About[u].deps) \subseteq S
    => t \in S}

Covered(ds, es) == \A t \in Members(ds) : Entry(t) \in es

(* When an install that ran alone has succeeded, whatever installs that    *)
(* were stopped or overlapped had left in the store: the lock has a node   *)
(* for each dependency of the manifest and of every tree it pins, a node   *)
(* pins a tree that the manifest reaches, and its edges lead to nodes.     *)
(* The store holds the whole of the pinned tree.  The exceptions the code  *)
(* makes are releases: one fetched for an entry that is a node already     *)
(* replaces the entry and not the node, and one that has the entry of a    *)
(* tree below it becomes the node and not the entry.                       *)
LockHolds ==
  \A p \in Procs :
    ~Working(p) /\ alone[p] /\ stack[p] # <<>> /\ Command(p).cmd \in {"install", "update"} =>
      LET reached == Reached(Command(p).roots)
          locked == {m.entry : m \in lock[p]}
      IN /\ Covered(Command(p).roots, locked)
         /\ \A m \in lock[p] : \E t, u \in reached :
              /\ m.entry = Entry(t) /\ m.tree = WholeOf(t)
              /\ Covered(About[t].deps, locked) /\ m.edges \subseteq locked
              /\ Entry(u) = Entry(t) /\ store[m.entry] = WholeOf(u)
              /\ u = t \/ About[t].release \/ About[u].release

(* As long as commands do not overlap, a global pin has a whole package    *)
(* behind it, whatever order of installs, switches, uninstalls and         *)
(* collections led there and wherever one was stopped: gc takes no pinned  *)
(* entry and no pin is written before its entry is complete.               *)
PinsBacked ==
  index # Torn /\ ~overlapped =>
    \A n \in Names : index[n] # None =>
      LET e == <<n, index[n]>> IN Whole(e) \/ e \in spoiled \cup Held

=============================================================================
