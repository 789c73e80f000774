--------------------------- MODULE PkgStoreProofs ---------------------------
(* Theorems about PkgStore, for any packages, any requests of any number of *)
(* processes and any number of them stopped.                                *)
EXTENDS PkgStore, SequenceTheorems, FiniteSetTheorems, TLAPS

Step(p) ==
  \/ Start(p) \/ WalkDir(p) \/ WalkRelease(p) \/ Insert(p) \/ WriteLock(p)
  \/ Clear(p) \/ Copy(p) \/ CopyRest(p)
  \/ Stage(p) \/ Unpack(p) \/ Locate(p) \/ Rename(p) \/ Unstage(p) \/ Hash(p)
  \/ Load(p) \/ Truncate(p) \/ Write(p) \/ Remove(p) \/ Stop(p)

(* Where a process has a tree in hand that it puts into the store.          *)
Placing == {"clear", "copy", "copyRest", "stage", "unpack", "locate", "replace", "rename",
            "unstage"}

(* The walk of a command, by the place in it: dependencies are above the    *)
(* frame of the manifest, each the first that the one below has to settle;  *)
(* a global install has its tree alone.                                     *)
Chain(s) ==
  /\ \A i \in 2..Len(s) : s[i].tree \in Trees
  /\ \A i \in 1..(Len(s) - 1) : s[i].deps # <<>>

InHand(place, s, c) ==
  /\ place = "walk" => Len(s) >= 1 /\ s[1].tree = None
  /\ place = "hash" => Len(s) >= 2 /\ s[1].tree = None
  /\ place \in Placing => /\ Len(s) >= 1 /\ s[Len(s)].tree \in Trees
                          /\ IF Len(s) = 1 THEN c.cmd = "install -g" /\ c.tree = s[1].tree
                                           ELSE s[1].tree = None
  /\ place = "stage" => s[Len(s)].left = Parts

Shape(place, s, c) == Chain(s) /\ InHand(place, s, c)

Typed ==
  /\ scenario \in Scenarios
  /\ store \in [Entries -> Dirs \cup {None}]
  /\ stage \in [Trees -> Dirs \cup {None}]
  /\ index \in Index \cup {Torn}
  /\ ran \in [Procs -> Nat]
  /\ \A p \in Procs : ran[p] <= Len(scenario[p]) /\ (Working(p) => ran[p] >= 1)
  /\ at \in [Procs -> Places]
  /\ stack \in [Procs -> Seq(Frame)]
  /\ graph \in [Procs -> SUBSET Node]
  /\ idx \in [Procs -> Index]
  /\ rm \in [Procs -> SUBSET Entries]
  /\ alone \in [Procs -> BOOLEAN]
  /\ overlapped \in BOOLEAN
  /\ spoiled \in SUBSET Entries
  /\ \A p \in Procs : Shape(at[p], stack[p], Command(p))

-----------------------------------------------------------------------------
(* A process that is alone has all others idle; two that have one entry     *)
(* have spoiled it.                                                         *)
Lone == \A p, q \in Procs : alone[p] /\ q # p => ~Working(q)
Met  == \A p, q \in Procs : p # q => Busy(p) \cap Busy(q) \subseteq spoiled

(* What is there of an entry d and a staging directory g at each place of a *)
(* process that has them to itself.                                         *)
Made(place, t, left, d, g) ==
  /\ place = "copy" => d = None
  /\ place = "copyRest" => d = [q \in Parts |-> IF q = "manifest" THEN t ELSE None]
  /\ place = "unpack" => g # None /\ \A q \in Parts \ left : g[q] = t
  /\ place \in {"locate", "replace", "rename"} => g = WholeOf(t)
  /\ place = "rename" => d = None

OwnsEntry(p) == alone[p] \/ Entry(Top(p).tree) \notin spoiled

MadeBy(p) ==
  LET t == Top(p).tree
      e == Entry(t)
  IN /\ OwnsEntry(p) => Made(at[p], t, Top(p).left, store[e], stage[t])
     /\ at[p] = "unstage" /\ alone[p] => store[e] = WholeOf(t)

HalfMade == \A p \in Procs : at[p] \in Placing => MadeBy(p)

Kept == Lone /\ Met /\ HalfMade /\ EntriesWhole

-----------------------------------------------------------------------------
(* As long as commands do not overlap, each has the files to itself, and    *)
(* what it is about to pin is there.                                        *)
Backed(e) == Present(e) \/ e \in spoiled \cup Held
Pins(i) == \A n \in Names : i[n] # None => Backed(<<n, i[n]>>)

Pinning ==
  ~overlapped =>
    /\ \A p \in Procs : Working(p) => alone[p]
    /\ index # Torn => Pins(index)
    /\ \A p \in Procs : at[p] \in {"save", "write"} => Pins(idx[p])
    /\ \A p \in Procs : at[p] = "load" =>
         /\ Command(p).cmd = "install -g" => Present(Entry(Command(p).tree))
         /\ Command(p).cmd = "use -g" => Present(Command(p).entry)
    /\ \A p \in Procs : at[p] = "remove" =>
         \A e \in rm[p] : e \in spoiled \/ (index # Torn /\ index[e[1]] # e[2])
-----------------------------------------------------------------------------
(* A version on an edge exists: every set of numbers has a least one.       *)
LEMMA LeastNumber ==
  ASSUME NEW T \in SUBSET Nat, T # {}
  PROVE  \E x \in T : \A y \in T : x <= y
<1>0. PICK b \in T : TRUE
  OBVIOUS
<1> DEFINE S == 0..b
           Below == {0..m : m \in {k \in T : k <= b}}
<1>1. IsWellFoundedOn(StrictSubsetOrdering(S), FiniteSubsetsOf(S))
  BY FS_StrictSubsetOrderingWellFounded
<1>2. Below \subseteq FiniteSubsetsOf(S) /\ Below # {}
  <2>1. \A m \in T : IsFiniteSet(0..m)
    BY FS_Interval
  <2>2. \A m \in T : m <= b => 0..m \in SUBSET S
    OBVIOUS
  <2>3. 0..b \in Below
    OBVIOUS
  <2>4. QED
    BY <2>1, <2>2, <2>3 DEF FiniteSubsetsOf
<1>3. PICK X \in Below : \A Y \in Below : <<Y, X>> \notin StrictSubsetOrdering(S)
  <2> HIDE DEF Below, S
  <2>1. QED
    BY <1>1, <1>2, WFMin
<1>4. PICK m \in T : X = 0..m /\ m <= b
  BY <1>3
<1>5. ASSUME NEW y \in T, y < m
      PROVE  FALSE
  <2>1. 0..y \in Below
    BY <1>4, <1>5
  <2>2. 0..y \subseteq X /\ 0..y \in SUBSET S /\ X \in SUBSET S /\ 0..y # X
    <3>1. m \in X /\ m \notin 0..y
      BY <1>4, <1>5
    <3>2. 0..y \subseteq X /\ 0..y \in SUBSET S /\ X \in SUBSET S
      BY <1>4, <1>5
    <3>3. QED
      BY <3>1, <3>2
  <2>3. <<0..y, X>> \in StrictSubsetOrdering(S)
    <3> HIDE DEF S
    <3>1. QED
      BY <2>2 DEF StrictSubsetOrdering
  <2>4. QED
    BY <1>3, <2>1, <2>3
<1>6. QED
  BY <1>4, <1>5

LEMMA EdgeType ==
  ASSUME NEW g, NEW n \in Names
  PROVE  FirstOf(g, n) \in Edges
<1> DEFINE vs == {v \in Versions : \E m \in g : m.entry = <<n, v>>}
<1>1. CASE vs = {}
  BY <1>1 DEF FirstOf, Edges
<1>2. CASE vs # {}
  <2>1. \E v \in vs : \A w \in vs : v <= w
    BY <1>2, TreesAssumption, LeastNumber
  <2>2. (CHOOSE v \in vs : \A w \in vs : v <= w) \in Versions
    BY <2>1
  <2> DEFINE v0 == CHOOSE v \in vs : \A w \in vs : v <= w
  <2>3. FirstOf(g, n) = <<n, v0>> /\ v0 \in Versions
    BY <1>2, <2>2 DEF FirstOf
  <2> HIDE DEF v0
  <2>4. QED
    BY <2>3 DEF Edges
<1>3. QED
  BY <1>1, <1>2

LEMMA TreeType ==
  ASSUME NEW t \in Trees
  PROVE  /\ Entry(t) \in Entries /\ About[t].name \in Names /\ About[t].ver \in Versions
         /\ About[t].release \in BOOLEAN /\ About[t].deps \in Seq(Trees)
         /\ WholeOf(t) \in Dirs /\ Empty \in Dirs
         /\ t # None /\ WholeOf(t) # None /\ Empty # None
<1>1. /\ About[t].name \in Names /\ About[t].ver \in Versions
      /\ About[t].release \in BOOLEAN /\ About[t].deps \in Seq(Trees)
  BY TreesAssumption
<1>2. WholeOf(t) \in Dirs /\ Empty \in Dirs /\ None \notin Dirs
  BY ValuesAssumption DEF WholeOf, Empty, Dirs
<1>3. QED
  BY <1>1, <1>2, ValuesAssumption DEF Entry, Entries

LEMMA FrameOfType ==
  ASSUME NEW t \in Trees \cup {None}, NEW ds \in Seq(Trees)
  PROVE  FrameOf(t, ds) \in Frame /\ FrameOf(t, ds).tree = t /\ FrameOf(t, ds).deps = ds
         /\ (t # None => FrameOf(t, ds).left = Parts)
<1>1. (IF t = None THEN Empty ELSE WholeOf(t)) \in Dirs
  BY DEF Empty, WholeOf, Dirs
<1>2. QED
  BY <1>1 DEF FrameOf, Frame

-----------------------------------------------------------------------------
(* The walk.                                                                *)
LEMMA Pushed ==
  ASSUME NEW s \in Seq(Frame), NEW c, Shape("walk", s, c), s[Len(s)].deps # <<>>,
         NEW f \in Frame, f.tree \in Trees, f.left = Parts, NEW place \in {"clear", "stage"}
  PROVE  /\ Append(s, f) \in Seq(Frame) /\ Shape(place, Append(s, f), c)
         /\ Len(Append(s, f)) = Len(s) + 1 /\ Append(s, f)[Len(s) + 1] = f
<1> DEFINE a == Append(s, f)
           n == Len(s)
<1>1. a \in Seq(Frame) /\ Len(a) = n + 1 /\ (\A i \in 1..n : a[i] = s[i]) /\ a[n + 1] = f
  BY AppendProperties
<1>2. n \in Nat /\ n >= 1 /\ s[1].tree = None
  BY LenProperties DEF Shape, InHand
<1> HIDE DEF a
<1>3. ASSUME NEW i \in 2..(n + 1)
      PROVE  a[i].tree \in Trees
  <2>1. CASE i = n + 1
    BY <1>1, <2>1
  <2>2. CASE i # n + 1
    <3>1. i \in 2..n /\ i \in 1..n
      BY <1>2, <2>2
    <3>2. QED
      BY <1>1, <3>1 DEF Shape, Chain
  <2>3. QED
    BY <2>1, <2>2
<1>4. ASSUME NEW i \in 1..n
      PROVE  a[i].deps # <<>>
  <2>1. CASE i = n
    BY <1>1, <2>1
  <2>2. CASE i # n
    <3>1. i \in 1..(n - 1)
      BY <1>2, <2>2
    <3>2. QED
      BY <1>1, <3>1 DEF Shape, Chain
  <2>3. QED
    BY <2>1, <2>2
<1>5. a[1].tree = None /\ a[n + 1].tree \in Trees /\ a[n + 1].left = Parts
  BY <1>1, <1>2
<1>6. Shape(place, a, c)
  <2>1. Len(a) = n + 1 /\ Len(a) - 1 = n /\ Len(a) >= 1 /\ Len(a) # 1
    BY <1>1, <1>2
  <2>2. \A i \in 2..Len(a) : a[i].tree \in Trees
    BY <1>3, <2>1
  <2>3. \A i \in 1..(Len(a) - 1) : a[i].deps # <<>>
    BY <1>4, <2>1
  <2>4. a[1].tree = None /\ a[Len(a)].tree \in Trees /\ a[Len(a)].left = Parts
    BY <1>5, <2>1
  <2>5. QED
    BY <2>1, <2>2, <2>3, <2>4 DEF Shape, Chain, InHand
<1>7. QED
  BY <1>1, <1>6 DEF a

(* The innermost frame replaced by one of the same tree.                    *)
LEMMA TopSet ==
  ASSUME NEW s \in Seq(Frame), NEW c, NEW place, Shape(place, s, c), Len(s) >= 1,
         NEW f \in Frame, f.tree = s[Len(s)].tree,
         NEW after, after = "walk" => s[1].tree = None,
         after \notin {"hash", "stage"},
         after \in Placing => place \in Placing
  PROVE  LET r == [s EXCEPT ![Len(s)] = f]
         IN /\ r \in Seq(Frame) /\ Len(r) = Len(s) /\ r[Len(r)] = f
            /\ Shape(after, r, c)
<1> DEFINE r == [s EXCEPT ![Len(s)] = f]
           n == Len(s)
<1>1. n \in Nat /\ n \in 1..n
  BY LenProperties
<1>2. r \in Seq(Frame) /\ Len(r) = n /\ \A j \in 1..n : r[j] = IF j = n THEN f ELSE s[j]
  BY <1>1, ExceptSeq
<1>3. \A i \in 1..n : r[i].tree = s[i].tree
  BY <1>2
<1>4. \A i \in 1..(n - 1) : r[i].deps = s[i].deps
  BY <1>1, <1>2
<1> HIDE DEF r
<1>5. Shape(after, r, c)
  <2>1. Len(r) = n /\ n >= 1
    BY <1>2
  <2>2. \A i \in 2..Len(r) : r[i].tree \in Trees
    BY <1>1, <1>3, <2>1 DEF Shape, Chain
  <2>3. \A i \in 1..(Len(r) - 1) : r[i].deps # <<>>
    BY <1>4, <2>1 DEF Shape, Chain
  <2>4. r[1].tree = s[1].tree /\ r[Len(r)].tree = s[n].tree
    BY <1>1, <1>3, <2>1
  <2>5. InHand(after, r, c)
    BY <2>1, <2>4 DEF Shape, InHand
  <2>6. QED
    BY <2>2, <2>3, <2>5 DEF Shape, Chain
<1>6. r[Len(r)] = f
  BY <1>1, <1>2
<1>7. QED
  BY <1>2, <1>5, <1>6 DEF r

LEMMA SettledWalk ==
  ASSUME NEW s \in Seq(Frame), NEW c, Shape("walk", s, c), s[Len(s)].deps # <<>>, NEW g
  PROVE  Settled(s, g) \in Seq(Frame) /\ Shape("walk", Settled(s, g), c)
<1> DEFINE f == s[Len(s)]
           h == [f EXCEPT !.deps = Tail(@), !.edges = @ \cup {FirstOf(g, About[Head(f.deps)].name)}]
<1>1. Len(s) \in Nat /\ Len(s) >= 1 /\ s[1].tree = None
  BY LenProperties DEF Shape, InHand
<1>2. f \in Frame
  BY <1>1, ElementOfSeq
<1>3. Head(f.deps) \in Trees /\ Tail(f.deps) \in Seq(Trees)
  BY <1>2, HeadTailProperties DEF Frame
<1>4. FirstOf(g, About[Head(f.deps)].name) \in Edges
  BY <1>3, TreeType, EdgeType
<1>5. h \in Frame /\ h.tree = f.tree
  BY <1>2, <1>3, <1>4 DEF Frame
<1>6. Settled(s, g) = [s EXCEPT ![Len(s)] = h]
  BY DEF Settled
<1> HIDE DEF h
<1>7. "walk" \notin Placing
  BY DEF Placing
<1>8. "walk" \notin {"hash", "stage"}
  OBVIOUS
<1>9. [s EXCEPT ![Len(s)] = h] \in Seq(Frame) /\ Shape("walk", [s EXCEPT ![Len(s)] = h], c)
  BY <1>1, <1>5, <1>7, <1>8, TopSet
<1>10. QED
  BY <1>6, <1>9

LEMMA PoppedWalk ==
  ASSUME NEW s \in Seq(Frame), NEW c, NEW place, Shape(place, s, c), Len(s) >= 2,
         s[1].tree = None, NEW g
  PROVE  LET r == Settled(SubSeq(s, 1, Len(s) - 1), g)
         IN  r \in Seq(Frame) /\ Shape("walk", r, c)
<1> DEFINE n == Len(s)
           b == SubSeq(s, 1, n - 1)
<1>1. n \in Nat /\ \A i \in 1..(n - 1) : s[i] \in Frame
  BY LenProperties, ElementOfSeq
<1>2. b \in Seq(Frame) /\ Len(b) = n - 1 /\ \A i \in 1..(n - 1) : b[i] = s[i]
  BY <1>1, SubSeqProperties
<1> HIDE DEF b
<1>3. Shape("walk", b, c) /\ b[Len(b)].deps # <<>>
  <2>1. \A i \in 2..Len(b) : b[i].tree \in Trees
    BY <1>1, <1>2 DEF Shape, Chain
  <2>2. \A i \in 1..Len(b) : b[i].deps # <<>>
    BY <1>1, <1>2 DEF Shape, Chain
  <2>3. Len(b) \in 1..Len(b) /\ \A i \in 1..(Len(b) - 1) : i \in 1..Len(b)
    BY <1>1, <1>2
  <2>4. b[1].tree = None
    BY <1>1, <1>2
  <2>5. InHand("walk", b, c)
    BY <2>3, <2>4 DEF InHand, Placing
  <2>6. Chain(b)
    BY <2>1, <2>2, <2>3 DEF Chain
  <2>7. QED
    BY <2>2, <2>3, <2>5, <2>6 DEF Shape
<1>4. QED
  BY <1>2, <1>3, SettledWalk DEF b
-----------------------------------------------------------------------------
(* Types: what a process has at its place, and what the helpers return.     *)
LEMMA AtWalk ==
  ASSUME Typed, NEW p \in Procs, at[p] = "walk"
  PROVE  /\ stack[p] \in Seq(Frame) /\ Shape("walk", stack[p], Command(p))
         /\ Len(stack[p]) \in Nat /\ Len(stack[p]) >= 1
         /\ Top(p) \in Frame /\ Top(p).deps \in Seq(Trees)
         /\ Top(p).tree # None => Top(p).tree \in Trees /\ Len(stack[p]) >= 2
         /\ stack[p][1].tree = None
<1>1. stack[p] \in Seq(Frame) /\ Shape("walk", stack[p], Command(p))
  BY DEF Typed
<1>2. Len(stack[p]) \in Nat /\ Len(stack[p]) >= 1 /\ stack[p][1].tree = None
  BY <1>1, LenProperties DEF Shape, InHand
<1>3. Top(p) \in Frame
  BY <1>1, <1>2, ElementOfSeq DEF Top
<1>4. Top(p).tree # None => Len(stack[p]) # 1
  BY <1>2 DEF Top
<1>5. ASSUME Top(p).tree # None
      PROVE  Top(p).tree \in Trees /\ Len(stack[p]) >= 2
  BY <1>1, <1>2, <1>4, <1>5 DEF Shape, Chain, Top
<1>6. Top(p).deps \in Seq(Trees)
  BY <1>3 DEF Frame
<1>7. QED
  BY <1>1, <1>2, <1>3, <1>5, <1>6

LEMMA AtTree ==
  ASSUME Typed, NEW p \in Procs, at[p] \in Placing \cup {"hash"}
  PROVE  /\ stack[p] \in Seq(Frame) /\ Chain(stack[p]) /\ InHand(at[p], stack[p], Command(p))
         /\ Len(stack[p]) \in Nat /\ Len(stack[p]) >= 1
         /\ Top(p) \in Frame /\ Top(p).tree \in Trees /\ Entry(Top(p).tree) \in Entries
         /\ Working(p)
<1>1. stack[p] \in Seq(Frame) /\ Chain(stack[p]) /\ InHand(at[p], stack[p], Command(p))
  BY DEF Typed, Shape
<1>2. Len(stack[p]) \in Nat /\ Len(stack[p]) >= 1 /\ (at[p] = "hash" => Len(stack[p]) >= 2)
  <2>1. Len(stack[p]) \in Nat
    BY <1>1, LenProperties
  <2>2. CASE at[p] = "hash"
    <3>1. Len(stack[p]) >= 2
      BY <1>1, <2>2 DEF InHand
    <3>2. QED
      BY <2>1, <3>1
  <2>3. CASE at[p] # "hash"
    BY <1>1, <2>1, <2>3 DEF InHand
  <2>4. QED
    BY <2>1, <2>2, <2>3
<1>3. Top(p) \in Frame
  BY <1>1, <1>2, ElementOfSeq DEF Top
<1>4. Top(p).tree \in Trees
  <2>1. CASE at[p] = "hash"
    BY <1>1, <1>2, <2>1 DEF Chain, Top
  <2>2. CASE at[p] # "hash"
    BY <1>1, <2>2 DEF InHand, Top
  <2>3. QED
    BY <2>1, <2>2
<1>5. Working(p)
  BY DEF Working, Placing
<1>6. QED
  BY <1>1, <1>2, <1>3, <1>4, <1>5, TreeType

LEMMA CommandType ==
  ASSUME Typed, NEW p \in Procs, Working(p)
  PROVE  Command(p) \in Request
<1>1. scenario[p] \in Seq(Request)
  BY CommandsAssumption DEF Typed
<1>2. ran[p] \in 1..Len(scenario[p])
  BY <1>1, LenProperties DEF Typed
<1>3. QED
  BY <1>1, <1>2, ElementOfSeq DEF Command

LEMMA ShapeIdle ==
  ASSUME NEW place, place \notin Placing \cup {"walk", "hash"}, NEW c
  PROVE  /\ Shape(place, <<>>, c) /\ <<>> \in Seq(Frame)
         /\ \A s : Chain(s) => Shape(place, s, c)
<1>1. Len(<<>>) = 0 /\ <<>> \in Seq(Frame)
  BY EmptySeq
<1>2. Chain(<<>>)
  BY <1>1 DEF Chain
<1>3. \A s : InHand(place, s, c)
  BY DEF InHand, Placing
<1>4. QED
  BY <1>1, <1>2, <1>3 DEF Shape

LEMMA VanishType ==
  ASSUME Typed, NEW e \in Entries, Vanish(e)
  PROVE  /\ store' \in [Entries -> Dirs \cup {None}]
         /\ \A f \in Entries : f # e => store'[f] = store[f]
<1>1. CASE store' = [store EXCEPT ![e] = None]
  BY <1>1 DEF Typed
<1>2. ASSUME NEW q \in Parts, Has(store[e], q), store' = [store EXCEPT ![e][q] = None]
      PROVE  /\ store' \in [Entries -> Dirs \cup {None}]
             /\ \A f \in Entries : f # e => store'[f] = store[f]
  <2>1. store[e] \in Dirs
    BY <1>2 DEF Typed, Has
  <2>2. [store[e] EXCEPT ![q] = None] \in Dirs
    BY <2>1 DEF Dirs
  <2>3. store' = [store EXCEPT ![e] = [store[e] EXCEPT ![q] = None]]
    BY <1>2 DEF Typed
  <2>4. QED
    BY <2>2, <2>3 DEF Typed
<1>3. QED
  BY <1>1, <1>2 DEF Vanish

LEMMA FilledType ==
  ASSUME NEW d \in Dirs \cup {None}, NEW q \in Parts, NEW t \in Trees
  PROVE  /\ Filled(d, q, t) \in Dirs /\ Filled(d, q, t)[q] = t
         /\ d # None => \A r \in Parts : r # q => Filled(d, q, t)[r] = d[r]
         /\ d = None => \A r \in Parts : r # q => Filled(d, q, t)[r] = None
BY ValuesAssumption DEF Filled, Dirs, Empty

LEMMA ChangedType ==
  ASSUME NEW c \in Request, NEW i \in Index
  PROVE  Changed(c, i) \in Index
<1>1. CASE c.cmd = "install -g"
  <2>1. c.tree \in Trees
    BY <1>1 DEF Request
  <2>2. QED
    BY <1>1, <2>1, TreeType DEF Changed, Index
<1>2. CASE c.cmd = "use -g"
  <2>1. c.entry \in Entries
    BY <1>2 DEF Request
  <2>2. QED
    BY <1>2, <2>1 DEF Changed, Index, Entries
<1>3. CASE c.cmd = "uninstall -g"
  <2>1. c.name \in Names
    BY <1>3 DEF Request
  <2>2. QED
    BY <1>3, <2>1 DEF Changed, Index
<1>4. CASE c.cmd \notin {"install -g", "use -g", "uninstall -g"}
  BY <1>4 DEF Changed
<1>5. QED
  BY <1>1, <1>2, <1>3, <1>4
-----------------------------------------------------------------------------
(* Types are kept.                                                          *)
Stored  == store \in [Entries -> Dirs \cup {None}]
Staged  == stage \in [Trees -> Dirs \cup {None}]
Indexed == index \in Index \cup {Torn}
Jobs    == /\ graph \in [Procs -> SUBSET Node]
           /\ idx \in [Procs -> Index]
           /\ rm \in [Procs -> SUBSET Entries]
           /\ spoiled \in SUBSET Entries

LEMMA Moved ==
  ASSUME Typed, NEW p \in Procs, Working(p), UNCHANGED <<scenario, ran, alone, overlapped>>,
         NEW place \in Places, NEW s \in Seq(Frame), Shape(place, s, Command(p)),
         at' = [at EXCEPT ![p] = place], stack' = [stack EXCEPT ![p] = s],
         Stored', Staged', Indexed', Jobs'
  PROVE  Typed'
<1>1. \A q \in Procs : Command(q)' = Command(q)
  BY DEF Command
<1>2. ASSUME NEW q \in Procs
      PROVE  Shape(at'[q], stack'[q], Command(q))
  BY <1>2 DEF Typed
<1>3. ASSUME NEW q \in Procs
      PROVE  ran'[q] <= Len(scenario'[q]) /\ (Working(q)' => ran'[q] >= 1)
  BY <1>3 DEF Typed, Working
<1>4. at' \in [Procs -> Places] /\ stack' \in [Procs -> Seq(Frame)]
  BY DEF Typed
<1>5. QED
  BY <1>1, <1>2, <1>3, <1>4 DEF Typed, Stored, Staged, Indexed, Jobs

LEMMA FailMoves ==
  ASSUME Typed, NEW p \in Procs, Working(p), Fail(p),
         UNCHANGED <<scenario, ran, alone, overlapped>>, Stored', Staged', Indexed', Jobs'
  PROVE  Typed'
<1>1. "idle" \in Places /\ "idle" \notin Placing \cup {"walk", "hash"}
  BY DEF Places, Placing
<1>2. Shape("idle", <<>>, Command(p)) /\ <<>> \in Seq(Frame)
  BY <1>1, ShapeIdle
<1>3. at' = [at EXCEPT ![p] = "idle"] /\ stack' = [stack EXCEPT ![p] = <<>>]
  BY DEF Fail, Goto
<1>4. QED
  BY <1>1, <1>2, <1>3, Moved

LEMMA ParentsTyped == Typed => Stored /\ Staged /\ Indexed /\ Jobs
BY DEF Typed, Stored, Staged, Indexed, Jobs

LEMMA KeptTyped ==
  ASSUME Typed
  PROVE  /\ UNCHANGED store => Stored'
         /\ UNCHANGED stage => Staged'
         /\ UNCHANGED index => Indexed'
         /\ UNCHANGED <<graph, idx, rm>> /\ spoiled' \in SUBSET Entries => Jobs'
         /\ UNCHANGED files => Stored' /\ Staged' /\ Indexed'
         /\ spoiled \in SUBSET Entries
BY ParentsTyped DEF Stored, Staged, Indexed, Jobs, files

LEMMA MeetsType ==
  ASSUME Typed, NEW p \in Procs, NEW es \in SUBSET Entries, Meets(p, es)
  PROVE  spoiled' \in SUBSET Entries
BY DEF Meets, Typed

LEMMA StartTyped ==
  ASSUME Typed, NEW p \in Procs, Start(p)
  PROVE  Typed'
<1> DEFINE c == scenario[p][ran[p] + 1]
<1>1. /\ ~Working(p) /\ ran[p] \in Nat /\ ran[p] < Len(scenario[p])
      /\ ran' = [ran EXCEPT ![p] = @ + 1] /\ ran'[p] = ran[p] + 1 /\ scenario' = scenario
  BY DEF Start, Typed
<1>2. scenario[p] \in Seq(Request) /\ Len(scenario[p]) \in Nat /\ c \in Request
  <2>1. scenario[p] \in Seq(Request)
    BY CommandsAssumption DEF Typed
  <2>2. Len(scenario[p]) \in Nat
    BY <2>1, LenProperties
  <2>3. ran[p] + 1 \in 1..Len(scenario[p])
    BY <1>1, <2>2
  <2>4. QED
    BY <2>1, <2>2, <2>3, ElementOfSeq
<1>3. Command(p)' = c
  BY <1>1 DEF Command
<1>4. \A q \in Procs : q # p => Command(q)' = Command(q) /\ ran'[q] = ran[q]
  BY <1>1 DEF Command, Typed
<1> HIDE DEF c
<1> DEFINE Began == \E place \in Places : \E s \in Seq(Frame) :
             /\ at' = [at EXCEPT ![p] = place] /\ stack' = [stack EXCEPT ![p] = s]
             /\ Shape(place, s, c)
           Rest == /\ rm' \in [Procs -> SUBSET Entries] /\ spoiled' \in SUBSET Entries
                   /\ stage' \in [Trees -> Dirs \cup {None}]
<1>5. Began /\ Rest
  <2>1. CASE BeginInstall(p, c)
    <3>1. c.roots \in Seq(Trees)
      BY <1>2, <2>1 DEF BeginInstall, Request
    <3> DEFINE f == FrameOf(None, c.roots)
    <3>2. f \in Frame /\ f.tree = None
      BY <3>1, FrameOfType
    <3> HIDE DEF f
    <3>3. <<f>> \in Seq(Frame) /\ Len(<<f>>) = 1 /\ <<f>>[1] = f
      BY <3>2
    <3>4. Shape("walk", <<f>>, c)
      BY <3>2, <3>3 DEF Shape, Chain, InHand, Placing
    <3>5. "walk" \in Places
      BY DEF Places
    <3>6. /\ at' = [at EXCEPT ![p] = "walk"] /\ stack' = [stack EXCEPT ![p] = <<f>>]
          /\ rm' = [rm EXCEPT ![p] = {}] /\ UNCHANGED <<stage, spoiled>>
      BY <2>1 DEF BeginInstall, Begin, Goto, f
    <3>7. Began
      BY <3>3, <3>4, <3>5, <3>6
    <3>8. QED
      BY <3>6, <3>7 DEF Typed
  <2>2. CASE BeginGlobal(p, c)
    <3>1. c.cmd = "install -g" /\ c.tree \in Trees
      BY <1>2, <2>2 DEF BeginGlobal, Request
    <3> DEFINE f == FrameOf(c.tree, <<>>)
               place == IF About[c.tree].release THEN "stage" ELSE "clear"
    <3>2. f \in Frame /\ f.tree = c.tree /\ f.left = Parts
      <4>1. <<>> \in Seq(Trees)
        BY EmptySeq
      <4>2. c.tree \in Trees \cup {None} /\ c.tree # None
        BY <3>1, ValuesAssumption
      <4>3. QED
        BY <4>1, <4>2, FrameOfType
    <3>6. /\ at' = [at EXCEPT ![p] = place] /\ stack' = [stack EXCEPT ![p] = <<f>>]
          /\ rm' = [rm EXCEPT ![p] = {}] /\ stage' = stage /\ Meets(p, {Entry(c.tree)})
      BY <2>2 DEF BeginGlobal, Begin, Goto
    <3>5. place \in Places /\ place \in {"stage", "clear"}
      BY DEF Places
    <3> HIDE DEF f, place
    <3>3. <<f>> \in Seq(Frame) /\ Len(<<f>>) = 1 /\ <<f>>[1] = f
      BY <3>2
    <3>4. Shape(place, <<f>>, c)
      <4>1. Chain(<<f>>)
        BY <3>3 DEF Chain
      <4>2. /\ <<f>>[Len(<<f>>)] = f /\ Len(<<f>>) >= 1
            /\ place # "walk" /\ place # "hash"
        BY <3>3, <3>5
      <4>3. InHand(place, <<f>>, c)
        BY <3>1, <3>2, <3>3, <4>2 DEF InHand
      <4>4. QED
        BY <4>1, <4>3 DEF Shape
    <3>7. Began
      BY <3>3, <3>4, <3>5, <3>6
    <3>8. spoiled' \in SUBSET Entries
      BY <3>1, <3>6, TreeType, MeetsType
    <3>9. QED
      BY <3>6, <3>7, <3>8 DEF Typed
  <2>3. CASE BeginPinned(p, c) \/ BeginClean(p, c)
    <3>1. PICK place \in {"idle", "load", "remove"} :
            at' = [at EXCEPT ![p] = place] /\ stack' = [stack EXCEPT ![p] = <<>>]
      BY <2>3 DEF BeginPinned, BeginClean, Begin, Goto
    <3>2. place \in Places /\ place \notin Placing \cup {"walk", "hash"}
      BY <3>1 DEF Places, Placing
    <3>3. Shape(place, <<>>, c) /\ <<>> \in Seq(Frame)
      BY <3>2, ShapeIdle
    <3>4. Began
      BY <3>1, <3>2, <3>3
    <3>5. rm' \in [Procs -> SUBSET Entries]
      <4>1. PICK removes \in SUBSET Entries : rm' = [rm EXCEPT ![p] = removes]
        BY <2>3 DEF BeginPinned, BeginClean, Begin
      <4>2. rm \in [Procs -> SUBSET Entries]
        BY DEF Typed
      <4>3. QED
        BY <4>1, <4>2
    <3>6. stage' \in [Trees -> Dirs \cup {None}]
      BY <2>3 DEF BeginPinned, BeginClean, Typed
    <3>7. spoiled' \in SUBSET Entries
      <4>1. CASE BeginPinned(p, c)
        BY <4>1 DEF BeginPinned, Typed
      <4>2. CASE BeginClean(p, c)
        <5>1. Others(p) \subseteq Entries
          <6>1. ASSUME NEW q \in Procs
                PROVE  Busy(q) \subseteq Entries
            <7>1. at[q] \in Placing => Entry(Top(q).tree) \in Entries
              BY AtTree
            <7>2. QED
              BY <7>1 DEF Busy, Touching, Placing, Typed
          <6>2. QED
            BY <6>1 DEF Others
        <5>2. QED
          BY <4>2, <5>1 DEF BeginClean, Typed
      <4>3. QED
        BY <2>3, <4>1, <4>2
    <3>8. QED
      BY <3>4, <3>5, <3>6, <3>7
  <2>4. QED
    BY <2>1, <2>2, <2>3 DEF Start, c
<1>6. /\ graph' \in [Procs -> SUBSET Node] /\ idx' \in [Procs -> Index]
      /\ alone' \in [Procs -> BOOLEAN] /\ overlapped' \in BOOLEAN /\ UNCHANGED <<store, index>>
  <2>1. NoPins \in Index
    BY DEF NoPins, Index
  <2>2. QED
    BY <2>1 DEF Start, Typed
<1>7. ASSUME NEW q \in Procs
      PROVE  ran'[q] \in Nat /\ ran'[q] <= Len(scenario'[q]) /\ (Working(q)' => ran'[q] >= 1)
  <2>1. CASE q = p
    BY <1>1, <1>2, <2>1
  <2>2. CASE q # p
    BY <1>1, <1>4, <1>5, <2>2 DEF Typed, Working
  <2>3. QED
    BY <2>1, <2>2
<1>8. ASSUME NEW q \in Procs
      PROVE  Shape(at'[q], stack'[q], Command(q)')
  BY <1>3, <1>4, <1>5, <1>8 DEF Typed
<1>9. at' \in [Procs -> Places] /\ stack' \in [Procs -> Seq(Frame)]
  BY <1>5 DEF Typed
<1>10. ran' \in [Procs -> Nat]
  BY <1>1 DEF Typed
<1>11. QED
  BY <1>1, <1>5, <1>6, <1>7, <1>8, <1>9, <1>10 DEF Typed
LEMMA NextTyped == Typed /\ [Next]_vars => Typed'
<1> SUFFICES ASSUME Typed, [Next]_vars PROVE Typed'
  OBVIOUS
<1> USE DEF job, history
<1>k. /\ UNCHANGED store => Stored'
      /\ UNCHANGED stage => Staged'
      /\ UNCHANGED index => Indexed'
      /\ UNCHANGED <<graph, idx, rm>> /\ spoiled' \in SUBSET Entries => Jobs'
      /\ UNCHANGED files => Stored' /\ Staged' /\ Indexed'
      /\ spoiled \in SUBSET Entries
  BY KeptTyped
<1>w. \A p \in Procs : at[p] # "idle" <=> Working(p)
  BY DEF Working
<1>1. ASSUME NEW p \in Procs, Start(p)
      PROVE  Typed'
  BY <1>1, StartTyped
<1>2. ASSUME NEW p \in Procs, WalkDir(p)
      PROVE  Typed'
  <2> DEFINE t == Head(Top(p).deps)
  <2>1. at[p] = "walk" /\ Working(p) /\ Top(p).deps # <<>>
    BY <1>2 DEF WalkDir, Working
  <2>2. /\ stack[p] \in Seq(Frame) /\ Shape("walk", stack[p], Command(p))
        /\ Len(stack[p]) \in Nat /\ Len(stack[p]) >= 1 /\ Top(p).deps \in Seq(Trees)
    BY <2>1, AtWalk
  <2>3. t \in Trees
    BY <2>1, <2>2, HeadTailProperties
  <2>4. UNCHANGED <<scenario, files, ran, graph, idx, rm, alone, overlapped>>
    BY <1>2 DEF WalkDir
  <2>5. CASE stack' = [stack EXCEPT ![p] = Settled(@, graph[p])] /\ UNCHANGED <<at, spoiled>>
    <3> DEFINE s == Settled(stack[p], graph[p])
    <3>1. s \in Seq(Frame) /\ Shape("walk", s, Command(p))
      BY <2>1, <2>2, SettledWalk DEF Top
    <3>2. stack' = [stack EXCEPT ![p] = s] /\ at' = [at EXCEPT ![p] = "walk"]
      BY <2>1, <2>5 DEF Typed
    <3>3. "walk" \in Places /\ Stored' /\ Staged' /\ Indexed' /\ Jobs'
      BY <1>k, <2>4, <2>5 DEF Places
    <3> HIDE DEF s
    <3>4. QED
      BY <2>1, <2>4, <3>1, <3>2, <3>3, Moved
  <2>6. CASE Fail(p) /\ UNCHANGED spoiled
    <3>1. Stored' /\ Staged' /\ Indexed' /\ Jobs'
      BY <1>k, <2>4, <2>6
    <3>2. QED
      BY <2>1, <2>4, <2>6, <3>1, FailMoves
  <2>7. CASE Push(p, t) /\ Goto(p, "clear") /\ Meets(p, {Entry(t)})
    <3> DEFINE s == Append(stack[p], FrameOf(t, About[t].deps))
    <3>0. /\ FrameOf(t, About[t].deps) \in Frame /\ FrameOf(t, About[t].deps).tree \in Trees
          /\ FrameOf(t, About[t].deps).left = Parts
      BY <2>3, FrameOfType, TreeType
    <3>1. s \in Seq(Frame) /\ Shape("clear", s, Command(p))
      BY <2>1, <2>2, <3>0, Pushed DEF Top
    <3>2. stack' = [stack EXCEPT ![p] = s] /\ at' = [at EXCEPT ![p] = "clear"]
      BY <2>7 DEF Push, Goto
    <3>3. spoiled' \in SUBSET Entries
      BY <2>3, <2>7, TreeType, MeetsType
    <3>4. "clear" \in Places /\ Stored' /\ Staged' /\ Indexed' /\ Jobs'
      BY <1>k, <2>4, <3>3 DEF Places
    <3> HIDE DEF s
    <3>5. QED
      BY <2>1, <2>4, <3>1, <3>2, <3>4, Moved
  <2>8. QED
    BY <1>2, <2>5, <2>6, <2>7 DEF WalkDir
<1>3. ASSUME NEW p \in Procs, WalkRelease(p)
      PROVE  Typed'
  <2> DEFINE t == Head(Top(p).deps)
  <2>1. at[p] = "walk" /\ Working(p) /\ Top(p).deps # <<>>
    BY <1>3 DEF WalkRelease, Working
  <2>2. /\ stack[p] \in Seq(Frame) /\ Shape("walk", stack[p], Command(p))
        /\ Len(stack[p]) \in Nat /\ Len(stack[p]) >= 1 /\ Top(p).deps \in Seq(Trees)
    BY <2>1, AtWalk
  <2>3. t \in Trees
    BY <2>1, <2>2, HeadTailProperties
  <2>4. UNCHANGED <<scenario, files, ran, graph, idx, rm, alone, overlapped>>
    BY <1>3 DEF WalkRelease
  <2>5. CASE Fail(p) /\ UNCHANGED spoiled
    <3>1. Stored' /\ Staged' /\ Indexed' /\ Jobs'
      BY <1>k, <2>4, <2>5
    <3>2. QED
      BY <2>1, <2>4, <2>5, <3>1, FailMoves
  <2>6. CASE Push(p, t) /\ Goto(p, "stage") /\ Meets(p, {Entry(t)})
    <3> DEFINE s == Append(stack[p], FrameOf(t, About[t].deps))
    <3>0. /\ FrameOf(t, About[t].deps) \in Frame /\ FrameOf(t, About[t].deps).tree \in Trees
          /\ FrameOf(t, About[t].deps).left = Parts
      BY <2>3, FrameOfType, TreeType
    <3>1. s \in Seq(Frame) /\ Shape("stage", s, Command(p))
      BY <2>1, <2>2, <3>0, Pushed DEF Top
    <3>2. stack' = [stack EXCEPT ![p] = s] /\ at' = [at EXCEPT ![p] = "stage"]
      BY <2>6 DEF Push, Goto
    <3>3. spoiled' \in SUBSET Entries
      BY <2>3, <2>6, TreeType, MeetsType
    <3>4. "stage" \in Places /\ Stored' /\ Staged' /\ Indexed' /\ Jobs'
      BY <1>k, <2>4, <3>3 DEF Places
    <3> HIDE DEF s
    <3>5. QED
      BY <2>1, <2>4, <3>1, <3>2, <3>4, Moved
  <2>7. QED
    BY <1>3, <2>5, <2>6 DEF WalkRelease
<1>4. ASSUME NEW p \in Procs, Insert(p)
      PROVE  Typed'
  <2> DEFINE f == Top(p)
             g == {m \in graph[p] : m.entry # Entry(f.tree)}
                    \cup {[entry |-> Entry(f.tree), tree |-> f.hash, edges |-> f.edges]}
             s == Settled(SubSeq(stack[p], 1, Len(stack[p]) - 1), g)
  <2>1. at[p] = "walk" /\ Working(p) /\ f.tree # None
    BY <1>4 DEF Insert, Working
  <2>2. /\ stack[p] \in Seq(Frame) /\ Shape("walk", stack[p], Command(p))
        /\ Len(stack[p]) >= 2 /\ stack[p][1].tree = None /\ f \in Frame /\ f.tree \in Trees
    BY <2>1, AtWalk
  <2>3. s \in Seq(Frame) /\ Shape("walk", s, Command(p))
    BY <2>2, PoppedWalk
  <2>4. graph' = [graph EXCEPT ![p] = g] /\ stack' = [stack EXCEPT ![p] = s]
    BY <1>4 DEF Insert, Popped
  <2>5. UNCHANGED <<scenario, files, ran, at, idx, rm, alone, overlapped, spoiled>>
    BY <1>4 DEF Insert
  <2>6. at' = [at EXCEPT ![p] = "walk"] /\ "walk" \in Places
    BY <2>1, <2>5 DEF Typed, Places
  <2>7. [entry |-> Entry(f.tree), tree |-> f.hash, edges |-> f.edges] \in Node
    BY <2>2, TreeType DEF Frame, Node
  <2>8. g \in SUBSET Node
    BY <2>7 DEF Typed
  <2> HIDE DEF f, g, s
  <2>9. Jobs'
    BY <2>4, <2>5, <2>8 DEF Jobs, Typed
  <2>10. Stored' /\ Staged' /\ Indexed'
    BY <1>k, <2>5
  <2>11. QED
    BY <2>1, <2>3, <2>4, <2>5, <2>6, <2>9, <2>10, Moved
<1>5. ASSUME NEW p \in Procs, NEW place \in {"idle", "load", "save", "write", "remove"},
             Working(p), at' = [at EXCEPT ![p] = place],
             UNCHANGED <<scenario, stack, ran, alone, overlapped>>,
             Stored', Staged', Indexed', Jobs'
      PROVE  Typed'
  <2>1. place \in Places /\ place \notin Placing \cup {"walk", "hash"}
    BY DEF Places, Placing
  <2>2. Chain(stack[p]) /\ stack[p] \in Seq(Frame) /\ stack' = [stack EXCEPT ![p] = stack[p]]
    BY <1>5 DEF Typed, Shape
  <2>3. Shape(place, stack[p], Command(p))
    BY <2>1, <2>2, ShapeIdle
  <2>4. QED
    BY <1>5, <2>1, <2>2, <2>3, Moved
<1>6. ASSUME NEW p \in Procs, WriteLock(p)
      PROVE  Typed'
  <2>1. /\ Working(p) /\ at' = [at EXCEPT ![p] = "idle"]
        /\ UNCHANGED <<scenario, store, stage, index, ran, stack, graph, idx, rm, alone,
                       overlapped, spoiled>>
    BY <1>6 DEF WriteLock, Goto, Working
  <2>2. Stored' /\ Staged' /\ Indexed' /\ Jobs'
    BY <1>k, <2>1
  <2>3. QED
    BY <1>5, <2>1, <2>2
\* A step of a process at its tree, to another place with that tree.
<1>7. ASSUME NEW p \in Procs, at[p] \in Placing, NEW place \in {"clear", "copy", "copyRest",
               "unpack", "locate", "replace", "rename", "unstage"},
             at' = [at EXCEPT ![p] = place],
             UNCHANGED <<scenario, stack, ran, alone, overlapped>>,
             Stored', Staged', Indexed', Jobs'
      PROVE  Typed'
  <2>1. place \in Places /\ place \in Placing /\ place \notin {"walk", "hash", "stage"}
    BY DEF Places, Placing
  <2>2. /\ stack[p] \in Seq(Frame) /\ Chain(stack[p]) /\ InHand(at[p], stack[p], Command(p))
        /\ Working(p) /\ stack' = [stack EXCEPT ![p] = stack[p]]
    BY <1>7, AtTree DEF Typed
  <2>3. InHand(place, stack[p], Command(p))
    BY <1>7, <2>1, <2>2 DEF InHand
  <2>4. QED
    BY <1>7, <2>1, <2>2, <2>3, Moved DEF Shape
<1>8. ASSUME NEW p \in Procs, Clear(p)
      PROVE  Typed'
  <2>1. at[p] \in Placing /\ Entry(Top(p).tree) \in Entries
    BY <1>8, AtTree DEF Clear, Placing
  <2>2. PICK place \in {"clear", "replace", "copy", "rename"} : at' = [at EXCEPT ![p] = place]
    BY <1>8 DEF Clear, Goto
  <2>3. Stored'
    BY <1>8, <2>1, VanishType DEF Clear, Stored
  <2>4. UNCHANGED <<scenario, stage, index, ran, stack, graph, idx, rm, alone, overlapped, spoiled>>
    BY <1>8 DEF Clear
  <2>5. Staged' /\ Indexed' /\ Jobs'
    BY <1>k, <2>4
  <2>6. QED
    BY <1>7, <2>1, <2>2, <2>3, <2>4, <2>5
<1>9. ASSUME NEW p \in Procs, at[p] \in Placing, NEW q \in Parts,
             store' = [store EXCEPT ![Entry(Top(p).tree)] = Filled(@, q, Top(p).tree)]
      PROVE  Stored'
  <2>1. Top(p).tree \in Trees /\ Entry(Top(p).tree) \in Entries
    BY <1>9, AtTree
  <2>2. Filled(store[Entry(Top(p).tree)], q, Top(p).tree) \in Dirs
    BY <2>1, FilledType DEF Typed
  <2>3. QED
    BY <1>9, <2>1, <2>2 DEF Stored, Typed
<1>10. ASSUME NEW p \in Procs, Copy(p)
       PROVE  Typed'
  <2>1. at[p] \in Placing /\ "manifest" \in Parts
    BY <1>10 DEF Copy, Placing, Parts
  <2>2. at' = [at EXCEPT ![p] = "copyRest"] /\ Stored'
    BY <1>9, <1>10, <2>1 DEF Copy, Goto
  <2>3. UNCHANGED <<scenario, stage, index, ran, stack, graph, idx, rm, alone, overlapped, spoiled>>
    BY <1>10 DEF Copy
  <2>4. Staged' /\ Indexed' /\ Jobs'
    BY <1>k, <2>3
  <2>5. QED
    BY <1>7, <2>1, <2>2, <2>3, <2>4
\* The tree is in the store.
<1>11. ASSUME NEW p \in Procs, at[p] \in Placing, NEW place \in {"walk", "hash"}, Placed(p, place),
              UNCHANGED <<scenario, stack, ran, alone, overlapped, graph, idx, rm>>,
              Stored', Staged', Indexed'
       PROVE  Typed'
  <2>1. /\ stack[p] \in Seq(Frame) /\ Chain(stack[p]) /\ InHand(at[p], stack[p], Command(p))
        /\ Len(stack[p]) \in Nat /\ Len(stack[p]) >= 1 /\ Working(p)
    BY <1>11, AtTree
  <2>2. spoiled' \in SUBSET Entries
    BY <1>11, <1>k DEF Placed
  <2>3. Jobs'
    BY <1>11, <2>2, <1>k
  <2>4. CASE Global(p)
    <3>1. at' = [at EXCEPT ![p] = "load"]
      BY <1>11, <2>4 DEF Placed, Goto
    <3>2. QED
      BY <1>5, <1>11, <2>1, <2>3, <3>1
  <2>5. CASE ~Global(p)
    <3>1. at' = [at EXCEPT ![p] = place] /\ place \in Places /\ place \notin Placing \cup {"stage"}
      BY <1>11, <2>5 DEF Placed, Goto, Places, Placing
    <3>2. Len(stack[p]) >= 2
      <4>1. Len(stack[p]) # 1
        BY <2>5 DEF Global
      <4>2. \A n \in Nat : n >= 1 /\ n # 1 => n >= 2
        OBVIOUS
      <4>3. Len(stack[p]) \in Nat /\ Len(stack[p]) >= 1
        BY <2>1
      <4>4. QED
        BY <4>1, <4>2, <4>3
    <3>3. stack[p][1].tree = None
      BY <1>11, <2>1, <2>5 DEF InHand, Global
    <3>4. InHand(place, stack[p], Command(p))
      BY <2>1, <3>1, <3>2, <3>3 DEF InHand
    <3>5. stack' = [stack EXCEPT ![p] = stack[p]]
      BY <1>11 DEF Typed
    <3>6. QED
      BY <1>11, <2>1, <2>3, <3>1, <3>4, <3>5, Moved DEF Shape
  <2>6. QED
    BY <2>4, <2>5
<1>12. ASSUME NEW p \in Procs, CopyRest(p)
       PROVE  Typed'
  <2>1. at[p] \in Placing /\ "rest" \in Parts
    BY <1>12 DEF CopyRest, Placing, Parts
  <2>2. Placed(p, "walk") /\ Stored'
    BY <1>9, <1>12, <2>1 DEF CopyRest
  <2>3. UNCHANGED <<scenario, stage, index, ran, stack, graph, idx, rm, alone, overlapped>>
    BY <1>12 DEF CopyRest
  <2>4. Staged' /\ Indexed'
    BY <1>k, <2>3
  <2>5. QED
    BY <1>11, <2>1, <2>2, <2>3, <2>4
<1>13. ASSUME NEW p \in Procs, Stage(p)
       PROVE  Typed'
  <2>1. at[p] \in Placing /\ Top(p).tree \in Trees /\ Empty \in Dirs
    BY <1>13, AtTree, TreeType DEF Stage, Placing
  <2>2. at' = [at EXCEPT ![p] = "unpack"] /\ Staged'
    BY <1>13, <2>1 DEF Stage, Goto, Staged, Typed
  <2>3. UNCHANGED <<scenario, store, index, ran, stack, graph, idx, rm, alone, overlapped, spoiled>>
    BY <1>13 DEF Stage
  <2>4. Stored' /\ Indexed' /\ Jobs'
    BY <1>k, <2>3
  <2>5. QED
    BY <1>7, <2>1, <2>2, <2>3, <2>4
<1>14. ASSUME NEW p \in Procs, Unpack(p)
       PROVE  Typed'
  <2> DEFINE f == Top(p)
  <2>1. /\ at[p] = "unpack" /\ at[p] \in Placing /\ Working(p) /\ stack[p] \in Seq(Frame)
        /\ Chain(stack[p]) /\ InHand(at[p], stack[p], Command(p))
        /\ Len(stack[p]) \in Nat /\ Len(stack[p]) >= 1 /\ f \in Frame /\ f.tree \in Trees
    BY <1>14, AtTree DEF Unpack, Placing
  <2>2. UNCHANGED <<scenario, store, index, ran, graph, idx, rm, alone, overlapped, spoiled>>
    BY <1>14 DEF Unpack
  <2>3. Stored' /\ Indexed' /\ Jobs'
    BY <1>k, <2>2
  <2>4. CASE Fail(p) /\ UNCHANGED stage
    BY <1>k, <2>1, <2>2, <2>3, <2>4, FailMoves
  <2>5. ASSUME NEW q \in f.left,
               stage' = [stage EXCEPT ![f.tree] = Filled(@, q, f.tree)],
               SetTop(p, [f EXCEPT !.left = @ \ {q}]),
               Goto(p, IF f.left = {q} THEN "locate" ELSE "unpack")
        PROVE  Typed'
    <3>1. q \in Parts
      BY <2>1 DEF Frame
    <3>2. Filled(stage[f.tree], q, f.tree) \in Dirs
      BY <2>1, <3>1, FilledType DEF Typed
    <3>3. Staged'
      BY <2>1, <2>5, <3>2 DEF Staged, Typed
    <3> DEFINE h == [f EXCEPT !.left = @ \ {q}]
               s == [stack[p] EXCEPT ![Len(stack[p])] = h]
               place == IF f.left = {q} THEN "locate" ELSE "unpack"
    <3>4. h \in Frame /\ h.tree = f.tree
      BY <2>1 DEF Frame
    <3>5. stack' = [stack EXCEPT ![p] = s] /\ at' = [at EXCEPT ![p] = place]
      BY <2>5 DEF SetTop, Goto, Typed
    <3>6. place \in Places /\ place \in Placing /\ place \notin {"walk", "hash", "stage"}
      BY DEF Places, Placing
    <3> HIDE DEF h, place
    <3>7. s \in Seq(Frame) /\ Shape(place, s, Command(p))
      BY <2>1, <3>4, <3>6, TopSet DEF Shape, Top
    <3> HIDE DEF s
    <3>8. QED
      BY <2>1, <2>2, <2>3, <3>3, <3>5, <3>6, <3>7, Moved
  <2>6. QED
    BY <1>14, <2>4, <2>5 DEF Unpack
<1>15. ASSUME NEW p \in Procs, Locate(p)
       PROVE  Typed'
  <2>1. at[p] \in Placing /\ Working(p)
    BY <1>15, AtTree DEF Locate, Placing
  <2>2. UNCHANGED <<scenario, files, ran, graph, idx, rm, alone, overlapped, spoiled>>
    BY <1>15 DEF Locate
  <2>3. Stored' /\ Staged' /\ Indexed' /\ Jobs'
    BY <1>k, <2>2
  <2>4. CASE Fail(p)
    BY <2>1, <2>2, <2>3, <2>4, FailMoves
  <2>5. CASE ~Fail(p)
    <3>1. at' = [at EXCEPT ![p] = "replace"] /\ UNCHANGED stack
      BY <1>15, <2>5 DEF Locate, Goto
    <3>2. QED
      BY <1>7, <2>1, <2>2, <2>3, <3>1
  <2>6. QED
    BY <2>4, <2>5
<1>16. ASSUME NEW p \in Procs, Rename(p)
       PROVE  Typed'
  <2>1. /\ at[p] \in Placing /\ Working(p) /\ Top(p).tree \in Trees
        /\ Entry(Top(p).tree) \in Entries
    BY <1>16, AtTree DEF Rename, Placing
  <2>2. UNCHANGED <<scenario, index, ran, graph, idx, rm, alone, overlapped, spoiled>>
    BY <1>16 DEF Rename
  <2>3. Indexed' /\ Jobs'
    BY <1>k, <2>2
  <2>4. CASE Fail(p) /\ UNCHANGED <<store, stage>>
    BY <1>k, <2>1, <2>2, <2>3, <2>4, FailMoves
  <2>5. CASE ~(Fail(p) /\ UNCHANGED <<store, stage>>)
    <3>1. /\ at' = [at EXCEPT ![p] = "unstage"] /\ UNCHANGED stack
          /\ store' = [store EXCEPT ![Entry(Top(p).tree)] = stage[Top(p).tree]]
          /\ stage' = [stage EXCEPT ![Top(p).tree] = None]
      BY <1>16, <2>5 DEF Rename, Goto
    <3>2. Stored' /\ Staged'
      BY <2>1, <3>1 DEF Stored, Staged, Typed
    <3>3. QED
      BY <1>7, <2>1, <2>2, <2>3, <3>1, <3>2
  <2>6. QED
    BY <2>4, <2>5
<1>17. ASSUME NEW p \in Procs, Unstage(p)
       PROVE  Typed'
  <2>1. at[p] \in Placing /\ Top(p).tree \in Trees
    BY <1>17, AtTree DEF Unstage, Placing
  <2>2. Placed(p, "hash") /\ stage' = [stage EXCEPT ![Top(p).tree] = None]
    BY <1>17 DEF Unstage
  <2>3. UNCHANGED <<scenario, store, index, ran, stack, graph, idx, rm, alone, overlapped>>
    BY <1>17 DEF Unstage
  <2>4. Stored' /\ Staged' /\ Indexed'
    BY <1>k, <2>1, <2>2, <2>3 DEF Staged, Typed
  <2>5. QED
    BY <1>11, <2>1, <2>2, <2>3, <2>4
<1>18. ASSUME NEW p \in Procs, Hash(p)
       PROVE  Typed'
  <2> DEFINE f == Top(p)
             e == Entry(f.tree)
  <2>1. /\ at[p] = "hash" /\ stack[p] \in Seq(Frame) /\ Shape("hash", stack[p], Command(p))
        /\ f \in Frame /\ e \in Entries /\ Working(p)
        /\ Len(stack[p]) \in Nat /\ Len(stack[p]) >= 1
    BY <1>18, AtTree DEF Hash, Typed
  <2>2. Len(stack[p]) >= 2 /\ stack[p][1].tree = None
    BY <2>1 DEF Shape, InHand
  <2>3. UNCHANGED <<scenario, files, ran, graph, idx, rm, alone, overlapped, spoiled>>
    BY <1>18 DEF Hash
  <2>4. Stored' /\ Staged' /\ Indexed' /\ Jobs' /\ "walk" \in Places
    BY <1>k, <2>3 DEF Places
  <2>5. CASE Popped(p, graph[p]) /\ Goto(p, "walk")
    <3> DEFINE s == Settled(SubSeq(stack[p], 1, Len(stack[p]) - 1), graph[p])
    <3>1. s \in Seq(Frame) /\ Shape("walk", s, Command(p))
      BY <2>1, <2>2, PoppedWalk
    <3>2. stack' = [stack EXCEPT ![p] = s] /\ at' = [at EXCEPT ![p] = "walk"]
      BY <2>5 DEF Popped, Goto
    <3> HIDE DEF s
    <3>3. QED
      BY <2>1, <2>3, <2>4, <3>1, <3>2, Moved
  <2>6. CASE Present(e) /\ SetTop(p, [f EXCEPT !.hash = store[e]]) /\ Goto(p, "walk")
    <3> DEFINE h == [f EXCEPT !.hash = store[e]]
               s == [stack[p] EXCEPT ![Len(stack[p])] = h]
    <3>1. store[e] \in Dirs
      BY <2>1, <2>6 DEF Present, Typed
    <3>2. h \in Frame /\ h.tree = f.tree
      BY <2>1, <3>1 DEF Frame
    <3>3. stack' = [stack EXCEPT ![p] = s] /\ at' = [at EXCEPT ![p] = "walk"]
      BY <2>6 DEF SetTop, Goto, Typed
    <3>4. "walk" \notin Placing /\ "walk" \notin {"hash", "stage"}
      BY DEF Placing
    <3> HIDE DEF h
    <3>5. s \in Seq(Frame) /\ Shape("walk", s, Command(p))
      BY <2>1, <2>2, <3>2, <3>4, TopSet DEF Top
    <3> HIDE DEF s
    <3>6. QED
      BY <2>1, <2>3, <2>4, <3>3, <3>5, Moved
  <2>7. CASE Fail(p)
    BY <2>1, <2>3, <2>4, <2>7, FailMoves
  <2>8. QED
    BY <1>18, <2>5, <2>6, <2>7 DEF Hash
<1>19. ASSUME NEW p \in Procs, Load(p)
       PROVE  Typed'
  <2> DEFINE c == Command(p)
             orphans == IF c.cmd = "gc -g" THEN {e \in Entries : Orphan(index, e)} ELSE {}
  <2>1. Working(p) /\ c \in Request
    BY <1>19, CommandType DEF Load, Working
  <2>2. UNCHANGED <<scenario, files, ran, graph, alone, overlapped>>
    BY <1>19 DEF Load
  <2>3. Stored' /\ Staged' /\ Indexed'
    BY <1>k, <2>2
  <2>4. CASE Fail(p) /\ UNCHANGED <<idx, rm, spoiled>>
    BY <1>k, <2>1, <2>2, <2>3, <2>4, FailMoves
  <2>5. CASE ~(Fail(p) /\ UNCHANGED <<idx, rm, spoiled>>)
    <3>1. /\ index # Torn
          /\ idx' = [idx EXCEPT ![p] = Changed(c, index)]
          /\ rm' = [rm EXCEPT ![p] = orphans]
          /\ Meets(p, orphans) /\ UNCHANGED stack
      BY <1>19, <2>5 DEF Load
    <3>2. PICK place \in {"remove", "idle", "save"} : at' = [at EXCEPT ![p] = place]
      BY <1>19, <2>5 DEF Load, Goto
    <3>3. Changed(c, index) \in Index
      BY <2>1, <3>1, ChangedType DEF Typed
    <3>4. orphans \in SUBSET Entries
      OBVIOUS
    <3> HIDE DEF orphans, c
    <3>5. spoiled' \in SUBSET Entries
      BY <3>1, <3>4, MeetsType
    <3>6. Jobs'
      BY <2>2, <3>1, <3>3, <3>4, <3>5 DEF Jobs, Typed
    <3>7. QED
      BY <1>5, <2>1, <2>2, <2>3, <3>1, <3>2, <3>6
  <2>6. QED
    BY <2>4, <2>5
<1>20. ASSUME NEW p \in Procs, Truncate(p) \/ Write(p)
       PROVE  Typed'
  <2>1. PICK place \in {"write", "idle"} : at' = [at EXCEPT ![p] = place]
    BY <1>20 DEF Truncate, Write, Goto
  <2>2. /\ Working(p) /\ index' \in {Torn, idx[p]}
        /\ UNCHANGED <<scenario, store, stage, ran, stack, graph, idx, rm, alone, overlapped, spoiled>>
    BY <1>20 DEF Truncate, Write, Working
  <2>3. Indexed' /\ Stored' /\ Staged' /\ Jobs'
    BY <1>k, <2>2 DEF Indexed, Typed
  <2>4. QED
    BY <1>5, <2>1, <2>2, <2>3
<1>21. ASSUME NEW p \in Procs, Remove(p)
       PROVE  Typed'
  <2>1. /\ at[p] = "remove" /\ Working(p)
        /\ UNCHANGED <<scenario, stage, index, ran, stack, graph, idx, alone, overlapped, spoiled>>
    BY <1>21 DEF Remove, Working
  <2>2. PICK place \in {"idle", "remove"} : at' = [at EXCEPT ![p] = place]
    BY <1>21, <2>1 DEF Remove, Goto, Typed
  <2>3. Stored' /\ rm' \in [Procs -> SUBSET Entries]
    <3>1. CASE UNCHANGED <<store, rm>>
      BY <1>k, <3>1 DEF Typed
    <3>2. ASSUME NEW e \in rm[p], Vanish(e),
                 rm' = [rm EXCEPT ![p] = IF store'[e] = None THEN @ \ {e} ELSE @]
          PROVE  Stored' /\ rm' \in [Procs -> SUBSET Entries]
      <4>1. e \in Entries
        BY DEF Typed
      <4>2. QED
        BY <3>2, <4>1, VanishType DEF Typed, Stored
    <3>3. QED
      BY <1>21, <3>1, <3>2 DEF Remove
  <2>4. Staged' /\ Indexed' /\ Jobs'
    BY <1>k, <2>1, <2>3 DEF Jobs, Typed
  <2>5. QED
    BY <1>5, <2>1, <2>2, <2>3, <2>4
<1>22. ASSUME NEW p \in Procs, Stop(p)
       PROVE  Typed'
  <2>1. /\ Working(p) /\ Fail(p) /\ spoiled' = spoiled \cup Touching(p)
        /\ UNCHANGED <<scenario, files, ran, graph, idx, rm, alone, overlapped>>
    BY <1>22 DEF Stop
  <2>2. at[p] \in Placing => Entry(Top(p).tree) \in Entries
    BY AtTree
  <2>3. Touching(p) \subseteq Entries
    BY <2>2 DEF Touching, Placing, Typed
  <2>4. Stored' /\ Staged' /\ Indexed' /\ Jobs'
    BY <1>k, <2>1, <2>3
  <2>5. QED
    BY <2>1, <2>4, FailMoves
<1>23. CASE UNCHANGED vars
  <2>1. \A q \in Procs : Command(q)' = Command(q)
    BY <1>23 DEF vars, Command
  <2>2. QED
    BY <1>23, <2>1 DEF vars, Typed, Working
<1>24. QED
  BY <1>1, <1>2, <1>3, <1>4, <1>6, <1>8, <1>10, <1>12, <1>13, <1>14, <1>15, <1>16, <1>17, <1>18,
     <1>19, <1>20, <1>21, <1>22, <1>23 DEF Next

LEMMA TypedInvariant == Spec => []Typed
<1>1. Init => Typed
  <2> SUFFICES ASSUME Init PROVE Typed
    OBVIOUS
  <2>1. NoPins \in Index
    BY DEF NoPins, Index
  <2>2. "idle" \in Places /\ "idle" \notin Placing \cup {"walk", "hash"}
    BY DEF Places, Placing
  <2>3. \A p \in Procs : Shape("idle", <<>>, Command(p)) /\ <<>> \in Seq(Frame)
    BY <2>2, ShapeIdle
  <2>4. \A p \in Procs : Len(scenario[p]) \in Nat
    BY CommandsAssumption, LenProperties DEF Init
  <2>5. ASSUME NEW p \in Procs
        PROVE  ran[p] <= Len(scenario[p]) /\ ~Working(p)
    <3>1. ran[p] = 0 /\ at[p] = "idle"
      BY DEF Init
    <3>2. \A n \in Nat : 0 <= n
      OBVIOUS
    <3>3. ran[p] <= Len(scenario[p])
      BY <2>4, <3>1, <3>2
    <3>4. QED
      BY <3>1, <3>3 DEF Working
  <2>6. at \in [Procs -> Places] /\ stack \in [Procs -> Seq(Frame)]
    BY <2>2, <2>3 DEF Init
  <2>7. \A p \in Procs : Shape(at[p], stack[p], Command(p))
    BY <2>3 DEF Init
  <2>8. QED
    BY <2>1, <2>5, <2>6, <2>7 DEF Init, Typed
<1>2. QED
  BY <1>1, NextTyped, PTL DEF Spec
-----------------------------------------------------------------------------
(* What a step of p does to the entries: it changes those it has in hand,   *)
(* takes up none another process has without spoiling it, lets none go that *)
(* is not whole, spoiled or removed for good, and makes one good only when  *)
(* it is alone and the entry whole.                                         *)
Tidy(p) ==
  /\ \A e \in Entries : store'[e] # store[e] => e \in Touching(p)
  /\ \A t \in Trees : stage'[t] # stage[t] => Entry(t) \in Busy(p) \/ Others(p) \subseteq spoiled'
  /\ \A e \in spoiled \ spoiled' : alone[p] /\ Busy(p)' = {} /\ Whole(e)'
  /\ \A e \in Busy(p)' : e \in Busy(p) \/ e \notin Others(p) \/ e \in spoiled'
  /\ \A e \in Touching(p) : \/ e \in Touching(p)' \/ e \in spoiled' \/ Whole(e)'
                            \/ at[p] = "remove" /\ ~Present(e)'

Changing == {"clear", "copy", "copyRest", "replace", "rename"}

LEMMA InHands ==
  ASSUME NEW p \in Procs
  PROVE  /\ at[p] \in Placing => Busy(p) = {Entry(Top(p).tree)}
         /\ at[p] \in Changing => Touching(p) = {Entry(Top(p).tree)}
         /\ at[p] = "remove" => Busy(p) = rm[p] /\ Touching(p) = rm[p]
         /\ at[p] \notin Placing \cup {"remove"} => Busy(p) = {} /\ Touching(p) = {}
         /\ at[p] \in Placing \ Changing => Touching(p) = {}
BY DEF Busy, Touching, Placing, Changing

LEMMA InHandsNext ==
  ASSUME NEW p \in Procs
  PROVE  /\ at'[p] \in Placing => Busy(p)' = {Entry(Top(p)'.tree)}
         /\ at'[p] \in Changing => Touching(p)' = {Entry(Top(p)'.tree)}
         /\ at'[p] = "remove" => Busy(p)' = rm'[p] /\ Touching(p)' = rm'[p]
         /\ at'[p] \notin Placing \cup {"remove"} => Busy(p)' = {} /\ Touching(p)' = {}
         /\ at'[p] \in Placing \ Changing => Touching(p)' = {}
BY DEF Busy, Touching, Placing, Changing, Entry

(* A step that changes no directory.                                        *)
LEMMA TidyQuiet ==
  ASSUME NEW p \in Procs, UNCHANGED <<store, stage>>, spoiled \subseteq spoiled',
         \A e \in Busy(p)' : e \in Busy(p) \/ e \notin Others(p) \/ e \in spoiled',
         \A e \in Touching(p) : e \in Touching(p)' \/ e \in spoiled'
  PROVE  Tidy(p)
BY DEF Tidy

(* ... and leaves p with nothing, from where it had nothing to change.      *)
LEMMA TidyIdle ==
  ASSUME NEW p \in Procs, UNCHANGED <<store, stage>>, spoiled \subseteq spoiled',
         at'[p] \notin Placing \cup {"remove"}, at[p] \notin Changing \cup {"remove"}
  PROVE  Tidy(p) /\ (at'[p] \in Placing => MadeBy(p)')
<1>1. Busy(p)' = {}
  BY InHandsNext
<1>2. Touching(p) = {}
  BY InHands
<1>3. QED
  BY <1>1, <1>2, TidyQuiet

Good(p) == Tidy(p) /\ (at'[p] \in Placing => MadeBy(p)')

-----------------------------------------------------------------------------
LEMMA StartGood ==
  ASSUME Typed, NEW p \in Procs, Start(p)
  PROVE  Good(p)
<1> DEFINE c == scenario[p][ran[p] + 1]
<1>1. at[p] = "idle" /\ UNCHANGED store /\ p \in DOMAIN at /\ p \in DOMAIN stack /\ p \in DOMAIN rm
  BY DEF Start, Working, Typed
<1>2. Busy(p) = {} /\ Touching(p) = {}
  BY <1>1, InHands DEF Placing
<1>3. CASE BeginInstall(p, c) \/ BeginPinned(p, c)
  <2>1. UNCHANGED <<stage, spoiled>> /\ at'[p] \in {"walk", "idle", "load"}
    BY <1>1, <1>3 DEF BeginInstall, BeginPinned, Begin, Goto
  <2>2. at'[p] \notin Placing \cup {"remove"}
    BY <2>1 DEF Placing
  <2>3. Busy(p)' = {}
    BY <2>2, InHandsNext
  <2>4. QED
    BY <1>1, <1>2, <2>1, <2>2, <2>3, TidyQuiet DEF Good
<1>4. CASE BeginGlobal(p, c)
  <2> DEFINE f == FrameOf(c.tree, <<>>)
  <2>1. /\ at'[p] \in {"stage", "clear"} /\ stack'[p] = <<f>>
        /\ UNCHANGED stage /\ spoiled' = spoiled \cup ({Entry(c.tree)} \cap Others(p))
    BY <1>1, <1>4 DEF BeginGlobal, Begin, Goto, Meets
  <2>2. f.tree = c.tree
    BY DEF FrameOf
  <2> HIDE DEF f
  <2>3. Top(p)' = f
    BY <2>1 DEF Top
  <2>4. at'[p] \in Placing
    BY <2>1 DEF Placing
  <2>5. Busy(p)' = {Entry(c.tree)}
    BY <2>2, <2>3, <2>4, InHandsNext
  <2>6. Tidy(p)
    BY <1>1, <1>2, <2>1, <2>5, TidyQuiet
  <2>7. MadeBy(p)'
    BY <2>1 DEF MadeBy, Made
  <2>8. QED
    BY <2>6, <2>7 DEF Good
<1>5. CASE BeginClean(p, c)
  <2> DEFINE held == {e \in Entries : Present(e)}
  <2>1. /\ at'[p] = "remove" /\ rm'[p] = held
        /\ spoiled' = spoiled \cup held \cup Others(p)
    BY <1>1, <1>5 DEF BeginClean, Begin, Goto
  <2>2. Busy(p)' = held /\ at'[p] \notin Placing
    BY <2>1, InHandsNext DEF Placing
  <2> HIDE DEF held
  <2>3. QED
    BY <1>1, <1>2, <2>1, <2>2 DEF Good, Tidy
<1>6. QED
  BY <1>3, <1>4, <1>5 DEF Start

LEMMA WalkGood ==
  ASSUME Typed, NEW p \in Procs, WalkDir(p) \/ WalkRelease(p)
  PROVE  Good(p)
<1> DEFINE t == Head(Top(p).deps)
           f == FrameOf(t, About[t].deps)
<1>1. /\ at[p] = "walk" /\ UNCHANGED <<store, stage>>
      /\ p \in DOMAIN at /\ p \in DOMAIN stack
  BY DEF WalkDir, WalkRelease, Typed, files
<1>2. /\ at[p] \notin Placing \cup {"remove"} \cup Changing
      /\ Busy(p) = {} /\ Touching(p) = {}
  BY <1>1, InHands DEF Placing, Changing
<1>3. CASE UNCHANGED spoiled /\ at'[p] \in {"walk", "idle"}
  <2>1. at'[p] \notin Placing \cup {"remove"}
    BY <1>3 DEF Placing
  <2>2. QED
    BY <1>1, <1>2, <1>3, <2>1, TidyIdle DEF Good
<1>4. CASE /\ stack' = [stack EXCEPT ![p] = Append(@, f)]
           /\ at'[p] \in {"clear", "stage"}
           /\ spoiled' = spoiled \cup ({Entry(t)} \cap Others(p))
  <2>1. stack[p] \in Seq(Frame) /\ Len(stack[p]) \in Nat /\ stack'[p] = Append(stack[p], f)
    BY <1>1, <1>4, AtWalk
  <2>2. t \in Trees
    <3>1. Top(p).deps \in Seq(Trees) /\ Top(p).deps # <<>>
      BY <1>1, AtWalk DEF WalkDir, WalkRelease
    <3>2. QED
      BY <3>1, HeadTailProperties
  <2>3. f \in Frame /\ f.tree = t
    BY <2>2, FrameOfType, TreeType
  <2> HIDE DEF f, t
  <2>4. Top(p)' = f
    BY <2>1, <2>3, AppendProperties DEF Top
  <2>5. at'[p] \in Placing
    BY <1>4 DEF Placing
  <2>6. Busy(p)' = {Entry(t)}
    BY <2>3, <2>4, <2>5, InHandsNext
  <2>7. Tidy(p)
    BY <1>1, <1>2, <1>4, <2>6, TidyQuiet
  <2>8. MadeBy(p)'
    BY <1>4 DEF MadeBy, Made
  <2>9. QED
    BY <2>7, <2>8 DEF Good
<1>5. QED
  <2>1. CASE WalkRelease(p)
    BY <1>1, <1>3, <1>4, <2>1 DEF WalkRelease, Fail, Goto, Push, Meets
  <2>2. CASE WalkDir(p)
    BY <1>1, <1>3, <1>4, <2>2 DEF WalkDir, Fail, Goto, Push, Meets
  <2>3. QED
    BY <2>1, <2>2

LEMMA QuietGood ==
  ASSUME Typed, NEW p \in Procs,
         Insert(p) \/ WriteLock(p) \/ Hash(p) \/ Truncate(p) \/ Write(p)
  PROVE  Good(p)
<1>1. /\ at[p] \in {"walk", "hash", "save", "write"}
      /\ UNCHANGED <<store, stage, spoiled>> /\ p \in DOMAIN at
  BY DEF Insert, WriteLock, Hash, Truncate, Write, Typed, files, history
<1>2. at'[p] \in {"walk", "idle", "write"}
  BY <1>1 DEF Insert, WriteLock, Hash, Truncate, Write, Goto, Fail
<1>3. at'[p] \notin Placing \cup {"remove"} /\ at[p] \notin Changing \cup {"remove"}
  BY <1>1, <1>2 DEF Placing, Changing
<1>4. QED
  BY <1>1, <1>3, TidyIdle DEF Good

LEMMA LoadGood ==
  ASSUME Typed, NEW p \in Procs, Load(p)
  PROVE  Good(p)
<1> DEFINE orphans == IF Command(p).cmd = "gc -g" THEN {e \in Entries : Orphan(index, e)} ELSE {}
<1>1. /\ at[p] = "load" /\ UNCHANGED <<store, stage>> /\ p \in DOMAIN at /\ p \in DOMAIN rm
  BY DEF Load, files, Typed
<1>2. Busy(p) = {} /\ Touching(p) = {} /\ at[p] \notin Changing \cup {"remove"}
  BY <1>1, InHands DEF Placing, Changing
<1>3. CASE Fail(p) /\ UNCHANGED spoiled
  <2>1. at'[p] = "idle"
    BY <1>1, <1>3 DEF Fail, Goto
  <2>2. at'[p] \notin Placing \cup {"remove"}
    BY <2>1 DEF Placing
  <2>3. QED
    BY <1>1, <1>2, <1>3, <2>2, TidyIdle DEF Good
<1>4. CASE ~(Fail(p) /\ UNCHANGED spoiled)
  <2>1. /\ rm'[p] = orphans /\ spoiled' = spoiled \cup (orphans \cap Others(p))
        /\ at'[p] \in {"remove", "idle", "save"}
    BY <1>1, <1>4 DEF Load, Goto, Meets
  <2> HIDE DEF orphans
  <2>2. at'[p] \notin Placing
    BY <2>1 DEF Placing
  <2>3. Busy(p)' \subseteq orphans
    BY <2>1, <2>2, InHandsNext
  <2>4. QED
    BY <1>1, <1>2, <2>1, <2>2, <2>3, TidyQuiet DEF Good
<1>5. QED
  BY <1>3, <1>4
(* A step of p at a tree that it keeps in hand ...                          *)
LEMMA StaysTidy ==
  ASSUME Typed, NEW p \in Procs, NEW e, e = Entry(Top(p).tree), at[p] \in Placing,
         at'[p] \in Placing, Top(p)'.tree = Top(p).tree, spoiled' = spoiled,
         \A x \in Entries : store'[x] # store[x] => at[p] \in Changing /\ x = e,
         \A t \in Trees : t # Top(p).tree => stage'[t] = stage[t],
         at[p] \in Changing => at'[p] \in Changing \/ Whole(e)' \/ e \in spoiled
  PROVE  Tidy(p)
<1>1. Busy(p) = {e} /\ (at[p] \in Changing => Touching(p) = {e}) /\ (at[p] \notin Changing => Touching(p) = {})
  BY InHands
<1>2. Busy(p)' = {e} /\ (at'[p] \in Changing => Touching(p)' = {e})
  BY InHandsNext
<1>3. \A x \in Entries : store'[x] # store[x] => x \in Touching(p)
  BY <1>1
<1>4. \A t \in Trees : stage'[t] # stage[t] => Entry(t) \in Busy(p)
  BY <1>1
<1>5. \A x \in Touching(p) : x \in Touching(p)' \/ x \in spoiled' \/ Whole(x)'
  BY <1>1, <1>2
<1>6. QED
  BY <1>1, <1>2, <1>3, <1>4, <1>5 DEF Tidy

(* ... and one after which it has none.                                     *)
LEMMA LeavesGood ==
  ASSUME Typed, NEW p \in Procs, NEW e, e = Entry(Top(p).tree), at[p] \in Placing,
         at'[p] \notin Placing \cup {"remove"},
         \A x \in Entries : store'[x] # store[x] => at[p] \in Changing /\ x = e,
         \A t \in Trees : t # Top(p).tree => stage'[t] = stage[t],
         \A x \in spoiled \ spoiled' : alone[p] /\ Whole(x)',
         at[p] \in Changing => Whole(e)' \/ e \in spoiled'
  PROVE  Good(p)
<1>1. Busy(p) = {e} /\ (at[p] \in Changing => Touching(p) = {e}) /\ (at[p] \notin Changing => Touching(p) = {})
  BY InHands
<1>2. Busy(p)' = {}
  BY InHandsNext
<1>3. \A x \in Entries : store'[x] # store[x] => x \in Touching(p)
  BY <1>1
<1>4. \A t \in Trees : stage'[t] # stage[t] => Entry(t) \in Busy(p)
  BY <1>1
<1>5. \A x \in Touching(p) : x \in Touching(p)' \/ x \in spoiled' \/ Whole(x)'
  <2>1. CASE at[p] \in Changing
    BY <1>1, <2>1
  <2>2. CASE at[p] \notin Changing
    BY <1>1, <2>2
  <2>3. QED
    BY <2>1, <2>2
<1>6. QED
  BY <1>1, <1>2, <1>3, <1>4, <1>5 DEF Tidy, Good

LEMMA ClearGood ==
  ASSUME Typed, HalfMade, NEW p \in Procs, Clear(p)
  PROVE  Good(p)
<1> DEFINE t == Top(p).tree
           e == Entry(t)
<1>1. /\ at[p] \in {"clear", "replace"} /\ at[p] \in Placing /\ at[p] \in Changing
      /\ p \in DOMAIN at /\ Vanish(e) /\ UNCHANGED <<stage, stack, alone, spoiled>>
  BY DEF Clear, Placing, Changing, Typed, job, history
<1>2. e \in Entries /\ t \in Trees
  BY <1>1, AtTree
<1>3. Top(p)' = Top(p) /\ MadeBy(p)
  BY <1>1 DEF Top, HalfMade
<1>4. \A f \in Entries : f # e => store'[f] = store[f]
  BY <1>2, <1>1, VanishType
<1>5. at'[p] = IF store'[e] # None THEN at[p] ELSE IF at[p] = "clear" THEN "copy" ELSE "rename"
  BY <1>1 DEF Clear, Goto
<1>6. at'[p] \in Placing /\ at'[p] \in Changing
  BY <1>1, <1>5 DEF Placing, Changing
<1>7. Tidy(p)
  BY <1>1, <1>3, <1>4, <1>6, StaysTidy
<1>8. /\ at'[p] \in {"copy", "rename"} => store'[e] = None
      /\ at'[p] \in {"replace", "rename"} => at[p] = "replace"
      /\ at'[p] \in {"clear", "copy", "replace", "rename"}
  BY <1>1, <1>5
<1>9. OwnsEntry(p) /\ at[p] = "replace" => stage[t] = WholeOf(t)
  BY <1>3 DEF MadeBy, Made
<1>10. OwnsEntry(p)' = OwnsEntry(p)
  BY <1>1, <1>3 DEF OwnsEntry, Entry
<1>11. OwnsEntry(p) => Made(at'[p], t, Top(p).left, store'[e], stage'[t])
  BY <1>1, <1>8, <1>9 DEF Made
<1>12. MadeBy(p)'
  <2>1. Entry(t)' = Entry(t) /\ at'[p] # "unstage"
    BY <1>3, <1>8 DEF Entry
  <2>2. QED
    BY <1>3, <1>10, <1>11, <2>1 DEF MadeBy
<1>13. QED
  BY <1>7, <1>12 DEF Good

LEMMA CopyGood ==
  ASSUME Typed, HalfMade, NEW p \in Procs, Copy(p)
  PROVE  Good(p)
<1> DEFINE t == Top(p).tree
           e == Entry(t)
           d == Filled(store[e], "manifest", t)
<1>1. /\ at[p] = "copy" /\ at[p] \in Placing /\ at[p] \in Changing
      /\ p \in DOMAIN at /\ UNCHANGED <<stage, stack, alone, spoiled>>
      /\ store' = [store EXCEPT ![e] = d]
      /\ at'[p] = "copyRest" /\ at'[p] \in Placing /\ at'[p] \in Changing
  BY DEF Copy, Goto, Placing, Changing, Typed, job, history
<1>2. e \in Entries /\ t \in Trees
  BY <1>1, AtTree
<1>3. Top(p)' = Top(p) /\ MadeBy(p)
  BY <1>1 DEF Top, HalfMade
<1>4. OwnsEntry(p) => d = [q \in Parts |-> IF q = "manifest" THEN t ELSE None]
  <2>1. OwnsEntry(p) => store[e] = None
    BY <1>1, <1>3 DEF MadeBy, Made
  <2>2. QED
    BY <2>1 DEF Filled, Empty, Parts
<1> HIDE DEF d
<1>5. (\A f \in Entries : f # e => store'[f] = store[f]) /\ store'[e] = d
  BY <1>1, <1>2 DEF Typed
<1>6. Tidy(p)
  BY <1>1, <1>3, <1>5, StaysTidy
<1>7. OwnsEntry(p)' = OwnsEntry(p)
  BY <1>1, <1>3 DEF OwnsEntry, Entry
<1>8. OwnsEntry(p) => Made(at'[p], t, Top(p).left, store'[e], stage'[t])
  BY <1>1, <1>4, <1>5 DEF Made
<1>9. MadeBy(p)'
  <2>1. Entry(t)' = Entry(t) /\ at'[p] # "unstage"
    BY <1>1, <1>3 DEF Entry
  <2>2. QED
    BY <1>3, <1>7, <1>8, <2>1 DEF MadeBy
<1>10. QED
  BY <1>6, <1>9 DEF Good
LEMMA MadeNext ==
  ASSUME NEW p \in Procs, NEW t, NEW left, NEW e, e = Entry(t),
         Top(p)'.tree = t, Top(p)'.left = left,
         alone'[p] \/ e \notin spoiled' => Made(at'[p], t, left, store'[e], stage'[t]),
         at'[p] = "unstage" /\ alone'[p] => store'[e] = WholeOf(t)
  PROVE  MadeBy(p)'
<1>1. Entry(Top(p).tree)' = e
  BY DEF Entry
<1>2. OwnsEntry(p)' <=> alone'[p] \/ e \notin spoiled'
  BY <1>1 DEF OwnsEntry
<1>3. QED
  BY <1>1, <1>2 DEF MadeBy

(* What lies in the store once it is placed.                                *)
LEMMA PlacedWhole ==
  ASSUME Typed, HalfMade, NEW p \in Procs, CopyRest(p) \/ (Unstage(p) /\ alone[p]),
         NEW t, NEW e, t = Top(p).tree, e = Entry(t), alone[p] \/ e \notin spoiled
  PROVE  store'[e] = WholeOf(t) /\ Whole(e)'
<1>1. at[p] \in {"copyRest", "unstage"} /\ at[p] \in Placing
  BY DEF CopyRest, Unstage, Placing
<1>2. e \in Entries /\ t \in Trees /\ MadeBy(p)
  BY <1>1, AtTree DEF HalfMade
<1>3. CASE CopyRest(p)
  <2>1. at[p] = "copyRest" /\ store' = [store EXCEPT ![e] = Filled(@, "rest", t)]
    BY <1>3 DEF CopyRest
  <2>2. store[e] = [q \in Parts |-> IF q = "manifest" THEN t ELSE None]
    BY <1>2, <2>1 DEF MadeBy, OwnsEntry, Made
  <2>3. store[e] # None
    <3>1. store[e] \in [Parts -> Trees \cup {None}]
      BY <1>2, <2>2
    <3>2. QED
      BY <3>1, ValuesAssumption
  <2>4. Filled(store[e], "rest", t) = WholeOf(t)
    BY <2>2, <2>3 DEF Filled, WholeOf, Parts
  <2>5. store'[e] = WholeOf(t)
    BY <1>2, <2>1, <2>4 DEF Typed
  <2>6. QED
    BY <1>2, <2>5 DEF Whole
<1>4. CASE Unstage(p) /\ alone[p]
  BY <1>2, <1>4 DEF Unstage, MadeBy, Whole
<1>5. QED
  BY <1>3, <1>4

LEMMA CopyRestGood ==
  ASSUME Typed, HalfMade, NEW p \in Procs, CopyRest(p)
  PROVE  Good(p)
<1>1. PICK t, e : t = Top(p).tree /\ e = Entry(t)
  OBVIOUS
<1>2. /\ at[p] = "copyRest" /\ at[p] \in Placing /\ at[p] \in Changing
      /\ UNCHANGED <<stage, alone>>
      /\ store' = [store EXCEPT ![e] = Filled(@, "rest", t)]
      /\ spoiled' = IF alone[p] THEN spoiled \ {e} ELSE spoiled
  BY <1>1 DEF CopyRest, Placed, Placing, Changing, job
<1>3. at'[p] \in {"load", "walk"}
  BY DEF CopyRest, Placed, Goto, Typed
<1>4. at'[p] \notin Placing \cup {"remove"}
  BY <1>3 DEF Placing
<1>5. e \in Entries /\ e = Entry(Top(p).tree)
  BY <1>1, <1>2, AtTree
<1>6. \A f \in Entries : f # e => store'[f] = store[f]
  BY <1>2, <1>5 DEF Typed
<1>7. alone[p] \/ e \notin spoiled => Whole(e)'
  BY <1>1, PlacedWhole DEF CopyRest
<1>8. \A f \in spoiled \ spoiled' : alone[p] /\ Whole(f)'
  <2>1. \A f \in spoiled \ spoiled' : alone[p] /\ f = e
    BY <1>2
  <2>2. QED
    BY <1>7, <2>1
<1>9. Whole(e)' \/ e \in spoiled'
  BY <1>2, <1>7
<1>10. QED
  BY <1>2, <1>4, <1>5, <1>6, <1>8, <1>9, LeavesGood

LEMMA StageGood ==
  ASSUME Typed, NEW p \in Procs, Stage(p)
  PROVE  Good(p)
<1>1. PICK t, e : t = Top(p).tree /\ e = Entry(t)
  OBVIOUS
<1>2. /\ at[p] = "stage" /\ at[p] \in Placing /\ at[p] \notin Changing
      /\ UNCHANGED <<store, stack, alone, spoiled>>
      /\ stage' = [stage EXCEPT ![t] = Empty] /\ at'[p] = "unpack" /\ at'[p] \in Placing
  BY <1>1 DEF Stage, Goto, Placing, Changing, job, history, Typed
<1>3. t \in Trees /\ InHand("stage", stack[p], Command(p))
  BY <1>1, <1>2, AtTree
<1>4. Top(p)' = Top(p) /\ Top(p).left = Parts
  BY <1>2, <1>3 DEF Top, InHand
<1>5. stage'[t] = Empty /\ Empty # None /\ \A u \in Trees : u # t => stage'[u] = stage[u]
  BY <1>2, <1>3, TreeType DEF Typed
<1>6. Tidy(p)
  BY <1>1, <1>2, <1>4, <1>5, StaysTidy
<1>7. Made("unpack", t, Parts, store'[e], stage'[t])
  BY <1>5 DEF Made
<1>8. MadeBy(p)'
  BY <1>1, <1>2, <1>4, <1>7, MadeNext
<1>9. QED
  BY <1>6, <1>8 DEF Good

LEMMA UnpackGood ==
  ASSUME Typed, HalfMade, NEW p \in Procs, Unpack(p)
  PROVE  Good(p)
<1>1. PICK t, e, f : f = Top(p) /\ t = f.tree /\ e = Entry(t)
  OBVIOUS
<1>2. /\ at[p] = "unpack" /\ at[p] \in Placing /\ at[p] \notin Changing
      /\ p \in DOMAIN at /\ UNCHANGED <<store, alone, spoiled>>
  BY DEF Unpack, Placing, Changing, history, Typed
<1>3. t \in Trees /\ f \in Frame /\ stack[p] \in Seq(Frame) /\ Len(stack[p]) \in 1..Len(stack[p])
      /\ MadeBy(p) /\ e = Entry(Top(p).tree) /\ t = Top(p).tree
  BY <1>1, <1>2, AtTree DEF HalfMade
<1>4. ASSUME NEW q \in f.left, stage' = [stage EXCEPT ![t] = Filled(@, q, t)],
             SetTop(p, [f EXCEPT !.left = @ \ {q}]),
             Goto(p, IF f.left = {q} THEN "locate" ELSE "unpack")
      PROVE  Good(p)
  <2> DEFINE h == [f EXCEPT !.left = @ \ {q}]
  <2>1. h.tree = t /\ h.left = f.left \ {q} /\ h \in Frame /\ f.left \subseteq Parts
    BY <1>1, <1>3 DEF Frame
  <2> HIDE DEF h
  <2>2. stack'[p] = [stack[p] EXCEPT ![Len(stack[p])] = h]
    BY <1>4 DEF SetTop, Typed, h
  <2>3. Top(p)' = h
    BY <1>3, <2>1, <2>2, ExceptSeq DEF Top
  <2>4. /\ stage[t] \in Dirs \cup {None} /\ q \in Parts
        /\ stage'[t] = Filled(stage[t], q, t) /\ \A u \in Trees : u # t => stage'[u] = stage[u]
    BY <1>3, <1>4, <2>1 DEF Typed
  <2>5. at'[p] = IF f.left = {q} THEN "locate" ELSE "unpack"
    BY <1>2, <1>4 DEF Goto
  <2>6. at'[p] \in Placing
    BY <2>5 DEF Placing
  <2>7. Tidy(p)
    BY <1>2, <1>3, <2>1, <2>3, <2>4, <2>6, StaysTidy
  <2>8. ASSUME alone[p] \/ e \notin spoiled
        PROVE  Made(at'[p], t, f.left \ {q}, store'[e], stage'[t])
    <3>1. stage[t] # None /\ \A r \in Parts \ f.left : stage[t][r] = t
      BY <1>1, <1>2, <1>3, <2>8 DEF MadeBy, OwnsEntry, Made
    <3>2. /\ stage'[t] \in Dirs /\ stage'[t][q] = t
          /\ \A r \in Parts : r # q => stage'[t][r] = stage[t][r]
      BY <1>3, <2>4, <3>1, FilledType
    <3>3. stage'[t] # None /\ \A r \in Parts \ (f.left \ {q}) : stage'[t][r] = t
      BY <3>1, <3>2, ValuesAssumption DEF Dirs
    <3>4. f.left = {q} => stage'[t] = WholeOf(t)
      BY <3>2, <3>3 DEF Dirs, WholeOf
    <3>5. QED
      BY <2>5, <3>3, <3>4 DEF Made
  <2>9. MadeBy(p)'
    <3>1. at'[p] # "unstage"
      BY <2>5
    <3>2. alone'[p] \/ e \notin spoiled' => Made(at'[p], t, f.left \ {q}, store'[e], stage'[t])
      BY <1>2, <2>8
    <3>3. Top(p)'.tree = t /\ Top(p)'.left = f.left \ {q}
      BY <2>1, <2>3
    <3>4. QED
      BY <1>1, <3>1, <3>2, <3>3, MadeNext
  <2>10. QED
    BY <2>7, <2>9 DEF Good
<1>5. CASE Fail(p) /\ UNCHANGED stage
  <2>1. at'[p] = "idle" /\ "idle" \notin Placing \cup {"remove"}
    BY <1>2, <1>5 DEF Fail, Goto, Placing
  <2>2. at'[p] \notin Placing \cup {"remove"}
    BY <2>1
  <2>3. at[p] \notin Changing \cup {"remove"}
    BY <1>2
  <2>4. QED
    BY <1>2, <1>5, <2>2, <2>3, TidyIdle DEF Good
<1>6. QED
  BY <1>1, <1>4, <1>5 DEF Unpack
LEMMA LocateGood ==
  ASSUME Typed, HalfMade, NEW p \in Procs, Locate(p)
  PROVE  Good(p)
<1>1. PICK t, e : t = Top(p).tree /\ e = Entry(t)
  OBVIOUS
<1>2. /\ at[p] = "locate" /\ at[p] \in Placing /\ at[p] \notin Changing
      /\ p \in DOMAIN at /\ UNCHANGED <<store, stage, alone, spoiled>>
  BY DEF Locate, Placing, Changing, files, history, Typed
<1>3. MadeBy(p)
  BY <1>2 DEF HalfMade
<1>4. CASE Goto(p, "replace") /\ UNCHANGED stack
  <2>1. at'[p] = "replace" /\ at'[p] \in Placing /\ Top(p)' = Top(p)
    BY <1>2, <1>4 DEF Goto, Placing, Top
  <2>2. Tidy(p)
    BY <1>1, <1>2, <2>1, StaysTidy
  <2>3. alone[p] \/ e \notin spoiled => Made("replace", t, Top(p).left, store[e], stage[t])
    BY <1>1, <1>2, <1>3 DEF MadeBy, OwnsEntry, Made
  <2>4. MadeBy(p)'
    BY <1>1, <1>2, <2>1, <2>3, MadeNext
  <2>5. QED
    BY <2>2, <2>4 DEF Good
<1>5. CASE Fail(p)
  <2>1. at'[p] = "idle" /\ "idle" \notin Placing \cup {"remove"}
    BY <1>2, <1>5 DEF Fail, Goto, Placing
  <2>2. at'[p] \notin Placing \cup {"remove"}
    BY <2>1
  <2>3. at[p] \notin Changing \cup {"remove"}
    BY <1>2
  <2>4. QED
    BY <1>2, <2>2, <2>3, TidyIdle DEF Good
<1>6. QED
  BY <1>4, <1>5 DEF Locate

LEMMA RenameGood ==
  ASSUME Typed, HalfMade, NEW p \in Procs, Rename(p)
  PROVE  Good(p)
<1>1. PICK t, e : t = Top(p).tree /\ e = Entry(t)
  OBVIOUS
<1>2. /\ at[p] = "rename" /\ at[p] \in Placing /\ at[p] \in Changing
      /\ p \in DOMAIN at /\ UNCHANGED <<alone, spoiled>>
  BY DEF Rename, Placing, Changing, history, Typed
<1>3. e \in Entries /\ t \in Trees /\ MadeBy(p) /\ e = Entry(Top(p).tree)
  BY <1>1, <1>2, AtTree DEF HalfMade
<1>4. alone[p] \/ e \notin spoiled => stage[t] = WholeOf(t) /\ store[e] = None
  BY <1>1, <1>2, <1>3 DEF MadeBy, OwnsEntry, Made
<1>5. CASE /\ store' = [store EXCEPT ![e] = stage[t]] /\ stage' = [stage EXCEPT ![t] = None]
           /\ Goto(p, "unstage") /\ UNCHANGED stack
  <2>1. at'[p] = "unstage" /\ at'[p] \in Placing /\ Top(p)' = Top(p)
    BY <1>2, <1>5 DEF Goto, Placing, Top
  <2>2. /\ store'[e] = stage[t] /\ \A f \in Entries : f # e => store'[f] = store[f]
        /\ \A u \in Trees : u # t => stage'[u] = stage[u]
    BY <1>3, <1>5 DEF Typed
  <2>3. Whole(e)' \/ e \in spoiled
    BY <1>1, <1>3, <1>4, <2>2 DEF Whole
  <2>4. Tidy(p)
    BY <1>1, <1>2, <1>3, <2>1, <2>2, <2>3, StaysTidy
  <2>5. Made("unstage", t, Top(p).left, store'[e], stage'[t])
    BY DEF Made
  <2>6. MadeBy(p)'
    BY <1>1, <1>2, <1>4, <2>1, <2>2, <2>5, MadeNext
  <2>7. QED
    BY <2>4, <2>6 DEF Good
<1>6. CASE /\ stage[t] = None \/ store[e] \notin {None, Empty}
           /\ Fail(p) /\ UNCHANGED <<store, stage>>
  <2>1. at'[p] = "idle" /\ "idle" \notin Placing \cup {"remove"}
    BY <1>2, <1>6 DEF Fail, Goto, Placing
  <2>2. at'[p] \notin Placing \cup {"remove"}
    BY <2>1
  <2>3. e \in spoiled'
    BY <1>2, <1>3, <1>4, <1>6, TreeType
  <2>4. QED
    BY <1>2, <1>3, <1>6, <2>2, <2>3, LeavesGood
<1>7. QED
  BY <1>1, <1>5, <1>6 DEF Rename

LEMMA UnstageGood ==
  ASSUME Typed, HalfMade, NEW p \in Procs, Unstage(p)
  PROVE  Good(p)
<1>1. PICK t, e : t = Top(p).tree /\ e = Entry(t)
  OBVIOUS
<1>2. /\ at[p] = "unstage" /\ at[p] \in Placing /\ at[p] \notin Changing
      /\ UNCHANGED <<store, alone>> /\ stage' = [stage EXCEPT ![t] = None]
      /\ spoiled' = IF alone[p] THEN spoiled \ {e} ELSE spoiled
  BY <1>1 DEF Unstage, Placed, Placing, Changing, job
<1>3. at'[p] \in {"load", "hash"}
  BY DEF Unstage, Placed, Goto, Typed
<1>4. at'[p] \notin Placing \cup {"remove"}
  BY <1>3 DEF Placing
<1>5. e \in Entries /\ t \in Trees /\ e = Entry(Top(p).tree)
  BY <1>1, <1>2, AtTree
<1>6. \A u \in Trees : u # Top(p).tree => stage'[u] = stage[u]
  BY <1>1, <1>2, <1>5 DEF Typed
<1>7. alone[p] => Whole(e)'
  BY <1>1, PlacedWhole
<1>8. \A f \in spoiled \ spoiled' : alone[p] /\ Whole(f)'
  <2>1. \A f \in spoiled \ spoiled' : alone[p] /\ f = e
    BY <1>2
  <2>2. QED
    BY <1>7, <2>1
<1>9. \A f \in Entries : store'[f] = store[f]
  BY <1>2
<1>10. QED
  BY <1>2, <1>4, <1>5, <1>6, <1>8, <1>9, LeavesGood

LEMMA RemoveGood ==
  ASSUME Typed, NEW p \in Procs, Remove(p)
  PROVE  Good(p)
<1>1. /\ at[p] = "remove" /\ p \in DOMAIN at /\ p \in DOMAIN rm
      /\ UNCHANGED <<stage, spoiled>> /\ rm[p] \subseteq Entries
  BY DEF Remove, history, Typed
<1>2. Busy(p) = rm[p] /\ Touching(p) = rm[p]
  BY <1>1, InHands
<1>3. CASE rm[p] = {} /\ Goto(p, "idle") /\ UNCHANGED <<store, rm>>
  <2>1. at'[p] = "idle"
    BY <1>1, <1>3 DEF Goto
  <2>2. at'[p] \notin Placing \cup {"remove"}
    BY <2>1 DEF Placing
  <2>3. Busy(p)' = {}
    BY <2>2, InHandsNext
  <2>4. QED
    BY <1>1, <1>2, <1>3, <2>2, <2>3, TidyQuiet DEF Good
<1>4. ASSUME NEW e \in rm[p], Vanish(e), UNCHANGED at,
             rm' = [rm EXCEPT ![p] = IF store'[e] = None THEN @ \ {e} ELSE @]
      PROVE  Good(p)
  <2>1. \A f \in Entries : f # e => store'[f] = store[f]
    BY <1>1, <1>4, VanishType
  <2>2. rm'[p] = IF store'[e] = None THEN rm[p] \ {e} ELSE rm[p]
    BY <1>1, <1>4
  <2>3. Busy(p)' = rm'[p] /\ Touching(p)' = rm'[p] /\ at'[p] \notin Placing
    BY <1>1, <1>4, InHandsNext DEF Placing
  <2>4. \A f \in Touching(p) : f \in Touching(p)' \/ ~Present(f)'
    BY <1>2, <2>2, <2>3 DEF Present
  <2>5. \A f \in Entries : store'[f] # store[f] => f \in Touching(p)
    BY <1>2, <2>1
  <2>6. \A f \in Busy(p)' : f \in Busy(p)
    BY <1>2, <2>2, <2>3
  <2>7. Tidy(p)
    BY <1>1, <2>4, <2>5, <2>6 DEF Tidy
  <2>8. QED
    BY <2>3, <2>7 DEF Good
<1>5. QED
  BY <1>3, <1>4 DEF Remove

LEMMA StopGood ==
  ASSUME Typed, NEW p \in Procs, Stop(p)
  PROVE  Good(p)
<1>1. UNCHANGED <<store, stage>> /\ spoiled' = spoiled \cup Touching(p) /\ p \in DOMAIN at
  BY DEF Stop, files, Typed
<1>2. at'[p] = "idle"
  BY <1>1 DEF Stop, Fail, Goto
<1>3. at'[p] \notin Placing \cup {"remove"}
  BY <1>2 DEF Placing
<1>4. Busy(p)' = {}
  BY <1>3, InHandsNext
<1>5. QED
  BY <1>1, <1>3, <1>4, TidyQuiet DEF Good
LEMMA StepGood ==
  ASSUME Typed, HalfMade, NEW p \in Procs, Step(p)
  PROVE  Good(p)
BY StartGood, WalkGood, QuietGood, LoadGood, ClearGood, CopyGood, CopyRestGood, StageGood,
   UnpackGood, LocateGood, RenameGood, UnstageGood, RemoveGood, StopGood DEF Step

-----------------------------------------------------------------------------
(* The other processes while p steps.                                       *)
Still(q) ==
  /\ at'[q] = at[q] /\ stack'[q] = stack[q] /\ rm'[q] = rm[q] /\ idx'[q] = idx[q]
  /\ scenario' = scenario /\ ran'[q] = ran[q]

LEMMA OthersStill ==
  ASSUME Typed, NEW p \in Procs, Step(p), NEW q \in Procs \ {p}
  PROVE  Still(q)
<1>1. CASE Start(p)
  <2> DEFINE c == scenario[p][ran[p] + 1]
  <2>1. /\ BeginInstall(p, c) \/ BeginGlobal(p, c) \/ BeginPinned(p, c) \/ BeginClean(p, c)
        /\ scenario' = scenario /\ ran' = [ran EXCEPT ![p] = @ + 1]
        /\ idx' = [idx EXCEPT ![p] = NoPins]
    BY <1>1 DEF Start
  <2> HIDE DEF c
  <2>2. at'[q] = at[q] /\ stack'[q] = stack[q] /\ rm'[q] = rm[q]
    BY <2>1 DEF BeginInstall, BeginGlobal, BeginPinned, BeginClean, Begin, Goto, Typed
  <2>3. QED
    BY <2>1, <2>2 DEF Still, Typed
<1>2. CASE WalkDir(p)
  BY <1>2 DEF WalkDir, Still, Goto, Fail, Push, Typed
<1>3. CASE WalkRelease(p)
  BY <1>3 DEF WalkRelease, Still, Goto, Fail, Push, Typed
<1>4. CASE Insert(p)
  BY <1>4 DEF Insert, Popped, Still, Typed
<1>5. CASE WriteLock(p)
  BY <1>5 DEF WriteLock, Still, Goto, job, Typed
<1>6. CASE Clear(p)
  BY <1>6 DEF Clear, Still, Goto, job, Typed
<1>7. CASE Copy(p) \/ CopyRest(p)
  BY <1>7 DEF Copy, CopyRest, Placed, Still, Goto, job, Typed
<1>8. CASE Stage(p) \/ Locate(p)
  BY <1>8 DEF Stage, Locate, Still, Goto, Fail, job, Typed
<1>9. CASE Unpack(p)
  BY <1>9 DEF Unpack, Still, Goto, Fail, SetTop, Typed
<1>10. CASE Rename(p)
  BY <1>10 DEF Rename, Still, Goto, Fail, Typed
<1>11. CASE Unstage(p)
  BY <1>11 DEF Unstage, Placed, Still, Goto, job, Typed
<1>12. CASE Hash(p)
  BY <1>12 DEF Hash, Popped, SetTop, Still, Goto, Fail, Typed
<1>13. CASE Load(p)
  BY <1>13 DEF Load, Still, Goto, Fail, Typed
<1>14. CASE Truncate(p) \/ Write(p)
  BY <1>14 DEF Truncate, Write, Still, Goto, job, Typed
<1>15. CASE Remove(p)
  BY <1>15 DEF Remove, Still, Goto, Typed
<1>16. CASE Stop(p)
  BY <1>16 DEF Stop, Still, Goto, Fail, Typed
<1>17. QED
  BY <1>1, <1>2, <1>3, <1>4, <1>5, <1>6, <1>7, <1>8, <1>9, <1>10, <1>11, <1>12, <1>13, <1>14,
     <1>15, <1>16 DEF Step

LEMMA StillHolds ==
  ASSUME NEW q \in Procs, Still(q)
  PROVE  /\ Top(q)' = Top(q) /\ Busy(q)' = Busy(q) /\ Touching(q)' = Touching(q)
         /\ Working(q)' = Working(q) /\ Command(q)' = Command(q)
BY DEF Still, Top, Busy, Touching, Working, Command, Entry

(* Only the start of a command, of a process that has none, changes what is *)
(* remembered of who runs.                                                  *)
LEMMA Turns ==
  ASSUME NEW p \in Procs, Step(p)
  PROVE  \/ Start(p)
         \/ Working(p) /\ UNCHANGED <<scenario, ran, alone, overlapped>>
<1>1. ASSUME ~Start(p)
      PROVE  Working(p)
  BY <1>1 DEF Step, Working, WalkDir, WalkRelease, Insert, WriteLock, Clear, Copy, CopyRest, Stage,
        Unpack, Locate, Rename, Unstage, Hash, Load, Truncate, Write, Remove, Stop
<1>2. ASSUME ~Start(p)
      PROVE  UNCHANGED <<scenario, ran, alone, overlapped>>
  BY <1>2 DEF Step, WalkDir, WalkRelease, Insert, WriteLock, Clear, Copy, CopyRest, Stage, history,
        Unpack, Locate, Rename, Unstage, Hash, Load, Truncate, Write, Remove, Stop
<1>3. QED
  BY <1>1, <1>2

LEMMA WorkersAlone ==
  ASSUME Lone, NEW p \in Procs, Step(p), NEW q \in Procs \ {p}, Working(q)
  PROVE  ~alone'[q] /\ ~alone[p]
<1>1. ~alone[p]
  BY DEF Lone
<1>2. CASE Start(p)
  BY <1>1, <1>2 DEF Start
<1>3. CASE ~Start(p)
  BY <1>1, <1>3, Turns DEF Lone
<1>4. QED
  BY <1>1, <1>2, <1>3

LEMMA HandsFull ==
  ASSUME NEW q \in Procs
  PROVE  Touching(q) \subseteq Busy(q) /\ (Busy(q) # {} => Working(q))
BY DEF Busy, Touching, Working
-----------------------------------------------------------------------------
(* Each step keeps the parts of Kept.                                       *)
LEMMA LoneKept ==
  ASSUME Typed, Lone, NEW p \in Procs, Step(p)
  PROVE  Lone'
<1> SUFFICES ASSUME NEW a \in Procs, NEW b \in Procs, alone'[a], b # a
             PROVE  ~Working(b)'
  BY DEF Lone
<1>1. b # p => Working(b)' = Working(b)
  BY OthersStill, StillHolds
<1>2. CASE Start(p)
  <2>1. a = p /\ ~\E q \in Procs \ {p} : Working(q)
    BY <1>2 DEF Start
  <2>2. QED
    BY <1>1, <2>1
<1>3. CASE ~Start(p)
  <2>1. Working(p) /\ alone[a]
    BY <1>3, Turns
  <2>2. QED
    BY <1>1, <2>1 DEF Lone
<1>4. QED
  BY <1>2, <1>3

(* An entry another process has is not made good.                           *)
LEMMA StaysSpoiled ==
  ASSUME Typed, Lone, NEW p \in Procs, Good(p), NEW q \in Procs \ {p}, NEW e \in Busy(q), e \in spoiled
  PROVE  e \in spoiled'
<1>1. Working(q)
  BY HandsFull
<1>2. ~alone[p]
  BY <1>1 DEF Lone
<1>3. QED
  BY <1>2 DEF Good, Tidy

LEMMA MetKept ==
  ASSUME Typed, Lone, Met, NEW p \in Procs, Step(p), Good(p)
  PROVE  Met'
<1>1. ASSUME NEW q \in Procs \ {p}, NEW e \in Busy(p)', e \in Busy(q)'
      PROVE  e \in spoiled'
  <2>1. e \in Busy(q)
    BY <1>1, OthersStill, StillHolds
  <2>2. e \in Others(p)
    BY <2>1 DEF Others
  <2>3. CASE e \in Busy(p)
    <3>1. e \in spoiled
      BY <2>1, <2>3 DEF Met
    <3>2. QED
      BY <2>1, <3>1, StaysSpoiled
  <2>4. CASE e \notin Busy(p)
    BY <1>1, <2>2, <2>4 DEF Good, Tidy
  <2>5. QED
    BY <2>3, <2>4
<1>2. ASSUME NEW a \in Procs \ {p}, NEW b \in Procs \ {p}, a # b, NEW e \in Busy(a)', e \in Busy(b)'
      PROVE  e \in spoiled'
  <2>1. e \in Busy(a) /\ e \in Busy(b)
    BY <1>2, OthersStill, StillHolds
  <2>2. e \in spoiled
    BY <1>2, <2>1 DEF Met
  <2>3. QED
    BY <2>1, <2>2, StaysSpoiled
<1>3. QED
  BY <1>1, <1>2 DEF Met

LEMMA HalfMadeKept ==
  ASSUME Typed, Lone, Met, HalfMade, NEW p \in Procs, Step(p), Good(p)
  PROVE  HalfMade'
<1>1. ASSUME NEW q \in Procs \ {p}, at'[q] \in Placing
      PROVE  MadeBy(q)'
  <2>1. PICK t, e : t = Top(q).tree /\ e = Entry(t)
    OBVIOUS
  <2>2. Still(q) /\ at[q] \in Placing /\ Top(q)' = Top(q)
    BY <1>1, OthersStill, StillHolds DEF Still
  <2>3. Busy(q) = {e} /\ t \in Trees /\ e \in Entries /\ Working(q) /\ MadeBy(q)
    BY <2>1, <2>2, InHands, AtTree DEF HalfMade
  <2>4. ~alone'[q] /\ e \in Others(p)
    BY <2>3, WorkersAlone DEF Others
  <2>5. ASSUME e \notin spoiled'
        PROVE  Made(at'[q], t, Top(q).left, store'[e], stage'[t])
    <3>1. e \notin spoiled
      BY <2>3, <2>5, StaysSpoiled
    <3>2. Made(at[q], t, Top(q).left, store[e], stage[t])
      BY <2>1, <2>3, <3>1 DEF MadeBy, OwnsEntry
    <3>3. e \notin Busy(p) /\ e \notin Touching(p)
      BY <2>3, <3>1, HandsFull DEF Met
    <3>4. store'[e] = store[e] /\ stage'[t] = stage[t]
      BY <2>1, <2>3, <2>4, <2>5, <3>3 DEF Good, Tidy
    <3>5. QED
      BY <2>2, <3>2, <3>4 DEF Still
  <2>6. Top(q)'.tree = t /\ Top(q)'.left = Top(q).left
    BY <2>1, <2>2
  <2>7. PICK left : left = Top(q).left
    OBVIOUS
  <2>8. alone'[q] \/ e \notin spoiled' => Made(at'[q], t, left, store'[e], stage'[t])
    BY <2>4, <2>5, <2>7
  <2>9. QED
    BY <2>1, <2>4, <2>6, <2>7, <2>8, MadeNext
<1>2. QED
  BY <1>1 DEF Good, HalfMade

LEMMA EntriesKept ==
  ASSUME Typed, Lone, EntriesWhole, NEW p \in Procs, Step(p), Good(p)
  PROVE  EntriesWhole'
<1> SUFFICES ASSUME NEW e \in Entries, Present(e)', ~Whole(e)', e \notin spoiled'
             PROVE  e \in Held'
  BY DEF EntriesWhole, Entries
<1>1. CASE e \in Touching(p)
  <2>1. e \in Touching(p)'
    BY <1>1 DEF Good, Tidy
  <2>2. QED
    BY <2>1 DEF Held
<1>2. CASE e \notin Touching(p)
  <2>1. store'[e] = store[e]
    BY <1>2 DEF Good, Tidy
  <2>2. Present(e) /\ ~Whole(e)
    BY <2>1 DEF Present, Whole, Entry, WholeOf, Parts
  <2>3. e \notin spoiled
    BY DEF Good, Tidy
  <2>4. PICK q \in Procs \ {p} : e \in Touching(q)
    BY <1>2, <2>2, <2>3 DEF EntriesWhole, Held
  <2>5. e \in Touching(q)'
    BY <2>4, OthersStill, StillHolds
  <2>6. QED
    BY <2>5 DEF Held
<1>3. QED
  BY <1>1, <1>2

LEMMA KeptStep ==
  ASSUME Typed, Kept, NEW p \in Procs, Step(p)
  PROVE  Kept'
<1>1. Good(p)
  BY StepGood DEF Kept
<1>2. QED
  BY <1>1, LoneKept, MetKept, HalfMadeKept, EntriesKept DEF Kept

LEMMA KeptQuiet ==
  ASSUME Kept, UNCHANGED vars
  PROVE  Kept'
<1>1. \A q \in Procs : /\ Still(q) /\ Top(q)' = Top(q) /\ Busy(q)' = Busy(q)
                       /\ Touching(q)' = Touching(q) /\ Working(q)' = Working(q)
  BY StillHolds DEF vars, Still
<1>2. Lone' /\ Met'
  BY <1>1 DEF vars, Kept, Lone, Met
<1>3. HalfMade'
  BY <1>1 DEF vars, Kept, HalfMade, MadeBy, OwnsEntry, Entry, WholeOf, Parts
<1>4. EntriesWhole'
  BY <1>1 DEF vars, Kept, EntriesWhole, Held, Present, Whole, Entries, Entry, WholeOf, Parts
<1>5. QED
  BY <1>2, <1>3, <1>4 DEF Kept

LEMMA KeptInvariant == Spec => []Kept
<1>1. Init => Kept
  <2> SUFFICES ASSUME Init PROVE Kept
    OBVIOUS
  <2>1. \A q \in Procs : at[q] = "idle" /\ ~Working(q) /\ ~alone[q]
    BY DEF Init, Working
  <2>2. \A q \in Procs : Busy(q) = {} /\ at[q] \notin Placing
    BY <2>1, InHands DEF Placing
  <2>3. \A e \in Entries : ~Present(e)
    BY DEF Init, Present
  <2>4. QED
    BY <2>1, <2>2, <2>3 DEF Kept, Lone, Met, HalfMade, EntriesWhole
<1>2. Typed /\ Kept /\ [Next]_vars => Kept'
  BY KeptStep, KeptQuiet DEF Next, Step
<1>3. QED
  BY <1>1, <1>2, TypedInvariant, PTL DEF Spec

(* A store entry that is not the whole of a package is being changed right  *)
(* now, or was left by a process stopped at it, by two at once or by clean, *)
(* whatever packages there are and whatever any processes are told to do.   *)
THEOREM EntriesStayWhole == Spec => []EntriesWhole
BY KeptInvariant, PTL DEF Kept
-----------------------------------------------------------------------------
(* What is behind a pin stays, but for what gc and clean remove.            *)
LEMMA BackedKept ==
  ASSUME Typed, NEW p \in Procs, Step(p), Good(p), NEW e \in Entries, Backed(e),
         at[p] = "remove" /\ e \in rm[p] => e \in spoiled
  PROVE  Backed(e)'
<1>1. CASE e \in spoiled' \/ Whole(e)'
  <2>1. ASSUME Whole(e)'
        PROVE  Present(e)'
    <3>1. PICK t \in Trees : store'[e] = WholeOf(t)
      BY <2>1 DEF Whole, WholeOf, Parts
    <3>2. QED
      BY <3>1, TreeType DEF Present
  <2>2. QED
    BY <1>1, <2>1 DEF Backed
<1>2. CASE ~(e \in spoiled' \/ Whole(e)')
  <2>1. e \notin spoiled
    BY <1>2 DEF Good, Tidy
  <2>2. CASE e \in Touching(p)
    <3>1. at[p] # "remove"
      BY <2>1, <2>2, InHands
    <3>2. e \in Touching(p)'
      BY <1>2, <2>2, <3>1 DEF Good, Tidy
    <3>3. QED
      BY <3>2 DEF Backed, Held
  <2>3. CASE e \notin Touching(p)
    <3>1. store'[e] = store[e]
      BY <2>3 DEF Good, Tidy
    <3>2. CASE Present(e)
      BY <3>1, <3>2 DEF Backed, Present
    <3>3. CASE ~Present(e)
      <4>1. PICK q \in Procs \ {p} : e \in Touching(q)
        BY <2>1, <2>3, <3>3 DEF Backed, Held
      <4>2. e \in Touching(q)'
        BY <4>1, OthersStill, StillHolds
      <4>3. QED
        BY <4>2 DEF Backed, Held
    <3>4. QED
      BY <3>2, <3>3
  <2>4. QED
    BY <2>2, <2>3
<1>3. QED
  BY <1>1, <1>2

(* Commands that do not overlap: p steps, and the others have none.         *)
LEMMA Solo ==
  ASSUME Typed, Lone, \A q \in Procs : Working(q) => alone[q],
         NEW p \in Procs, Step(p), ~overlapped'
  PROVE  /\ ~overlapped
         /\ \A q \in Procs \ {p} : ~Working(q) /\ ~Working(q)'
         /\ \A q \in Procs : Working(q)' => alone'[q]
<1>1. CASE Start(p)
  <2>1. ~overlapped /\ ~\E q \in Procs \ {p} : Working(q)
    BY <1>1 DEF Start
  <2>2. \A q \in Procs \ {p} : ~Working(q)'
    BY <2>1, OthersStill, StillHolds
  <2>3. alone'[p]
    BY <1>1, <2>1 DEF Start
  <2>4. QED
    BY <2>1, <2>2, <2>3
<1>2. CASE ~Start(p)
  <2>1. Working(p) /\ alone' = alone /\ overlapped' = overlapped
    BY <1>2, Turns
  <2>2. \A q \in Procs \ {p} : ~Working(q) /\ ~Working(q)'
    BY <2>1, OthersStill, StillHolds DEF Lone
  <2>3. QED
    BY <2>1, <2>2
<1>3. QED
  BY <1>1, <1>2

LEMMA PinType ==
  ASSUME NEW i \in Index, NEW n \in Names, i[n] # None
  PROVE  <<n, i[n]>> \in Entries
BY DEF Index, Entries

(* An index whose pins are backed is as good after a step.                  *)
LEMMA PinsKept ==
  ASSUME Typed, NEW p \in Procs, Step(p), Good(p), NEW i \in Index, Pins(i),
         at[p] = "remove" => \A e \in rm[p] : e \in spoiled \/ i[e[1]] # e[2]
  PROVE  Pins(i)'
<1> SUFFICES ASSUME NEW n \in Names, i[n] # None
             PROVE  Backed(<<n, i[n]>>)'
  BY DEF Pins
<1>1. PICK e : e = <<n, i[n]>>
  OBVIOUS
<1>2. e \in Entries /\ i[e[1]] = e[2]
  BY <1>1, PinType
<1>3. Backed(e)
  BY <1>1 DEF Pins
<1>4. Backed(e)'
  BY <1>2, <1>3, BackedKept
<1>5. QED
  BY <1>1, <1>4
(* Where a process comes from when it holds pins or takes entries away.     *)
LEMMA Comings ==
  ASSUME Typed, NEW p \in Procs, Step(p)
  PROVE  /\ at'[p] \in {"save", "write"} => Load(p) \/ Truncate(p)
         /\ at'[p] = "load" => Start(p) \/ CopyRest(p) \/ Unstage(p)
         /\ at'[p] = "remove" => Start(p) \/ Load(p) \/ Remove(p)
         /\ UNCHANGED index \/ Truncate(p) \/ Write(p)
<1>1. p \in DOMAIN at
  BY DEF Typed
<1>2. CASE Start(p)
  <2> DEFINE c == scenario[p][ran[p] + 1]
  <2>1. /\ BeginInstall(p, c) \/ BeginGlobal(p, c) \/ BeginPinned(p, c) \/ BeginClean(p, c)
        /\ UNCHANGED index
    BY <1>2 DEF Start
  <2> HIDE DEF c
  <2>2. at'[p] \in {"walk", "stage", "clear", "idle", "load", "remove"}
    BY <1>1, <2>1 DEF BeginInstall, BeginGlobal, BeginPinned, BeginClean, Begin, Goto
  <2>3. QED
    BY <1>2, <2>1, <2>2
<1>3. CASE WalkDir(p) \/ WalkRelease(p)
  <2>1. at'[p] \in {"walk", "idle", "clear", "stage"} /\ UNCHANGED index
    BY <1>1, <1>3 DEF WalkDir, WalkRelease, Goto, Fail, files
  <2>2. QED
    BY <2>1
<1>4. CASE Insert(p) \/ WriteLock(p) \/ Clear(p) \/ Copy(p)
  <2>1. at'[p] \in {"walk", "idle", "clear", "replace", "copy", "rename", "copyRest"} /\ UNCHANGED index
    BY <1>1, <1>4 DEF Insert, WriteLock, Clear, Copy, Goto, files
  <2>2. QED
    BY <2>1
<1>5. CASE Stage(p) \/ Unpack(p) \/ Locate(p) \/ Rename(p) \/ Hash(p)
  <2>1. at'[p] \in {"unpack", "locate", "idle", "replace", "unstage", "walk"} /\ UNCHANGED index
    BY <1>1, <1>5 DEF Stage, Unpack, Locate, Rename, Hash, Goto, Fail, files
  <2>2. QED
    BY <2>1
<1>6. CASE CopyRest(p) \/ Unstage(p)
  <2>1. at'[p] \in {"load", "walk", "hash"} /\ UNCHANGED index
    BY <1>1, <1>6 DEF CopyRest, Unstage, Placed, Goto
  <2>2. QED
    BY <1>6, <2>1
<1>7. CASE Load(p)
  <2>1. at'[p] \in {"remove", "idle", "save"} /\ UNCHANGED index
    BY <1>1, <1>7 DEF Load, Goto, Fail, files
  <2>2. QED
    BY <1>7, <2>1
<1>8. CASE Truncate(p) \/ Write(p)
  <2>1. (at'[p] = "write" /\ Truncate(p)) \/ (at'[p] = "idle" /\ Write(p))
    BY <1>1, <1>8 DEF Truncate, Write, Goto
  <2>2. QED
    BY <2>1
<1>9. CASE Remove(p)
  <2>1. at'[p] \in {"remove", "idle"} /\ UNCHANGED index
    BY <1>1, <1>9 DEF Remove, Goto
  <2>2. QED
    BY <1>9, <2>1
<1>10. CASE Stop(p)
  <2>1. at'[p] = "idle" /\ UNCHANGED index
    BY <1>1, <1>10 DEF Stop, Goto, Fail, files
  <2>2. QED
    BY <2>1
<1>11. QED
  BY <1>2, <1>3, <1>4, <1>5, <1>6, <1>7, <1>8, <1>9, <1>10 DEF Step

(* The index and the index a command is about to write.                     *)
LEMMA IndexPinned ==
  ASSUME Typed, Pinning, ~overlapped, NEW p \in Procs, Step(p), Good(p), index' # Torn
  PROVE  Pins(index)'
<1>1. PICK i : i = index'
  OBVIOUS
<1>2. /\ i \in Index /\ Pins(i)
      /\ at[p] = "remove" => \A e \in rm[p] : e \in spoiled \/ i[e[1]] # e[2]
  <2>1. CASE UNCHANGED index
    <3>1. i = index /\ i # Torn
      BY <1>1, <2>1
    <3>2. QED
      BY <3>1 DEF Pinning, Typed
  <2>2. CASE Write(p)
    <3>1. i = idx[p] /\ at[p] = "write"
      BY <1>1, <2>2 DEF Write
    <3>2. QED
      BY <3>1 DEF Pinning, Typed
  <2>3. ~Truncate(p)
    BY DEF Truncate
  <2>4. QED
    BY <2>1, <2>2, <2>3, Comings
<1>3. Pins(i)'
  BY <1>2, PinsKept
<1>4. QED
  BY <1>1, <1>3 DEF Pins

LEMMA PairParts ==
  ASSUME NEW e \in Entries
  PROVE  e[1] \in Names /\ e[2] \in Versions /\ e = <<e[1], e[2]>>
BY DEF Entries

LEMMA ChangedPins ==
  ASSUME NEW c \in Request, NEW i \in Index, Pins(i),
         c.cmd = "install -g" => Backed(Entry(c.tree)),
         c.cmd = "use -g" => Backed(c.entry)
  PROVE  Pins(Changed(c, i))
<1>1. CASE c.cmd = "install -g"
  <2>1. /\ About[c.tree].name \in Names /\ About[c.tree].ver \in Versions
        /\ Backed(<<About[c.tree].name, About[c.tree].ver>>)
    BY <1>1, TreeType DEF Request, Entry
  <2>2. Changed(c, i) = [i EXCEPT ![About[c.tree].name] = About[c.tree].ver]
    BY <1>1 DEF Changed
  <2>3. QED
    BY <2>1, <2>2 DEF Pins, Index
<1>2. CASE c.cmd = "use -g"
  <2>1. PICK e \in Entries : e = c.entry
    BY <1>2 DEF Request
  <2>2. e[1] \in Names /\ e[2] \in Versions /\ e = <<e[1], e[2]>>
    BY <2>1, PairParts
  <2>3. Changed(c, i) = [i EXCEPT ![e[1]] = e[2]]
    BY <1>2, <2>1 DEF Changed
  <2>4. Backed(<<e[1], e[2]>>)
    BY <1>2, <2>1, <2>2
  <2>5. QED
    BY <2>2, <2>3, <2>4 DEF Pins, Index
<1>3. CASE c.cmd = "uninstall -g"
  <2>1. Changed(c, i) = [i EXCEPT ![c.name] = None]
    BY <1>3 DEF Changed
  <2>2. QED
    BY <2>1 DEF Pins, Index
<1>4. CASE c.cmd \notin {"install -g", "use -g", "uninstall -g"}
  BY <1>4 DEF Changed
<1>5. QED
  BY <1>1, <1>2, <1>3, <1>4
LEMMA SavePinned ==
  ASSUME Typed, Pinning, ~overlapped, NEW p \in Procs, Step(p), Good(p), at'[p] \in {"save", "write"}
  PROVE  Pins(idx[p])'
<1>1. PICK i : i = idx'[p]
  OBVIOUS
<1>2. at[p] # "remove" /\ i \in Index /\ Pins(i)
  <2>1. CASE Truncate(p)
    <3>1. at[p] = "save" /\ idx' = idx
      BY <2>1 DEF Truncate, job
    <3>2. QED
      BY <1>1, <3>1 DEF Pinning, Typed
  <2>2. CASE Load(p)
    <3>1. at[p] = "load" /\ p \in DOMAIN at /\ p \in DOMAIN idx
      BY <2>2 DEF Load, Typed
    <3>2. ~Fail(p)
      BY <3>1 DEF Fail, Goto
    <3>3. index # Torn /\ i = Changed(Command(p), index)
      BY <1>1, <2>2, <3>1, <3>2 DEF Load
    <3>4. Command(p) \in Request /\ index \in Index /\ Pins(index)
      BY <3>1, <3>3, CommandType DEF Working, Pinning, Typed
    <3>5. /\ Command(p).cmd = "install -g" => Backed(Entry(Command(p).tree))
          /\ Command(p).cmd = "use -g" => Backed(Command(p).entry)
      BY <3>1 DEF Pinning, Backed
    <3>6. QED
      BY <3>1, <3>3, <3>4, <3>5, ChangedPins, ChangedType
  <2>3. QED
    BY <2>1, <2>2, Comings
<1>3. Pins(i)'
  BY <1>2, PinsKept
<1>4. QED
  BY <1>1, <1>3 DEF Pins

(* What a command that comes to the index is about to pin is there.         *)
LoadReady(p) ==
  /\ Command(p).cmd = "install -g" => Present(Entry(Command(p).tree))
  /\ Command(p).cmd = "use -g" => Present(Command(p).entry)

LEMMA LoadPinned ==
  ASSUME Typed, HalfMade, Pinning, ~overlapped, NEW p \in Procs, Step(p), at'[p] = "load"
  PROVE  LoadReady(p)'
<1>1. CASE Start(p)
  <2>1. PICK c : c = scenario[p][ran[p] + 1]
    OBVIOUS
  <2>2. /\ BeginInstall(p, c) \/ BeginGlobal(p, c) \/ BeginPinned(p, c) \/ BeginClean(p, c)
        /\ UNCHANGED <<scenario, store>> /\ ran' = [ran EXCEPT ![p] = @ + 1]
        /\ p \in DOMAIN at /\ p \in DOMAIN ran
    BY <1>1, <2>1 DEF Start, Typed
  <2>3. Command(p)' = c
    BY <2>1, <2>2 DEF Command
  <2>4. BeginPinned(p, c)
    BY <2>2 DEF BeginInstall, BeginGlobal, BeginClean, Begin, Goto
  <2>5. c.cmd # "install -g" /\ (c.cmd = "use -g" => Present(c.entry))
    BY <2>2, <2>4 DEF BeginPinned, Begin, Goto
  <2>6. QED
    BY <2>2, <2>3, <2>5 DEF LoadReady, Present
<1>2. CASE CopyRest(p) \/ Unstage(p)
  <2>1. PICK t, e : t = Top(p).tree /\ e = Entry(t)
    OBVIOUS
  <2>2. at[p] \in Placing /\ Working(p) /\ p \in DOMAIN at /\ UNCHANGED <<scenario, ran>>
    BY <1>2 DEF CopyRest, Unstage, Placing, Working, Typed
  <2>3. alone[p]
    BY <2>2 DEF Pinning
  <2>4. store'[e] = WholeOf(t) /\ t \in Trees
    BY <1>2, <2>1, <2>2, <2>3, AtTree, PlacedWhole
  <2>5. Len(stack[p]) = 1
    BY <1>2, <2>2 DEF CopyRest, Unstage, Placed, Goto, Global
  <2>6. Command(p).cmd = "install -g" /\ Command(p).tree = t
    BY <2>1, <2>2, <2>5, AtTree DEF InHand, Top
  <2>7. Command(p)' = Command(p)
    BY <2>2 DEF Command
  <2>8. store'[Entry(Command(p).tree)'] # None
    BY <2>1, <2>4, <2>6, <2>7, TreeType DEF Entry
  <2>9. QED
    BY <2>6, <2>7, <2>8 DEF LoadReady, Present
<1>3. QED
  BY <1>1, <1>2, Comings

(* What gc takes away is not pinned, what clean takes away was given up.    *)
RemovesFree(p) ==
  \A e \in rm[p] : e \in spoiled \/ (index # Torn /\ index[e[1]] # e[2])

LEMMA RemovePinned ==
  ASSUME Typed, Pinning, ~overlapped, NEW p \in Procs, Step(p), at'[p] = "remove"
  PROVE  RemovesFree(p)'
<1>1. p \in DOMAIN at /\ p \in DOMAIN rm
  BY DEF Typed
<1>2. CASE Start(p)
  <2>1. PICK c : c = scenario[p][ran[p] + 1]
    OBVIOUS
  <2>2. BeginInstall(p, c) \/ BeginGlobal(p, c) \/ BeginPinned(p, c) \/ BeginClean(p, c)
    BY <1>2, <2>1 DEF Start
  <2>3. BeginClean(p, c)
    BY <1>1, <2>2 DEF BeginInstall, BeginGlobal, BeginPinned, Begin, Goto
  <2>4. rm'[p] \subseteq spoiled'
    BY <1>1, <2>3 DEF BeginClean, Begin
  <2>5. QED
    BY <2>4 DEF RemovesFree
<1>3. CASE Load(p)
  <2>1. at[p] = "load"
    BY <1>3 DEF Load
  <2>2. ~Fail(p)
    BY <1>1 DEF Fail, Goto
  <2>3. /\ index # Torn /\ UNCHANGED index
        /\ rm'[p] \subseteq {e \in Entries : Orphan(index, e)}
    BY <1>1, <1>3, <2>2 DEF Load, files
  <2>4. \A e \in rm'[p] : index[e[1]] # e[2]
    BY <2>3 DEF Orphan
  <2>5. QED
    BY <2>3, <2>4 DEF RemovesFree
<1>4. CASE Remove(p)
  <2>1. at[p] = "remove" /\ UNCHANGED <<index, spoiled>> /\ rm'[p] \subseteq rm[p]
    BY <1>1, <1>4 DEF Remove, history
  <2>2. RemovesFree(p)
    BY <2>1 DEF RemovesFree, Pinning
  <2>3. QED
    BY <2>1, <2>2 DEF RemovesFree
<1>5. QED
  BY <1>2, <1>3, <1>4, Comings

LEMMA PinningStep ==
  ASSUME Typed, Kept, Pinning, NEW p \in Procs, Step(p)
  PROVE  Pinning'
<1> SUFFICES ASSUME ~overlapped'
             PROVE  Pinning'
  BY DEF Pinning
<1>1. ~overlapped
  BY Turns DEF Start
<1>2. Good(p) /\ \A q \in Procs : Working(q) => alone[q]
  BY <1>1, StepGood DEF Kept, Pinning
<1>3. /\ \A q \in Procs \ {p} : ~Working(q)'
      /\ \A q \in Procs : Working(q)' => alone'[q]
  BY <1>2, Solo DEF Kept
<1>4. \A q \in Procs \ {p} : at'[q] = "idle"
  BY <1>3 DEF Working
<1>5. index' # Torn => Pins(index)'
  BY <1>1, <1>2, IndexPinned
<1>6. ASSUME NEW q \in Procs, at'[q] \in {"save", "write"}
      PROVE  Pins(idx[q])'
  BY <1>1, <1>2, <1>4, <1>6, SavePinned
<1>7. ASSUME NEW q \in Procs, at'[q] = "load"
      PROVE  LoadReady(q)'
  BY <1>1, <1>4, <1>7, LoadPinned DEF Kept
<1>8. ASSUME NEW q \in Procs, at'[q] = "remove"
      PROVE  RemovesFree(q)'
  BY <1>1, <1>4, <1>8, RemovePinned
<1>9. QED
  BY <1>3, <1>5, <1>6, <1>7, <1>8 DEF Pinning, LoadReady, RemovesFree

LEMMA PinningInvariant == Spec => []Pinning
<1>1. Init => Pinning
  <2> SUFFICES ASSUME Init PROVE Pinning
    OBVIOUS
  <2>1. \A q \in Procs : at[q] = "idle" /\ ~Working(q)
    BY DEF Init, Working
  <2>2. Pins(index)
    BY DEF Init, NoPins, Pins
  <2>3. QED
    BY <2>1, <2>2 DEF Pinning
<1>2. ASSUME Pinning, UNCHANGED vars
      PROVE  Pinning'
  <2>1. \A q \in Procs : Touching(q)' = Touching(q) /\ Working(q)' = Working(q) /\ Command(q)' = Command(q)
    BY <1>2, StillHolds DEF vars, Still
  <2>2. Held' = Held /\ UNCHANGED <<store, spoiled, index, idx, at, rm, alone, overlapped>>
    BY <1>2, <2>1 DEF vars, Held
  <2>3. \A e : Backed(e)' <=> Backed(e)
    BY <2>2 DEF Backed, Present
  <2>4. Pins(index)' = Pins(index) /\ \A q \in Procs : Pins(idx[q])' = Pins(idx[q])
    BY <2>2, <2>3 DEF Pins
  <2>5. QED
    BY <1>2, <2>1, <2>2, <2>4 DEF Pinning, Present, Entry
<1>3. Typed /\ Kept /\ Pinning /\ [Next]_vars => Pinning'
  BY <1>2, PinningStep DEF Next, Step
<1>4. QED
  BY <1>1, <1>3, TypedInvariant, KeptInvariant, PTL DEF Spec

(* As long as commands do not overlap, a pin of the global index has a      *)
(* whole package behind it, or an entry that a stopped process or clean     *)
(* left, whatever order of installs, switches, uninstalls and collections.  *)
THEOREM PinsStayBacked == Spec => []PinsBacked
<1>1. Typed /\ Kept /\ Pinning => PinsBacked
  <2> SUFFICES ASSUME Typed, Kept, Pinning, index # Torn, ~overlapped,
                      NEW n \in Names, index[n] # None
               PROVE  LET e == <<n, index[n]>> IN Whole(e) \/ e \in spoiled \cup Held
    BY DEF PinsBacked
  <2>1. PICK e : e = <<n, index[n]>>
    OBVIOUS
  <2>2. e \in Entries
    BY <2>1, PinType DEF Typed
  <2>3. Backed(e)
    BY <2>1 DEF Pinning, Pins
  <2>4. QED
    BY <2>1, <2>2, <2>3 DEF Backed, Kept, EntriesWhole
<1>2. QED
  BY <1>1, TypedInvariant, KeptInvariant, PinningInvariant, PTL

-----------------------------------------------------------------------------
(* The walk of an install that is alone.  A frame has settled all           *)
(* dependencies of its tree but those left in it; a node is what its tree   *)
(* demands; the store has, for the trees of both, what LockHolds asks,      *)
(* except where the process is placing a tree just now: there it must not   *)
(* be one directory for another.                                            *)
Locked(g) == {m.entry : m \in g}
Pinned(m) == m.tree["manifest"]
Known(s, g) == {s[i].tree : i \in 2..Len(s)} \cup {Pinned(m) : m \in g}

FrameGood(f, g, roots) ==
  LET ds == IF f.tree = None THEN roots ELSE About[f.tree].deps
  IN /\ f.tree # None => f.tree \in Reached(roots) /\ f.hash = WholeOf(f.tree)
     /\ Members(f.deps) \subseteq Members(ds)
     /\ \A d \in Members(ds) : d \in Members(f.deps) \/ Entry(d) \in Locked(g)
     /\ f.edges \subseteq Locked(g)

NodeGood(m, g, roots) ==
  LET t == Pinned(m)
  IN /\ t \in Reached(roots) /\ m.tree = WholeOf(t) /\ m.entry = Entry(t)
     /\ Covered(About[t].deps, Locked(g)) /\ m.edges \subseteq Locked(g)

Links(s) == \A i \in 1..(Len(s) - 1) : s[i + 1].tree = Head(s[i].deps)

WalkOK(s, g, roots) ==
  /\ Links(s)
  /\ \A i \in 1..Len(s) : FrameGood(s[i], g, roots)
  /\ \A m \in g : NodeGood(m, g, roots)

(* Whichever of two trees with one entry the store has is right.            *)
Alike(t, u) == t = u \/ About[t].release \/ About[u].release

Stands(t, roots) ==
  \E u \in Reached(roots) : Entry(u) = Entry(t) /\ store[Entry(t)] = WholeOf(u) /\ Alike(t, u)

Standing(p, roots) ==
  \A t \in Known(stack[p], graph[p]) :
    IF at[p] \in Placing /\ Entry(t) = Entry(Top(p).tree)
    THEN Alike(t, Top(p).tree)
    ELSE Stands(t, roots)

Installing(p) == alone[p] /\ stack[p] # <<>> /\ Command(p).cmd \in {"install", "update"}

Resolves(p, roots) ==
  /\ at[p] \in Placing \cup {"walk", "hash", "idle"}
  /\ WalkOK(stack[p], graph[p], roots)
  /\ Standing(p, roots)
  /\ at[p] = "hash" => store[Entry(Top(p).tree)] = WholeOf(Top(p).tree)
  /\ at[p] = "idle" => lock[p] = graph[p] /\ Covered(roots, Locked(graph[p]))

Walking == \A p \in Procs : Installing(p) => Resolves(p, Command(p).roots)

LEMMA ReachedTrees ==
  ASSUME NEW roots \in Seq(Trees)
  PROVE  /\ Members(roots) \subseteq Reached(roots) /\ Reached(roots) \subseteq Trees
         /\ \A u \in Reached(roots) : Members(About[u].deps) \subseteq Reached(roots)
<1>1. \A ds \in Seq(Trees) : Members(ds) \subseteq Trees
  BY ElementOfSeq, LenProperties DEF Members
<1>2. Members(roots) \subseteq Reached(roots) /\ Reached(roots) \subseteq Trees
  BY <1>1 DEF Reached
<1>3. ASSUME NEW u \in Reached(roots), NEW d \in Members(About[u].deps)
      PROVE  d \in Reached(roots)
  <2>1. u \in Trees /\ d \in Trees
    BY <1>1, <1>2, TreesAssumption
  <2>2. ASSUME NEW S \in SUBSET Trees, Members(roots) \subseteq S,
               \A v \in S : Members(About[v].deps) \subseteq S
        PROVE  d \in S
    <3>1. u \in S
      BY <2>2 DEF Reached
    <3>2. QED
      BY <2>2, <3>1
  <2>3. QED
    BY <2>1, <2>2 DEF Reached
<1>4. QED
  BY <1>2, <1>3

LEMMA MembersParts ==
  ASSUME NEW ds \in Seq(Trees)
  PROVE  /\ Members(ds) \subseteq Trees
         /\ ds = <<>> => Members(ds) = {}
         /\ ds # <<>> => Members(ds) = {Head(ds)} \cup Members(Tail(ds))
<1>1. Len(ds) \in Nat /\ Members(ds) = {ds[i] : i \in 1..Len(ds)} /\ Members(ds) \subseteq Trees
  BY LenProperties, ElementOfSeq DEF Members
<1>2. ASSUME ds = <<>>
      PROVE  Members(ds) = {}
  <2>1. Len(ds) = 0
    BY <1>2, EmptySeq
  <2>2. QED
    BY <1>1, <2>1
<1>3. ASSUME ds # <<>>
      PROVE  Members(ds) = {Head(ds)} \cup Members(Tail(ds))
  <2>1. /\ Tail(ds) \in Seq(Trees) /\ Len(Tail(ds)) = Len(ds) - 1
        /\ \A i \in 1..Len(Tail(ds)) : Tail(ds)[i] = ds[i + 1]
    BY <1>3, HeadTailProperties
  <2>2. Len(ds) >= 1 /\ Head(ds) = ds[1]
    BY <1>1, <1>3, EmptySeq
  <2>3. Members(Tail(ds)) = {Tail(ds)[i] : i \in 1..Len(Tail(ds))}
    BY <2>1, LenProperties DEF Members
  <2>4. Members(Tail(ds)) = {ds[i + 1] : i \in 1..(Len(ds) - 1)}
    BY <1>1, <2>1, <2>3
  <2>5. ASSUME NEW i \in 1..Len(ds), i # 1
        PROVE  ds[i] \in Members(Tail(ds))
    <3>1. i - 1 \in 1..(Len(ds) - 1) /\ ds[(i - 1) + 1] = ds[i]
      BY <1>1, <2>5
    <3>2. QED
      BY <2>4, <3>1
  <2>6. Members(ds) \subseteq {Head(ds)} \cup Members(Tail(ds))
    BY <1>1, <2>2, <2>5
  <2>7. \A i \in 1..(Len(ds) - 1) : i + 1 \in 1..Len(ds)
    BY <1>1
  <2>8. {Head(ds)} \cup Members(Tail(ds)) \subseteq Members(ds)
    <3>1. 1 \in 1..Len(ds)
      BY <1>1, <2>2
    <3>2. Head(ds) \in Members(ds)
      BY <1>1, <2>2, <3>1
    <3>3. Members(Tail(ds)) \subseteq Members(ds)
      BY <1>1, <2>4, <2>7
    <3>4. QED
      BY <3>2, <3>3
  <2>9. QED
    BY <2>6, <2>8
<1>4. QED
  BY <1>1, <1>2, <1>3

(* The edge to a dependency leads to a node if any has its name.            *)
LEMMA EdgeMeets ==
  ASSUME NEW g \in SUBSET Node, NEW t \in Trees, Entry(t) \in Locked(g)
  PROVE  FirstOf(g, About[t].name) \in Locked(g)
<1> DEFINE n == About[t].name
           vs == {v \in Versions : \E m \in g : m.entry = <<n, v>>}
           v0 == CHOOSE v \in vs : \A w \in vs : v <= w
<1>1. About[t].ver \in vs
  BY TreeType DEF Locked, Entry
<1>2. \E v \in vs : \A w \in vs : v <= w
  BY <1>1, TreesAssumption, LeastNumber
<1>3. v0 \in vs
  BY <1>2
<1>4. FirstOf(g, n) = <<n, v0>>
  BY <1>1 DEF FirstOf
<1> HIDE DEF v0
<1>5. QED
  BY <1>3, <1>4 DEF Locked

LEMMA FrameGrows ==
  ASSUME NEW f, NEW g, NEW h, NEW roots, FrameGood(f, g, roots), Locked(g) \subseteq Locked(h)
  PROVE  FrameGood(f, h, roots)
BY DEF FrameGood

LEMMA NodeGrows ==
  ASSUME NEW m, NEW g, NEW h, NEW roots, NodeGood(m, g, roots), Locked(g) \subseteq Locked(h)
  PROVE  NodeGood(m, h, roots)
BY DEF NodeGood, Covered

(* The innermost frame replaced by one that is as good.                     *)
LEMMA TopWalks ==
  ASSUME NEW s \in Seq(Frame), Len(s) >= 1, NEW g, NEW roots, WalkOK(s, g, roots),
         NEW f \in Frame, f.tree = s[Len(s)].tree, FrameGood(f, g, roots)
  PROVE  LET r == [s EXCEPT ![Len(s)] = f]
         IN  WalkOK(r, g, roots) /\ Known(r, g) = Known(s, g)
<1> DEFINE r == [s EXCEPT ![Len(s)] = f]
           n == Len(s)
<1>1. n \in Nat /\ n \in 1..n
  BY LenProperties
<1>2. Len(r) = n /\ \A j \in 1..n : r[j] = IF j = n THEN f ELSE s[j]
  BY <1>1, ExceptSeq
<1> HIDE DEF r
<1>3. \A i \in 1..n : r[i].tree = s[i].tree
  BY <1>2
<1>4. Links(r)
  <2>1. ASSUME NEW i \in 1..(n - 1)
        PROVE  r[i + 1].tree = Head(r[i].deps)
    <3>1. i \in 1..n /\ i # n /\ i + 1 \in 1..n
      BY <1>1
    <3>2. r[i] = s[i] /\ r[i + 1].tree = s[i + 1].tree
      BY <1>2, <1>3, <3>1
    <3>3. QED
      BY <3>2 DEF WalkOK, Links
  <2>2. QED
    BY <1>2, <2>1 DEF Links
<1>5. \A i \in 1..Len(r) : FrameGood(r[i], g, roots)
  BY <1>2 DEF WalkOK
<1>6. \A i \in 2..n : r[i].tree = s[i].tree
  BY <1>1, <1>3
<1>7. Known(r, g) = Known(s, g)
  BY <1>2, <1>6 DEF Known
<1>8. QED
  BY <1>4, <1>5, <1>7 DEF WalkOK, r

(* The dependency the walk is at has a node: the frame goes on.             *)
LEMMA SettledHolds ==
  ASSUME NEW s \in Seq(Frame), Len(s) >= 1, NEW g \in SUBSET Node, NEW roots,
         WalkOK(s, g, roots), s[Len(s)].deps # <<>>, Entry(Head(s[Len(s)].deps)) \in Locked(g)
  PROVE  WalkOK(Settled(s, g), g, roots) /\ Known(Settled(s, g), g) = Known(s, g)
<1> DEFINE f == s[Len(s)]
           t == Head(f.deps)
           h == [f EXCEPT !.deps = Tail(@), !.edges = @ \cup {FirstOf(g, About[t].name)}]
<1>1. Len(s) \in 1..Len(s) /\ f \in Frame
  BY LenProperties, ElementOfSeq
<1>2. f.deps \in Seq(Trees) /\ t \in Trees /\ Tail(f.deps) \in Seq(Trees)
  BY <1>1, HeadTailProperties DEF Frame
<1>3. FirstOf(g, About[t].name) \in Locked(g) /\ FirstOf(g, About[t].name) \in Edges
  BY <1>2, EdgeMeets, EdgeType, TreeType
<1>4. /\ h \in Frame /\ h.tree = f.tree /\ h.hash = f.hash /\ h.deps = Tail(f.deps)
      /\ h.edges = f.edges \cup {FirstOf(g, About[t].name)}
  BY <1>1, <1>2, <1>3 DEF Frame
<1>5. Settled(s, g) = [s EXCEPT ![Len(s)] = h]
  BY DEF Settled
<1>6. FrameGood(f, g, roots)
  BY <1>1 DEF WalkOK
<1>7. Members(f.deps) = {t} \cup Members(h.deps) /\ Entry(t) \in Locked(g)
  BY <1>2, <1>4, MembersParts
<1> HIDE DEF h, f, t
<1>8. FrameGood(h, g, roots)
  BY <1>3, <1>4, <1>6, <1>7 DEF FrameGood
<1>9. h.tree = s[Len(s)].tree
  BY <1>4 DEF f
<1>10. h \in Frame
  BY <1>4
<1>11. /\ WalkOK([s EXCEPT ![Len(s)] = h], g, roots)
       /\ Known([s EXCEPT ![Len(s)] = h], g) = Known(s, g)
  BY <1>8, <1>9, <1>10, TopWalks
<1>12. QED
  BY <1>5, <1>11

(* The innermost tree has a node: the walk goes on below it.                *)
LEMMA PoppedHolds ==
  ASSUME NEW s \in Seq(Frame), Len(s) >= 2, Chain(s), NEW g, NEW roots, WalkOK(s, g, roots),
         NEW h \in SUBSET Node, Locked(g) \subseteq Locked(h), \A m \in h : NodeGood(m, h, roots),
         Entry(s[Len(s)].tree) \in Locked(h)
  PROVE  LET r == Settled(SubSeq(s, 1, Len(s) - 1), h)
         IN  WalkOK(r, h, roots) /\ Known(r, h) \subseteq Known(s, g) \cup {Pinned(m) : m \in h}
<1> DEFINE n == Len(s)
           b == SubSeq(s, 1, n - 1)
<1>1. n \in Nat /\ \A i \in 1..(n - 1) : s[i] \in Frame
  BY LenProperties, ElementOfSeq
<1>2. b \in Seq(Frame) /\ Len(b) = n - 1 /\ \A i \in 1..(n - 1) : b[i] = s[i]
  BY <1>1, SubSeqProperties
<1> HIDE DEF b
<1>3. WalkOK(b, h, roots)
  <2>1. \A i \in 1..(n - 1) : FrameGood(s[i], g, roots)
    BY <1>1 DEF WalkOK
  <2>2. \A i \in 1..Len(b) : FrameGood(b[i], h, roots)
    BY <1>2, <2>1, FrameGrows
  <2>3. ASSUME NEW i \in 1..(Len(b) - 1)
        PROVE  b[i + 1].tree = Head(b[i].deps)
    <3>1. i \in 1..(n - 1) /\ i + 1 \in 1..(n - 1)
      BY <1>1, <1>2
    <3>2. QED
      BY <1>2, <3>1 DEF WalkOK, Links
  <2>4. QED
    BY <2>2, <2>3 DEF WalkOK, Links
<1>4. n - 1 \in 1..(n - 1) /\ (n - 1) + 1 = n /\ Len(b) >= 1
  BY <1>1, <1>2
<1>5. b[Len(b)] = s[n - 1] /\ s[n - 1].deps # <<>> /\ s[n].tree = Head(s[n - 1].deps)
  BY <1>2, <1>4 DEF Chain, WalkOK, Links
<1>6. WalkOK(Settled(b, h), h, roots) /\ Known(Settled(b, h), h) = Known(b, h)
  BY <1>2, <1>3, <1>4, <1>5, SettledHolds
<1>7. {b[i].tree : i \in 2..Len(b)} \subseteq Known(s, g)
  <2>1. \A i \in 2..Len(b) : i \in 1..(n - 1) /\ i \in 2..n
    BY <1>1, <1>2
  <2>2. QED
    BY <1>2, <2>1 DEF Known
<1>8. Known(b, h) \subseteq Known(s, g) \cup {Pinned(m) : m \in h}
  BY <1>7 DEF Known
<1>9. QED
  BY <1>6, <1>8 DEF b

(* The walk goes into a dependency.                                         *)
LEMMA PushedHolds ==
  ASSUME NEW s \in Seq(Frame), Len(s) >= 1, NEW g, NEW roots \in Seq(Trees), WalkOK(s, g, roots),
         NEW t, s[Len(s)].deps # <<>>, t = Head(s[Len(s)].deps), s[1].tree = None, Chain(s)
  PROVE  LET r == Append(s, FrameOf(t, About[t].deps))
         IN  WalkOK(r, g, roots) /\ Known(r, g) = Known(s, g) \cup {t}
<1> DEFINE n == Len(s)
           f == FrameOf(t, About[t].deps)
           r == Append(s, f)
<1>1. n \in Nat /\ n \in 1..n /\ s[n] \in Frame
  BY LenProperties, ElementOfSeq
<1>2. s[n].deps \in Seq(Trees) /\ t \in Trees /\ t \in Members(s[n].deps)
  <2>1. s[n].deps \in Seq(Trees)
    BY <1>1 DEF Frame
  <2>2. QED
    BY <2>1, HeadTailProperties, MembersParts
<1>3. t \in Reached(roots)
  <2>1. FrameGood(s[n], g, roots)
    BY <1>1 DEF WalkOK
  <2>2. t \in Members(IF s[n].tree = None THEN roots ELSE About[s[n].tree].deps)
    BY <1>2, <2>1 DEF FrameGood
  <2>3. CASE s[n].tree = None
    BY <2>2, <2>3, ReachedTrees
  <2>4. CASE s[n].tree # None
    <3>1. s[n].tree \in Reached(roots)
      BY <2>1, <2>4 DEF FrameGood
    <3>2. QED
      BY <2>2, <2>4, <3>1, ReachedTrees
  <2>5. QED
    BY <2>3, <2>4
<1>4. t # None /\ About[t].deps \in Seq(Trees)
  BY <1>2, TreeType
<1>5. /\ f \in Frame /\ f.tree = t /\ f.deps = About[t].deps /\ f.hash = WholeOf(t) /\ f.edges = {}
  BY <1>2, <1>4, FrameOfType DEF FrameOf
<1> HIDE DEF f
<1>6. FrameGood(f, g, roots)
  BY <1>3, <1>4, <1>5 DEF FrameGood
<1>7. Len(r) = n + 1 /\ (\A i \in 1..n : r[i] = s[i]) /\ r[n + 1] = f
  BY <1>5, AppendProperties
<1> HIDE DEF r
<1>8. \A i \in 1..Len(r) : FrameGood(r[i], g, roots)
  <2>1. ASSUME NEW i \in 1..(n + 1)
        PROVE  FrameGood(r[i], g, roots)
    <3>1. CASE i = n + 1
      BY <1>6, <1>7, <3>1
    <3>2. CASE i # n + 1
      <4>1. i \in 1..n
        BY <1>1, <3>2
      <4>2. QED
        BY <1>7, <4>1 DEF WalkOK
    <3>3. QED
      BY <3>1, <3>2
  <2>2. QED
    BY <1>7, <2>1
<1>9. Links(r)
  <2>1. ASSUME NEW i \in 1..n
        PROVE  r[i + 1].tree = Head(r[i].deps)
    <3>1. CASE i = n
      BY <1>5, <1>7, <3>1
    <3>2. CASE i # n
      <4>1. i \in 1..(n - 1) /\ i + 1 \in 1..n
        BY <1>1, <3>2
      <4>2. QED
        BY <1>7, <4>1 DEF WalkOK, Links
    <3>3. QED
      BY <3>1, <3>2
  <2>2. Len(r) - 1 = n
    BY <1>1, <1>7
  <2>3. QED
    BY <2>1, <2>2 DEF Links
<1>10. Known(r, g) = Known(s, g) \cup {t}
  <2>1. \A i \in 2..n : i \in 1..n /\ i \in 2..(n + 1)
    BY <1>1
  <2>2. \A i \in 2..(n + 1) : i = n + 1 \/ i \in 2..n
    BY <1>1
  <2>3. n + 1 \in 2..(n + 1)
    BY <1>1
  <2>4. {r[i].tree : i \in 2..(n + 1)} = {s[i].tree : i \in 2..n} \cup {t}
    BY <1>5, <1>7, <2>1, <2>2, <2>3
  <2>5. QED
    BY <1>7, <2>4 DEF Known
<1>11. QED
  BY <1>8, <1>9, <1>10 DEF WalkOK, r, f

(* The innermost tree, all settled, becomes a node.                         *)
Joined(g, f) == {m \in g : m.entry # Entry(f.tree)}
                  \cup {[entry |-> Entry(f.tree), tree |-> f.hash, edges |-> f.edges]}

LEMMA Inserted ==
  ASSUME NEW g \in SUBSET Node, NEW roots, \A m \in g : NodeGood(m, g, roots),
         NEW f \in Frame, f.tree \in Trees, f.deps = <<>>, FrameGood(f, g, roots),
         NEW h, h = Joined(g, f)
  PROVE  /\ \A m \in h : m \in Node
         /\ Locked(g) \subseteq Locked(h) /\ Entry(f.tree) \in Locked(h)
         /\ \A m \in h : NodeGood(m, h, roots)
         /\ \A m \in h : m \in g \/ Pinned(m) = f.tree
<1> DEFINE n == [entry |-> Entry(f.tree), tree |-> f.hash, edges |-> f.edges]
<1>h. h = {m \in g : m.entry # Entry(f.tree)} \cup {n}
  BY DEF Joined
<1>1. n \in Node
  BY TreeType DEF Frame, Node
<1>2. n.entry = Entry(f.tree) /\ n.tree = f.hash /\ n.edges = f.edges
  OBVIOUS
<1> HIDE DEF n
<1>3. Locked(g) \subseteq Locked(h) /\ Entry(f.tree) \in Locked(h) /\ h \in SUBSET Node
  BY <1>h, <1>1, <1>2 DEF Locked
<1>4. f.tree # None /\ "manifest" \in Parts
  BY TreeType DEF Parts
<1>5. f.tree \in Reached(roots) /\ f.hash = WholeOf(f.tree) /\ f.edges \subseteq Locked(g)
  BY <1>4 DEF FrameGood
<1>6. Pinned(n) = f.tree
  BY <1>2, <1>4, <1>5 DEF Pinned, WholeOf
<1>7. Covered(About[f.tree].deps, Locked(g))
  <2>1. Members(f.deps) = {}
    BY MembersParts DEF Frame
  <2>2. QED
    BY <1>4, <2>1 DEF FrameGood, Covered
<1>8. NodeGood(n, g, roots)
  BY <1>2, <1>5, <1>6, <1>7 DEF NodeGood
<1>9. \A m \in h : NodeGood(m, h, roots)
  BY <1>h, <1>3, <1>8, NodeGrows
<1>10. \A m \in h : m \in g \/ Pinned(m) = f.tree
  BY <1>h, <1>6
<1>11. QED
  BY <1>3, <1>9, <1>10

(* What is known has been reached.                                          *)
LEMMA KnownTrees ==
  ASSUME NEW s \in Seq(Frame), Chain(s), NEW g, NEW roots \in Seq(Trees), WalkOK(s, g, roots)
  PROVE  /\ Known(s, g) \subseteq Reached(roots) /\ Known(s, g) \subseteq Trees
         /\ \A t \in Known(s, g) : Entry(t) \in Entries
<1>1. ASSUME NEW i \in 2..Len(s)
      PROVE  s[i].tree \in Reached(roots)
  <2>1. i \in 1..Len(s) /\ s[i].tree \in Trees
    BY LenProperties DEF Chain
  <2>2. FrameGood(s[i], g, roots) /\ s[i].tree # None
    BY <2>1, TreeType DEF WalkOK
  <2>3. QED
    BY <2>2 DEF FrameGood
<1>2. \A m \in g : Pinned(m) \in Reached(roots)
  BY DEF WalkOK, NodeGood
<1>3. Known(s, g) \subseteq Reached(roots)
  BY <1>1, <1>2 DEF Known
<1>4. QED
  BY <1>3, ReachedTrees, TreeType

LEMMA StandsLeft ==
  ASSUME NEW p \in Procs, NEW roots, Standing(p, roots), store' = store,
         at[p] \notin Placing, at'[p] \notin Placing,
         Known(stack'[p], graph'[p]) \subseteq Known(stack[p], graph[p])
  PROVE  Standing(p, roots)'
<1> SUFFICES ASSUME NEW t \in Known(stack'[p], graph'[p])
             PROVE  Stands(t, roots)'
  BY DEF Standing
<1>1. Stands(t, roots)
  BY DEF Standing
<1>2. QED
  BY <1>1 DEF Stands

LEMMA StandsInHand ==
  ASSUME NEW p \in Procs, NEW roots, Standing(p, roots), at[p] \in Placing, at'[p] \in Placing,
         Known(stack[p], graph[p]) \subseteq Trees,
         NEW t, Top(p).tree = t, Top(p)'.tree = t,
         \A x \in Entries : x # Entry(t) => store'[x] = store[x],
         Known(stack'[p], graph'[p]) = Known(stack[p], graph[p])
  PROVE  Standing(p, roots)'
<1> SUFFICES ASSUME NEW u \in Known(stack[p], graph[p])
             PROVE  IF Entry(u) = Entry(t) THEN Alike(u, t) ELSE Stands(u, roots)'
  BY DEF Standing, Entry, Alike
<1>1. IF Entry(u) = Entry(t) THEN Alike(u, t) ELSE Stands(u, roots)
  BY DEF Standing
<1>2. Entry(u) \in Entries
  BY TreeType
<1>3. CASE Entry(u) = Entry(t)
  BY <1>1, <1>3
<1>4. CASE Entry(u) # Entry(t)
  <2>1. store'[Entry(u)] = store[Entry(u)]
    BY <1>2, <1>4
  <2>2. Stands(u, roots)'
    BY <1>1, <1>4, <2>1 DEF Stands, WholeOf, Entry
  <2>3. QED
    BY <1>4, <2>2
<1>5. QED
  BY <1>3, <1>4

LEMMA StandsPlaced ==
  ASSUME NEW p \in Procs, NEW roots, Standing(p, roots), at[p] \in Placing, at'[p] \notin Placing,
         Known(stack[p], graph[p]) \subseteq Trees,
         NEW t \in Reached(roots), Top(p).tree = t, store'[Entry(t)] = WholeOf(t),
         \A x \in Entries : x # Entry(t) => store'[x] = store[x],
         Known(stack'[p], graph'[p]) = Known(stack[p], graph[p])
  PROVE  Standing(p, roots)'
<1> SUFFICES ASSUME NEW u \in Known(stack[p], graph[p])
             PROVE  Stands(u, roots)'
  BY DEF Standing
<1>1. IF Entry(u) = Entry(t) THEN Alike(u, t) ELSE Stands(u, roots)
  BY DEF Standing
<1>2. Entry(u) \in Entries
  BY TreeType
<1>3. CASE Entry(u) = Entry(t)
  <2>1. store'[Entry(u)] = WholeOf(t) /\ Alike(u, t)
    BY <1>1, <1>3
  <2>2. QED
    BY <1>3, <2>1 DEF Stands, WholeOf, Entry
<1>4. CASE Entry(u) # Entry(t)
  <2>1. store'[Entry(u)] = store[Entry(u)]
    BY <1>2, <1>4
  <2>2. QED
    BY <1>1, <1>4, <2>1 DEF Stands, WholeOf, Entry
<1>5. QED
  BY <1>3, <1>4

LEMMA StandsPushed ==
  ASSUME NEW p \in Procs, NEW roots, Standing(p, roots), at[p] \notin Placing, at'[p] \in Placing,
         store' = store, NEW t, Top(p)'.tree = t,
         Known(stack'[p], graph'[p]) = Known(stack[p], graph[p]) \cup {t},
         \A u \in Known(stack[p], graph[p]) : Entry(u) = Entry(t) => Alike(u, t)
  PROVE  Standing(p, roots)'
<1> SUFFICES ASSUME NEW u \in Known(stack[p], graph[p]) \cup {t}
             PROVE  IF Entry(u) = Entry(t) THEN Alike(u, t) ELSE Stands(u, roots)'
  BY DEF Standing, Entry, Alike
<1>1. CASE u = t
  BY <1>1 DEF Alike
<1>2. CASE u # t
  <2>1. Stands(u, roots)
    BY <1>2 DEF Standing
  <2>2. QED
    BY <1>2, <2>1 DEF Stands
<1>3. QED
  BY <1>1, <1>2

-----------------------------------------------------------------------------
(* Where an install that is alone is.                                       *)
LEMMA InstallType ==
  ASSUME Typed, NEW p \in Procs, Working(p), Command(p).cmd \in {"install", "update"}
  PROVE  Command(p).roots \in Seq(Trees)
BY CommandType DEF Request

LEMMA AtInstall ==
  ASSUME Typed, NEW p \in Procs, at[p] \in Placing \cup {"hash"},
         Command(p).cmd \in {"install", "update"}
  PROVE  /\ stack[p] \in Seq(Frame) /\ Chain(stack[p]) /\ Len(stack[p]) \in Nat
         /\ Len(stack[p]) >= 2 /\ stack[p][1].tree = None
         /\ Top(p) \in Frame /\ Top(p).tree \in Trees /\ ~Global(p) /\ Working(p)
         /\ \A g : Top(p).tree \in Known(stack[p], g)
<1>1. /\ stack[p] \in Seq(Frame) /\ Chain(stack[p]) /\ InHand(at[p], stack[p], Command(p))
      /\ Len(stack[p]) \in Nat /\ Len(stack[p]) >= 1
      /\ Top(p) \in Frame /\ Top(p).tree \in Trees /\ Working(p)
  BY AtTree
<1>2. Len(stack[p]) # 1 /\ stack[p][1].tree = None
  <2>1. CASE at[p] = "hash"
    <3>1. Len(stack[p]) >= 2 /\ stack[p][1].tree = None
      BY <1>1, <2>1 DEF InHand
    <3>2. \A n \in Nat : n >= 2 => n # 1
      OBVIOUS
    <3>3. Len(stack[p]) \in Nat
      BY <1>1
    <3>4. QED
      BY <3>1, <3>2, <3>3
  <2>2. CASE at[p] # "hash"
    BY <1>1, <2>2 DEF InHand
  <2>3. QED
    BY <2>1, <2>2
<1>3. Len(stack[p]) >= 2
  <2>1. \A n \in Nat : n >= 1 /\ n # 1 => n >= 2
    OBVIOUS
  <2>2. Len(stack[p]) \in Nat /\ Len(stack[p]) >= 1
    BY <1>1
  <2>3. QED
    BY <1>2, <2>1, <2>2
<1>5. Len(stack[p]) \in 2..Len(stack[p])
  BY <1>1, <1>3
<1>6. \A g : Top(p).tree \in Known(stack[p], g)
  BY <1>5 DEF Known, Top
<1>7. QED
  BY <1>1, <1>2, <1>3, <1>6 DEF Global

(* A step at a tree that stays at it.                                       *)
LEMMA HandResolves ==
  ASSUME Typed, NEW p \in Procs, Command(p).cmd \in {"install", "update"},
         NEW roots \in Seq(Trees), Resolves(p, roots), at[p] \in Placing, at'[p] \in Placing,
         UNCHANGED <<stack, graph>>,
         \A x \in Entries : x # Entry(Top(p).tree) => store'[x] = store[x]
  PROVE  Resolves(p, roots)'
<1>1. PICK t : t = Top(p).tree
  OBVIOUS
<1>2. Top(p)'.tree = t
  BY <1>1 DEF Top
<1>3. Known(stack[p], graph[p]) \subseteq Trees
  BY AtInstall, KnownTrees DEF Resolves
<1>4. Standing(p, roots)'
  BY <1>1, <1>2, <1>3, StandsInHand DEF Resolves
<1>5. at'[p] \notin {"hash", "idle"}
  BY DEF Placing
<1>6. WalkOK(stack[p], graph[p], roots)'
  BY DEF Resolves
<1>7. QED
  BY <1>4, <1>5, <1>6 DEF Resolves

(* Into a dependency, past it, or out.                                      *)
LEMMA PushResolves ==
  ASSUME Typed, NEW p \in Procs, at[p] = "walk", Top(p).deps # <<>>,
         NEW roots \in Seq(Trees), Resolves(p, roots), UNCHANGED <<store, graph>>,
         at'[p] \in {"clear", "stage"}, NEW t, t = Head(Top(p).deps), Push(p, t),
         About[t].release \/ (~Resolved(p, Entry(t)) /\ ~Visiting(p, Entry(t)))
  PROVE  Resolves(p, roots)'
<1>1. /\ stack[p] \in Seq(Frame) /\ Chain(stack[p]) /\ Len(stack[p]) >= 1 /\ Len(stack[p]) \in Nat
      /\ stack[p][1].tree = None /\ Top(p).deps \in Seq(Trees)
  BY AtWalk DEF Shape
<1>2. t \in Trees
  BY <1>1, HeadTailProperties
<1>3. FrameOf(t, About[t].deps) \in Frame /\ FrameOf(t, About[t].deps).tree = t
  BY <1>2, FrameOfType, TreeType
<1>4. PICK s : s = stack[p]
  OBVIOUS
<1>5. PICK r : r = Append(s, FrameOf(t, About[t].deps))
  OBVIOUS
<1>6. stack'[p] = r
  BY <1>4, <1>5 DEF Push, Typed
<1>7. WalkOK(r, graph[p], roots) /\ Known(r, graph[p]) = Known(s, graph[p]) \cup {t}
  BY <1>1, <1>4, <1>5, PushedHolds DEF Resolves, Top
<1>8. Top(p)'.tree = t
  <2>1. PICK f : f = FrameOf(t, About[t].deps)
    OBVIOUS
  <2>2. f \in Frame /\ f.tree = t /\ r = Append(s, f) /\ s \in Seq(Frame)
    BY <1>1, <1>3, <1>4, <1>5, <2>1
  <2>3. Len(r) = Len(s) + 1 /\ r[Len(s) + 1] = f
    BY <2>2, AppendProperties
  <2>4. r[Len(r)].tree = t
    BY <2>2, <2>3
  <2>5. QED
    BY <1>6, <2>4 DEF Top
<1>9. ASSUME NEW u \in Known(s, graph[p]), Entry(u) = Entry(t)
      PROVE  Alike(u, t)
  <2>1. CASE About[t].release
    BY <2>1 DEF Alike
  <2>2. CASE ~Resolved(p, Entry(t)) /\ ~Visiting(p, Entry(t))
    <3>1. ASSUME NEW m \in graph[p], u = Pinned(m)
          PROVE  FALSE
      <4>1. m.entry = Entry(u)
        BY <3>1 DEF Resolves, WalkOK, NodeGood
      <4>2. QED
        BY <1>9, <2>2, <4>1 DEF Resolved
    <3>2. ASSUME NEW i \in 2..Len(s), u = s[i].tree
          PROVE  About[u].release
      BY <1>4, <1>9, <2>2, <3>2 DEF Visiting
    <3>3. QED
      BY <3>1, <3>2 DEF Known, Alike
  <2>3. QED
    BY <2>1, <2>2
<1>10. at[p] \notin Placing /\ at'[p] \in Placing /\ at'[p] \notin {"hash", "idle"}
  BY DEF Placing
<1>11. Standing(p, roots)'
  BY <1>4, <1>6, <1>7, <1>8, <1>9, <1>10, StandsPushed DEF Resolves
<1>12. WalkOK(stack[p], graph[p], roots)'
  BY <1>6, <1>7
<1>13. QED
  BY <1>10, <1>11, <1>12 DEF Resolves

(* A walk that stays at the manifest's or another frame.                    *)
LEMMA WalkOn ==
  ASSUME NEW p \in Procs, at[p] \in {"walk", "hash"}, at'[p] = "walk", store' = store,
         NEW roots, Resolves(p, roots), WalkOK(stack'[p], graph'[p], roots),
         Known(stack'[p], graph'[p]) \subseteq Known(stack[p], graph[p])
  PROVE  Resolves(p, roots)'
<1>1. at[p] \notin Placing /\ at'[p] \notin Placing
  BY DEF Placing
<1>2. Standing(p, roots)'
  BY <1>1, StandsLeft DEF Resolves
<1>3. QED
  BY <1>2 DEF Resolves

LEMMA DirResolves ==
  ASSUME Typed, NEW p \in Procs, WalkDir(p) \/ WalkRelease(p), stack'[p] # <<>>,
         NEW roots \in Seq(Trees), Resolves(p, roots)
  PROVE  Resolves(p, roots)'
<1>1. PICK t : t = Head(Top(p).deps)
  OBVIOUS
<1>2. /\ at[p] = "walk" /\ Top(p).deps # <<>> /\ UNCHANGED <<store, graph>>
  BY DEF WalkDir, WalkRelease, files
<1>3. ~Fail(p)
  BY DEF Fail, Typed
<1>4. \/ Push(p, t) /\ Goto(p, "stage") /\ About[t].release
      \/ /\ Push(p, t) /\ Goto(p, "clear")
         /\ ~Resolved(p, Entry(t)) /\ ~Visiting(p, Entry(t))
      \/ /\ Resolved(p, Entry(t)) /\ stack' = [stack EXCEPT ![p] = Settled(@, graph[p])]
         /\ UNCHANGED at
  <2>1. CASE WalkDir(p)
    BY <1>1, <1>3, <2>1 DEF WalkDir
  <2>2. CASE WalkRelease(p)
    BY <1>1, <1>3, <2>2 DEF WalkRelease
  <2>3. QED
    BY <2>1, <2>2
<1>5. CASE Push(p, t) /\ at'[p] \in {"clear", "stage"}
           /\ (About[t].release \/ (~Resolved(p, Entry(t)) /\ ~Visiting(p, Entry(t))))
  BY <1>1, <1>2, <1>5, PushResolves
<1>6. CASE /\ Resolved(p, Entry(t)) /\ stack' = [stack EXCEPT ![p] = Settled(@, graph[p])]
           /\ UNCHANGED at
  <2>1. stack[p] \in Seq(Frame) /\ Len(stack[p]) >= 1
    BY <1>2, AtWalk
  <2>2. Entry(t) \in Locked(graph[p]) /\ graph[p] \in SUBSET Node
    BY <1>6 DEF Resolved, Locked, Typed
  <2>3. PICK r : r = Settled(stack[p], graph[p])
    OBVIOUS
  <2>4. WalkOK(r, graph[p], roots) /\ Known(r, graph[p]) = Known(stack[p], graph[p])
    BY <1>1, <1>2, <2>1, <2>2, <2>3, SettledHolds DEF Resolves, Top
  <2>5. stack'[p] = r /\ at'[p] = "walk"
    BY <1>2, <1>6, <2>3 DEF Typed
  <2>6. QED
    BY <1>2, <2>4, <2>5, WalkOn
<1>7. QED
  BY <1>4, <1>5, <1>6 DEF Goto, Typed

LEMMA InsertResolves ==
  ASSUME Typed, NEW p \in Procs, Insert(p), NEW roots \in Seq(Trees), Resolves(p, roots)
  PROVE  Resolves(p, roots)'
<1>1. PICK f, s, g : f = Top(p) /\ s = stack[p] /\ g = graph[p]
  OBVIOUS
<1>2. PICK h : h = Joined(g, f)
  OBVIOUS
<1>3. PICK r : r = Settled(SubSeq(s, 1, Len(s) - 1), h)
  OBVIOUS
<1>4. /\ at[p] = "walk" /\ f.deps = <<>> /\ f.tree # None /\ UNCHANGED <<store, at>>
      /\ graph'[p] = h /\ stack'[p] = r
  BY <1>1, <1>2, <1>3 DEF Insert, Popped, Joined, files, Typed
<1>5. /\ s \in Seq(Frame) /\ Chain(s) /\ f \in Frame /\ f.tree \in Trees /\ Len(s) >= 2
      /\ Len(s) \in Nat /\ f = s[Len(s)]
  BY <1>1, <1>4, AtWalk DEF Shape, Top
<1>6. WalkOK(s, g, roots) /\ g \in SUBSET Node
  BY <1>1 DEF Resolves, Typed
<1>7. Len(s) \in 1..Len(s) /\ Len(s) \in 2..Len(s)
  BY <1>5
<1>8. FrameGood(f, g, roots) /\ \A m \in g : NodeGood(m, g, roots)
  BY <1>5, <1>6, <1>7 DEF WalkOK
<1>9. /\ h \in SUBSET Node /\ Locked(g) \subseteq Locked(h) /\ Entry(f.tree) \in Locked(h)
      /\ \A m \in h : NodeGood(m, h, roots)
      /\ \A m \in h : m \in g \/ Pinned(m) = f.tree
  <2>1. f \in Frame /\ f.tree \in Trees /\ f.deps = <<>>
    BY <1>4, <1>5
  <2>2. g \in SUBSET Node
    BY <1>6
  <2>3. h \in SUBSET Node /\ Locked(g) \subseteq Locked(h) /\ Entry(f.tree) \in Locked(h)
    <3>1. \A m \in h : m \in Node
      BY <1>2, <1>8, <2>1, <2>2, Inserted
    <3>2. Locked(g) \subseteq Locked(h)
      BY <1>2, <1>8, <2>1, <2>2, Inserted
    <3>3. Entry(f.tree) \in Locked(h)
      BY <1>2, <1>8, <2>1, <2>2, Inserted
    <3>4. QED
      BY <3>1, <3>2, <3>3
  <2>4. \A m \in h : NodeGood(m, h, roots)
    BY <1>2, <1>8, <2>1, <2>2, Inserted
  <2>5. \A m \in h : m \in g \/ Pinned(m) = f.tree
    BY <1>2, <1>8, <2>1, <2>2, Inserted
  <2>6. QED
    BY <2>3, <2>4, <2>5
<1>10. WalkOK(r, h, roots) /\ Known(r, h) \subseteq Known(s, g) \cup {Pinned(m) : m \in h}
  BY <1>3, <1>5, <1>6, <1>9, PoppedHolds
<1>11. Known(r, h) \subseteq Known(s, g)
  <2>1. f.tree \in Known(s, g) /\ \A m \in g : Pinned(m) \in Known(s, g)
    BY <1>5, <1>7 DEF Known
  <2>2. \A m \in h : Pinned(m) \in Known(s, g)
    BY <1>9, <2>1
  <2>3. QED
    BY <1>10, <2>2
<1>12. QED
  BY <1>1, <1>4, <1>10, <1>11, WalkOn

LEMMA LockResolves ==
  ASSUME Typed, NEW p \in Procs, p \in DOMAIN lock, WriteLock(p), NEW roots \in Seq(Trees), Resolves(p, roots)
  PROVE  Resolves(p, roots)'
<1>1. /\ at[p] = "walk" /\ Top(p).deps = <<>> /\ Top(p).tree = None
      /\ UNCHANGED <<store, stack, graph>> /\ lock' = [lock EXCEPT ![p] = graph[p]]
      /\ at'[p] = "idle" /\ at[p] \notin Placing /\ at'[p] \notin Placing
  BY DEF WriteLock, Goto, job, Typed, Placing
<1>2. Standing(p, roots)'
  BY <1>1, StandsLeft DEF Resolves
<1>3. Len(stack[p]) \in 1..Len(stack[p]) /\ Top(p).deps \in Seq(Trees)
  BY <1>1, AtWalk
<1>4. FrameGood(Top(p), graph[p], roots)
  BY <1>3 DEF Resolves, WalkOK, Top
<1>5. Covered(roots, Locked(graph[p]))
  <2>1. Members(Top(p).deps) = {}
    BY <1>1, <1>3, MembersParts
  <2>2. QED
    BY <1>1, <1>4, <2>1 DEF FrameGood, Covered
<1>6. WalkOK(stack[p], graph[p], roots)'
  BY <1>1 DEF Resolves
<1>7. QED
  BY <1>1, <1>2, <1>5, <1>6 DEF Resolves

(* At a tree.                                                               *)
LEMMA PlacedResolves ==
  ASSUME Typed, HalfMade, NEW p \in Procs, CopyRest(p) \/ Unstage(p), alone[p],
         Command(p).cmd \in {"install", "update"}, NEW roots \in Seq(Trees), Resolves(p, roots)
  PROVE  Resolves(p, roots)'
<1>1. PICK t, e : t = Top(p).tree /\ e = Entry(t)
  OBVIOUS
<1>2. /\ at[p] \in {"copyRest", "unstage"} /\ at[p] \in Placing /\ UNCHANGED <<stack, graph>>
  BY DEF CopyRest, Unstage, Placing, job
<1>3. /\ stack[p] \in Seq(Frame) /\ Chain(stack[p]) /\ t \in Trees /\ ~Global(p)
      /\ t \in Known(stack[p], graph[p])
  BY <1>1, <1>2, AtInstall
<1>4. at'[p] \in {"walk", "hash"} /\ at'[p] \notin Placing /\ at'[p] # "idle"
  <2>1. at'[p] \in {"walk", "hash"}
    BY <1>3 DEF CopyRest, Unstage, Placed, Goto, Typed
  <2>2. QED
    BY <2>1 DEF Placing
<1>5. store'[e] = WholeOf(t)
  BY <1>1, PlacedWhole
<1>6. \A x \in Entries : x # e => store'[x] = store[x]
  BY <1>1 DEF CopyRest, Unstage, Typed
<1>7. Known(stack[p], graph[p]) \subseteq Trees /\ t \in Reached(roots)
  BY <1>3, KnownTrees DEF Resolves
<1>8. Standing(p, roots)'
  BY <1>1, <1>2, <1>4, <1>5, <1>6, <1>7, StandsPlaced DEF Resolves
<1>9. WalkOK(stack[p], graph[p], roots)'
  BY <1>2 DEF Resolves
<1>10. Top(p)'.tree = t
  BY <1>1, <1>2 DEF Top
<1>11. store'[Entry(Top(p)'.tree)] = WholeOf(Top(p)'.tree)
  BY <1>1, <1>5, <1>10
<1>12. at'[p] \in Placing \cup {"walk", "hash", "idle"}
  BY <1>4
<1>13. (store[Entry(Top(p).tree)] = WholeOf(Top(p).tree))'
  BY <1>11 DEF Entry, WholeOf
<1>14. QED
  BY <1>4, <1>8, <1>9, <1>12, <1>13 DEF Resolves

LEMMA HashResolves ==
  ASSUME Typed, NEW p \in Procs, Hash(p), stack'[p] # <<>>,
         Command(p).cmd \in {"install", "update"}, NEW roots \in Seq(Trees), Resolves(p, roots)
  PROVE  Resolves(p, roots)'
<1>1. PICK f, s, g, e : f = Top(p) /\ s = stack[p] /\ g = graph[p] /\ e = Entry(f.tree)
  OBVIOUS
<1>2. at[p] = "hash" /\ UNCHANGED <<store, graph>> /\ ~Fail(p)
  BY DEF Hash, files, Fail, Typed
<1>3. /\ s \in Seq(Frame) /\ Chain(s) /\ Len(s) >= 2 /\ Len(s) \in Nat /\ f \in Frame
      /\ f.tree \in Trees /\ f = s[Len(s)] /\ WalkOK(s, g, roots) /\ g \in SUBSET Node
  BY <1>1, <1>2, AtInstall DEF Resolves, Typed, Top
<1>4. at'[p] = "walk"
  BY <1>2 DEF Hash, Goto, Typed
<1>5. CASE Resolved(p, e) /\ Popped(p, g)
  <2>1. PICK r : r = Settled(SubSeq(s, 1, Len(s) - 1), g)
    OBVIOUS
  <2>2. stack'[p] = r
    BY <1>1, <1>5, <2>1 DEF Popped, Typed
  <2>3. Entry(f.tree) \in Locked(g) /\ \A m \in g : NodeGood(m, g, roots)
    BY <1>1, <1>3, <1>5 DEF Resolved, Locked, WalkOK
  <2>4. WalkOK(r, g, roots) /\ Known(r, g) \subseteq Known(s, g) \cup {Pinned(m) : m \in g}
    BY <1>3, <2>1, <2>3, PoppedHolds
  <2>5. Known(r, g) \subseteq Known(s, g)
    BY <2>4 DEF Known
  <2>6. QED
    BY <1>1, <1>2, <1>4, <2>2, <2>4, <2>5, WalkOn
<1>6. CASE SetTop(p, [f EXCEPT !.hash = store[e]])
  <2>1. PICK h : h = [f EXCEPT !.hash = store[e]]
    OBVIOUS
  <2>2. PICK r : r = [s EXCEPT ![Len(s)] = h]
    OBVIOUS
  <2>3. stack'[p] = r
    BY <1>1, <1>6, <2>1, <2>2 DEF SetTop, Typed
  <2>4. store[e] = WholeOf(f.tree) /\ WholeOf(f.tree) \in Dirs
    BY <1>1, <1>2, <1>3, TreeType DEF Resolves
  <2>5. h \in Frame /\ h.tree = f.tree /\ h.deps = f.deps /\ h.edges = f.edges /\ h.hash = WholeOf(f.tree)
    BY <1>3, <2>1, <2>4 DEF Frame
  <2>6. FrameGood(f, g, roots)
    <3>1. Len(s) \in 1..Len(s)
      BY <1>3
    <3>2. QED
      BY <1>3, <3>1 DEF WalkOK
  <2>7. FrameGood(h, g, roots)
    BY <2>5, <2>6 DEF FrameGood
  <2>8. Len(s) >= 1
    BY <1>3
  <2>9. WalkOK(r, g, roots) /\ Known(r, g) = Known(s, g)
    BY <1>3, <2>2, <2>5, <2>7, <2>8, TopWalks
  <2>10. QED
    BY <1>1, <1>2, <1>4, <2>3, <2>9, WalkOn
<1>7. QED
  BY <1>1, <1>2, <1>5, <1>6 DEF Hash

LEMMA UnpackResolves ==
  ASSUME Typed, NEW p \in Procs, Unpack(p), stack'[p] # <<>>,
         Command(p).cmd \in {"install", "update"}, NEW roots \in Seq(Trees), Resolves(p, roots)
  PROVE  Resolves(p, roots)'
<1>1. PICK f, s, g : f = Top(p) /\ s = stack[p] /\ g = graph[p]
  OBVIOUS
<1>2. at[p] = "unpack" /\ at[p] \in Placing /\ UNCHANGED <<store, graph>> /\ ~Fail(p)
  BY DEF Unpack, Fail, Typed, Placing
<1>3. /\ s \in Seq(Frame) /\ Chain(s) /\ Len(s) >= 2 /\ Len(s) \in Nat /\ f \in Frame
      /\ f.tree \in Trees /\ f = s[Len(s)] /\ WalkOK(s, g, roots)
  BY <1>1, <1>2, AtInstall DEF Resolves, Top
<1>4. PICK q : /\ stack' = [stack EXCEPT ![p][Len(stack[p])] = [f EXCEPT !.left = @ \ {q}]]
               /\ at'[p] \in {"locate", "unpack"}
  BY <1>1, <1>2 DEF Unpack, SetTop, Goto, Typed
<1>5. PICK h : h = [f EXCEPT !.left = @ \ {q}]
  OBVIOUS
<1>6. PICK r : r = [s EXCEPT ![Len(s)] = h]
  OBVIOUS
<1>7. stack'[p] = r
  BY <1>1, <1>4, <1>5, <1>6 DEF Typed
<1>8. h \in Frame /\ h.tree = f.tree /\ h.deps = f.deps /\ h.edges = f.edges /\ h.hash = f.hash
  BY <1>3, <1>5 DEF Frame
<1>9. FrameGood(f, g, roots)
  <2>1. Len(s) \in 1..Len(s)
    BY <1>3
  <2>2. QED
    BY <1>3, <2>1 DEF WalkOK
<1>10. FrameGood(h, g, roots)
  BY <1>8, <1>9 DEF FrameGood
<1>11. Len(s) >= 1 /\ Len(s) \in 1..Len(s)
  BY <1>3
<1>12. WalkOK(r, g, roots) /\ Known(r, g) = Known(s, g)
  BY <1>3, <1>6, <1>8, <1>10, <1>11, TopWalks
<1>13. Len(r) = Len(s) /\ r[Len(s)] = h
  BY <1>3, <1>6, <1>8, <1>11, ExceptSeq
<1>14. PICK t : t = f.tree
  OBVIOUS
<1>15. Top(p)'.tree = t
  BY <1>7, <1>8, <1>13, <1>14 DEF Top
<1>16. at'[p] \in Placing /\ at'[p] \notin {"hash", "idle"}
  BY <1>4 DEF Placing
<1>17. Known(s, g) \subseteq Trees
  BY <1>3, KnownTrees
<1>18. Standing(p, roots)'
  BY <1>1, <1>2, <1>7, <1>12, <1>14, <1>15, <1>16, <1>17, StandsInHand DEF Resolves
<1>19. WalkOK(stack[p], graph[p], roots)'
  BY <1>1, <1>2, <1>7, <1>12
<1>20. QED
  BY <1>16, <1>18, <1>19 DEF Resolves

(* Clearing the entry, copying, staging, looking for the manifest, renaming. *)
LEMMA PlaceResolves ==
  ASSUME Typed, NEW p \in Procs,
         Clear(p) \/ Copy(p) \/ Stage(p) \/ Locate(p) \/ Rename(p), stack'[p] # <<>>,
         Command(p).cmd \in {"install", "update"}, NEW roots \in Seq(Trees), Resolves(p, roots)
  PROVE  Resolves(p, roots)'
<1>1. at[p] \in Placing /\ UNCHANGED graph /\ ~Fail(p)
  BY DEF Clear, Copy, Stage, Locate, Rename, job, Fail, Placing, Typed
<1>2. PICK e \in Entries : e = Entry(Top(p).tree)
  BY <1>1, AtTree
<1>3. \A x \in Entries : x # e => store'[x] = store[x]
  <2>1. CASE Clear(p)
    BY <1>2, <2>1, VanishType DEF Clear
  <2>2. CASE Copy(p)
    BY <1>2, <2>2 DEF Copy, Typed
  <2>3. CASE Stage(p) \/ Locate(p)
    BY <2>3 DEF Stage, Locate, files
  <2>4. CASE Rename(p)
    BY <1>2, <2>4 DEF Rename, Typed
  <2>5. QED
    BY <2>1, <2>2, <2>3, <2>4
<1>4. UNCHANGED stack /\ at'[p] \in {"clear", "replace", "copy", "rename", "copyRest", "unpack", "unstage"}
  <2>1. CASE Clear(p)
    BY <2>1 DEF Clear, Goto, Typed, job
  <2>2. CASE Copy(p) \/ Stage(p)
    BY <2>2 DEF Copy, Stage, Goto, Typed, job
  <2>3. CASE Locate(p)
    BY <1>1, <2>3 DEF Locate, Goto, Typed
  <2>4. CASE Rename(p)
    BY <1>1, <2>4 DEF Rename, Goto, Typed
  <2>5. QED
    BY <2>1, <2>2, <2>3, <2>4
<1>5. at'[p] \in Placing
  BY <1>4 DEF Placing
<1>6. QED
  BY <1>1, <1>2, <1>3, <1>4, <1>5, HandResolves

-----------------------------------------------------------------------------
(* What TypeOK asks beyond Typed.                                           *)
Locks == (SUBSET Node) \cup {None}

Bounded ==
  /\ lock \in [Procs -> Locks]
  /\ stops \in 0..MaxStops
  /\ \A p \in Procs : NoCircle(stack[p])

(* A stack whose trees are those of another, as far as it goes.             *)
LEMMA CircleLess ==
  ASSUME NEW s, NoCircle(s), NEW r, Len(s) \in Nat, Len(r) \in Nat, Len(r) <= Len(s),
         \A i \in 1..Len(r) : r[i].tree = s[i].tree
  PROVE  NoCircle(r)
<1>1. \A i \in 2..Len(r) : i \in 1..Len(r) /\ i \in 2..Len(s)
  OBVIOUS
<1>2. QED
  BY <1>1 DEF NoCircle

LEMMA CircleSettled ==
  ASSUME NEW s \in Seq(Frame), Len(s) >= 1, s[Len(s)].deps # <<>>, NEW g, NoCircle(s)
  PROVE  NoCircle(Settled(s, g))
<1> DEFINE f == s[Len(s)]
           h == [f EXCEPT !.deps = Tail(@), !.edges = @ \cup {FirstOf(g, About[Head(f.deps)].name)}]
<1>1. Len(s) \in Nat /\ Len(s) \in 1..Len(s)
  BY LenProperties
<1>2. f \in Frame
  BY <1>1, ElementOfSeq
<1>3. Head(f.deps) \in Trees /\ Tail(f.deps) \in Seq(Trees)
  BY <1>2, HeadTailProperties DEF Frame
<1>4. FirstOf(g, About[Head(f.deps)].name) \in Edges
  BY <1>3, TreeType, EdgeType
<1>5. h \in Frame /\ h.tree = f.tree
  BY <1>2, <1>3, <1>4 DEF Frame
<1>6. PICK r : r = [s EXCEPT ![Len(s)] = h]
  OBVIOUS
<1>7. Settled(s, g) = r
  BY <1>6 DEF Settled
<1> HIDE DEF h
<1>8. Len(r) = Len(s) /\ \A i \in 1..Len(s) : r[i] = IF i = Len(s) THEN h ELSE s[i]
  BY <1>1, <1>5, <1>6, ExceptSeq
<1>9. \A i \in 1..Len(r) : r[i].tree = s[i].tree
  BY <1>5, <1>8
<1>10. QED
  BY <1>1, <1>7, <1>8, <1>9, CircleLess

LEMMA CirclePopped ==
  ASSUME NEW s \in Seq(Frame), Len(s) >= 2, Chain(s), NEW g, NoCircle(s)
  PROVE  NoCircle(Settled(SubSeq(s, 1, Len(s) - 1), g))
<1>1. Len(s) \in Nat /\ \A i \in 1..(Len(s) - 1) : s[i] \in Frame
  BY LenProperties, ElementOfSeq
<1>2. PICK b : b = SubSeq(s, 1, Len(s) - 1)
  OBVIOUS
<1>3. b \in Seq(Frame) /\ Len(b) = Len(s) - 1 /\ \A i \in 1..(Len(s) - 1) : b[i] = s[i]
  BY <1>1, <1>2, SubSeqProperties
<1>4. NoCircle(b)
  BY <1>1, <1>3, CircleLess
<1>5. Len(b) >= 1 /\ Len(b) \in 1..(Len(s) - 1)
  BY <1>1, <1>3
<1>6. b[Len(b)].deps # <<>>
  BY <1>3, <1>5 DEF Chain
<1>7. QED
  BY <1>2, <1>3, <1>4, <1>5, <1>6, CircleSettled

(* A directory the walk is not in, or a release, on top.                    *)
LEMMA CirclePushed ==
  ASSUME NEW s \in Seq(Frame), NEW f \in Frame, NoCircle(s),
         \/ About[f.tree].release
         \/ \A i \in 2..Len(s) : ~About[s[i].tree].release => Entry(s[i].tree) # Entry(f.tree)
  PROVE  NoCircle(Append(s, f))
<1>1. Len(s) \in Nat
  BY LenProperties
<1>2. PICK r : r = Append(s, f)
  OBVIOUS
<1>3. Len(r) = Len(s) + 1 /\ (\A i \in 1..Len(s) : r[i] = s[i]) /\ r[Len(s) + 1] = f
  BY <1>2, AppendProperties
<1>4. \A i \in 2..Len(r) : i = Len(s) + 1 \/ (i \in 2..Len(s) /\ i \in 1..Len(s))
  BY <1>1, <1>3
<1>5. ASSUME NEW i \in 2..Len(r), NEW j \in 2..Len(r), ~About[r[i].tree].release,
             ~About[r[j].tree].release, Entry(r[i].tree) = Entry(r[j].tree)
      PROVE  i = j
  <2>1. CASE i = Len(s) + 1 /\ j = Len(s) + 1
    BY <2>1
  <2>2. CASE i = Len(s) + 1 /\ j \in 2..Len(s) /\ j \in 1..Len(s)
    BY <1>3, <1>5, <2>2
  <2>3. CASE j = Len(s) + 1 /\ i \in 2..Len(s) /\ i \in 1..Len(s)
    BY <1>3, <1>5, <2>3
  <2>4. CASE i \in 2..Len(s) /\ i \in 1..Len(s) /\ j \in 2..Len(s) /\ j \in 1..Len(s)
    BY <1>3, <1>5, <2>4 DEF NoCircle
  <2>5. QED
    BY <1>4, <2>1, <2>2, <2>3, <2>4
<1>6. QED
  BY <1>2, <1>5 DEF NoCircle

LEMMA CircleKept ==
  ASSUME Typed, NEW p \in Procs, NoCircle(stack[p]), Step(p)
  PROVE  NoCircle(stack'[p])
<1>0. stack[p] \in Seq(Frame) /\ Len(stack[p]) \in Nat /\ p \in DOMAIN stack
  BY LenProperties DEF Typed
<1>1. CASE stack'[p] = <<>> \/ stack'[p] = stack[p] \/ Len(stack'[p]) = 1
  <2>1. \A s : Len(s) = 1 \/ Len(s) = 0 => NoCircle(s)
    BY DEF NoCircle
  <2>2. Len(<<>>) = 0
    BY EmptySeq
  <2>3. QED
    BY <1>1, <2>1, <2>2
<1>2. CASE Start(p)
  <2>1. PICK s : stack' = [stack EXCEPT ![p] = s] /\ (s = <<>> \/ \E f : s = <<f>>)
    BY <1>2 DEF Start, BeginInstall, BeginGlobal, BeginPinned, BeginClean, Begin
  <2>2. stack'[p] = s
    BY <1>0, <2>1
  <2>3. QED
    BY <1>1, <2>1, <2>2
<1>3. CASE WalkDir(p) \/ WalkRelease(p)
  <2>1. PICK t : t = Head(Top(p).deps)
    OBVIOUS
  <2>2. at[p] = "walk" /\ Top(p).deps # <<>>
    BY <1>3 DEF WalkDir, WalkRelease
  <2>3. Len(stack[p]) >= 1 /\ Top(p).deps \in Seq(Trees) /\ Top(p) = stack[p][Len(stack[p])]
    BY <2>2, AtWalk DEF Top
  <2>4. t \in Trees /\ FrameOf(t, About[t].deps) \in Frame /\ FrameOf(t, About[t].deps).tree = t
    <3>1. t \in Trees
      BY <2>1, <2>2, <2>3, HeadTailProperties
    <3>2. QED
      BY <3>1, FrameOfType, TreeType
  <2>5. CASE stack' = [stack EXCEPT ![p] = Settled(@, graph[p])]
    <3>1. stack'[p] = Settled(stack[p], graph[p])
      BY <1>0, <2>5
    <3>2. QED
      BY <1>0, <2>2, <2>3, <3>1, CircleSettled
  <2>6. CASE Push(p, t) /\ (About[t].release \/ ~Visiting(p, Entry(t)))
    <3>1. PICK f : f = FrameOf(t, About[t].deps)
      OBVIOUS
    <3>2. stack'[p] = Append(stack[p], f)
      BY <1>0, <2>6, <3>1 DEF Push
    <3>3. \/ About[f.tree].release
          \/ \A i \in 2..Len(stack[p]) :
               ~About[stack[p][i].tree].release => Entry(stack[p][i].tree) # Entry(f.tree)
      BY <2>4, <2>6, <3>1 DEF Visiting
    <3>4. f \in Frame
      BY <2>4, <3>1
    <3>5. QED
      BY <1>0, <3>2, <3>3, <3>4, CirclePushed
  <2>7. CASE Fail(p)
    BY <1>0, <1>1, <2>7 DEF Fail
  <2>8. QED
    BY <1>3, <2>1, <2>5, <2>6, <2>7 DEF WalkDir, WalkRelease
<1>4. ASSUME NEW g, Popped(p, g), at[p] = "hash" \/ (at[p] = "walk" /\ Top(p).tree # None)
      PROVE  NoCircle(stack'[p])
  <2>1. Len(stack[p]) >= 2 /\ Chain(stack[p])
    <3>1. CASE at[p] = "hash"
      BY <3>1 DEF Typed, Shape, InHand
    <3>2. CASE at[p] = "walk" /\ Top(p).tree # None
      BY <3>2, AtWalk DEF Shape
    <3>3. QED
      BY <1>4, <3>1, <3>2
  <2>2. stack'[p] = Settled(SubSeq(stack[p], 1, Len(stack[p]) - 1), g)
    BY <1>0, <1>4 DEF Popped
  <2>3. QED
    BY <1>0, <2>1, <2>2, CirclePopped
<1>5. ASSUME NEW f, SetTop(p, f), f.tree = Top(p).tree, at[p] \in Placing \cup {"hash"}, f \in Frame
      PROVE  NoCircle(stack'[p])
  <2>1. Len(stack[p]) \in 1..Len(stack[p])
    BY <1>0, <1>5, AtTree
  <2>2. PICK r : r = [stack[p] EXCEPT ![Len(stack[p])] = f]
    OBVIOUS
  <2>3. stack'[p] = r
    BY <1>0, <1>5, <2>2 DEF SetTop
  <2>4. Len(r) = Len(stack[p]) /\ \A i \in 1..Len(stack[p]) : r[i] = IF i = Len(stack[p]) THEN f ELSE stack[p][i]
    BY <1>0, <1>5, <2>1, <2>2, ExceptSeq
  <2>5. \A i \in 1..Len(r) : r[i].tree = stack[p][i].tree
    BY <1>5, <2>4 DEF Top
  <2>6. QED
    BY <1>0, <2>3, <2>4, <2>5, CircleLess
<1>6. CASE Insert(p)
  BY <1>4, <1>6 DEF Insert
<1>7. CASE Hash(p)
  <2>1. at[p] = "hash" /\ Top(p) \in Frame /\ Entry(Top(p).tree) \in Entries
    BY <1>7, AtTree DEF Hash
  <2>2. CASE Popped(p, graph[p])
    BY <1>4, <2>1, <2>2
  <2>3. CASE Present(Entry(Top(p).tree)) /\ SetTop(p, [Top(p) EXCEPT !.hash = store[Entry(Top(p).tree)]])
    <3>1. PICK f : f = [Top(p) EXCEPT !.hash = store[Entry(Top(p).tree)]]
      OBVIOUS
    <3>2. store[Entry(Top(p).tree)] \in Dirs
      BY <2>1, <2>3 DEF Present, Typed
    <3>3. f \in Frame /\ f.tree = Top(p).tree
      BY <2>1, <3>1, <3>2 DEF Frame
    <3>4. QED
      BY <1>5, <2>1, <2>3, <3>1, <3>3
  <2>4. CASE Fail(p)
    BY <1>0, <1>1, <2>4 DEF Fail
  <2>5. QED
    BY <1>7, <2>2, <2>3, <2>4 DEF Hash
<1>8. CASE Unpack(p)
  <2>1. at[p] \in Placing /\ Top(p) \in Frame
    <3>1. at[p] \in Placing
      BY <1>8 DEF Unpack, Placing
    <3>2. QED
      BY <3>1, AtTree
  <2>2. CASE Fail(p)
    BY <1>0, <1>1, <2>2 DEF Fail
  <2>3. ASSUME NEW q, SetTop(p, [Top(p) EXCEPT !.left = @ \ {q}])
        PROVE  NoCircle(stack'[p])
    <3>1. PICK f : f = [Top(p) EXCEPT !.left = @ \ {q}]
      OBVIOUS
    <3>2. f \in Frame /\ f.tree = Top(p).tree
      BY <2>1, <3>1 DEF Frame
    <3>3. QED
      BY <1>5, <2>1, <2>3, <3>1, <3>2
  <2>4. QED
    BY <1>8, <2>2, <2>3 DEF Unpack
<1>9. CASE Locate(p) \/ Rename(p) \/ Load(p) \/ Stop(p)
  BY <1>0, <1>1, <1>9 DEF Locate, Rename, Load, Stop, Fail
<1>10. CASE WriteLock(p) \/ Clear(p) \/ Copy(p) \/ CopyRest(p) \/ Stage(p) \/ Unstage(p)
            \/ Truncate(p) \/ Write(p) \/ Remove(p)
  BY <1>1, <1>10 DEF WriteLock, Clear, Copy, CopyRest, Stage, Unstage, Truncate, Write, Remove, job
<1>11. QED
  BY <1>2, <1>3, <1>6, <1>7, <1>8, <1>9, <1>10 DEF Step

LEMMA BoundedStep ==
  ASSUME Typed, Bounded, NEW p \in Procs, Step(p)
  PROVE  Bounded'
<1>1. lock' \in [Procs -> Locks]
  <2>1. CASE Start(p)
    <3>1. lock' = lock \/ lock' = [lock EXCEPT ![p] = None]
      BY <2>1 DEF Start, BeginInstall, BeginGlobal, BeginPinned, BeginClean
    <3>2. None \in Locks
      BY DEF Locks
    <3>3. QED
      BY <3>1, <3>2 DEF Bounded
  <2>2. CASE WriteLock(p)
    <3>1. graph[p] \in Locks
      BY DEF Locks, Typed
    <3>2. QED
      BY <2>2, <3>1 DEF WriteLock, Bounded
  <2>3. CASE ~Start(p) /\ ~WriteLock(p)
    <3>1. lock' = lock
      BY <2>3 DEF Step, WalkDir, WalkRelease, Insert, Clear, Copy, CopyRest, Stage, Unpack,
            Locate, Rename, Unstage, Hash, Load, Truncate, Write, Remove, Stop, files
    <3>2. QED
      BY <3>1 DEF Bounded
  <2>4. QED
    BY <2>1, <2>2, <2>3
<1>2. stops' \in 0..MaxStops
  <2>1. stops' = stops \/ (stops < MaxStops /\ stops' = stops + 1)
    BY DEF Step, Start, WalkDir, WalkRelease, Insert, WriteLock, Clear, Copy, CopyRest, Stage,
           Unpack, Locate, Rename, Unstage, Hash, Load, Truncate, Write, Remove, Stop
  <2>2. QED
    BY <2>1, ValuesAssumption DEF Bounded
<1>3. ASSUME NEW q \in Procs
      PROVE  NoCircle(stack'[q])
  <2>1. CASE q = p
    BY <2>1, CircleKept DEF Bounded
  <2>2. CASE q # p
    BY <2>2, OthersStill DEF Still, Bounded
  <2>3. QED
    BY <2>1, <2>2
<1>4. QED
  BY <1>1, <1>2, <1>3 DEF Bounded

LEMMA BoundedInvariant == Spec => []Bounded
<1>1. Init => Bounded
  <2>1. \A s : Len(s) = 0 => NoCircle(s)
    BY DEF NoCircle
  <2>2. NoCircle(<<>>)
    BY <2>1, EmptySeq
  <2>3. Init => \A p \in Procs : NoCircle(stack[p])
    BY <2>2 DEF Init
  <2>4. None \in Locks
    BY DEF Locks
  <2>5. Init => lock \in [Procs -> Locks]
    BY <2>4 DEF Init
  <2>6. Init => stops \in 0..MaxStops
    BY ValuesAssumption DEF Init
  <2>7. QED
    BY <2>3, <2>5, <2>6 DEF Bounded
<1>2. Typed /\ Bounded /\ [Next]_vars => Bounded'
  <2>1. Bounded /\ UNCHANGED vars => Bounded'
    BY DEF Bounded, vars
  <2>2. QED
    BY <2>1, BoundedStep DEF Next, Step
<1>3. QED
  BY <1>1, <1>2, TypedInvariant, PTL DEF Spec

(* Every variable keeps its type, and the resolver is in no directory       *)
(* twice, whatever packages there are and whatever releases lie between     *)
(* (Visiting, resolver.rs).                                                 *)
THEOREM TypeCorrect == Spec => []TypeOK
<1>1. Typed /\ Bounded => TypeOK
  <2> SUFFICES ASSUME Typed, Bounded PROVE TypeOK
    OBVIOUS
  <2>1. ASSUME NEW p \in Procs
        PROVE  ran[p] \in 0..Len(scenario[p])
    <3>1. scenario[p] \in Seq(Request)
      BY CommandsAssumption DEF Typed
    <3>2. QED
      BY <3>1, LenProperties DEF Typed
  <2>2. \A p \in Procs : lock[p] = None \/ lock[p] \in SUBSET Node
    <3>1. \A p \in Procs : lock[p] \in Locks
      BY DEF Bounded
    <3>2. QED
      BY <3>1 DEF Locks
  <2>3. \A p \in Procs : stack[p] \in Seq(Frame) /\ NoCircle(stack[p])
    BY DEF Typed, Bounded
  <2>4. stops \in 0..MaxStops
    BY DEF Bounded
  <2>5. QED
    BY <2>1, <2>2, <2>3, <2>4 DEF Typed, TypeOK
<1>2. QED
  BY <1>1, TypedInvariant, BoundedInvariant, PTL

-----------------------------------------------------------------------------
LEMMA StartResolves ==
  ASSUME Typed, NEW p \in Procs, Start(p), NEW c, c = scenario[p][ran[p] + 1],
         BeginInstall(p, c), c.roots \in Seq(Trees)
  PROVE  Resolves(p, c.roots)'
<1>1. PICK f : f = FrameOf(None, c.roots)
  OBVIOUS
<1>2. PICK roots \in Seq(Trees) : roots = c.roots
  OBVIOUS
<1>3. f.tree = None /\ f.deps = roots /\ f.edges = {}
  BY <1>1, <1>2 DEF FrameOf
<1>4. at'[p] = "walk" /\ stack'[p] = <<f>> /\ graph'[p] = {}
  BY <1>1, <1>2 DEF Start, BeginInstall, Begin, Goto, Typed
<1>5. FrameGood(f, {}, roots)
  BY <1>3 DEF FrameGood
<1>6. Len(<<f>>) = 1 /\ <<f>>[1] = f
  OBVIOUS
<1>7. WalkOK(<<f>>, {}, roots)
  BY <1>5, <1>6 DEF WalkOK, Links
<1>8. Known(<<f>>, {}) = {}
  BY <1>6 DEF Known
<1>9. Standing(p, roots)'
  BY <1>4, <1>8 DEF Standing
<1>10. Resolves(p, roots)'
  BY <1>4, <1>7, <1>9 DEF Resolves
<1>11. QED
  BY <1>2, <1>10

LEMMA WalkingStep ==
  ASSUME Typed, Kept, Bounded, Walking, NEW p \in Procs, Step(p)
  PROVE  Walking'
<1> SUFFICES ASSUME NEW q \in Procs, alone'[q], stack'[q] # <<>>, Command(q)'.cmd \in {"install", "update"}
             PROVE  Resolves(q, Command(q).roots)'
  BY DEF Walking, Installing
<1>1. CASE Start(p)
  <2>1. q = p
    BY <1>1 DEF Start
  <2>2. PICK c : c = scenario[p][ran[p] + 1]
    OBVIOUS
  <2>3. Command(p)' = c
    BY <1>1, <2>2 DEF Start, Command, Typed
  <2>4. BeginInstall(p, c)
    BY <1>1, <2>1, <2>2, <2>3 DEF Start, BeginGlobal, BeginPinned, BeginClean
  <2>5. c.roots \in Seq(Trees)
    <3>1. scenario[p] \in Seq(Request) /\ ran[p] \in Nat
      BY CommandsAssumption DEF Typed
    <3>2. ran[p] + 1 \in 1..Len(scenario[p])
      BY <1>1, <3>1, LenProperties DEF Start
    <3>3. c \in Request
      BY <2>2, <3>1, <3>2, ElementOfSeq
    <3>4. QED
      BY <2>4, <3>3 DEF BeginInstall, Request
  <2>6. Resolves(p, c.roots)'
    BY <1>1, <2>2, <2>4, <2>5, StartResolves
  <2>7. QED
    BY <2>1, <2>3, <2>6 DEF Start
<1>2. CASE ~Start(p)
  <2>1. Working(p) /\ UNCHANGED <<scenario, ran, alone, overlapped>>
    BY <1>2, Turns
  <2>2. q = p
    BY <2>1 DEF Kept, Lone
  <2>3. Command(p)' = Command(p) /\ Command(p).cmd \in {"install", "update"} /\ alone[p]
    BY <2>1, <2>2 DEF Command
  <2>4. PICK roots \in Seq(Trees) : roots = Command(p).roots
    BY <2>1, <2>3, InstallType
  <2>5. ASSUME stack[p] # <<>>
        PROVE  Resolves(p, roots)
    BY <2>3, <2>4, <2>5 DEF Walking, Installing
  <2>6. ASSUME at[p] \in Placing \cup {"walk", "hash"}
        PROVE  stack[p] # <<>>
    <3>1. Len(stack[p]) >= 1
      <4>1. CASE at[p] = "walk"
        BY <4>1, AtWalk
      <4>2. CASE at[p] \in Placing \cup {"hash"}
        BY <4>2, AtTree
      <4>3. QED
        BY <2>6, <4>1, <4>2
    <3>2. QED
      BY <3>1, EmptySeq
  <2>7. CASE WalkDir(p) \/ WalkRelease(p)
    <3>1. Resolves(p, roots)
      BY <2>5, <2>6, <2>7 DEF WalkDir, WalkRelease
    <3>2. QED
      BY <2>2, <2>3, <2>4, <2>7, <3>1, DirResolves
  <2>8. CASE Insert(p) \/ WriteLock(p)
    <3>1. Resolves(p, roots) /\ p \in DOMAIN lock
      BY <2>5, <2>6, <2>8 DEF Insert, WriteLock, Bounded
    <3>2. Resolves(p, roots)'
      BY <2>8, <3>1, InsertResolves, LockResolves
    <3>3. QED
      BY <2>2, <2>3, <2>4, <3>2
  <2>9. CASE CopyRest(p) \/ Unstage(p)
    <3>1. Resolves(p, roots)
      BY <2>5, <2>6, <2>9 DEF CopyRest, Unstage, Placing
    <3>2. Resolves(p, roots)'
      BY <2>3, <2>9, <3>1, PlacedResolves DEF Kept
    <3>3. QED
      BY <2>2, <2>3, <2>4, <3>2
  <2>10. CASE Hash(p) \/ Unpack(p)
    <3>1. Resolves(p, roots)
      BY <2>5, <2>6, <2>10 DEF Hash, Unpack, Placing
    <3>2. Resolves(p, roots)'
      BY <2>2, <2>3, <2>10, <3>1, HashResolves, UnpackResolves
    <3>3. QED
      BY <2>2, <2>3, <2>4, <3>2
  <2>11. CASE Clear(p) \/ Copy(p) \/ Stage(p) \/ Locate(p) \/ Rename(p)
    <3>1. at[p] \in Placing
      BY <2>11 DEF Clear, Copy, Stage, Locate, Rename, Placing
    <3>2. Resolves(p, roots)
      BY <2>5, <2>6, <3>1
    <3>3. Resolves(p, roots)'
      BY <2>2, <2>3, <2>11, <3>2, PlaceResolves
    <3>4. QED
      BY <2>2, <2>3, <2>4, <3>3
  <2>12. CASE Load(p) \/ Truncate(p) \/ Write(p) \/ Remove(p)
    <3>1. at[p] \in {"load", "save", "write", "remove"}
      BY <2>12 DEF Load, Truncate, Write, Remove
    <3>2. stack'[p] = stack[p]
      <4>1. ~Fail(p)
        BY <2>2 DEF Fail, Typed
      <4>2. QED
        BY <2>12, <4>1 DEF Load, Truncate, Write, Remove, job
    <3>3. Resolves(p, roots)
      BY <2>2, <2>5, <3>2
    <3>4. QED
      BY <3>1, <3>3 DEF Resolves, Placing
  <2>13. CASE Stop(p)
    BY <2>2, <2>13 DEF Stop, Fail, Typed
  <2>14. QED
    BY <1>2, <2>7, <2>8, <2>9, <2>10, <2>11, <2>12, <2>13 DEF Step
<1>3. QED
  BY <1>1, <1>2

LEMMA WalkingInvariant == Spec => []Walking
<1>1. Init => Walking
  BY DEF Init, Walking, Installing
<1>2. Typed /\ Kept /\ Bounded /\ Walking /\ [Next]_vars => Walking'
  <2>1. ASSUME Walking, UNCHANGED vars
        PROVE  Walking'
    <3>1. ASSUME NEW p \in Procs, Installing(p)'
          PROVE  Resolves(p, Command(p).roots)'
      <4>1. Command(p)' = Command(p) /\ Installing(p) /\ Top(p)' = Top(p)
        BY <2>1, <3>1 DEF vars, Command, Installing, Top
      <4>2. PICK roots : roots = Command(p).roots
        OBVIOUS
      <4>3. Resolves(p, roots)
        BY <2>1, <4>1, <4>2 DEF Walking
      <4>4. Standing(p, roots)'
        BY <2>1, <4>1, <4>3 DEF vars, Resolves, Standing, Stands, Entry, Alike, WholeOf
      <4>5. WalkOK(stack[p], graph[p], roots)'
        BY <2>1, <4>3 DEF vars, Resolves
      <4>6. Resolves(p, roots)'
        BY <2>1, <4>1, <4>3, <4>4, <4>5 DEF vars, Resolves, Entry, WholeOf
      <4>7. QED
        BY <4>1, <4>2, <4>6
    <3>2. QED
      BY <3>1 DEF Walking
  <2>2. QED
    BY <2>1, WalkingStep DEF Next, Step
<1>3. QED
  BY <1>1, <1>2, TypedInvariant, KeptInvariant, BoundedInvariant, PTL DEF Spec

(* What LockHolds says of a lock g.                                         *)
Closed(g, locked, roots) ==
  /\ Covered(roots, locked)
  /\ \A m \in g : \E t, u \in Reached(roots) :
       /\ m.entry = Entry(t) /\ m.tree = WholeOf(t)
       /\ Covered(About[t].deps, locked) /\ m.edges \subseteq locked
       /\ Entry(u) = Entry(t) /\ store[m.entry] = WholeOf(u)
       /\ u = t \/ About[t].release \/ About[u].release

(* When an install that ran alone has succeeded, the lock is closed under   *)
(* the dependencies of what it pins, and the store holds it, whatever had   *)
(* been left there before: for any packages, however their names, versions  *)
(* and dependencies fall together (Resolver::resolve, resolver.rs).         *)
THEOREM LocksHold == Spec => []LockHolds
<1>1. Typed /\ Walking => LockHolds
  <2> SUFFICES ASSUME Typed, Walking PROVE LockHolds
    OBVIOUS
  <2>1. ASSUME NEW p \in Procs, ~Working(p), alone[p], stack[p] # <<>>,
               Command(p).cmd \in {"install", "update"}
        PROVE  Closed(lock[p], Locked(lock[p]), Command(p).roots)
    <3>1. PICK roots : roots = Command(p).roots
      OBVIOUS
    <3>2. PICK g : g = graph[p]
      OBVIOUS
    <3>3. PICK locked : locked = Locked(g)
      OBVIOUS
    <3>4. Resolves(p, roots) /\ at[p] = "idle" /\ at[p] \notin Placing
      BY <2>1, <3>1 DEF Walking, Installing, Working, Placing
    <3>5. lock[p] = g /\ Covered(roots, locked)
      BY <3>2, <3>3, <3>4 DEF Resolves
    <3>6. ASSUME NEW m \in g
          PROVE  \E t, u \in Reached(roots) :
                   /\ m.entry = Entry(t) /\ m.tree = WholeOf(t)
                   /\ Covered(About[t].deps, locked) /\ m.edges \subseteq locked
                   /\ Entry(u) = Entry(t) /\ store[m.entry] = WholeOf(u)
                   /\ u = t \/ About[t].release \/ About[u].release
      <4>1. PICK t : t = Pinned(m)
        OBVIOUS
      <4>2. /\ t \in Reached(roots) /\ m.entry = Entry(t) /\ m.tree = WholeOf(t)
            /\ Covered(About[t].deps, locked) /\ m.edges \subseteq locked
        BY <3>2, <3>3, <3>4, <4>1 DEF Resolves, WalkOK, NodeGood
      <4>3. t \in Known(stack[p], g)
        BY <4>1 DEF Known
      <4>4. Stands(t, roots)
        BY <3>2, <3>4, <4>3 DEF Resolves, Standing
      <4>5. PICK u \in Reached(roots) :
              /\ Entry(u) = Entry(t) /\ store[Entry(t)] = WholeOf(u)
              /\ u = t \/ About[t].release \/ About[u].release
        BY <4>4 DEF Stands, Alike
      <4>6. QED
        BY <4>2, <4>5
    <3>7. Closed(g, locked, roots)
      BY <3>5, <3>6 DEF Closed
    <3>8. QED
      BY <3>1, <3>3, <3>5, <3>7
  <2>2. QED
    BY <2>1 DEF LockHolds, Closed, Locked
<1>2. QED
  BY <1>1, TypedInvariant, WalkingInvariant, PTL

=============================================================================
