------------------------- MODULE ScriptCacheProofs -------------------------
(* Theorems about ScriptCache, for any processes, scripts, builds, releases *)
(* and preludes.                                                            *)
EXTENDS ScriptCache, TLAPS

Busy == {"load", "miss", "stat", "put", "write", "run", "replay"}

(* What a process has at each place of a run.                               *)
Placed ==
    \A p \in Procs :
        /\ pc[p] \in Busy => Script(p) \in Scripts
        /\ pc[p] \in {"stat", "put", "write", "replay"} => chunk[p] \in Chunks
        /\ pc[p] \in {"put", "write", "replay"} => mtime[p] \in Versions
        /\ pc[p] = "write" => draft[p] \in Shards

-----------------------------------------------------------------------------
LEMMA StampType ==
    ASSUME TypeOK, NEW p \in Procs
    PROVE  BinaryStamp(p) \in Bins \cup {NoStamp}
BY DEF TypeOK, BinaryStamp

LEMMA MappedType ==
    ASSUME TypeOK, NEW p \in Procs
    PROVE  Mapped(p) = None \/ Mapped(p) \in Shards
BY DEF TypeOK, Mapped

(* A candidate is an entry of the image it was looked up in.                *)
LEMMA CandidateIsEntry ==
    ASSUME NEW p \in Procs, NEW m, m = None \/ m \in Shards, Script(p) \in Scripts,
           Candidate(p, m) # None
    PROVE  /\ m \in Shards /\ Candidate(p, m) = m.entries[Script(p)]
           /\ Candidate(p, m) \in Entries
           /\ Candidate(p, m).mtime = source[Script(p)]
BY DEF Candidate, Shards

LEMMA OwnedType ==
    ASSUME TypeOK, NEW p \in Procs
    PROVE  OwnedShard(p) \in Shards
<1>1. CASE shard # None /\ shard.release = Release(bin[p])
    BY <1>1 DEF OwnedShard, TypeOK
<1>2. CASE ~(shard # None /\ shard.release = Release(bin[p]))
    <2>1. OwnedShard(p) = [release |-> Release(bin[p]), entries |-> NoEntries]
        BY <1>2 DEF OwnedShard
    <2>2. Release(bin[p]) \in {Release(b) : b \in Bins}
        BY DEF TypeOK
    <2>3. NoEntries \in [Scripts -> Entries \cup {None}]
        BY DEF NoEntries
    <2>4. QED
        BY <2>1, <2>2, <2>3 DEF Shards
<1>3. QED
    BY <1>1, <1>2

(* One entry of a shard replaced.                                           *)
LEMMA PutOne ==
    ASSUME NEW d \in Shards, NEW s \in Scripts, NEW e \in Entries
    PROVE  LET n == [d EXCEPT !.entries[s] = e] IN
           /\ n \in Shards /\ n.release = d.release
           /\ n.entries[s] = e
           /\ \A r \in Scripts \ {s} : n.entries[r] = d.entries[r]
BY DEF Shards

(* The entry put() makes of what the process has.                           *)
LEMMA NewEntry ==
    ASSUME TypeOK, Placed, NEW p \in Procs, pc[p] = "put"
    PROVE  /\ Script(p) \in Scripts
           /\ [mtime |-> mtime[p], stamp |-> BinaryStamp(p), chunk |-> chunk[p]] \in Entries
BY StampType DEF Placed, Busy, Entries

-----------------------------------------------------------------------------
(* Every variable keeps its type.                                           *)
Typed == TypeOK /\ Placed

LEMMA ExitTyped ==
    ASSUME Typed, NEW p \in Procs, Exit(p)
    PROVE  Typed'
BY CacheAssumption DEF Typed, Exit, TypeOK, Placed, Script, Idle, Busy, Unread

LEMMA TypedInvariant == Spec => []Typed
<1>1. Init => Typed
    BY CacheAssumption DEF Init, Typed, TypeOK, Placed, Idle, Busy, Unread, Versions
<1>2. Typed /\ [Next]_vars => Typed'
    <2> SUFFICES ASSUME Typed, [Next]_vars PROVE Typed'
        OBVIOUS
    <2> USE CacheAssumption DEF Typed
    <2>1. ASSUME NEW p \in Procs, NEW s \in Scripts, NEW m \in Preludes, StartFile(p, s, m)
          PROVE  Typed'
        BY <2>1 DEF StartFile, TypeOK, Placed, Script, Busy
    <2>2. ASSUME NEW p \in Procs, StartRunner(p)
          PROVE  Typed'
        BY <2>2 DEF StartRunner, TypeOK, Placed, Script, Busy
    <2>3. ASSUME NEW p \in Procs, NEW s \in Scripts, NextFile(p, s)
          PROVE  Typed'
        BY <2>3 DEF NextFile, TypeOK, Placed, Script, Busy, Idle, Unread
    <2>4. ASSUME NEW p \in Procs, Load(p)
          PROVE  Typed'
        <3> DEFINE m == Mapped(p)
                   e == Candidate(p, m)
                   hit == e # None /\ StampAgrees(p, e)
        <3>1. Script(p) \in Scripts /\ source[Script(p)] \in Versions
            BY <2>4 DEF Load, Placed, Busy, TypeOK
        <3>2. m = None \/ m \in Shards
            BY MappedType
        <3>3. hit => e.chunk \in Chunks
            BY <3>1, <3>2, CandidateIsEntry DEF Entries
        <3>4. BinaryStamp(p) \in Bins \cup {NoStamp}
            BY StampType
        <3>5. /\ mtime' = [mtime EXCEPT ![p] = source[Script(p)]]
              /\ map' = [map EXCEPT ![p] = m]
              /\ stamp' = [stamp EXCEPT ![p] = BinaryStamp(p)] \/ stamp' = stamp
              /\ chunk' = [chunk EXCEPT ![p] = IF hit THEN e.chunk ELSE None]
              /\ pc' = [pc EXCEPT ![p] = IF hit THEN "replay" ELSE "miss"]
              /\ UNCHANGED <<source, installed, shard, lock, bin, job, draft>>
            BY <2>4 DEF Load
        <3>6. TypeOK'
            BY <3>1, <3>2, <3>3, <3>4, <3>5 DEF TypeOK
        <3>7. Placed'
            BY <3>1, <3>3, <3>5 DEF Placed, Script, Busy, TypeOK
        <3>8. QED
            BY <3>6, <3>7
    <2>5. ASSUME NEW p \in Procs, Compile(p)
          PROVE  Typed'
        <3> DEFINE text == IF job[p].text = Unread THEN source[Script(p)] ELSE job[p].text
        <3>1. Script(p) \in Scripts /\ text \in Versions
            BY <2>5 DEF Compile, Placed, Busy, TypeOK
        <3>2. [text |-> text, by |-> bin[p], prelude |-> job[p].prelude] \in Chunks
            BY <3>1 DEF TypeOK, Chunks
        <3>3. QED
            BY <2>5, <3>1, <3>2 DEF Compile, TypeOK, Placed, Script, Busy
    <2>6. ASSUME NEW p \in Procs, StatForSave(p)
          PROVE  Typed'
        BY <2>6 DEF StatForSave, TypeOK, Placed, Script, Busy
    <2>7. ASSUME NEW p \in Procs, PutRead(p)
          PROVE  Typed'
        <3> DEFINE e == [mtime |-> mtime[p], stamp |-> BinaryStamp(p), chunk |-> chunk[p]]
        <3>1. Script(p) \in Scripts /\ e \in Entries
            BY <2>7, NewEntry DEF PutRead
        <3>2. [OwnedShard(p) EXCEPT !.entries[Script(p)] = e] \in Shards
            BY <3>1, OwnedType, PutOne
        <3>3. BinaryStamp(p) \in Bins \cup {NoStamp}
            BY StampType
        <3>4. /\ draft' = [draft EXCEPT ![p] = [OwnedShard(p) EXCEPT !.entries[Script(p)] = e]]
              /\ lock' = p /\ stamp' = [stamp EXCEPT ![p] = BinaryStamp(p)]
              /\ pc[p] = "put" /\ pc' = [pc EXCEPT ![p] = "write"]
              /\ UNCHANGED <<source, installed, shard, bin, map, job, mtime, chunk>>
            BY <2>7 DEF PutRead
        <3>5. TypeOK'
            BY <3>2, <3>3, <3>4 DEF TypeOK
        <3>6. Placed'
            BY <3>1, <3>2, <3>4 DEF Placed, Script, Busy, TypeOK
        <3>7. QED
            BY <3>5, <3>6
    <2>8. ASSUME NEW p \in Procs, PutWrite(p) \/ PutFails(p) \/ LockFails(p)
          PROVE  Typed'
        <3>1. /\ shard' = shard \/ shard' \in Shards
              /\ map' = map \/ map' = [map EXCEPT ![p] = None]
              /\ lock' \in {lock, None}
              /\ draft' = draft \/ draft' = [draft EXCEPT ![p] = None]
              /\ pc[p] \in Busy /\ pc' = [pc EXCEPT ![p] = "run"]
              /\ UNCHANGED <<source, installed, bin, stamp, job, mtime, chunk>>
            BY <2>8 DEF PutWrite, PutFails, LockFails, Placed, Busy
        <3>2. TypeOK'
            BY <3>1 DEF TypeOK
        <3>3. Placed'
            BY <3>1 DEF Placed, Script, Busy, TypeOK
        <3>4. QED
            BY <3>2, <3>3
    <2>9. ASSUME NEW p \in Procs, Finish(p) \/ Die(p)
          PROVE  Typed'
        <3>1. CASE Exit(p)
            BY <3>1, ExitTyped
        <3>2. CASE ~Exit(p)
            <4>1. /\ pc' = [pc EXCEPT ![p] = "next"] /\ job' = [job EXCEPT ![p] = Idle]
                  /\ chunk' = [chunk EXCEPT ![p] = None]
                  /\ mtime' = [mtime EXCEPT ![p] = Unread]
                  /\ UNCHANGED <<source, installed, shard, lock, bin, stamp, map, draft>>
                BY <2>9, <3>2 DEF Finish, Die
            <4>2. Idle \in [script : Scripts \cup {None}, prelude : Preludes,
                            text : Versions \cup {Unread}]
                BY DEF Idle
            <4>3. TypeOK'
                BY <4>1, <4>2 DEF TypeOK
            <4>4. Placed'
                BY <4>1 DEF Placed, Script, Busy, TypeOK
            <4>5. QED
                BY <4>3, <4>4
        <3>3. QED
            BY <3>1, <3>2
    <2>10. ASSUME NEW p \in Procs, Inspect(p)
           PROVE  Typed'
        BY <2>10, MappedType DEF Inspect, TypeOK, Placed, Script, Busy
    <2>11. ASSUME NEW p \in Procs, Clear(p)
           PROVE  Typed'
        BY <2>11 DEF Clear, TypeOK, Placed, Script, Busy
    <2>12. ASSUME NEW p \in Procs, EvictStale(p)
           PROVE  Typed'
        <3>1. shard \in Shards
            BY <2>12 DEF EvictStale, TypeOK
        <3>2. shard' \in Shards
            BY <2>12, <3>1 DEF EvictStale, Shards
        <3>3. QED
            BY <2>12, <3>2 DEF EvictStale, TypeOK, Placed, Script, Busy
    <2>13. ASSUME NEW s \in Scripts, Edit(s)
           PROVE  Typed'
        <3>1. source' \in [Scripts -> Versions]
            BY <2>13 DEF Edit, TypeOK, Versions
        <3>2. QED
            BY <2>13, <3>1 DEF Edit, TypeOK, Placed, Script, Busy
    <2>14. ASSUME NEW b \in Bins, Upgrade(b)
           PROVE  Typed'
        BY <2>14 DEF Upgrade, TypeOK, Placed, Script, Busy
    <2>15. CASE UNCHANGED vars
        BY <2>15 DEF vars, TypeOK, Placed, Script, Busy
    <2>16. QED
        BY <2>1, <2>2, <2>3, <2>4, <2>5, <2>6, <2>7, <2>8, <2>9, <2>10, <2>11, <2>12,
           <2>13, <2>14, <2>15 DEF Next, Advance
<1>3. QED
    BY <1>1, <1>2, PTL DEF Spec

THEOREM TypeCorrect == Spec => []TypeOK
BY TypedInvariant, PTL DEF Typed

-----------------------------------------------------------------------------
(* Where entries are: on disk, in the images processes keep, in the shards  *)
(* about to be written.                                                     *)
EntriesOf(m) == IF m = None THEN {} ELSE {m.entries[s] : s \in Scripts} \ {None}

Around == EntriesOf(shard)
          \cup UNION {EntriesOf(map[p]) \cup EntriesOf(draft[p]) : p \in Procs}

EntryOf(p) == [mtime |-> mtime[p], stamp |-> BinaryStamp(p), chunk |-> chunk[p]]

LEMMA OwnedEntries ==
    ASSUME NEW p \in Procs, NEW s \in Scripts
    PROVE  OwnedShard(p).entries[s] \in EntriesOf(shard) \cup {None}
BY DEF OwnedShard, EntriesOf, NoEntries

LEMMA MappedEntries ==
    ASSUME NEW p \in Procs
    PROVE  EntriesOf(Mapped(p)) \subseteq Around
BY DEF Mapped, Around, EntriesOf

(* The only step that makes an entry is the insertion of put().             *)
LEMMA OnlyPutsMakeEntries ==
    ASSUME Typed, [Next]_vars, NEW e \in Around'
    PROVE  e \in Around \/ \E p \in Procs : PutRead(p) /\ e = EntryOf(p)
<1> USE DEF Typed
<1>1. ASSUME /\ EntriesOf(shard)' \subseteq Around
             /\ \A p \in Procs : EntriesOf(map[p])' \subseteq Around
             /\ \A p \in Procs : EntriesOf(draft[p])' \subseteq Around
      PROVE  e \in Around
    BY <1>1 DEF Around
<1>2. /\ EntriesOf(shard) \subseteq Around
      /\ \A p \in Procs : EntriesOf(map[p]) \subseteq Around
      /\ \A p \in Procs : EntriesOf(draft[p]) \subseteq Around
      /\ EntriesOf(None) = {}
    BY DEF Around, EntriesOf
<1>3. ASSUME NEW p \in Procs, PutRead(p)
      PROVE  e \in Around \/ e = EntryOf(p)
    <2> DEFINE d == [OwnedShard(p) EXCEPT !.entries[Script(p)] = EntryOf(p)]
    <2>1. \A r \in Scripts : OwnedShard(p).entries[r] \in EntriesOf(shard) \cup {None}
        BY OwnedEntries
    <2>2. EntriesOf(d) \subseteq Around \cup {EntryOf(p)}
        <3>1. Script(p) \in Scripts /\ EntryOf(p) \in Entries
            BY <1>3, NewEntry DEF PutRead, EntryOf
        <3>2. /\ d.entries[Script(p)] = EntryOf(p)
              /\ \A r \in Scripts \ {Script(p)} : d.entries[r] = OwnedShard(p).entries[r]
            <4>1. OwnedShard(p) \in Shards
                BY OwnedType
            <4>2. QED
                BY <3>1, <4>1, PutOne, ZenonT(20)
        <3>3. QED
            BY <1>2, <2>1, <3>1, <3>2 DEF EntriesOf
    <2>3. /\ shard' = shard /\ map' = map
          /\ draft' = [draft EXCEPT ![p] = d]
        BY <1>3 DEF PutRead, EntryOf
    <2>4. /\ EntriesOf(shard)' = EntriesOf(shard)
          /\ \A q \in Procs : EntriesOf(map[q])' = EntriesOf(map[q])
          /\ \A q \in Procs : EntriesOf(draft[q])' \in {EntriesOf(draft[q]), EntriesOf(d)}
        BY <2>3 DEF TypeOK
    <2>5. QED
        BY <1>2, <2>2, <2>4 DEF Around
<1>4. ASSUME NEW p \in Procs,
             \/ \E s \in Scripts, m \in Preludes : StartFile(p, s, m)
             \/ StartRunner(p)
             \/ \E s \in Scripts : NextFile(p, s)
             \/ Compile(p) \/ StatForSave(p) \/ LockFails(p)
      PROVE  e \in Around
    BY <1>4, <1>1, <1>2 DEF StartFile, StartRunner, NextFile, Compile, StatForSave, LockFails
<1>5. ASSUME NEW p \in Procs, Load(p) \/ Inspect(p)
      PROVE  e \in Around
    <2>1. /\ shard' = shard /\ draft' = draft
          /\ map' = [map EXCEPT ![p] = Mapped(p)]
        BY <1>5 DEF Load, Inspect
    <2>2. EntriesOf(Mapped(p)) \subseteq Around
        BY MappedEntries
    <2>3. QED
        BY <1>1, <1>2, <2>1, <2>2 DEF TypeOK
<1>6. ASSUME NEW p \in Procs, PutWrite(p)
      PROVE  e \in Around
    <2>1. /\ shard' = draft[p]
          /\ map' = [map EXCEPT ![p] = None]
          /\ draft' = [draft EXCEPT ![p] = None]
        BY <1>6 DEF PutWrite
    <2>2. QED
        BY <1>1, <1>2, <2>1 DEF TypeOK
<1>7. ASSUME NEW p \in Procs, PutFails(p)
      PROVE  e \in Around
    BY <1>7, <1>1, <1>2 DEF PutFails, TypeOK
<1>8. ASSUME NEW p \in Procs, Finish(p) \/ Die(p)
      PROVE  e \in Around
    <2>1. /\ shard' = shard
          /\ map' = map \/ map' = [map EXCEPT ![p] = None]
          /\ draft' = draft \/ draft' = [draft EXCEPT ![p] = None]
        BY <1>8 DEF Finish, Die, Exit
    <2>2. QED
        BY <1>1, <1>2, <2>1 DEF TypeOK
<1>9. ASSUME NEW p \in Procs, Clear(p)
      PROVE  e \in Around
    BY <1>9, <1>1, <1>2 DEF Clear, TypeOK
<1>10. ASSUME NEW p \in Procs, EvictStale(p)
       PROVE  e \in Around
    <2>1. /\ shard # None
          /\ draft' = draft /\ map' = [map EXCEPT ![p] = None]
          /\ \A s \in Scripts : shard'.entries[s] \in {None, shard.entries[s]}
        <3>1. shard \in Shards
            BY <1>10 DEF EvictStale, TypeOK
        <3>2. QED
            BY <1>10, <3>1 DEF EvictStale, Shards
    <2>2. EntriesOf(shard') \subseteq EntriesOf(shard)
        BY <2>1 DEF EntriesOf
    <2>3. QED
        BY <1>1, <1>2, <2>1, <2>2 DEF TypeOK
<1>11. ASSUME \/ \E s \in Scripts : Edit(s)
              \/ \E b \in Bins : Upgrade(b)
              \/ UNCHANGED vars
       PROVE  e \in Around
    BY <1>11, <1>1, <1>2 DEF Edit, Upgrade, vars
<1>12. QED
    BY <1>3, <1>4, <1>5, <1>6, <1>7, <1>8, <1>9, <1>10, <1>11 DEF Next, Advance

-----------------------------------------------------------------------------
(* Which build an entry is for.  A process off the run has its build from   *)
(* the path; a running one keeps it, and so does the path while processes   *)
(* run: the stamp is then that of the build.                                *)
OwnBuild ==
    /\ \A p \in Procs : pc[p] # "off" => bin[p] = installed
    /\ \A p \in Procs : stamp[p] # Unset => pc[p] # "off" /\ stamp[p] = bin[p]
    /\ \A e \in Around : e.stamp = e.chunk.by
    /\ \A p \in Procs : pc[p] \in {"stat", "put", "write", "replay"} => chunk[p].by = bin[p]

(* Under it, the stamp a process takes is its build.                        *)
LEMMA StampIsBuild ==
    ASSUME OwnBuild, NEW p \in Procs, pc[p] # "off"
    PROVE  BinaryStamp(p) = bin[p]
BY DEF OwnBuild, BinaryStamp

LEMMA OwnBuildInvariant ==
    ASSUME ~UpgradesDuringRuns
    PROVE  Spec => []OwnBuild
<1>1. Init => OwnBuild
    BY CacheAssumption DEF Init, OwnBuild, Around, EntriesOf
<1>2. Typed /\ OwnBuild /\ [Next]_vars => OwnBuild'
    <2> SUFFICES ASSUME Typed, OwnBuild, [Next]_vars PROVE OwnBuild'
        OBVIOUS
    <2> USE CacheAssumption DEF Typed
    <2>1. \A e \in Around' : e.stamp = e.chunk.by
        <3>1. ASSUME NEW p \in Procs, PutRead(p)
              PROVE  EntryOf(p).stamp = EntryOf(p).chunk.by
            BY <3>1, StampIsBuild DEF PutRead, EntryOf, OwnBuild
        <3>2. QED
            BY <3>1, OnlyPutsMakeEntries DEF OwnBuild
    <2> DEFINE Rest == /\ \A p \in Procs : pc[p] # "off" => bin[p] = installed
                       /\ \A p \in Procs : stamp[p] # Unset => pc[p] # "off" /\ stamp[p] = bin[p]
                       /\ \A p \in Procs : pc[p] \in {"stat", "put", "write", "replay"}
                                                => chunk[p].by = bin[p]
    <2>2. Rest
        BY DEF OwnBuild
    <2>3. ASSUME NEW p \in Procs,
                 \/ \E s \in Scripts, m \in Preludes : StartFile(p, s, m)
                 \/ StartRunner(p)
                 \/ \E s \in Scripts : NextFile(p, s)
          PROVE  Rest'
        BY <2>3, <2>2 DEF StartFile, StartRunner, NextFile, TypeOK
    <2>4. ASSUME NEW p \in Procs, Load(p)
          PROVE  Rest'
        <3> DEFINE m == Mapped(p)
                   e == Candidate(p, m)
                   hit == e # None /\ StampAgrees(p, e)
        <3>1. BinaryStamp(p) = bin[p] /\ bin[p] \in Bins
            BY <2>4, StampIsBuild DEF Load, TypeOK
        <3>2. ASSUME hit
              PROVE  e.chunk.by = bin[p]
            <4>1. m \in Shards /\ e = m.entries[Script(p)] /\ Script(p) \in Scripts
                <5>1. Script(p) \in Scripts
                    BY <2>4 DEF Load, Placed, Busy
                <5>2. QED
                    BY <5>1, <3>2, MappedType, CandidateIsEntry
            <4>2. m # None
                BY <3>2 DEF Candidate
            <4>3. e \in Around
                BY <4>1, <4>2, <3>2, MappedEntries DEF EntriesOf
            <4>4. e.stamp = bin[p]
                BY <3>1, <3>2 DEF StampAgrees
            <4>5. QED
                BY <4>3, <4>4 DEF OwnBuild
        <3>3. /\ pc[p] = "load"
              /\ stamp' = [stamp EXCEPT ![p] = BinaryStamp(p)] \/ stamp' = stamp
              /\ chunk' = [chunk EXCEPT ![p] = IF hit THEN e.chunk ELSE None]
              /\ pc' = [pc EXCEPT ![p] = IF hit THEN "replay" ELSE "miss"]
              /\ UNCHANGED <<installed, bin>>
            BY <2>4 DEF Load
        <3>4. QED
            BY <2>2, <3>1, <3>2, <3>3 DEF TypeOK
    <2>5. ASSUME NEW p \in Procs, Compile(p) \/ StatForSave(p)
          PROVE  Rest'
        BY <2>5, <2>2 DEF Compile, StatForSave, TypeOK
    <2>6. ASSUME NEW p \in Procs, PutRead(p)
          PROVE  Rest'
        BY <2>6, <2>2, StampIsBuild DEF PutRead, TypeOK
    <2>7. ASSUME NEW p \in Procs, PutWrite(p) \/ PutFails(p) \/ LockFails(p)
          PROVE  Rest'
        BY <2>7, <2>2 DEF PutWrite, PutFails, LockFails, TypeOK
    <2>8. ASSUME NEW p \in Procs, Finish(p) \/ Die(p)
          PROVE  Rest'
        <3>1. CASE Exit(p)
            BY <2>2, <3>1 DEF Exit, TypeOK
        <3>2. CASE Finish(p) /\ p \in Runners
            BY <2>2, <3>2 DEF Finish, TypeOK
        <3>3. QED
            BY <2>8, <3>1, <3>2 DEF Finish, Die
    <2>9. ASSUME NEW p \in Procs, Inspect(p) \/ Clear(p) \/ EvictStale(p)
          PROVE  Rest'
        BY <2>9, <2>2 DEF Inspect, Clear, EvictStale
    <2>10. ASSUME \/ \E s \in Scripts : Edit(s)
                  \/ UNCHANGED vars
           PROVE  Rest'
        BY <2>10, <2>2 DEF Edit, vars
    <2>11. ASSUME NEW b \in Bins, Upgrade(b)
           PROVE  Rest'
        BY <2>11, <2>2 DEF Upgrade
    <2>12. Rest'
        BY <2>3, <2>4, <2>5, <2>6, <2>7, <2>8, <2>9, <2>10, <2>11 DEF Next, Advance
    <2>13. QED
        BY <2>1, <2>12 DEF OwnBuild
<1>3. QED
    BY <1>1, <1>2, TypedInvariant, PTL DEF Spec

(* Unless a binary is replaced while a process runs, what a process         *)
(* replays was compiled by its own build.                                   *)
THEOREM ReplaysOwnBuild ==
    ASSUME ~UpgradesDuringRuns
    PROVE  Spec => []ReplayedBuild
<1>1. OwnBuild => ReplayedBuild
    BY DEF OwnBuild, ReplayedBuild
<1>2. QED
    BY <1>1, OwnBuildInvariant, PTL

-----------------------------------------------------------------------------
(* Which text an entry is for: that of its mtime.  From the reading of the  *)
(* file to the stat of the save the text stays the one on disk.             *)
OwnText ==
    /\ \A e \in Around : e.chunk.text = e.mtime
    /\ \A p \in Procs :
        /\ pc[p] \in {"load", "miss"} => job[p].text \in {Unread, source[Script(p)]}
        /\ pc[p] = "stat" => chunk[p].text = source[Script(p)]
        /\ pc[p] \in {"put", "write", "replay"} => chunk[p].text = mtime[p]

LEMMA OwnTextInvariant ==
    ASSUME ~EditsDuringRuns
    PROVE  Spec => []OwnText
<1>1. Init => OwnText
    BY CacheAssumption DEF Init, OwnText, Around, EntriesOf
<1>2. Typed /\ OwnText /\ [Next]_vars => OwnText'
    <2> SUFFICES ASSUME Typed, OwnText, [Next]_vars PROVE OwnText'
        OBVIOUS
    <2> USE CacheAssumption DEF Typed
    <2>1. \A e \in Around' : e.chunk.text = e.mtime
        <3>1. ASSUME NEW p \in Procs, PutRead(p)
              PROVE  EntryOf(p).chunk.text = EntryOf(p).mtime
            BY <3>1 DEF PutRead, EntryOf, OwnText
        <3>2. QED
            BY <3>1, OnlyPutsMakeEntries DEF OwnText
    <2> DEFINE Rest(p) ==
            /\ pc[p] \in {"load", "miss"} => job[p].text \in {Unread, source[Script(p)]}
            /\ pc[p] = "stat" => chunk[p].text = source[Script(p)]
            /\ pc[p] \in {"put", "write", "replay"} => chunk[p].text = mtime[p]
    <2>2. \A p \in Procs : Rest(p)
        BY DEF OwnText
    <2>3. ASSUME NEW p \in Procs,
                 \/ \E s \in Scripts, m \in Preludes : StartFile(p, s, m)
                 \/ StartRunner(p)
                 \/ \E s \in Scripts : NextFile(p, s)
          PROVE  \A q \in Procs : Rest(q)'
        BY <2>3, <2>2 DEF StartFile, StartRunner, NextFile, TypeOK, Script, Idle
    <2>4. ASSUME NEW p \in Procs, Load(p)
          PROVE  \A q \in Procs : Rest(q)'
        <3> DEFINE m == Mapped(p)
                   e == Candidate(p, m)
                   hit == e # None /\ StampAgrees(p, e)
        <3>1. ASSUME hit
              PROVE  e.chunk.text = source[Script(p)]
            <4>1. Script(p) \in Scripts
                BY <2>4 DEF Load, Placed, Busy
            <4>2. /\ m \in Shards /\ e = m.entries[Script(p)]
                  /\ e.mtime = source[Script(p)]
                BY <4>1, <3>1, MappedType, CandidateIsEntry
            <4>3. m # None
                BY <3>1 DEF Candidate
            <4>4. e \in Around
                BY <4>1, <4>2, <4>3, <3>1, MappedEntries DEF EntriesOf
            <4>5. QED
                BY <4>2, <4>4 DEF OwnText
        <3>2. /\ pc[p] = "load"
              /\ mtime' = [mtime EXCEPT ![p] = source[Script(p)]]
              /\ chunk' = [chunk EXCEPT ![p] = IF hit THEN e.chunk ELSE None]
              /\ pc' = [pc EXCEPT ![p] = IF hit THEN "replay" ELSE "miss"]
              /\ UNCHANGED <<source, job>>
            BY <2>4 DEF Load
        <3>3. QED
            BY <2>2, <3>1, <3>2 DEF TypeOK, Script
    <2>5. ASSUME NEW p \in Procs, Compile(p)
          PROVE  \A q \in Procs : Rest(q)'
        <3> DEFINE text == IF job[p].text = Unread THEN source[Script(p)] ELSE job[p].text
        <3>1. /\ pc[p] = "miss"
              /\ job' = [job EXCEPT ![p].text = text]
              /\ chunk' = [chunk EXCEPT ![p] =
                              [text |-> text, by |-> bin[p], prelude |-> job[p].prelude]]
              /\ pc' = [pc EXCEPT ![p] = "stat"]
              /\ UNCHANGED <<source, mtime>>
            BY <2>5 DEF Compile
        <3>2. text = source[Script(p)]
            BY <2>2, <3>1
        <3>3. \A q \in Procs : job'[q].script = job[q].script
            BY <3>1 DEF TypeOK
        <3>4. QED
            BY <2>2, <3>1, <3>2, <3>3 DEF TypeOK, Script
    <2>6. ASSUME NEW p \in Procs, StatForSave(p) \/ PutRead(p)
          PROVE  \A q \in Procs : Rest(q)'
        BY <2>6, <2>2 DEF StatForSave, PutRead, TypeOK, Script
    <2>7. ASSUME NEW p \in Procs, PutWrite(p) \/ PutFails(p) \/ LockFails(p)
          PROVE  \A q \in Procs : Rest(q)'
        BY <2>7, <2>2 DEF PutWrite, PutFails, LockFails, TypeOK, Script
    <2>8. ASSUME NEW p \in Procs, Finish(p) \/ Die(p)
          PROVE  \A q \in Procs : Rest(q)'
        <3>1. /\ pc' = [pc EXCEPT ![p] = "off"] \/ pc' = [pc EXCEPT ![p] = "next"]
              /\ job' = [job EXCEPT ![p] = Idle]
              /\ chunk' = [chunk EXCEPT ![p] = None]
              /\ mtime' = [mtime EXCEPT ![p] = Unread]
              /\ UNCHANGED source
            BY <2>8 DEF Finish, Die, Exit
        <3>2. QED
            BY <2>2, <3>1 DEF TypeOK, Script
    <2>9. ASSUME NEW p \in Procs, Inspect(p) \/ Clear(p) \/ EvictStale(p)
          PROVE  \A q \in Procs : Rest(q)'
        BY <2>9, <2>2 DEF Inspect, Clear, EvictStale, Script
    <2>10. ASSUME NEW s \in Scripts, Edit(s)
           PROVE  \A q \in Procs : Rest(q)'
        <3>1. /\ source' = [source EXCEPT ![s] = @ + 1]
              /\ \A q \in Procs : Script(q) = s => pc[q] \notin {"load", "miss", "stat"}
              /\ UNCHANGED <<pc, job, mtime, chunk>>
            BY <2>10 DEF Edit
        <3>2. \A q \in Procs : Script(q) # s => source'[Script(q)] = source[Script(q)]
            BY <3>1 DEF TypeOK
        <3>3. QED
            BY <2>2, <3>1, <3>2 DEF Script
    <2>11. ASSUME \/ \E b \in Bins : Upgrade(b)
                  \/ UNCHANGED vars
           PROVE  \A q \in Procs : Rest(q)'
        BY <2>11, <2>2 DEF Upgrade, vars, Script
    <2>12. \A q \in Procs : Rest(q)'
        BY <2>3, <2>4, <2>5, <2>6, <2>7, <2>8, <2>9, <2>10, <2>11 DEF Next, Advance
    <2>13. QED
        BY <2>1, <2>12 DEF OwnText
<1>3. QED
    BY <1>1, <1>2, TypedInvariant, PTL DEF Spec

(* Unless a file is edited between its reading and its saving, what a       *)
(* process replays was compiled from the text the file has.                 *)
THEOREM ReplaysOwnText ==
    ASSUME ~EditsDuringRuns
    PROVE  Spec => []ReplayedText
<1>1. OwnText => ReplayedText
    BY DEF OwnText, ReplayedText
<1>2. QED
    BY <1>1, OwnTextInvariant, PTL

(* The two together: what the cached runs replay is current.                *)
THEOREM ReplayCorrect ==
    ASSUME ~EditsDuringRuns, ~UpgradesDuringRuns
    PROVE  Spec => []ReplayIsCurrent
BY ReplaysOwnBuild, ReplaysOwnText, PTL DEF ReplayIsCurrent

-----------------------------------------------------------------------------
(* The flock is held from the reading of the shard to its renaming, so the  *)
(* shard about to be written is still the one on disk but for one entry.    *)
DraftIsNext ==
    \A p \in Procs : pc[p] = "write" =>
        /\ lock = p
        /\ draft[p] = [OwnedShard(p) EXCEPT
                          !.entries[Script(p)] = draft[p].entries[Script(p)]]

LEMMA DraftInvariant == Spec => []DraftIsNext
<1>1. Init => DraftIsNext
    BY DEF Init, DraftIsNext
<1>2. Typed /\ DraftIsNext /\ [Next]_vars => DraftIsNext'
    <2> SUFFICES ASSUME Typed, DraftIsNext, [Next]_vars,
                        NEW q \in Procs, pc'[q] = "write"
                 PROVE  /\ lock' = q
                        /\ draft'[q] = [OwnedShard(q)' EXCEPT
                              !.entries[Script(q)'] = draft'[q].entries[Script(q)']]
        BY DEF DraftIsNext
    <2> USE CacheAssumption DEF Typed
    <2> DEFINE Kept == /\ pc[q] = "write" /\ UNCHANGED <<lock, shard>>
                       /\ draft'[q] = draft[q] /\ bin'[q] = bin[q] /\ job'[q] = job[q]
    <2>1. ASSUME Kept
          PROVE  /\ lock' = q
                 /\ draft'[q] = [OwnedShard(q)' EXCEPT
                       !.entries[Script(q)'] = draft'[q].entries[Script(q)']]
        <3>1. OwnedShard(q)' = OwnedShard(q) /\ Script(q)' = Script(q)
            BY <2>1 DEF OwnedShard, Script
        <3>2. QED
            BY <2>1, <3>1 DEF DraftIsNext
    <2>2. ASSUME NEW p \in Procs, PutRead(p), p = q
          PROVE  /\ lock' = q
                 /\ draft'[q] = [OwnedShard(q)' EXCEPT
                       !.entries[Script(q)'] = draft'[q].entries[Script(q)']]
        <3>1. /\ lock' = q /\ shard' = shard /\ bin' = bin /\ job' = job
              /\ draft'[q] = [OwnedShard(q) EXCEPT !.entries[Script(q)] = EntryOf(q)]
            BY <2>2 DEF PutRead, EntryOf, TypeOK
        <3>2. OwnedShard(q)' = OwnedShard(q) /\ Script(q)' = Script(q)
            BY <3>1 DEF OwnedShard, Script
        <3>3. Script(q) \in Scripts /\ EntryOf(q) \in Entries
            BY <2>2, NewEntry DEF PutRead, EntryOf
        <3>4. draft'[q].entries[Script(q)] = EntryOf(q)
            BY <3>1, <3>3, OwnedType, PutOne
        <3>5. QED
            BY <3>1, <3>2, <3>4
    <2>3. ASSUME NEW p \in Procs, PutRead(p), p # q
          PROVE  FALSE
        BY <2>3 DEF PutRead, DraftIsNext, TypeOK
    <2>4. ASSUME NEW p \in Procs,
                 \/ \E s \in Scripts, m \in Preludes : StartFile(p, s, m)
                 \/ StartRunner(p)
                 \/ \E s \in Scripts : NextFile(p, s)
                 \/ Load(p) \/ Compile(p) \/ StatForSave(p) \/ LockFails(p) \/ Inspect(p)
          PROVE  Kept
        BY <2>4 DEF StartFile, StartRunner, NextFile, Load, Compile, StatForSave,
                    LockFails, Inspect, TypeOK
    <2>5. ASSUME NEW p \in Procs, PutWrite(p) \/ PutFails(p)
          PROVE  FALSE
        BY <2>5 DEF PutWrite, PutFails, DraftIsNext, TypeOK
    <2>6. ASSUME NEW p \in Procs, Finish(p) \/ Die(p)
          PROVE  Kept
        <3>1. /\ pc'[p] # "write" /\ UNCHANGED shard
              /\ lock' = IF lock = p THEN None ELSE lock
              /\ \A r \in Procs \ {p} :
                    pc'[r] = pc[r] /\ draft'[r] = draft[r] /\ bin'[r] = bin[r] /\ job'[r] = job[r]
            <4>1. CASE Exit(p)
                BY <4>1 DEF Exit, TypeOK
            <4>2. CASE ~Exit(p)
                BY <2>6, <4>2 DEF Finish, Die, TypeOK, DraftIsNext
            <4>3. QED
                BY <4>1, <4>2
        <3>2. QED
            BY <3>1 DEF DraftIsNext
    <2>7. ASSUME NEW p \in Procs, Clear(p) \/ EvictStale(p)
          PROVE  FALSE
        BY <2>7 DEF Clear, EvictStale, DraftIsNext
    <2>8. ASSUME \/ \E s \in Scripts : Edit(s)
                 \/ \E b \in Bins : Upgrade(b)
                 \/ UNCHANGED vars
          PROVE  Kept
        BY <2>8 DEF Edit, Upgrade, vars
    <2>9. QED
        BY <2>1, <2>2, <2>3, <2>4, <2>5, <2>6, <2>7, <2>8 DEF Next, Advance
<1>3. QED
    BY <1>1, <1>2, TypedInvariant, PTL DEF Spec

(* However the processes interleave, no put of another one is lost and      *)
(* nothing cleared comes back.                                              *)
THEOREM NoPutIsLost == Spec => WritesChangeOneEntry
<1> DEFINE A == shard' # shard =>
        \/ shard' = None
        \/ \E p \in Procs :
            /\ pc[p] = "write"
            /\ shard' = [OwnedShard(p) EXCEPT
                            !.entries[Script(p)] = shard'.entries[Script(p)]]
        \/ /\ shard # None /\ shard'.release = shard.release
           /\ \A s \in Scripts : shard'.entries[s] \in {None, shard.entries[s]}
<1>1. Typed /\ DraftIsNext /\ [Next]_vars => [A]_vars
    <2> SUFFICES ASSUME Typed, DraftIsNext, [Next]_vars, shard' # shard PROVE A
        OBVIOUS
    <2> USE DEF Typed
    <2>1. ASSUME NEW p \in Procs, PutWrite(p)
          PROVE  A
        BY <2>1 DEF PutWrite, DraftIsNext
    <2>2. ASSUME NEW p \in Procs, Clear(p)
          PROVE  A
        BY <2>2 DEF Clear
    <2>3. ASSUME NEW p \in Procs, EvictStale(p)
          PROVE  A
        <3>1. shard \in Shards /\ shard # None
            BY <2>3 DEF EvictStale, TypeOK
        <3>2. QED
            BY <2>3, <3>1 DEF EvictStale, Shards
    <2>4. QED
        BY <2>1, <2>2, <2>3 DEF Next, Advance, StartFile, StartRunner, NextFile, Load,
           Compile, StatForSave, PutRead, LockFails, PutFails, Finish, Die, Exit, Inspect,
           Edit, Upgrade, vars
<1>2. QED
    BY <1>1, TypedInvariant, DraftInvariant, PTL DEF Spec, WritesChangeOneEntry
=============================================================================
