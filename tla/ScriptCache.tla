---------------------------- MODULE ScriptCache ----------------------------
(***************************************************************************)
(* The bytecode cache of scripts (src/strykelang/script_cache.rs): one     *)
(* shard file shared by every stryke process, an flock that serialises its *)
(* writers, an mmap of it that a process keeps for its life, and the two   *)
(* callers that replay or fill it: `stryke FILE` (cli.rs) and the          *)
(* in-process test runner (cli_runners.rs).                                *)
(*                                                                         *)
(* A source file is its version, which is also its mtime: every edit gives *)
(* a new one.  A chunk is what it was compiled from: the version of the    *)
(* text, the binary that compiled it and the -M prelude put before it.     *)
(***************************************************************************)
EXTENDS Naturals

CONSTANTS
    Procs,          \* processes
    Runners,        \* those of them that are `stryke test`, running file after file
    Scripts,        \* canonical paths
    Bins,           \* builds of stryke, told apart by mtime and size
    Release(_),     \* the package version of a build
    Preludes,       \* what -M / -m may put before a program
    NoPrelude,      \* the empty prelude, the only one the test runner uses
    NoStamp,        \* current_binary_stamp() = None
    Unset,          \* the stamp's OnceLock before its first use
    None,           \* no entry, no shard, no chunk
    MaxVersion,     \* bound: edits of one file
    EditsDuringRuns,    \* is a file edited between its reading and its saving?
    UpgradesDuringRuns  \* is the binary replaced while a process runs?

ASSUME CacheAssumption ==
    /\ Runners \subseteq Procs
    /\ NoPrelude \in Preludes
    /\ MaxVersion \in Nat \ {0}
    /\ NoStamp \notin Bins /\ Unset \notin Bins /\ NoStamp # Unset
    /\ None \notin Procs
    /\ EditsDuringRuns \in BOOLEAN /\ UpgradesDuringRuns \in BOOLEAN

VARIABLES
    source,     \* per script, the version on disk: its content and its mtime
    installed,  \* the build at the path of the executable
    shard,      \* scripts.rkyv: None, or its header's release and its entries
    lock,       \* who holds the flock of scripts.rkyv.lock, or None
    pc,         \* per process, where it is
    bin,        \* per process, the build it executes
    stamp,      \* per process, BIN_STAMP
    map,        \* per process, the mmapped shard
    job,        \* per process, the script and prelude it runs and the text it read
    mtime,      \* per process, the last file_mtime it took
    chunk,      \* per process, what it compiled or loaded
    draft       \* per process, the shard it is about to write

vars == <<source, installed, shard, lock, pc, bin, stamp, map, job, mtime,
          chunk, draft>>

Versions == 1 .. MaxVersion
Chunks   == [text : Versions, by : Bins, prelude : Preludes]
Entries  == [mtime : Versions, stamp : Bins \cup {NoStamp}, chunk : Chunks]
Shards   == [release : {Release(b) : b \in Bins},
             entries : [Scripts -> Entries \cup {None}]]
Unread   == 0
Idle     == [script |-> None, prelude |-> NoPrelude, text |-> Unread]

TypeOK ==
    /\ source \in [Scripts -> Versions]
    /\ installed \in Bins
    /\ shard = None \/ shard \in Shards
    /\ lock \in Procs \cup {None}
    /\ pc \in [Procs -> {"off", "next", "load", "miss", "stat", "put",
                         "write", "run", "replay"}]
    /\ bin \in [Procs -> Bins]
    /\ stamp \in [Procs -> Bins \cup {NoStamp, Unset}]
    /\ map \in [Procs -> Shards \cup {None}]
    /\ draft \in [Procs -> Shards \cup {None}]
    /\ chunk \in [Procs -> Chunks \cup {None}]
    /\ job \in [Procs -> [script : Scripts \cup {None}, prelude : Preludes,
                         text : Versions \cup {Unread}]]
    /\ mtime \in [Procs -> Versions \cup {Unread}]

Init ==
    /\ source = [s \in Scripts |-> 1]
    /\ installed \in Bins
    /\ shard = None
    /\ lock = None
    /\ pc = [p \in Procs |-> "off"]
    /\ bin = [p \in Procs |-> installed]
    /\ stamp = [p \in Procs |-> Unset]
    /\ map = [p \in Procs |-> None]
    /\ job = [p \in Procs |-> Idle]
    /\ mtime = [p \in Procs |-> Unread]
    /\ chunk = [p \in Procs |-> None]
    /\ draft = [p \in Procs |-> None]

-----------------------------------------------------------------------------
\* Operators

Script(p) == job[p].script

\* current_binary_stamp: computed once per process.  The metadata are those
\* of the file the process was started from: once a new build has taken its
\* place they cannot be read (Linux: /proc/self/exe names a deleted file).
BinaryStamp(p) ==
    IF stamp[p] # Unset THEN stamp[p]
    ELSE IF installed = bin[p] THEN bin[p] ELSE NoStamp

\* ensure_mmap: the first look opens the file, later ones keep the old image.
Mapped(p) == IF map[p] = None THEN shard ELSE map[p]

NoEntries == [s \in Scripts |-> None]

\* The shard a put() starts from: the one on disk if it is of this release.
OwnedShard(p) ==
    IF shard # None /\ shard.release = Release(bin[p]) THEN shard
    ELSE [release |-> Release(bin[p]), entries |-> NoEntries]

-----------------------------------------------------------------------------
\* Mutants

StampIgnored(p, e) == TRUE

\* put without its flock
PutReadUnlocked(p) ==
    LET e == [mtime |-> mtime[p], stamp |-> BinaryStamp(p), chunk |-> chunk[p]]
    IN
    /\ pc[p] = "put"
    /\ stamp' = [stamp EXCEPT ![p] = BinaryStamp(p)]
    /\ draft' = [draft EXCEPT ![p] =
                    [OwnedShard(p) EXCEPT !.entries[Script(p)] = e]]
    /\ pc' = [pc EXCEPT ![p] = "write"]
    /\ UNCHANGED <<source, installed, shard, lock, bin, map, job, mtime, chunk>>

\* put stores the stamp without computing it first
PutReadRawStamp(p) ==
    LET e == [mtime |-> mtime[p], stamp |-> stamp[p], chunk |-> chunk[p]]
    IN
    /\ pc[p] = "put"
    /\ lock = None
    /\ lock' = p
    /\ draft' = [draft EXCEPT ![p] =
                    [OwnedShard(p) EXCEPT !.entries[Script(p)] = e]]
    /\ pc' = [pc EXCEPT ![p] = "write"]
    /\ UNCHANGED <<source, installed, shard, bin, stamp, map, job, mtime, chunk>>

-----------------------------------------------------------------------------
\* The tests of get(), the exit of a process

\* The entry get() finds, once the header and the mtime agree.
Candidate(p, m) ==
    LET e == IF m = None THEN None ELSE m.entries[Script(p)] IN
    IF e # None /\ m.release = Release(bin[p]) /\ e.mtime = source[Script(p)]
    THEN e ELSE None

\* The stamp test of get(): skipped when the process has no stamp of its own.
StampAgrees(p, e) == BinaryStamp(p) \in {NoStamp, e.stamp}

\* The process leaves: its memory goes, and the kernel drops its flock.
Exit(p) ==
    /\ pc' = [pc EXCEPT ![p] = "off"]
    /\ bin' = [bin EXCEPT ![p] = installed]
    /\ stamp' = [stamp EXCEPT ![p] = Unset]
    /\ map' = [map EXCEPT ![p] = None]
    /\ job' = [job EXCEPT ![p] = Idle]
    /\ mtime' = [mtime EXCEPT ![p] = Unread]
    /\ chunk' = [chunk EXCEPT ![p] = None]
    /\ draft' = [draft EXCEPT ![p] = None]
    /\ lock' = IF lock = p THEN None ELSE lock
    /\ UNCHANGED <<source, installed, shard>>

-----------------------------------------------------------------------------
\* A run of a script

\* stryke FILE: a new process reads the text, then asks the cache.
StartFile(p, s, m) ==
    /\ pc[p] = "off" /\ p \notin Runners
    /\ bin' = [bin EXCEPT ![p] = installed]
    /\ job' = [job EXCEPT ![p] = [script |-> s, prelude |-> m, text |-> source[s]]]
    /\ pc' = [pc EXCEPT ![p] = "load"]
    /\ UNCHANGED <<source, installed, shard, lock, stamp, map, mtime, chunk, draft>>

\* stryke test: one process, with one mmap and one stamp for all its files.
StartRunner(p) ==
    /\ pc[p] = "off" /\ p \in Runners
    /\ bin' = [bin EXCEPT ![p] = installed]
    /\ pc' = [pc EXCEPT ![p] = "next"]
    /\ UNCHANGED <<source, installed, shard, lock, stamp, map, job, mtime, chunk,
                   draft>>

\* The runner asks the cache before it reads the file.
NextFile(p, s) ==
    /\ pc[p] = "next"
    /\ job' = [job EXCEPT ![p] = [Idle EXCEPT !.script = s]]
    /\ pc' = [pc EXCEPT ![p] = "load"]
    /\ UNCHANGED <<source, installed, shard, lock, bin, stamp, map, mtime, chunk,
                   draft>>

\* try_load, get: a hit is replayed as it is.
Load(p) ==
    LET m == Mapped(p)
        e == Candidate(p, m)
        hit == e # None /\ StampAgrees(p, e)
    IN
    /\ pc[p] = "load"
    /\ mtime' = [mtime EXCEPT ![p] = source[Script(p)]]
    /\ map' = [map EXCEPT ![p] = m]
    /\ stamp' = IF e # None THEN [stamp EXCEPT ![p] = BinaryStamp(p)] ELSE stamp
    /\ chunk' = [chunk EXCEPT ![p] = IF hit THEN e.chunk ELSE None]
    /\ pc' = [pc EXCEPT ![p] = IF hit THEN "replay" ELSE "miss"]
    /\ UNCHANGED <<source, installed, shard, lock, bin, job, draft>>

\* A miss: the runner reads the file now; the text is parsed and compiled.
Compile(p) ==
    LET text == IF job[p].text = Unread THEN source[Script(p)] ELSE job[p].text
    IN
    /\ pc[p] = "miss"
    /\ job' = [job EXCEPT ![p].text = text]
    /\ chunk' = [chunk EXCEPT ![p] =
                    [text |-> text, by |-> bin[p], prelude |-> job[p].prelude]]
    /\ pc' = [pc EXCEPT ![p] = "stat"]
    /\ UNCHANGED <<source, installed, shard, lock, bin, stamp, map, mtime, draft>>

\* try_save takes the mtime of the file as it is by now.
StatForSave(p) ==
    /\ pc[p] = "stat"
    /\ mtime' = [mtime EXCEPT ![p] = source[Script(p)]]
    /\ pc' = [pc EXCEPT ![p] = "put"]
    /\ UNCHANGED <<source, installed, shard, lock, bin, stamp, map, job, chunk, draft>>

\* put, under the flock: read the shard and insert the entry...
PutRead(p) ==
    LET e == [mtime |-> mtime[p], stamp |-> BinaryStamp(p), chunk |-> chunk[p]]
    IN
    /\ pc[p] = "put"
    /\ lock = None
    /\ lock' = p
    /\ stamp' = [stamp EXCEPT ![p] = BinaryStamp(p)]
    /\ draft' = [draft EXCEPT ![p] =
                    [OwnedShard(p) EXCEPT !.entries[Script(p)] = e]]
    /\ pc' = [pc EXCEPT ![p] = "write"]
    /\ UNCHANGED <<source, installed, shard, bin, map, job, mtime, chunk>>

\* ...then rename the new shard over the old one and drop the mmap...
PutWrite(p) ==
    /\ pc[p] = "write"
    /\ shard' = draft[p]
    /\ map' = [map EXCEPT ![p] = None]
    /\ lock' = None
    /\ draft' = [draft EXCEPT ![p] = None]
    /\ pc' = [pc EXCEPT ![p] = "run"]
    /\ UNCHANGED <<source, installed, bin, stamp, job, mtime, chunk>>

\* ...or fail to write it: the error is dropped by try_vm_execute.
PutFails(p) ==
    /\ pc[p] = "write"
    /\ lock' = None
    /\ draft' = [draft EXCEPT ![p] = None]
    /\ pc' = [pc EXCEPT ![p] = "run"]
    /\ UNCHANGED <<source, installed, shard, bin, stamp, map, job, mtime, chunk>>

\* The lock file cannot be opened: put() returns Ok and nothing is saved.
LockFails(p) ==
    /\ pc[p] = "put"
    /\ pc' = [pc EXCEPT ![p] = "run"]
    /\ UNCHANGED <<source, installed, shard, lock, bin, stamp, map, job, mtime,
                   chunk, draft>>

\* The program is over: the process exits, the runner goes to its next file.
Finish(p) ==
    /\ pc[p] \in {"run", "replay"}
    /\ IF p \in Runners
       THEN /\ pc' = [pc EXCEPT ![p] = "next"]
            /\ job' = [job EXCEPT ![p] = Idle]
            /\ chunk' = [chunk EXCEPT ![p] = None]
            /\ mtime' = [mtime EXCEPT ![p] = Unread]
            /\ UNCHANGED <<source, installed, shard, lock, bin, stamp, map, draft>>
       ELSE Exit(p)

\* Out of files, killed or out of power, anywhere.
Die(p) == pc[p] # "off" /\ Exit(p)

-----------------------------------------------------------------------------
\* What a running program may do to the cache

\* stats, list_scripts: they map the shard if it was not.
Inspect(p) ==
    /\ pc[p] \in {"run", "replay"}
    /\ map' = [map EXCEPT ![p] = Mapped(p)]
    /\ UNCHANGED <<source, installed, shard, lock, pc, bin, stamp, job, mtime,
                   chunk, draft>>

\* clear: under the flock, remove the file.
Clear(p) ==
    /\ pc[p] \in {"run", "replay"}
    /\ lock = None
    /\ shard' = None
    /\ map' = [map EXCEPT ![p] = None]
    /\ UNCHANGED <<source, installed, lock, pc, bin, stamp, job, mtime, chunk, draft>>

\* evict_stale: under the flock, keep the entries whose file has their mtime.
EvictStale(p) ==
    LET stale == {s \in Scripts : /\ shard.entries[s] # None
                                  /\ shard.entries[s].mtime # source[s]} IN
    /\ pc[p] \in {"run", "replay"}
    /\ lock = None
    /\ shard # None /\ stale # {}
    /\ shard' = [shard EXCEPT !.entries =
                    [s \in Scripts |-> IF s \in stale THEN None ELSE @[s]]]
    /\ map' = [map EXCEPT ![p] = None]
    /\ UNCHANGED <<source, installed, lock, pc, bin, stamp, job, mtime, chunk, draft>>

-----------------------------------------------------------------------------
\* The world around

\* An editor saves the file.
Edit(s) ==
    /\ source[s] < MaxVersion
    /\ EditsDuringRuns \/ \A p \in Procs : Script(p) = s =>
                              pc[p] \notin {"load", "miss", "stat"}
    /\ source' = [source EXCEPT ![s] = @ + 1]
    /\ UNCHANGED <<installed, shard, lock, pc, bin, stamp, map, job, mtime, chunk,
                   draft>>

\* A build, new or rolled back, is installed over the old one.
Upgrade(b) ==
    /\ b # installed
    /\ UpgradesDuringRuns \/ \A p \in Procs : pc[p] = "off"
    /\ installed' = b
    /\ UNCHANGED <<source, shard, lock, pc, bin, stamp, map, job, mtime, chunk,
                   draft>>

Advance(p) ==
    \/ Load(p) \/ Compile(p) \/ StatForSave(p)
    \/ PutWrite(p) \/ PutFails(p)
    \/ Finish(p)

Next ==
    \/ \E p \in Procs :
        \/ \E s \in Scripts, m \in Preludes : StartFile(p, s, m)
        \/ StartRunner(p)
        \/ \E s \in Scripts : NextFile(p, s)
        \/ Advance(p)
        \/ PutRead(p) \/ LockFails(p)
        \/ Die(p)
        \/ Inspect(p) \/ Clear(p) \/ EvictStale(p)
    \/ \E s \in Scripts : Edit(s)
    \/ \E b \in Bins : Upgrade(b)

Spec == Init /\ [][Next]_vars

-----------------------------------------------------------------------------
\* Properties

\* A replayed chunk was compiled from the text the file had when the run
\* asked for it, by the build that runs it, whatever was edited, installed,
\* rolled back or replaced in between (script_cache.rs:26-28, "source mtime
\* must match").
ReplayedText == \A p \in Procs : pc[p] = "replay" => chunk[p].text = mtime[p]

ReplayedBuild == \A p \in Procs : pc[p] = "replay" => chunk[p].by = bin[p]

ReplayIsCurrent == ReplayedText /\ ReplayedBuild

\* A replayed chunk holds the modules this command line asks for and no
\* others (cli.rs:448, -M executes "use module" before the program).
ReplayHasPrelude ==
    \A p \in Procs : pc[p] = "replay" => chunk[p].prelude = job[p].prelude

\* However the processes interleave, a write of the shard changes one entry:
\* no concurrent put is lost and nothing cleared comes back.  Only a clear,
\* an eviction or a build of another release removes entries.
WritesChangeOneEntry ==
    [][ shard' # shard =>
        \/ shard' = None
        \/ \E p \in Procs :
            /\ pc[p] = "write"
            /\ shard' = [OwnedShard(p) EXCEPT
                            !.entries[Script(p)] = shard'.entries[Script(p)]]
        \/ /\ shard # None /\ shard'.release = shard.release
           /\ \A s \in Scripts : shard'.entries[s] \in {None, shard.entries[s]}
      ]_vars
=============================================================================
