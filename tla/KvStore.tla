------------------------------ MODULE KvStore ------------------------------
(***************************************************************************)
(* The key-value store of src/strykelang/kvstore.rs: one open handle       *)
(* (Arc<Mutex<KvStore>>) shared by the threads of a process, its file, and *)
(* a process that may die at any point and open the file again.            *)
(*                                                                         *)
(* put and del hold the mutex for their whole call and are one step.       *)
(* commit holds it over the write of a temporary file, its rename and the  *)
(* reset of the dirty flag.  kv_batch takes it anew for its snapshot, for  *)
(* every operation and for the rollback, so others come in between.        *)
(***************************************************************************)
EXTENDS KvOps

CONSTANTS
  Threads,
  Free       \* the mutex is not held

ASSUME KvAssumption ==
  /\ None \notin Values
  /\ Free \notin Threads
  /\ Batches \subseteq Seq(Ops)

VARIABLES
  entries,   \* KvRoot.entries of the handle
  dirty,     \* KvStore.dirty
  lock,      \* who holds the handle's mutex from one step to the next
  file,      \* the file at path; a missing file reads as the empty map
  up,        \* the process runs
  threads,   \* its threads that share the handle
  at,        \* where each thread is
  batch,     \* the ops of its kv_batch
  applied,   \* how many of them it has applied
  snapshot,  \* the entries that batch began with
  acked      \* what the last commit that returned wrote (history)

vars == <<entries, dirty, lock, file, up, threads, at, batch,
          applied, snapshot, acked>>

BatchVars == <<batch, applied, snapshot>>

Init ==
  /\ entries = Empty /\ dirty = FALSE /\ lock = Free
  /\ file = Empty /\ up = TRUE
  /\ threads \in SUBSET Threads
  /\ at = [t \in Threads |-> "idle"]
  /\ batch = [t \in Threads |-> <<>>]
  /\ applied = [t \in Threads |-> 0]
  /\ snapshot = [t \in Threads |-> Empty]
  /\ acked = Empty

\* The thread runs, is at the place given, and can have the mutex.
Runs(t, place) == up /\ at[t] = place /\ lock = Free

Goto(t, place) == at' = [at EXCEPT ![t] = place]

-----------------------------------------------------------------------------
(* Mutants: plausible bugs, put in place of the action each comment names. *)

\* WriteTmp: writes the file itself, and a crash may leave it half written.
WriteInPlace(t) ==
  /\ up /\ at[t] = "write"
  /\ Goto(t, "rename")
  /\ \E keys \in SUBSET Keys : file' = [k \in Keys |-> IF k \in keys THEN entries[k] ELSE None]
  /\ UNCHANGED <<entries, dirty, lock, up, BatchVars, acked>>

\* CommitFails: the flag is reset before the write rather than after it.
CommitFailsClean(t) ==
  /\ up /\ at[t] \in {"write", "rename"}
  /\ Goto(t, "idle")
  /\ lock' = Free /\ dirty' = FALSE
  /\ UNCHANGED <<entries, file, up, BatchVars, acked>>

\* BatchRollback: the entries stay as they are.
BatchRollbackNothing(t) ==
  /\ Runs(t, "batch")
  /\ applied[t] < Len(batch[t]) /\ batch[t][applied[t] + 1] = Rejected
  /\ Goto(t, "idle")
  /\ UNCHANGED <<entries, dirty, lock, file, up, BatchVars, acked>>

\* BatchOp: counts the operation twice.
BatchOpTwice(t) ==
  /\ Runs(t, "batch")
  /\ applied[t] < Len(batch[t])
  /\ LET op == batch[t][applied[t] + 1] IN
       /\ op # Rejected
       /\ entries' = Apply(entries, op)
       /\ dirty' = TRUE
  /\ applied' = [applied EXCEPT ![t] = @ + 2]
  /\ UNCHANGED <<lock, file, up, at, batch, snapshot, acked>>

-----------------------------------------------------------------------------
(* kv_put and kv_del.  A del of a key that is not there leaves dirty alone. *)

KvPut(t, k, v) ==
  /\ Runs(t, "idle")
  /\ entries' = Apply(entries, Put(k, v))
  /\ dirty' = TRUE
  /\ UNCHANGED <<lock, file, up, at, BatchVars, acked>>

KvDel(t, k) ==
  /\ Runs(t, "idle")
  /\ entries' = Apply(entries, Del(k))
  /\ dirty' = (dirty \/ entries[k] # None)
  /\ UNCHANGED <<lock, file, up, at, BatchVars, acked>>

-----------------------------------------------------------------------------
(* kv_batch.                                                               *)

BatchBegin(t, ops) ==
  /\ Runs(t, "idle")
  /\ Goto(t, "batch")
  /\ batch' = [batch EXCEPT ![t] = ops]
  /\ applied' = [applied EXCEPT ![t] = 0]
  /\ snapshot' = [snapshot EXCEPT ![t] = entries]
  /\ UNCHANGED <<entries, dirty, lock, file, up, acked>>

BatchOp(t) ==
  /\ Runs(t, "batch")
  /\ applied[t] < Len(batch[t])
  /\ LET op == batch[t][applied[t] + 1] IN
       /\ op # Rejected
       /\ entries' = Apply(entries, op)
       /\ dirty' = (dirty \/ op.kind = "put" \/ entries[op.key] # None)
  /\ applied' = [applied EXCEPT ![t] = @ + 1]
  /\ UNCHANGED <<lock, file, up, at, batch, snapshot, acked>>

BatchEnd(t) ==
  /\ up /\ at[t] = "batch"
  /\ applied[t] = Len(batch[t])
  /\ Goto(t, "idle")
  /\ UNCHANGED <<entries, dirty, lock, file, up, BatchVars, acked>>

\* g.root.entries = snapshot; g.dirty = !g.root.entries.is_empty()
BatchRollback(t) ==
  /\ Runs(t, "batch")
  /\ applied[t] < Len(batch[t]) /\ batch[t][applied[t] + 1] = Rejected
  /\ Goto(t, "idle")
  /\ entries' = snapshot[t]
  /\ dirty' = (snapshot[t] # Empty)
  /\ UNCHANGED <<lock, file, up, BatchVars, acked>>

-----------------------------------------------------------------------------
(* kv_commit, and kv_close, which commits if dirty.                        *)

\* Nothing to do unless dirty: the call returns.
BeginCommit(t) ==
  /\ Runs(t, "idle")
  /\ IF dirty THEN Goto(t, "write") /\ lock' = t /\ UNCHANGED acked
              ELSE UNCHANGED <<at, lock>>
  /\ UNCHANGED <<entries, dirty, file, up, BatchVars, acked>>

\* Create, write and sync the temporary file, which has a name of its own.
WriteTmp(t) ==
  /\ up /\ at[t] = "write"
  /\ Goto(t, "rename")
  /\ UNCHANGED <<entries, dirty, lock, file, up, BatchVars, acked>>

RenameTmp(t) ==
  /\ up /\ at[t] = "rename"
  /\ Goto(t, "renamed")
  /\ file' = entries
  /\ UNCHANGED <<entries, dirty, lock, up, BatchVars, acked>>

EndCommit(t) ==
  /\ up /\ at[t] = "renamed"
  /\ Goto(t, "idle")
  /\ dirty' = FALSE /\ lock' = Free
  /\ acked' = entries
  /\ UNCHANGED <<entries, file, up, BatchVars>>

\* A write, sync or rename that fails: the error goes to the script.
CommitFails(t) ==
  /\ up /\ at[t] \in {"write", "rename"}
  /\ Goto(t, "idle")
  /\ lock' = Free
  /\ UNCHANGED <<entries, dirty, file, up, BatchVars, acked>>

-----------------------------------------------------------------------------
(* The process dies; another one opens the file.                           *)

Crash ==
  /\ up /\ up' = FALSE
  /\ at' = [t \in Threads |-> "idle"]
  /\ lock' = Free
  /\ UNCHANGED <<entries, dirty, file, BatchVars, acked>>

Open ==
  /\ ~up /\ up' = TRUE
  /\ entries' = file /\ dirty' = FALSE
  /\ acked' = file
  /\ UNCHANGED <<lock, file, at, BatchVars>>

Next ==
  /\ UNCHANGED threads
  /\ \/ \E t \in threads :
          \/ \E k \in Keys : KvDel(t, k) \/ \E v \in Values : KvPut(t, k, v)
          \/ \E ops \in Batches : BatchBegin(t, ops)
          \/ BatchOp(t) \/ BatchEnd(t) \/ BatchRollback(t)
          \/ BeginCommit(t) \/ WriteTmp(t) \/ RenameTmp(t) \/ EndCommit(t)
          \/ CommitFails(t)
     \/ Crash
     \/ Open

Spec == Init /\ [][Next]_vars

-----------------------------------------------------------------------------
Committing == {"write", "rename", "renamed"}

TypeOK ==
  /\ entries \in Maps /\ file \in Maps /\ acked \in Maps
  /\ dirty \in BOOLEAN /\ up \in BOOLEAN
  /\ threads \subseteq Threads
  /\ lock \in Threads \union {Free}
  /\ at \in [Threads -> {"idle", "batch"} \union Committing]
  /\ batch \in [Threads -> Batches \union {<<>>}]
  /\ applied \in [Threads -> Nat]
  /\ snapshot \in [Threads -> Maps]
  /\ \A t \in Threads : applied[t] <= Len(batch[t])

(* Whatever a crash takes, the file is what the last commit that returned   *)
(* wrote, or the whole map of a commit the crash cut off after its rename   *)
(* (kvstore.rs:316-357).                                                    *)
FileHolds ==
  \/ file = acked
  \/ file = entries /\ (~up \/ \E t \in Threads : at[t] = "renamed")

(* A clean handle is a saved one, unless the map is empty: what a crash     *)
(* takes was never taken for saved (kvstore.rs:273, 283, 357, 599).         *)
CleanIsSaved == up /\ ~dirty => entries = file \/ entries = Empty

(* For a script of one thread the store is what KvContract says: puts,      *)
(* deletes and batches are whole or nothing, and only a commit changes the  *)
(* file (kvstore.rs:530-600).                                               *)
Seen ==
  IF ~up THEN Empty
  ELSE IF \E t \in threads : at[t] = "batch"
  THEN snapshot[CHOOSE t \in threads : at[t] = "batch"] ELSE entries

Contract == INSTANCE KvContract WITH map <- Seen, disk <- file, open <- up

Alone == \E t \in Threads : threads = {t}

KeepsContract ==
  /\ Alone => Contract!Init
  /\ [][Alone => Contract!Next]_(Contract!vars)

-----------------------------------------------------------------------------
(* "kv_commit(store) - flush in-memory state to disk atomically"            *)
(* (kvstore.rs:530).  A commit that finds the handle clean answers 1 and    *)
(* writes nothing, so it must find the file equal to the map.               *)
CommitFlushes == up /\ lock = Free /\ ~dirty => file = entries
=============================================================================
