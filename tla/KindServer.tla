----------------------------- MODULE KindServer -----------------------------
(***************************************************************************)
(* The write path of one Kind DB process and its recovery: the skip list   *)
(* `tree', the version counter, the WAL behind its mutex, the snapshot     *)
(* file, the handlers that change them and the background tasks.           *)
(*                                                                         *)
(* Handlers contain no await, so each runs on a runtime thread like plain  *)
(* code; every access to shared state (skip list, counter, mutex, file) is *)
(* a step of its own.  Two reductions: taking the mutex is merged with the *)
(* first access made under it, and releasing it with the last.             *)
(*                                                                         *)
(* The calls that only feed the read side (secondary index, cache, watch   *)
(* and sync broadcasts) write none of the variables below; they are not    *)
(* part of this module.  The process is a leader (is_replica is false) and *)
(* has both a snapshot and a WAL path, as main.rs gives it.                *)
(***************************************************************************)
EXTENDS Naturals, Sequences, FiniteSets

CONSTANTS
  Threads,        \* runtime threads that serve requests
  SnapshotTask,   \* the background task of save_snapshot_and_truncate_wal
  Keys,           \* keys, as numbers so that the skip list has an order
  Values,         \* byte strings
  Empty,          \* the empty byte string
  None,           \* Option::None
  NoWrite,        \* "this command does not mention the key"
  Ttls,           \* the ttl_ms a request may carry (None or a number)
  Ops,            \* the kinds of requests and background work in this run
  Faults,         \* the faults of this run
  InitialWal,     \* the log an earlier release left, whose lines have no tx_id
  ClockRange,     \* number of values of the integer a time is kept in (2^64)
  MaxVersion,     \* bound on global_version
  MaxTime,        \* bound on the clock
  MaxCrashes      \* bound on the number of crashes

VARIABLES
  phase,          \* "down", "replay" (inside KindServerImpl::new) or "up"
  tree,           \* the skip list: Keys -> DbRecord or None
  global_version, \* the atomic counter; max_ver while replaying
  wal_lock,       \* holder of the mutex around the WAL, or None
  wal,            \* the lines of the WAL file
  snapshot,       \* the records the snapshot file holds
  now,            \* the clock read by is_expired
  pc,             \* where each thread is in its handler
  writes,         \* the command a handler is about to log and apply
  expected,       \* the expected_value of a cas
  ver,            \* new_version of a handler, 0 before fetch_add
  snap,           \* snapshot_version of a transaction
  todo,           \* keys a handler has still to apply or to purge
  snap_pc,        \* where the snapshot task is
  snap_iter,      \* keys its iterator has not visited yet
  snap_buf,       \* records it has passed to its BufWriter
  sweep_iter,     \* keys the TTL task's iterator has not visited yet
  to_remove,      \* keys the TTL task has collected
  pos,            \* next line of the log to replay
  crashes         \* number of crashes so far

locals == <<writes, expected, ver, snap, todo>>
files  == <<wal, snapshot>>
saver  == <<snap_pc, snap_iter, snap_buf>>
sweeper == <<sweep_iter, to_remove>>
tasks  == <<saver, sweeper, pos>>
env    == <<phase, now, crashes>>
vars   == <<tree, global_version, wal_lock, pc, locals, files, tasks, env>>
-----------------------------------------------------------------------------
(* Data.  DbRecord.version is the only field a WAL command does not carry. *)

Times    == 0..(ClockRange - 1) \cup {None}
Payload  == [value : Values, expires_at : Times]
DbRecord == [value : Values, expires_at : Times, version : Nat]

(* WalCommand.  A Put or Delete mentions one key, a TxCommit the keys of   *)
(* its write set; None is the mark of a Delete.  The order of a TxCommit's *)
(* list is that of a HashMap and its keys are distinct, so it is dropped.  *)
WriteSet   == [Keys -> Payload \cup {None, NoWrite}]
WalCommand == [tx : BOOLEAN, writes : WriteSet]

INSTANCE Wal WITH Commands <- WalCommand, NoCommand <- None

ASSUME ConstantsAssumption ==
  /\ SnapshotTask \notin Threads /\ None \notin Threads \cup {SnapshotTask}
  /\ Keys \subseteq Nat /\ IsFiniteSet(Keys)
  /\ Empty \in Values
  /\ None \notin DbRecord \cup Payload \cup Nat
  /\ NoWrite \notin Payload \cup {None}
  /\ Ttls \subseteq Nat \cup {None}
  /\ InitialWal \in Seq(Line) /\ \A i \in DOMAIN InitialWal : InitialWal[i].tx_id = 0
  /\ ClockRange \in Nat \ {0} /\ MaxTime < ClockRange
  /\ MaxVersion \in Nat /\ MaxTime \in Nat /\ MaxCrashes \in Nat

NoWrites == [k \in Keys |-> NoWrite]

Only(k, w) == [NoWrites EXCEPT ![k] = w]

Touched(w) == {k \in Keys : w[k] # NoWrite}

Record(p, v) == [value |-> p.value, expires_at |-> p.expires_at, version |-> v]

PayloadOf(r) == IF r = None THEN None
                ELSE [value |-> r.value, expires_at |-> r.expires_at]

is_expired(e) == e # None /\ now > e

(* now + ttl_ms on u64: an optimised build wraps around.                   *)
ExpiresAt(ttl) == IF ttl = None THEN None ELSE (now + ttl) % ClockRange

Expired(r) == r # None /\ is_expired(r.expires_at)

(* A range iterator visits the keys that are left in ascending order.      *)
FirstOf(k, left) == k \in left /\ \A j \in left : k <= j

(* The tree after the writes w are applied under version v.                *)
Applied(w, v) ==
  [k \in Keys |-> CASE w[k] = NoWrite -> tree[k]
                    [] w[k] = None    -> None
                    [] OTHER          -> Record(w[k], v)]
-----------------------------------------------------------------------------
(* Handlers: their common steps.                                           *)

Goto(t, label) == pc' = [pc EXCEPT ![t] = label]

(* Every request in service takes at most one version.                     *)
Room == global_version + Cardinality({t \in Threads : pc[t] # "idle"}) < MaxVersion

Ready(t) == phase = "up" /\ pc[t] = "idle" /\ Room

(* The handler returns and its locals are gone.                            *)
Return(t) ==
  /\ Goto(t, "idle")
  /\ writes'   = [writes EXCEPT ![t] = NoWrites]
  /\ expected' = [expected EXCEPT ![t] = Empty]
  /\ ver'      = [ver EXCEPT ![t] = 0]
  /\ snap'     = [snap EXCEPT ![t] = 0]
  /\ todo'     = [todo EXCEPT ![t] = {}]

(* global_version.fetch_add(1) + 1                                         *)
FetchAdd(t) ==
  /\ global_version' = global_version + 1
  /\ ver' = [ver EXCEPT ![t] = global_version + 1]

Command(t, tx) == [tx |-> tx, writes |-> writes[t]]

(* The result of Wal::append is dropped (`let _ ='): if write_all fails,   *)
(* having written nothing or a part, the handler goes on all the same.     *)
Log(t, tx) ==
  \/ wal' = append(wal, Envelope(ver[t], Command(t, tx)))
  \/ /\ "append_error" \in Faults
     /\ \/ UNCHANGED wal
        \/ \E l \in TornForms(ver[t], Command(t, tx)) : wal' = append(wal, l)
-----------------------------------------------------------------------------
(* put: the log is written under the mutex, the tree after its release.    *)

PutBegin(t, k, v, ttl) ==
  /\ "put" \in Ops /\ Ready(t)
  /\ writes' = [writes EXCEPT ![t] =
                  Only(k, [value |-> v, expires_at |-> ExpiresAt(ttl)])]
  /\ Goto(t, "put_version")
  /\ UNCHANGED <<tree, global_version, wal_lock, files, expected, ver, snap,
                 todo, tasks, env>>

(* Mutant of PutVersion: the record is inserted without being logged.      *)
PutVersionUnlogged(t) ==
  /\ pc[t] = "put_version"
  /\ FetchAdd(t)
  /\ Goto(t, "put_insert")
  /\ UNCHANGED <<tree, wal_lock, files, writes, expected, snap, todo, tasks,
                 env>>

PutVersion(t) ==
  /\ pc[t] = "put_version"
  /\ FetchAdd(t)
  /\ Goto(t, "put_append")
  /\ UNCHANGED <<tree, wal_lock, files, writes, expected, snap, todo, tasks,
                 env>>

PutAppend(t) ==
  /\ pc[t] = "put_append"
  /\ wal_lock = None
  /\ Log(t, FALSE)
  /\ Goto(t, "put_insert")
  /\ UNCHANGED <<tree, global_version, wal_lock, snapshot, locals, tasks, env>>

PutInsert(t) ==
  /\ pc[t] = "put_insert"
  /\ tree' = Applied(writes[t], ver[t])
  /\ Return(t)
  /\ UNCHANGED <<global_version, wal_lock, files, tasks, env>>
-----------------------------------------------------------------------------
(* delete: the record leaves the tree before the log knows of it.  A key   *)
(* that is absent is answered at once and nothing changes.                 *)

DeleteBegin(t, k) ==
  /\ "delete" \in Ops /\ Ready(t)
  /\ tree[k] # None
  /\ writes' = [writes EXCEPT ![t] = Only(k, None)]
  /\ Goto(t, "delete_remove")
  /\ UNCHANGED <<tree, global_version, wal_lock, files, expected, ver, snap,
                 todo, tasks, env>>

DeleteRemove(t) ==
  /\ pc[t] = "delete_remove"
  /\ tree' = Applied(writes[t], 0)
  /\ Goto(t, "delete_version")
  /\ UNCHANGED <<global_version, wal_lock, files, locals, tasks, env>>

DeleteVersion(t) ==
  /\ pc[t] = "delete_version"
  /\ FetchAdd(t)
  /\ Goto(t, "delete_append")
  /\ UNCHANGED <<tree, wal_lock, files, writes, expected, snap, todo, tasks,
                 env>>

DeleteAppend(t) ==
  /\ pc[t] = "delete_append"
  /\ wal_lock = None
  /\ Log(t, FALSE)
  /\ Return(t)
  /\ UNCHANGED <<tree, global_version, wal_lock, snapshot, tasks, env>>
-----------------------------------------------------------------------------
(* cas: compares, logs and inserts under the mutex.                        *)

CasBegin(t, k, e, v, ttl) ==
  /\ "cas" \in Ops /\ Ready(t)
  /\ writes' = [writes EXCEPT ![t] =
                  Only(k, [value |-> v, expires_at |-> ExpiresAt(ttl)])]
  /\ expected' = [expected EXCEPT ![t] = e]
  /\ Goto(t, "cas_compare")
  /\ UNCHANGED <<tree, global_version, wal_lock, files, ver, snap, todo, tasks,
                 env>>

(* Mutant of Matches: an absent record never matches.                      *)
MatchesPresent(r, e) == r # None /\ ~Expired(r) /\ r.value = e

(* An absent or expired record is the empty value.                         *)
Matches(r, e) ==
  IF r = None \/ Expired(r) THEN e = Empty ELSE r.value = e

CasMatches(t) == \A k \in Touched(writes[t]) : Matches(tree[k], expected[t])

(* Mutant of CasHit: the mutex is held for the comparison only.            *)
CasHitUnlocked(t) ==
  /\ pc[t] = "cas_compare"
  /\ wal_lock = None
  /\ CasMatches(t)
  /\ Goto(t, "cas_version")
  /\ UNCHANGED <<tree, global_version, wal_lock, files, locals, tasks, env>>

CasHit(t) ==
  /\ pc[t] = "cas_compare"
  /\ wal_lock = None
  /\ CasMatches(t)
  /\ wal_lock' = t
  /\ Goto(t, "cas_version")
  /\ UNCHANGED <<tree, global_version, files, locals, tasks, env>>

CasMiss(t) ==
  /\ pc[t] = "cas_compare"
  /\ wal_lock = None
  /\ ~CasMatches(t)
  /\ Return(t)
  /\ UNCHANGED <<tree, global_version, wal_lock, files, tasks, env>>

CasVersion(t) ==
  /\ pc[t] = "cas_version"
  /\ FetchAdd(t)
  /\ Goto(t, "cas_append")
  /\ UNCHANGED <<tree, wal_lock, files, writes, expected, snap, todo, tasks,
                 env>>

(* Mutant of CasAppend: the mutex is released before the insert.           *)
CasAppendUnlocks(t) ==
  /\ pc[t] = "cas_append"
  /\ Log(t, FALSE)
  /\ wal_lock' = None
  /\ Goto(t, "cas_insert")
  /\ UNCHANGED <<tree, global_version, snapshot, locals, tasks, env>>

CasAppend(t) ==
  /\ pc[t] = "cas_append"
  /\ Log(t, FALSE)
  /\ Goto(t, "cas_insert")
  /\ UNCHANGED <<tree, global_version, wal_lock, snapshot, locals, tasks, env>>

CasInsert(t) ==
  /\ pc[t] = "cas_insert"
  /\ tree' = Applied(writes[t], ver[t])
  /\ wal_lock' = None
  /\ Return(t)
  /\ UNCHANGED <<global_version, files, tasks, env>>
-----------------------------------------------------------------------------
(* TxHandle.  An open transaction is private to its caller until commit.   *)

TxBegin(t) ==
  /\ "tx" \in Ops /\ Ready(t)
  /\ snap' = [snap EXCEPT ![t] = global_version]
  /\ Goto(t, "tx_open")
  /\ UNCHANGED <<tree, global_version, wal_lock, files, writes, expected, ver,
                 todo, tasks, env>>

TxPut(t, k, v, ttl) ==
  /\ pc[t] = "tx_open"
  /\ writes' = [writes EXCEPT ![t][k] =
                  [value |-> v, expires_at |-> ExpiresAt(ttl)]]
  /\ UNCHANGED <<tree, global_version, wal_lock, pc, files, expected, ver, snap,
                 todo, tasks, env>>

TxDelete(t, k) ==
  /\ "tx_delete" \in Ops
  /\ pc[t] = "tx_open"
  /\ writes' = [writes EXCEPT ![t][k] = None]
  /\ UNCHANGED <<tree, global_version, wal_lock, pc, files, expected, ver, snap,
                 todo, tasks, env>>

TxRollback(t) ==
  /\ pc[t] = "tx_open"
  /\ Return(t)
  /\ UNCHANGED <<tree, global_version, wal_lock, files, tasks, env>>

(* Mutants of Conflict: an off-by-one in either direction.                 *)
ConflictLate(t) ==
  \E k \in Touched(writes[t]) : tree[k] # None /\ tree[k].version > snap[t] + 1

ConflictEarly(t) ==
  \E k \in Touched(writes[t]) : tree[k] # None /\ tree[k].version >= snap[t]

(* commit's conflict check: only a record that is still in the tree counts. *)
Conflict(t) ==
  \E k \in Touched(writes[t]) : tree[k] # None /\ tree[k].version > snap[t]

TxCommit(t) ==
  /\ pc[t] = "tx_open"
  /\ wal_lock = None
  /\ ~Conflict(t)
  /\ wal_lock' = t
  /\ Goto(t, "tx_version")
  /\ UNCHANGED <<tree, global_version, files, locals, tasks, env>>

TxAbort(t) ==
  /\ pc[t] = "tx_open"
  /\ wal_lock = None
  /\ Conflict(t)
  /\ Return(t)
  /\ UNCHANGED <<tree, global_version, wal_lock, files, tasks, env>>

TxVersion(t) ==
  /\ pc[t] = "tx_version"
  /\ FetchAdd(t)
  /\ Goto(t, "tx_append")
  /\ UNCHANGED <<tree, wal_lock, files, writes, expected, snap, todo, tasks, env>>

TxAppend(t) ==
  /\ pc[t] = "tx_append"
  /\ Log(t, TRUE)
  /\ todo' = [todo EXCEPT ![t] = Touched(writes[t])]
  /\ Goto(t, "tx_apply")
  /\ UNCHANGED <<tree, global_version, wal_lock, snapshot, writes, expected, ver,
                 snap, tasks, env>>

(* The write set is a HashMap: its keys are applied one by one, in any order. *)
TxApply(t, k) ==
  /\ pc[t] = "tx_apply"
  /\ k \in todo[t]
  /\ tree' = [tree EXCEPT ![k] = Applied(writes[t], ver[t])[k]]
  /\ todo' = [todo EXCEPT ![t] = @ \ {k}]
  /\ UNCHANGED <<global_version, wal_lock, pc, files, writes, expected, ver, snap,
                 tasks, env>>

TxDone(t) ==
  /\ pc[t] = "tx_apply"
  /\ todo[t] = {}
  /\ wal_lock' = None
  /\ Return(t)
  /\ UNCHANGED <<tree, global_version, files, tasks, env>>
-----------------------------------------------------------------------------
(* get of an expired record, and the TTL task: both remove by key what     *)
(* they saw expired a step earlier.                                        *)

GetExpired(t, k) ==
  /\ "get" \in Ops /\ phase = "up" /\ pc[t] = "idle"
  /\ Expired(tree[k])
  /\ todo' = [todo EXCEPT ![t] = {k}]
  /\ Goto(t, "get_purge")
  /\ UNCHANGED <<tree, global_version, wal_lock, files, writes, expected, ver,
                 snap, tasks, env>>

GetPurge(t) ==
  /\ pc[t] = "get_purge"
  /\ tree' = [k \in Keys |-> IF k \in todo[t] THEN None ELSE tree[k]]
  /\ Return(t)
  /\ UNCHANGED <<global_version, wal_lock, files, tasks, env>>

SweepBegin ==
  /\ "sweep" \in Ops /\ phase = "up"
  /\ sweep_iter = {} /\ to_remove = {}
  /\ sweep_iter' = Keys
  /\ UNCHANGED <<tree, global_version, wal_lock, pc, files, locals, saver,
                 to_remove, pos, env>>

(* Mutant of SweepVisit: the expired key is not collected.                 *)
SweepVisitForgets(k) ==
  /\ FirstOf(k, sweep_iter)
  /\ sweep_iter' = sweep_iter \ {k}
  /\ UNCHANGED <<tree, global_version, wal_lock, pc, files, locals, saver,
                 to_remove, pos, env>>

SweepVisit(k) ==
  /\ FirstOf(k, sweep_iter)
  /\ sweep_iter' = sweep_iter \ {k}
  /\ to_remove' = to_remove \cup {j \in {k} : Expired(tree[j])}
  /\ UNCHANGED <<tree, global_version, wal_lock, pc, files, locals, saver, pos,
                 env>>

SweepRemove(k) ==
  /\ sweep_iter = {} /\ FirstOf(k, to_remove)
  /\ tree' = [tree EXCEPT ![k] = None]
  /\ to_remove' = to_remove \ {k}
  /\ UNCHANGED <<global_version, wal_lock, pc, files, locals, saver, sweep_iter,
                 pos, env>>
-----------------------------------------------------------------------------
(* save_snapshot_and_truncate_wal, under the mutex throughout.             *)

EmptyStore == [k \in Keys |-> None]

Live(store) == {k \in Keys : store[k] # None /\ ~Expired(store[k])}

LivePart(store) == [k \in Keys |-> IF k \in Live(store) THEN store[k] ELSE None]

(* Mutant of SnapshotBegin: the mutex is not kept while the files change.  *)
SnapshotBeginUnlocked ==
  /\ "snapshot" \in Ops /\ phase = "up"
  /\ wal_lock = None
  /\ snap_pc = "idle"
  /\ snap_pc' = "write"
  /\ snap_iter' = Keys
  /\ UNCHANGED <<tree, global_version, wal_lock, pc, files, locals, snap_buf,
                 sweeper, pos, env>>

SnapshotBegin ==
  /\ "snapshot" \in Ops /\ phase = "up"
  /\ wal_lock = None
  /\ wal_lock' = SnapshotTask
  /\ snap_pc' = "write"
  /\ snap_iter' = Keys
  /\ UNCHANGED <<tree, global_version, pc, files, locals, snap_buf, sweeper, pos,
                 env>>

SnapshotVisit(k) ==
  /\ snap_pc = "write" /\ FirstOf(k, snap_iter)
  /\ snap_iter' = snap_iter \ {k}
  /\ snap_buf' = [snap_buf EXCEPT ![k] = LivePart(tree)[k]]
  /\ UNCHANGED <<tree, global_version, wal_lock, pc, files, locals, snap_pc,
                 sweeper, pos, env>>

(* The BufWriter has spilled some prefix of the records, in key order; the *)
(* rest reaches the renamed file only when the writer is dropped.          *)
SnapshotRename ==
  /\ snap_pc = "write" /\ snap_iter = {}
  /\ \E spilled \in {{}} \cup {{j \in Keys : j <= k} : k \in Keys} :
       snapshot' = [k \in Keys |-> IF k \in spilled THEN snap_buf[k] ELSE None]
  /\ snap_pc' = "truncate"
  /\ UNCHANGED <<tree, global_version, wal_lock, pc, wal, locals, snap_iter,
                 snap_buf, sweeper, pos, env>>

(* Mutant of SnapshotRenameFails: the early return leaks the mutex.        *)
SnapshotRenameFailsLeaks ==
  /\ snap_pc = "write" /\ snap_iter = {}
  /\ snap_pc' = "idle"
  /\ snap_buf' = EmptyStore
  /\ UNCHANGED <<tree, global_version, wal_lock, pc, files, locals, snap_iter,
                 sweeper, pos, env>>

SnapshotRenameFails ==
  /\ snap_pc = "write" /\ snap_iter = {}
  /\ wal_lock' = None
  /\ snap_pc' = "idle"
  /\ snap_buf' = EmptyStore
  /\ UNCHANGED <<tree, global_version, pc, files, locals, snap_iter, sweeper, pos,
                 env>>

(* An error of set_len is dropped too.                                     *)
SnapshotTruncate ==
  /\ snap_pc = "truncate"
  /\ \/ wal' = truncate(wal)
     \/ "truncate_error" \in Faults /\ UNCHANGED wal
  /\ snap_pc' = "flush"
  /\ UNCHANGED <<tree, global_version, wal_lock, pc, snapshot, locals, snap_iter,
                 snap_buf, sweeper, pos, env>>

(* End of scope: the writer is dropped (and flushed), then the guard.  The *)
(* results of writeln! and of the last flush are dropped: on a full disk   *)
(* the renamed file stays as it is.                                        *)
SnapshotFlush ==
  /\ snap_pc = "flush"
  /\ \/ snapshot' = snap_buf
     \/ "snapshot_error" \in Faults /\ UNCHANGED snapshot
  /\ wal_lock' = None
  /\ snap_pc' = "idle"
  /\ snap_buf' = EmptyStore
  /\ UNCHANGED <<tree, global_version, pc, wal, locals, snap_iter, sweeper, pos,
                 env>>
-----------------------------------------------------------------------------
(* The clock, crashes and KindServerImpl::new.                             *)

Tick ==
  /\ now < MaxTime
  /\ now' = now + 1
  /\ UNCHANGED <<tree, global_version, wal_lock, pc, locals, files, tasks, phase,
                 crashes>>

(* Thread t is inside Wal::append.                                         *)
Appending(t) ==
  \/ pc[t] \in {"put_append", "delete_append"} /\ wal_lock = None
  \/ pc[t] \in {"cas_append", "tx_append"}

TornLines(t) ==
  (IF "torn" \in Faults THEN TornForms(ver[t], Command(t, pc[t] = "tx_append")) ELSE {})
    \cup (IF "torn_utf8" \in Faults THEN TornUtf8Forms ELSE {})

(* The process dies; a line that was being written may be left torn.       *)
Crash ==
  /\ "crash" \in Faults
  /\ phase # "down" /\ crashes < MaxCrashes
  /\ snap_pc \in {"truncate", "flush"} => "snapshot_crash" \in Faults
  /\ \/ UNCHANGED wal
     \/ \E t \in Threads : Appending(t) /\ \E l \in TornLines(t) : wal' = append(wal, l)
  /\ phase' = "down"
  /\ crashes' = crashes + 1
  /\ tree' = EmptyStore
  /\ global_version' = 0
  /\ wal_lock' = None
  /\ pc' = [t \in Threads |-> "idle"]
  /\ writes' = [t \in Threads |-> NoWrites]
  /\ expected' = [t \in Threads |-> Empty]
  /\ ver' = [t \in Threads |-> 0]
  /\ snap' = [t \in Threads |-> 0]
  /\ todo' = [t \in Threads |-> {}]
  /\ snap_pc' = "idle" /\ snap_iter' = {} /\ snap_buf' = EmptyStore
  /\ sweep_iter' = {} /\ to_remove' = {}
  /\ pos' = 1
  /\ UNCHANGED <<snapshot, now>>

(* new: the snapshot's live records, and max_ver their largest version.    *)
LoadSnapshot ==
  /\ phase = "down"
  /\ phase' = "replay"
  /\ tree' = LivePart(snapshot)
  /\ \E m \in {0} \cup {snapshot[k].version : k \in Live(snapshot)} :
       /\ \A k \in Live(snapshot) : snapshot[k].version <= m
       /\ global_version' = m
  /\ pos' = IF Readable(wal) THEN 1 ELSE Len(wal) + 1
  /\ UNCHANGED <<wal_lock, pc, files, locals, saver, sweeper, now, crashes>>

(* Mutant of MaxVer: the counter does not follow the logged ids.           *)
MaxVerForgets(tx_id) == IF tx_id = 0 THEN global_version + 1 ELSE global_version

(* max_ver after a command with this tx_id; 0 is the old format's.         *)
MaxVer(tx_id) ==
  IF tx_id = 0 THEN global_version + 1
  ELSE IF tx_id > global_version THEN tx_id ELSE global_version

(* A Put that has expired is passed over, not applied as a removal.        *)
Unexpired(w) ==
  [k \in Keys |-> IF w[k] \notin {None, NoWrite} /\ is_expired(w[k].expires_at)
                  THEN NoWrite ELSE w[k]]

(* Mutant of ReplayCommand: deletes are not replayed.                      *)
ReplayCommandPutsOnly ==
  /\ phase = "replay" /\ pos <= Len(wal)
  /\ wal[pos].ok
  /\ LET w == wal[pos].cmd.writes
         max_ver == MaxVer(wal[pos].tx_id)
     IN /\ global_version' = max_ver
        /\ tree' = Applied([k \in Keys |-> IF w[k] = None THEN NoWrite ELSE w[k]], max_ver)
  /\ pos' = pos + 1
  /\ UNCHANGED <<wal_lock, pc, files, locals, saver, sweeper, env>>

(* new: one command of the log; a TxCommit's records get max_ver + 1.      *)
ReplayCommand ==
  /\ phase = "replay" /\ pos <= Len(wal)
  /\ wal[pos].ok
  /\ LET cmd == wal[pos].cmd
         max_ver == MaxVer(wal[pos].tx_id)
     IN /\ global_version' = max_ver
        /\ tree' = Applied(Unexpired(cmd.writes), IF cmd.tx THEN max_ver + 1 ELSE max_ver)
  /\ pos' = pos + 1
  /\ UNCHANGED <<wal_lock, pc, files, locals, saver, sweeper, env>>

(* Mutant of SkipLine: the reader does not get past a bad line.            *)
SkipLineStuck ==
  /\ phase = "replay" /\ pos <= Len(wal)
  /\ ~wal[pos].ok
  /\ UNCHANGED vars

(* read_all_commands leaves out a line with a bad checksum or bad syntax.  *)
SkipLine ==
  /\ phase = "replay" /\ pos <= Len(wal)
  /\ ~wal[pos].ok
  /\ pos' = pos + 1
  /\ UNCHANGED <<tree, global_version, wal_lock, pc, files, locals, saver, sweeper,
                 env>>

(* new returns: the counter starts at max_ver and requests are served.     *)
Serve ==
  /\ phase = "replay" /\ pos > Len(wal)
  /\ phase' = "up"
  /\ pos' = 1
  /\ UNCHANGED <<tree, global_version, wal_lock, pc, files, locals, saver, sweeper,
                 now, crashes>>
-----------------------------------------------------------------------------
(* The specification.                                                      *)

Init ==
  /\ phase = "down" /\ tree = EmptyStore /\ global_version = 0
  /\ wal_lock = None /\ wal = InitialWal /\ snapshot = EmptyStore /\ now = 0
  /\ pc = [t \in Threads |-> "idle"]
  /\ writes = [t \in Threads |-> NoWrites]
  /\ expected = [t \in Threads |-> Empty]
  /\ ver = [t \in Threads |-> 0]
  /\ snap = [t \in Threads |-> 0]
  /\ todo = [t \in Threads |-> {}]
  /\ snap_pc = "idle" /\ snap_iter = {} /\ snap_buf = EmptyStore
  /\ sweep_iter = {} /\ to_remove = {}
  /\ pos = 1 /\ crashes = 0

(* A client sends a request, or a call to its open transaction.            *)
Request(t) ==
  \/ \E k \in Keys, v \in Values, ttl \in Ttls :
       \/ PutBegin(t, k, v, ttl)
       \/ TxPut(t, k, v, ttl)
       \/ \E e \in Values : CasBegin(t, k, e, v, ttl)
  \/ \E k \in Keys : DeleteBegin(t, k) \/ TxDelete(t, k) \/ GetExpired(t, k)
  \/ TxBegin(t) \/ TxRollback(t) \/ TxCommit(t) \/ TxAbort(t)

(* The handler goes on with a request it has accepted.                     *)
Handle(t) ==
  \/ PutVersion(t) \/ PutAppend(t) \/ PutInsert(t)
  \/ DeleteRemove(t) \/ DeleteVersion(t) \/ DeleteAppend(t)
  \/ CasHit(t) \/ CasMiss(t) \/ CasVersion(t) \/ CasAppend(t) \/ CasInsert(t)
  \/ TxVersion(t) \/ TxAppend(t) \/ (\E k \in Keys : TxApply(t, k)) \/ TxDone(t)
  \/ GetPurge(t)

FinishSnapshot ==
  \/ \E k \in Keys : SnapshotVisit(k)
  \/ SnapshotRename \/ SnapshotRenameFails \/ SnapshotTruncate \/ SnapshotFlush

Sweep == SweepBegin \/ \E k \in Keys : SweepVisit(k) \/ SweepRemove(k)

Start == LoadSnapshot \/ ReplayCommand \/ SkipLine \/ Serve

Next ==
  \/ \E t \in Threads : Request(t) \/ Handle(t)
  \/ SnapshotBegin \/ FinishSnapshot
  \/ Sweep
  \/ Tick \/ Crash \/ Start

Spec == Init /\ [][Next]_vars

(* Threads that run are scheduled, background tasks that are due run, and  *)
(* a process that is down is started again (docker's unless-stopped).      *)
(* Nothing is assumed of clients, of the clock, or of who gets the mutex.  *)
FairSpec ==
  /\ Spec
  /\ \A t \in Threads : WF_vars(Handle(t))
  /\ WF_vars(FinishSnapshot) /\ WF_vars(Sweep) /\ WF_vars(Start)
-----------------------------------------------------------------------------
(* Properties.                                                             *)

Labels ==
  {"idle", "put_version", "put_append", "put_insert", "delete_remove",
   "delete_version", "delete_append", "cas_compare", "cas_version", "cas_append",
   "cas_insert", "tx_open", "tx_version", "tx_append", "tx_apply", "get_purge"}

Locked == {"cas_version", "cas_append", "cas_insert", "tx_version", "tx_append", "tx_apply"}

Store == [Keys -> DbRecord \cup {None}]

(* Type invariant, with the mutex discipline: a thread is inside cas's or  *)
(* commit's critical section exactly when it holds the WAL mutex, and the  *)
(* snapshot task is in save_snapshot_and_truncate_wal exactly when it does. *)
TypeOK ==
  /\ phase \in {"down", "replay", "up"}
  /\ tree \in Store /\ snapshot \in Store /\ snap_buf \in Store
  /\ global_version \in Nat /\ now \in Nat /\ crashes \in Nat
  /\ wal \in Seq(Line)
  /\ wal_lock \in Threads \cup {SnapshotTask, None}
  /\ pc \in [Threads -> Labels]
  /\ writes \in [Threads -> WriteSet] /\ expected \in [Threads -> Values]
  /\ ver \in [Threads -> Nat] /\ snap \in [Threads -> Nat]
  /\ todo \in [Threads -> SUBSET Keys]
  /\ snap_pc \in {"idle", "write", "truncate", "flush"}
  /\ snap_iter \in SUBSET Keys
  /\ sweep_iter \in SUBSET Keys /\ to_remove \in SUBSET Keys
  /\ pos \in Nat \ {0}
  /\ \A t \in Threads : pc[t] \in Locked <=> wal_lock = t
  /\ snap_pc # "idle" <=> wal_lock = SnapshotTask
-----------------------------------------------------------------------------
(* What a restart would make of the files: the last line of the log that   *)
(* writes the key and counts, else the snapshot's record.                  *)

Writers(k, n) ==
  {i \in 1..n : Readable(wal) /\ wal[i].ok /\ Unexpired(wal[i].cmd.writes)[k] # NoWrite}

LastOf(I) == CHOOSE i \in I : \A j \in I : j <= i

Recovered(k, n) ==
  IF Writers(k, n) = {} THEN PayloadOf(LivePart(snapshot)[k])
  ELSE wal[LastOf(Writers(k, n))].cmd.writes[k]

(* Keys a request may have changed in the log or the tree, not yet in both. *)
Unsettled(t) ==
  IF pc[t] \in {"put_append", "put_insert", "delete_version", "delete_append",
                "cas_append", "cas_insert", "tx_append", "tx_apply"}
  THEN Touched(writes[t]) ELSE {}

Settled == {k \in Keys : \A t \in Threads : k \notin Unsettled(t)}

(* Between the rename and the drop of the BufWriter the files are in flux. *)
Swapping == snap_pc \in {"truncate", "flush"}

(* In a log that can be read no two lines carry one tx_id, whichever       *)
(* process wrote them, and no handler is about to log a tx_id that is in   *)
(* the log or held by another handler.  This is about the lines that are   *)
(* there; for ids whose lines were truncated see Replication.              *)
LogIdsUnique ==
  Readable(wal) =>
    /\ \A i, j \in DOMAIN wal :
         wal[i].ok /\ wal[j].ok /\ wal[i].tx_id = wal[j].tx_id /\ wal[i].tx_id # 0 => i = j
    /\ \A t \in Threads : pc[t] \in {"put_append", "delete_append", "cas_append", "tx_append"} =>
         /\ \A i \in DOMAIN wal : wal[i].ok => wal[i].tx_id # ver[t]
         /\ \A u \in Threads \ {t} : ver[u] # ver[t]

(* The rule of a write-ahead log: what readers can see in the skip list is *)
(* already on disk, as a line of the log or as a record of the snapshot.   *)
WriteAhead ==
  phase = "up" /\ ~Swapping =>
    \A k \in Live(tree) :
      \/ \E i \in DOMAIN wal : wal[i].ok /\ wal[i].cmd.writes[k] = PayloadOf(tree[k])
      \/ PayloadOf(snapshot[k]) = PayloadOf(tree[k])

(* A restart at this point would bring back, for every key that no request *)
(* is in the middle of changing, exactly what readers see now.             *)
RecoverableTree ==
  phase = "up" /\ ~Swapping =>
    \A k \in Settled : Recovered(k, Len(wal)) = PayloadOf(LivePart(tree)[k])

(* The same of the crash itself, whatever it leaves in the files: no key   *)
(* loses or regains a value by it.                                         *)
CrashKeepsData ==
  [][phase = "up" /\ phase' = "down" =>
       \A k \in Settled : Recovered(k, Len(wal))' = PayloadOf(LivePart(tree)[k])]_vars

(* The replay loop of new, at each of its rounds: the records readers will *)
(* see are those the lines read so far amount to, and the counter is past  *)
(* every version read.                                                     *)
RecoveryExact ==
  phase = "replay" =>
    /\ \A k \in Keys : ~Expired(tree[k]) => PayloadOf(tree[k]) = Recovered(k, pos - 1)
    /\ \A i \in 1..(pos - 1) : Readable(wal) /\ wal[i].ok => wal[i].tx_id <= global_version

(* First committer wins: a transaction that has passed commit's check      *)
(* overwrites nothing that was committed after its snapshot_version.  This *)
(* holds of values; a key whose last write was a delete is excepted.       *)
FirstCommitterWins ==
  \A t \in Threads : pc[t] \in {"tx_version", "tx_append"} =>
    \A k \in Touched(writes[t]) :
      LET I == {i \in DOMAIN wal : wal[i].ok /\ wal[i].cmd.writes[k] # NoWrite}
          last == wal[LastOf(I)]
      IN IF I = {} THEN snapshot[k] # None => snapshot[k].version <= snap[t]
         ELSE last.cmd.writes[k] # None => last.tx_id <= snap[t]

(* The same of every committed write, deletes too.                         *)
NoLostUpdate ==
  \A t \in Threads : pc[t] \in {"tx_version", "tx_append"} =>
    \A k \in Touched(writes[t]), i \in DOMAIN wal :
      wal[i].ok /\ wal[i].cmd.writes[k] # NoWrite => wal[i].tx_id <= snap[t]

(* Commit reports a conflict only if a write to one of the keys really was *)
(* logged after the transaction's snapshot_version.                        *)
NoSpuriousAbort ==
  [][\A t \in Threads : TxAbort(t) =>
       \E k \in Touched(writes[t]), i \in DOMAIN wal :
         wal[i].ok /\ wal[i].cmd.writes[k] # NoWrite /\ wal[i].tx_id > snap[t]]_vars

(* What cas compared is what its insert replaces.                          *)
CasReplacesExpected ==
  \A t \in Threads : pc[t] \in {"cas_version", "cas_append", "cas_insert"} => CasMatches(t)

(* A purge, by the TTL task or by get, removes nothing that is alive.      *)
OnlyExpiredPurged ==
  [][(\E t \in Threads : GetPurge(t)) \/ (\E k \in Keys : SweepRemove(k)) =>
       \A k \in Live(tree) : tree'[k] = tree[k]]_vars

(* The WAL mutex is always given up again.                                 *)
LockReleased == wal_lock # None ~> wal_lock = None

(* An expired record goes, or is replaced, though nobody asks for it.      *)
ExpiredPurged ==
  \A k \in Keys : Expired(tree[k]) ~> ~Expired(tree[k])

(* A process that is down serves again, whatever lines its log holds.      *)
RecoveryCompletes == phase = "down" ~> phase = "up"
-----------------------------------------------------------------------------
(* The promise of cas and commit: see AtomicStore.  A request takes effect *)
(* when its line is in the log.  While the files are swapped the snapshot  *)
(* task's buffer is what they will hold.                                   *)

StoreContents ==
  [k \in Keys |-> IF Swapping THEN PayloadOf(snap_buf[k]) ELSE Recovered(k, Len(wal))]

RequestOf(t) ==
  [op |-> CASE pc[t] \in {"cas_compare", "cas_version", "cas_append", "cas_insert"} -> "cas"
            [] pc[t] \in {"tx_open", "tx_version", "tx_append", "tx_apply"} -> "tx"
            [] OTHER -> "none",
   done |-> pc[t] \in {"cas_insert", "tx_apply"},
   writes |-> writes[t], expected |-> expected[t]]

Atomic == INSTANCE AtomicStore WITH
  Payloads <- Payload,
  contents <- StoreContents,
  request <- [t \in Threads |-> RequestOf(t)]

(* cas and transactions are atomic and durable: each takes effect in the   *)
(* files in one step between its call and its answer, a refused cas did    *)
(* find another value there, and neither a snapshot nor a crash nor a      *)
(* restart changes what the files stand for.                               *)
ImplementsAtomicStore == Atomic!Spec
=============================================================================
