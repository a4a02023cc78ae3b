---------------------------- MODULE Replication ----------------------------
(***************************************************************************)
(* Leader and replica: the leader's writers as far as the log, the sync    *)
(* broadcast and the tree go; the task that serves the replica's sync      *)
(* call; the stream; and the replica loop, which applies what arrives.     *)
(*                                                                         *)
(* Covered: two or more writers at once, a broken stream, a slow task that *)
(* lags behind the broadcast, truncation of the log, restarts of either    *)
(* process, a line of the log that a crash cuts short.  A record is named  *)
(* by the command that wrote it, and a command by its place in `commands'. *)
(* Times to live, the secondary index and the cache are left out: see      *)
(* KindServer and KindViews.  A whole snapshot and a whole restart are one *)
(* step here; KindServer takes them apart.                                 *)
(***************************************************************************)
EXTENDS Naturals, FiniteSets, Sequences

CONSTANTS
  Writers,         \* the leader's threads that serve writes
  Keys,            \* keys, as numbers so that the skip list has an order
  None,            \* Option::None
  Workloads,       \* the workloads of this run: see Workload
  SyncCapacity,    \* capacity of the sync broadcast (10000 in the code)
  StreamCapacity   \* payloads the stream buffers (100 in the code)

VARIABLES
  setting,         \* the workload of this behaviour; never changes
  commands,        \* every command that got a version, in that order, and
                   \* whether it got into the log: a history
  leader,          \* the leader's process and files
  wal_lock,        \* holder of the leader's WAL mutex, or None
  pc, job,         \* where each writer is, and its command
  task,            \* the task spawned by sync
  stream,          \* payloads on their way to the replica
  link,            \* "up" while the replica reads a stream, else "down"
  replica,         \* the replica's process and files
  faults           \* number of faults so far

writers == <<commands, leader, wal_lock, pc, job>>
vars == <<setting, writers, task, stream, link, replica, faults>>
-----------------------------------------------------------------------------
(* What happens in a behaviour: kinds of writes ("tx_any": transactions    *)
(* may also delete, or write nothing), faults, the number of records in a  *)
(* chunk of a snapshot (100 in the code), and bounds: the writers, the     *)
(* keys written, and the numbers of commands and of restarts and broken    *)
(* streams.                                                                *)
Workload ==
  [ops : SUBSET {"put", "delete", "cas", "tx", "tx_any"},
   faults : SUBSET {"race", "break", "truncate", "leader_restart", "replica_restart",
                    "replica_save", "torn"},
   chunk : Nat \ {0}, writers : SUBSET Writers, keys : SUBSET Keys,
   max_commands : Nat, max_faults : Nat]

ASSUME WorkloadsAssumption ==
  /\ Keys \subseteq Nat /\ IsFiniteSet(Keys) /\ IsFiniteSet(Writers)
  /\ Workloads \subseteq Workload
  /\ None \notin Writers
  /\ SyncCapacity \in Nat \ {0} /\ StreamCapacity \in Nat \ {0}

INSTANCE Wal WITH Commands <- Nat \ {0}, NoCommand <- 0

Sync == INSTANCE Broadcast WITH Capacity <- SyncCapacity

Writes  == [Keys -> {"put", "delete", "none"}]
Record  == [cmd : Nat \ {0}, version : Nat]
Store   == [Keys -> Record \cup {None}]

ASSUME NoneAssumption == None \notin Record

(* A Kind process and its files, leader or replica.                        *)
Node == [tree : Store, global_version : Nat, wal : Seq(Line), snapshot : Store]

EmptyStore == [k \in Keys |-> None]

Touched(c) == {k \in Keys : commands[c].writes[k] # "none"}

(* The tree after command c has been applied to it under version v.        *)
Applied(tree, c, v) ==
  [k \in Keys |-> CASE commands[c].writes[k] = "put" -> [cmd |-> c, version |-> v]
                    [] commands[c].writes[k] = "delete" -> None
                    [] OTHER -> tree[k]]

MaxOf(a, b) == IF a > b THEN a ELSE b

VersionOf(tree) ==
  CHOOSE v \in {0} \cup {tree[k].version : k \in {j \in Keys : tree[j] # None}} :
    \A k \in Keys : tree[k] # None => tree[k].version <= v

(* A line of the log; the records of a TxCommit get the version after it.  *)
Replayed(acc, line) ==
  LET max_ver == MaxOf(acc.global_version, line.tx_id)
      v == IF commands[line.cmd].tx THEN max_ver + 1 ELSE max_ver
  IN IF line.ok
     THEN [tree |-> Applied(acc.tree, line.cmd, v), global_version |-> max_ver]
     ELSE acc

(* new: the snapshot, then the log; what there is after each line of it.   *)
Replay(n) ==
  LET after[i \in 0..Len(n.wal)] ==
        IF i = 0 THEN [tree |-> n.snapshot, global_version |-> VersionOf(n.snapshot)]
        ELSE Replayed(after[i - 1], n.wal[i])
  IN after

(* The lines a restart replays: none when read_all_commands fails.         *)
ReplayedLines(n) == IF Readable(n.wal) THEN Len(n.wal) ELSE 0

Restarted(n) ==
  [n EXCEPT !.tree = Replay(n)[ReplayedLines(n)].tree,
            !.global_version = Replay(n)[ReplayedLines(n)].global_version]

(* save_snapshot_and_truncate_wal                                          *)
Saved(n) == [n EXCEPT !.snapshot = n.tree, !.wal = truncate(@)]

(* What a crash leaves of a log, to which a line was being appended or     *)
(* not: a part of that line may be in it, which may end in the middle of a *)
(* character.                                                              *)
CrashedLog(file, appending) ==
  {file} \cup {append(file, Unparsable(FALSE, utf8)) :
                 utf8 \in {b \in BOOLEAN : appending /\ "torn" \in setting.faults}}

(* Wal::read_from_tx_id: what there is after each line of the file.        *)
Records(file, start_tx_id) ==
  LET found[i \in 0..Len(file)] ==
        IF i = 0 THEN <<>>
        ELSE IF file[i].ok /\ file[i].tx_id >= start_tx_id
             THEN Append(found[i - 1], file[i]) ELSE found[i - 1]
  IN found

read_from_tx_id(file, start_tx_id) == Records(file, start_tx_id)[Len(file)]
-----------------------------------------------------------------------------
(* The leader's writers.  cas and commit hold the mutex from the version   *)
(* to the last insert; put holds it for its append only, delete too, after *)
(* it has changed the tree.  A comparison or conflict check that fails     *)
(* changes nothing.                                                        *)

NoJob == [kind |-> "none", cmd |-> 0, todo |-> {}]

Handshake == task.pc \in {"read", "check", "snapshot", "visit", "replay", "subscribe"}

Ready(w) ==
  /\ pc[w] = "idle" /\ w \in setting.writers
  /\ Len(commands) + Cardinality({u \in Writers : pc[u] = "version"}) < setting.max_commands
  /\ "race" \in setting.faults \/ ~Handshake

(* global_version.fetch_add(1) + 1, for a command with these writes.       *)
FetchAdd(w, tx, writes) ==
  /\ commands' = Append(commands, [tx_id |-> leader.global_version + 1, tx |-> tx,
                                   writes |-> writes, logged |-> FALSE])
  /\ job' = [job EXCEPT ![w].cmd = Len(commands) + 1,
                        ![w].todo = {k \in Keys : writes[k] # "none"}]
  /\ pc' = [pc EXCEPT ![w] = "append"]

One(k, op) == [j \in Keys |-> IF j = k THEN op ELSE "none"]

PutVersion(w, k) ==
  /\ "put" \in setting.ops /\ Ready(w)
  /\ FetchAdd(w, FALSE, One(k, "put"))
  /\ leader' = [leader EXCEPT !.global_version = @ + 1]
  /\ UNCHANGED <<setting, wal_lock, task, stream, link, replica, faults>>

LockVersion(w, tx, writes) ==
  /\ Ready(w)
  /\ wal_lock = None
  /\ wal_lock' = w
  /\ FetchAdd(w, tx, writes)
  /\ leader' = [leader EXCEPT !.global_version = @ + 1]
  /\ UNCHANGED <<setting, task, stream, link, replica, faults>>

CasVersion(w, k) == "cas" \in setting.ops /\ LockVersion(w, FALSE, One(k, "put"))

TxVersion(w, writes) ==
  /\ "tx" \in setting.ops
  /\ (\A k \in Keys : writes[k] = "none") \/ (\E k \in Keys : writes[k] = "delete")
     => "tx_any" \in setting.ops
  /\ (\A k \in Keys \ setting.keys : writes[k] = "none")
  /\ LockVersion(w, TRUE, writes)

DeleteRemove(w, k) ==
  /\ "delete" \in setting.ops /\ Ready(w)
  /\ leader.tree[k] # None
  /\ leader' = [leader EXCEPT !.tree[k] = None]
  /\ job' = [job EXCEPT ![w] = [kind |-> "delete", cmd |-> 0, todo |-> {k}]]
  /\ pc' = [pc EXCEPT ![w] = "version"]
  /\ UNCHANGED <<setting, commands, wal_lock, task, stream, link, replica, faults>>

DeleteVersion(w) ==
  /\ pc[w] = "version"
  /\ \E k \in job[w].todo : FetchAdd(w, FALSE, One(k, "delete"))
  /\ leader' = [leader EXCEPT !.global_version = @ + 1]
  /\ UNCHANGED <<setting, wal_lock, task, stream, link, replica, faults>>

LogAppend(w) ==
  /\ pc[w] = "append"
  /\ wal_lock \in {None, w}
  /\ leader' = [leader EXCEPT
       !.wal = append(@, Envelope(commands[job[w].cmd].tx_id, job[w].cmd))]
  /\ commands' = [commands EXCEPT ![job[w].cmd].logged = TRUE]
  /\ pc' = [pc EXCEPT ![w] = "send"]
  /\ UNCHANGED <<setting, wal_lock, job, task, stream, link, replica, faults>>

(* sync_tx.send, outside the mutex for put and delete.  The others apply   *)
(* their keys to the tree after it.                                        *)
SyncSend(w) ==
  /\ pc[w] = "send"
  /\ task' = IF task.pc = "stream" THEN [task EXCEPT !.rx = Sync!Received(@, job[w].cmd)]
             ELSE task
  /\ pc' = [pc EXCEPT ![w] = "apply"]
  /\ job' = [job EXCEPT ![w].todo = IF job[w].kind = "delete" THEN {} ELSE @]
  /\ UNCHANGED <<setting, commands, leader, wal_lock, stream, link, replica, faults>>

Insert(w, k) ==
  /\ pc[w] = "apply" /\ k \in job[w].todo
  /\ leader' = [leader EXCEPT
       !.tree[k] = Applied(leader.tree, job[w].cmd, commands[job[w].cmd].tx_id)[k]]
  /\ job' = [job EXCEPT ![w].todo = @ \ {k}]
  /\ UNCHANGED <<setting, commands, wal_lock, pc, task, stream, link, replica, faults>>

(* Mutant of Finish: the mutex is not given up.                            *)
FinishKeepsLock(w) ==
  /\ pc[w] = "apply" /\ job[w].todo = {}
  /\ pc' = [pc EXCEPT ![w] = "idle"]
  /\ job' = [job EXCEPT ![w] = NoJob]
  /\ UNCHANGED <<setting, commands, leader, wal_lock, task, stream, link, replica, faults>>

Finish(w) ==
  /\ pc[w] = "apply" /\ job[w].todo = {}
  /\ pc' = [pc EXCEPT ![w] = "idle"]
  /\ job' = [job EXCEPT ![w] = NoJob]
  /\ wal_lock' = IF wal_lock = w THEN None ELSE wal_lock
  /\ UNCHANGED <<setting, commands, leader, task, stream, link, replica, faults>>

(* Mutant of LeaderSave: it does not take the mutex.                       *)
LeaderSaveUnlocked ==
  /\ "truncate" \in setting.faults
  /\ leader' = Saved(leader)
  /\ UNCHANGED <<setting, commands, wal_lock, pc, job, task, stream, link, replica, faults>>

LeaderSave ==
  /\ "truncate" \in setting.faults
  /\ wal_lock = None
  /\ leader' = Saved(leader)
  /\ UNCHANGED <<setting, commands, wal_lock, pc, job, task, stream, link, replica, faults>>
-----------------------------------------------------------------------------
(* sync: the spawned task.  It holds no lock.  Its field `unread' is a     *)
(* history: the log could not be read.  No step depends on it.  There is a *)
(* log: main.rs always gives a path.                                       *)

NoTask ==
  [pc |-> "none", last_known |-> 0, start |-> 0, records |-> <<>>, iter |-> {}, chunk |-> {},
   unread |-> FALSE, rx |-> Sync!NewReceiver]

Room == Len(stream) < StreamCapacity

(* Mutant of GapAfter: the first record's tx_id is not looked at.          *)
GapAfterIgnored(records, last_known) == FALSE

GapAfter(records, last_known) == records # <<>> /\ records[1].tx_id > last_known + 1

(* A snapshot is required when the replica has nothing, when the log can   *)
(* not be read, and when its records start too late.                       *)
SyncRead ==
  /\ task.pc = "read"
  /\ LET records == read_from_tx_id(leader.wal, task.last_known + 1)
         Err == ~Readable(leader.wal)
     IN IF task.last_known = 0 \/ Err \/ GapAfter(records, task.last_known)
        THEN task' = [task EXCEPT !.pc = "snapshot", !.unread = task.last_known # 0 /\ Err]
        ELSE task' = [task EXCEPT !.pc = IF records = <<>> THEN "check" ELSE "replay",
                                  !.records = records, !.start = task.last_known]
  /\ UNCHANGED <<setting, writers, stream, link, replica, faults>>

(* Mutants of Outdated: compared for being different; not compared.        *)
OutdatedDiffers(last_known) == leader.global_version # last_known
OutdatedNever(last_known) == FALSE

Outdated(last_known) == leader.global_version > last_known

(* Nothing in the log: has the replica everything, or was it truncated?    *)
SyncCheck ==
  /\ task.pc = "check"
  /\ task' = [task EXCEPT !.pc = IF Outdated(task.last_known) THEN "snapshot" ELSE "subscribe"]
  /\ UNCHANGED <<setting, writers, stream, link, replica, faults>>

SyncSnapshot ==
  /\ task.pc = "snapshot"
  /\ task' = [task EXCEPT !.pc = "visit", !.start = leader.global_version, !.iter = Keys]
  /\ UNCHANGED <<setting, writers, stream, link, replica, faults>>

(* SnapshotChunk, and the history field of the task that sent it.          *)
Chunk(records) ==
  [type |-> "snapshot", records |-> records, max_tx_id |-> task.start, unread |-> task.unread]

(* One key of the iteration; a chunk that is full is sent.                 *)
SyncVisit(k) ==
  /\ task.pc = "visit" /\ k \in task.iter /\ \A j \in task.iter : k <= j
  /\ LET found == {<<j, leader.tree[j].cmd>> : j \in {i \in {k} : leader.tree[i] # None}}
         chunk == task.chunk \cup found
     IN IF found # {} /\ Cardinality(chunk) >= setting.chunk
        THEN /\ Room
             /\ stream' = Append(stream, Chunk(chunk))
             /\ task' = [task EXCEPT !.iter = @ \ {k}, !.chunk = {}]
        ELSE /\ task' = [task EXCEPT !.iter = @ \ {k}, !.chunk = chunk]
             /\ UNCHANGED stream
  /\ UNCHANGED <<setting, writers, link, replica, faults>>

(* The rest of the records; an empty chunk is sent only for version 0.     *)
SyncLastChunk ==
  /\ task.pc = "visit" /\ task.iter = {}
  /\ IF task.chunk # {} \/ task.start = 0
     THEN Room /\ stream' = Append(stream, Chunk(task.chunk))
     ELSE UNCHANGED stream
  /\ task' = [task EXCEPT !.pc = "subscribe", !.chunk = {}]
  /\ UNCHANGED <<setting, writers, link, replica, faults>>

WalRecord(tx_id, c) == [type |-> "wal", tx_id |-> tx_id, cmd |-> c]

SyncReplay ==
  /\ task.pc = "replay"
  /\ LET line == Head(task.records)
     IN /\ Room
        /\ stream' = Append(stream, WalRecord(line.tx_id, line.cmd))
        /\ task' = [task EXCEPT !.start = line.tx_id, !.records = Tail(@),
                                !.pc = IF Len(task.records) = 1 THEN "subscribe" ELSE "replay"]
  /\ UNCHANGED <<setting, writers, link, replica, faults>>

SyncSubscribe ==
  /\ task.pc = "subscribe"
  /\ task' = [task EXCEPT !.pc = "stream", !.rx = Sync!NewReceiver]
  /\ UNCHANGED <<setting, writers, stream, link, replica, faults>>

(* Mutant of OnLagged: the task goes on with what is left in the channel.  *)
OnLaggedResumes == [task EXCEPT !.rx = Sync!Popped(@)]

(* The error Lagged ends the task.                                         *)
OnLagged == NoTask

(* A command of the broadcast, skipped when the start covers it.           *)
SyncForward ==
  /\ task.pc = "stream"
  /\ IF task.rx.lagged THEN task' = OnLagged /\ UNCHANGED stream
     ELSE /\ task.rx.queue # <<>>
          /\ task' = [task EXCEPT !.rx = Sync!Popped(@)]
          /\ LET c == Head(task.rx.queue)
                 tx_id == commands[c].tx_id
             IN IF tx_id <= task.start THEN UNCHANGED stream
                ELSE Room /\ stream' = Append(stream, WalRecord(tx_id, c))
  /\ UNCHANGED <<setting, writers, link, replica, faults>>

SyncTask ==
  \/ SyncRead \/ SyncCheck \/ SyncSnapshot \/ (\E k \in Keys : SyncVisit(k)) \/ SyncLastChunk
  \/ SyncReplay \/ SyncSubscribe \/ SyncForward
-----------------------------------------------------------------------------
(* run_replica_loop.  Each payload is one step: a record is applied under  *)
(* the replica's own mutex.  A chunk is loaded without it, and nothing     *)
(* else writes to the replica's tree then; a snapshot of the replica that  *)
(* runs in the middle of a chunk would save a part of it, which only a     *)
(* restart of the replica could tell.                                      *)

Connect ==
  /\ link = "down"
  /\ "race" \in setting.faults \/ \A w \in Writers : pc[w] = "idle"
  /\ link' = "up"
  /\ stream' = <<>>
  /\ task' = [NoTask EXCEPT !.pc = "read", !.last_known = replica.global_version]
  /\ UNCHANGED <<setting, writers, replica, faults>>

(* A chunk's records are put into the tree, and into no file.              *)
ReceiveChunk ==
  /\ link = "up" /\ stream # <<>> /\ Head(stream).type = "snapshot"
  /\ LET p == Head(stream)
         Loaded(k) == {r \in p.records : r[1] = k}
     IN replica' = [replica EXCEPT
          !.tree = [k \in Keys |-> IF Loaded(k) = {} THEN replica.tree[k]
                                   ELSE [cmd |-> (CHOOSE r \in Loaded(k) : TRUE)[2],
                                         version |-> p.max_tx_id]],
          !.global_version = p.max_tx_id]
  /\ stream' = Tail(stream)
  /\ UNCHANGED <<setting, writers, task, link, faults>>

NextRecord == link = "up" /\ stream # <<>> /\ Head(stream).type = "wal"

IsDuplicate(tx_id) == tx_id <= replica.global_version

(* A replica at version 0 takes any record for the next one.               *)
IsGap(tx_id) == tx_id > replica.global_version + 1 /\ replica.global_version # 0

(* The record in hand is one the loop appends to the replica's log.        *)
Appending ==
  NextRecord /\ ~IsDuplicate(Head(stream).tx_id) /\ ~IsGap(Head(stream).tx_id)

SkipDuplicate ==
  /\ NextRecord /\ IsDuplicate(Head(stream).tx_id)
  /\ stream' = Tail(stream)
  /\ UNCHANGED <<setting, writers, task, link, replica, faults>>

(* The replica drops the stream, and with it the leader's task.            *)
BreakOnGap ==
  /\ NextRecord /\ ~IsDuplicate(Head(stream).tx_id) /\ IsGap(Head(stream).tx_id)
  /\ link' = "down" /\ stream' = <<>> /\ task' = NoTask
  /\ UNCHANGED <<setting, writers, replica, faults>>

apply_command ==
  /\ Appending
  /\ LET p == Head(stream)
     IN replica' = [replica EXCEPT !.wal = append(@, Envelope(p.tx_id, p.cmd)),
                                   !.tree = Applied(@, p.cmd, p.tx_id),
                                   !.global_version = p.tx_id]
  /\ stream' = Tail(stream)
  /\ UNCHANGED <<setting, writers, task, link, faults>>

StreamEnds ==
  /\ link = "up" /\ stream = <<>> /\ task.pc = "none"
  /\ link' = "down"
  /\ UNCHANGED <<setting, writers, task, stream, replica, faults>>

ReplicaLoop ==
  Connect \/ ReceiveChunk \/ SkipDuplicate \/ BreakOnGap \/ apply_command \/ StreamEnds

ReplicaSave ==
  /\ "replica_save" \in setting.faults
  /\ replica' = Saved(replica)
  /\ UNCHANGED <<setting, writers, task, stream, link, faults>>
-----------------------------------------------------------------------------
(* Faults.                                                                 *)

Fault(f) ==
  /\ f \in setting.faults /\ faults < setting.max_faults
  /\ faults' = faults + 1

StreamBreaks ==
  /\ Fault("break")
  /\ link = "up"
  /\ link' = "down" /\ stream' = <<>> /\ task' = NoTask
  /\ UNCHANGED <<setting, writers, replica>>

ReplicaRestarts ==
  /\ Fault("replica_restart")
  /\ \E file \in CrashedLog(replica.wal, Appending) :
       replica' = Restarted([replica EXCEPT !.wal = file])
  /\ link' = "down" /\ stream' = <<>> /\ task' = NoTask
  /\ UNCHANGED <<setting, writers>>

(* The task is gone; what is on the way may still arrive.                  *)
LeaderRestarts ==
  /\ Fault("leader_restart")
  /\ \E file \in CrashedLog(leader.wal, \E w \in Writers : pc[w] = "append" /\ wal_lock \in {None, w}) :
       leader' = Restarted([leader EXCEPT !.wal = file])
  /\ wal_lock' = None
  /\ pc' = [w \in Writers |-> "idle"] /\ job' = [w \in Writers |-> NoJob]
  /\ task' = NoTask
  /\ UNCHANGED <<setting, commands, stream, link, replica>>
-----------------------------------------------------------------------------
Fresh == [tree |-> EmptyStore, global_version |-> 0, wal |-> <<>>, snapshot |-> EmptyStore]

Init ==
  /\ setting \in Workloads
  /\ commands = <<>> /\ leader = Fresh /\ wal_lock = None
  /\ pc = [w \in Writers |-> "idle"] /\ job = [w \in Writers |-> NoJob]
  /\ task = NoTask /\ stream = <<>> /\ link = "down"
  /\ replica = Fresh /\ faults = 0

Request(w) ==
  \/ \E k \in setting.keys : PutVersion(w, k) \/ CasVersion(w, k) \/ DeleteRemove(w, k)
  \/ \E writes \in Writes : TxVersion(w, writes)

Handle(w) ==
  DeleteVersion(w) \/ LogAppend(w) \/ SyncSend(w) \/ (\E k \in Keys : Insert(w, k)) \/ Finish(w)

Next ==
  \/ \E w \in Writers : Request(w) \/ Handle(w)
  \/ LeaderSave \/ SyncTask \/ ReplicaLoop \/ ReplicaSave
  \/ StreamBreaks \/ ReplicaRestarts \/ LeaderRestarts

(* Threads and tasks that can run do, and the replica connects again after *)
(* its three seconds; nothing is assumed of clients or of faults.          *)
Spec ==
  /\ Init /\ [][Next]_vars
  /\ \A w \in Writers : WF_vars(Handle(w))
  /\ WF_vars(SyncTask) /\ WF_vars(ReplicaLoop)
-----------------------------------------------------------------------------
(* Properties.                                                             *)

(* Type invariant.                                                         *)
TypeOK ==
  /\ setting \in Workloads
  /\ commands \in Seq([tx_id : Nat \ {0}, tx : BOOLEAN, writes : Writes, logged : BOOLEAN])
  /\ leader \in Node /\ replica \in Node
  /\ wal_lock \in Writers \cup {None}
  /\ pc \in [Writers -> {"idle", "version", "append", "send", "apply"}]
  /\ \A w \in Writers : wal_lock = w => pc[w] \in {"append", "send", "apply"}
  /\ link \in {"up", "down"} /\ (link = "down" => task = NoTask)
  /\ Len(task.rx.queue) <= SyncCapacity /\ Len(stream) <= StreamCapacity

Contents(n) == [k \in Keys |-> IF n.tree[k] = None THEN 0 ELSE n.tree[k].cmd]

(* What the commands logged up to version v amount to.                     *)
StateAt(v) ==
  [k \in Keys |->
     LET C == {c \in DOMAIN commands : /\ commands[c].logged /\ commands[c].tx_id <= v
                                       /\ k \in Touched(c)}
         last == CHOOSE c \in C : \A d \in C : d <= c
     IN IF C = {} \/ commands[last].writes[k] = "delete" THEN 0 ELSE last]

(* "Strictly sequential replication": at version v the replica holds what  *)
(* the leader's commands up to v amount to, none left out.                 *)
SequentialReplica == Contents(replica) = StateAt(replica.global_version)

(* The conditions under which the code keeps this: every writer holds the  *)
(* mutex while it sends; no write arrives between a sync call and its      *)
(* subscription; a snapshot fits into one chunk; the replica is not        *)
(* restarted; no crash cuts a line short; and the log is truncated only if *)
(* every command leaves a record, from which a restarted leader knows its  *)
(* version.                                                                *)
Orderly ==
  /\ setting.ops \subseteq {"cas", "tx", "tx_any"}
  /\ setting.faults \cap {"race", "replica_restart", "torn"} = {}
  /\ setting.chunk >= Cardinality(setting.keys)
  /\ "truncate" \in setting.faults => "tx_any" \notin setting.ops

(* Replication is sequential under these conditions, over broken streams,  *)
(* overruns of the broadcast channel, truncations and leader restarts.     *)
OrderlyReplica == Orderly => SequentialReplica

(* The replica's version goes back in two ways only: by a restart of the   *)
(* replica, and by a chunk of a snapshot that the leader sent because it   *)
(* could not read its log.  Neither a late record nor a snapshot sent for  *)
(* a gap, a truncated log or a new replica takes it back.                  *)
NeverBackwards ==
  [][\/ replica'.global_version >= replica.global_version
     \/ ReplicaRestarts
     \/ ReceiveChunk /\ Head(stream).unread]_vars

(* When a restarted leader still knows the ids it logged: no crash cuts a  *)
(* line short, and the log is truncated only if every command leaves a     *)
(* record in the tree and is in it before the mutex is given up.           *)
Remembers ==
  /\ "torn" \notin setting.faults
  /\ "truncate" \in setting.faults => setting.ops \subseteq {"cas", "tx"}

(* No transaction id is logged for two commands then, over truncations of  *)
(* the log and restarts of the leader, whether or not the lines are still  *)
(* there: a replica skips a record whose id it has already seen.           *)
IdsNeverReused ==
  Remembers =>
    \A c, d \in DOMAIN commands :
      commands[c].logged /\ commands[d].logged /\ commands[c].tx_id = commands[d].tx_id => c = d

(* Whatever happens, a replica does not break and resume its stream for    *)
(* ever: it ends up where the leader streams to it.                        *)
StreamSettles == <>[](task.pc = "stream")

(* Once the commands are used up the replica ends up with the leader's     *)
(* data, and stays with it.                                                *)
ReplicaCatchesUp == <>[](Contents(replica) = Contents(leader))

(* Under the same conditions it does.                                      *)
Converges == Orderly => ReplicaCatchesUp
=============================================================================
