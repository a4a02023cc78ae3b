# Kind DB in TLA+

A verification project for Kind DB, the in-memory key-value database of this
repository. Module and action names follow the code; `PROJECT.json` maps every
definition to its lines. Paths below are relative to the repository.

## The system

| Component | State | Operations | Source |
|---|---|---|---|
| Storage engine | skip list `tree`, counter `global_version`, `Mutex<Option<Wal>>` | `get`, `put`, `delete`, `cas`, `TxHandle::{put,delete,commit,rollback}`, scans | `src/server.rs` |
| Write-ahead log | one file of JSON lines with checksums | `append`, `truncate`, `read_all_commands`, `read_from_tx_id` | `src/wal.rs` |
| Recovery | the files; `max_ver` | `KindServerImpl::new`: load the snapshot, replay the log | `src/server.rs` |
| Snapshot task | temporary file, `BufWriter` | `save_snapshot_and_truncate_wal`, every 5 minutes | `src/server.rs` |
| TTL eviction | keys collected | the TTL task every 5 seconds; `get`'s lazy purge | `src/server.rs` |
| Cache | `LruCache` (the server's), `LfuCache`, `FifoCache` | `get`, `put`, `invalidate` | `src/cache.rs` |
| Read side | secondary indexes, cache contents, watch broadcast | `query`, `watch`, index maintenance in every writer | `src/server.rs` |
| Replication | sync broadcast, replica's tree and log | `sync`, `run_replica_loop`, `apply_command` | `src/server.rs`, `src/replica.rs` |
| Schema language | registry of types and prefixes | lexer, parser, `load_schema`, `validate` | `src/schema/` |
| Clients | none | `kindctl`, Go client | `src/bin/kindctl.rs`, `go-client/` |

The components share memory: handlers run on the threads of a tokio runtime and
contain no `await`, so each is a plain sequence of accesses to the skip list
(lock free), the atomic counter and the log behind its mutex, interleaved with
the other handlers and the two background tasks. What makes the system hard is
which of these sequences are under the mutex and which are not: `cas` and
`commit` hold it from their comparison to their last insert, the snapshot task
throughout; `put` and `delete` hold it only while they append; the TTL task and
`get`'s purge never do. On top of this come crashes between any two steps, in
the middle of a line of the log too, errors that are dropped (`let _ =`), and
times that run out while all this goes on.

What would make each component correct:

- storage engine: no two lines of the log carry one version; `cas` replaces what it compared;
  a commit overwrites nothing newer than its snapshot and reports no conflict
  that did not happen; together, atomicity and durability of each request;
- log and recovery: what readers see can be rebuilt from the files at any
  moment; the replay loop rebuilds exactly what the log says; it always ends;
- snapshot task: swapping the files never changes what they stand for;
- TTL: expired records go, live ones stay;
- caches: capacity, the eviction order of the policy, structural integrity;
- read side: a cached value is the stored one and has not expired; an index set
  holds exactly the keys whose records carry the indexed value; a watcher sees
  every change of a key once and in the order the tree took them;
- replication: a replica applies every command once and in order, asks for a
  snapshot when it has missed some, and converges to the leader's tree;
- schema: the parser accepts the grammar's sentences and no others, and
  validation accepts a value exactly when it has the declared type.

The hazards of the code are listed line by line in `PROJECT.json`.

## Modules

| Module | Models |
|---|---|
| `Wal` | the log file: lines, `append` (onto a torn tail too), `truncate`, what readers accept |
| `KindServer` | the write path and recovery of one process; all properties of the runs on it |
| `AtomicStore` | abstract: what `cas` and transactions promise, without log, tree or mutex |
| `MCKindServer` | constants for TLC: initial logs, symmetry |
| `KindServerProofs` | theorems about every workload: types, mutex discipline, unique ids in the log |
| `LockedProofs` | theorems about `cas`, transactions and snapshots: durability, atomicity, crash safety, the refinement of `AtomicStore` |
| `RecoveryProofs`, `WriteAheadProofs`, `TransactionProofs` | theorems about the replay loop, the order of log and tree, and the conflict check |
| `CacheProofs` | theorems about the three caches, refinements of `EvictionQueue` included |
| `ViewProofs` | theorems about cache, index and watch stream of the server |
| `ReplicationProofs` | theorems about leader, sync task, stream and replica |
| `EvictionQueue` | abstract: a bounded queue of keys, what LRU and FIFO promise |
| `CacheTrait` | keys, values and capacity, common to the three caches |
| `LruCache`, `LfuCache`, `FifoCache` | the three caches of `cache.rs`, definitions prefixed `Lru`, `Lfu`, `Fifo` |
| `Caches` | a boxed cache with one of the three policies; the module TLC runs |
| `KindViews` | what clients see: cache, secondary index and watch stream against the tree |
| `Replication` | leader, sync task, stream and replica |
| `Broadcast` | external: a receiver of a tokio broadcast channel, used by both |
| `Schema` | lexer, parser, registry, validation; recursive, so for TLC only |
| `MCKindViews`, `MCReplication`, `MCSchema` | workloads, schemas and documents for TLC |

### KindServer

Each thread has a program counter `pc[t]` and the handler's locals (`writes`,
`expected`, `ver`, `snap`, `todo`). An action is one access to shared state:

- `put`: `PutBegin` (request and expiry), `PutVersion` (`fetch_add`),
  `PutAppend` (lock, append, unlock), `PutInsert`;
- `delete`: `DeleteBegin`, `DeleteRemove`, `DeleteVersion`, `DeleteAppend`;
- `cas`: `CasBegin`, `CasHit`/`CasMiss` (lock and compare), `CasVersion`,
  `CasAppend`, `CasInsert` (insert and unlock);
- transactions: `TxBegin`, `TxPut`, `TxDelete`, `TxRollback`, `TxCommit`/`TxAbort`
  (lock and check), `TxVersion`, `TxAppend`, `TxApply` (one key), `TxDone`;
- expiry: `GetExpired`, `GetPurge`; `SweepBegin`, `SweepVisit`, `SweepRemove`;
- the snapshot: `SnapshotBegin`, `SnapshotVisit` (one key, in key order),
  `SnapshotRename` or `SnapshotRenameFails`, `SnapshotTruncate`, `SnapshotFlush`;
- `Tick`, `Crash`, and recovery: `LoadSnapshot`, `ReplayCommand`, `SkipLine`, `Serve`.

Taking the mutex is merged with the first access made under it and releasing it
with the last: the merged steps touch nothing that other threads use. `commit`'s
loop over its keys before `fetch_add` is one step, for the same reason where all
writers hold the mutex; against `put` and `delete` it gives the loop the best
case. A value is an opaque byte string; a key is a number, because the skip list
is ordered; a `TxCommit`'s list is a function from keys to writes.

`Ops` and `Faults` select what a run contains: requests and tasks, and
`crash`, `torn` and `torn_utf8` (a crash inside `write_all`), `snapshot_crash` (a
crash between rename and flush), `append_error`, `truncate_error` and
`snapshot_error` (errors the code drops).

The process is a leader with snapshot and log paths, as `main.rs` sets it up.
The clock never goes back. Mutex poisoning is left out: no code under the WAL
mutex panics short of allocation failure. Loss of written data by the operating
system is left out: `append` calls `sync_data`, and the snapshot, which is never
synced, is treated as written once it is flushed.

### Caches

Every operation holds the cache's own mutex and is one step; the eviction loop
of `FifoCache` is one step per round, so that its termination can be asked. The
LRU's vector of nodes, links and free list are modelled slot by slot. `Caches`
picks one policy in `Init` and keeps it.

### KindViews

A handler here is its *plan*: the sequence of its accesses to index, cache, tree,
log and watch channel in the order of the code (`PutPlan`, `DeletePlan`,
`CasPlan`, `TxPutPlan`, `TxDeletePlan`, `PurgePlan`). `PutBegin` and its like put
the plan on the thread and read what the code reads at that point (the old record
of `put` is read long before it is replaced); `Unindex`, `Lookup`, `Create`, `Add`,
`Fill`, `Invalidate`, `Log`, `TreeInsert`, `TreeRemove`, `Notify` and `Unlock` take
the access `at` which the request stands, and any thread may be next; `Ahead` moves
a request on, past accesses its branch leaves out too. A commit has a plan for each
key of its write set, which `NextKey` takes up in any order, and gives the mutex up
after the last. Each access to a `SkipMap`, a `SkipSet` or the cache is one step,
since these are linearizable.

- `index_record` finds no set, makes one and inserts it in three steps; `made`
  counts the sets made for a value, so that a key added to a set that has been
  replaced meanwhile is in no index.
- `Restart` is `new` as far as tree and index go (`Rebuilt` is its loop over the
  log), with its quirk: a replayed put leaves the entry of the value it replaces.
- `get`, `query` and `range_scan` are operators on the state: what the handler
  would answer if its accesses came without interruption.
- A failed `cas` or `commit` changes nothing and is left out. Versions are left
  out too, so that any commit may go through, which only adds behaviours.
- `PurgeBegin` is `get`'s purge and the TTL task alike: both have read an expired
  record and go on to remove its key.

The log is never truncated here, a type has one indexed field, and the LRU's
choice of victim is any key.

### Replication

Each writer has a `pc` and a `job`; `commands` is a history of what got a version
(and whether it got into the log), by whose index records are named. The task that
`sync` spawns is taken access by access (`SyncRead`, `SyncCheck`, `SyncSnapshot`,
`SyncVisit` key by key, `SyncLastChunk`, `SyncReplay`, `SyncSubscribe`,
`SyncForward`), since it holds no lock; a payload on the replica is one step, since
no client of the replica can write. The replica does not hold its mutex while it loads
a chunk: a snapshot of its own could save a part of one, which the model leaves out. A
saved snapshot and a restart are one step: `KindServer` takes them apart. There always
is a log, since `main.rs` gives a path whatever its arguments are, so that `sync`'s
branch without one is left out.

With the fault `torn`, a crash of either process may leave a part of the line it was
appending (`CrashedLog`). The next line is glued to it and skipped by every reader; if
it ends in the middle of a character, no reader gets through the log: a restart goes
by the snapshot alone (`ReplayedLines`), and `sync` sends a snapshot (`Err` in
`SyncRead`). The field `unread` of a task and of its chunks is a history of that
branch, on which no step depends. A leader that has lost its log in this way has a
lower counter, and its snapshot takes the replica's version back: one of the two
exceptions of `NeverBackwards`.

A restarted leader takes its counter from the records and lines that are left. It
still knows every id it has logged if no crash cuts a line short and the log is
truncated only where every command leaves a record, under the mutex (`Remembers`):
`IdsNeverReused` says so of all commands logged, truncated lines included.
`KindServer`'s `LogIdsUnique` is about the lines of the log there is, for every workload.
Without `Remembers` ids are logged twice, and a replica skips the second command
(`ReusedIds`).

`setting`, chosen in `Init`, is the workload of a behaviour: kinds of writes, faults,
chunk size and bounds. One run can so check what holds whatever happens next to
what holds under `Orderly`, the conditions under which the code delivers the
sequential replication it promises. TLC shows each of them to be needed:

| Condition | Without it |
|---|---|
| every writer holds the mutex while it sends | `put` and `delete` send out of order; a delete changes the tree long before it has a version |
| no write between a sync call and its subscription | it is in neither the snapshot nor the stream (`ReplicaGap`) |
| a snapshot fits into one chunk | a stream cut after the first chunk leaves a replica that claims the whole version |
| the replica is not restarted | a chunk is put into the tree and into no file |
| no crash cuts a line short | the log is lost, and its ids are handed out again for other commands |
| truncation only if every command leaves a record | a snapshot is merged into the replica's tree, where deleted keys stay; a restarted leader hands out the versions of deletes again (`ReusedIds`) |

### Schema

The parser is a machine that takes a token a step; `at` is the place in
`parse_node` and the functions it calls, and the brackets of `parse_data_type`'s
recursion are counted in `open`. The input is free, any token at any place, or a
rendering of a list of nodes, plain, with trailing commas, or with characters and
unknown `@` words that the lexer skips. `load_schema`, `indexed_fields_for_prefix`
and `validate` are operators; `Faults` is the reference `validate` is compared
with. Two things the code does are part of the reference because they are the
code's decision: integers are not checked for their width (a `U16` takes 70000),
and fields that the schema does not name are let through. The server loads a schema for its indexes
only: no handler calls `validate`, although line 94 of the repository's README
says that "any write that violates it is instantly rejected". That is a call that
is not there and needs no model.

## Runs

Passing runs (two workers, each under five minutes):

| Run | Shows | Bounds |
|---|---|---|
| `Mixed` | `TypeOK`, `LogIdsUnique`, `RecoveryExact` with every request, TTLs, failing appends and snapshots, torn lines | 2 threads, 1 key, 2 versions, 1 tick, 1 crash |
| `Locked` | `cas`, transactions, snapshots, failing truncations: `RecoverableTree`, `CasReplacesExpected`, `FirstCommitterWins`, `CrashKeepsData`, refinement of `AtomicStore` | 2 threads, 2 keys, 2 versions, 1 crash |
| `Conflicts` | `WriteAhead`, `NoSpuriousAbort` for all writers in one lifetime | 2 threads, 2 keys, 3 versions |
| `Sequential` | `CrashKeepsData` for one client over an old log with a damaged line | 1 thread, 2 keys, 5 versions, 2 crashes |
| `Liveness` | `LockReleased`, `ExpiredPurged`, `RecoveryCompletes` | 2 threads, 1 key, 2 versions, 1 tick, 1 crash |
| `Caches` | LRU and FIFO refine `EvictionQueue`, LFU evicts a least used key; structural invariants; FIFO's eviction loop ends | 4 keys, capacity 3, counts to 3 |
| `Views` | `CacheCoherent`, `IndexComplete`, `IndexSound`, `WatchCurrent` | six workloads: 1 or 2 threads, 1 or 2 keys, 2 or 3 writes, 1 tick, 1 restart, a watch channel of 1 |
| `Replication` | `NeverBackwards`, `StreamSettles` whatever happens; `IdsNeverReused` under `Remembers`; `OrderlyReplica`, `Converges` under `Orderly` | six workloads: 1 or 2 writers, 1 or 2 keys, 2 or 3 commands, 1 or 2 faults, channels of 1 |
| `Schema` | `ParsedAsRead`, `SchemasAccepted`, `PrefixesResolved`, `ValidationExact` | every input of up to 13 tokens; 1084 schemas of up to 2 nodes, 2 fields, 2 nested arrays; 407 documents |

Two threads are enough for the races: each handler races with one other, and
the background tasks come on top. Two versions give each of two requests one, a
third lets a transaction follow. One crash gives one recovery over files of any
shape; a second one (in `Sequential`) a recovery over what an earlier one left.
One tick makes a record with TTL 0 expire at any point. `ClockRange` is the size
of the integer that holds a time (`now + ttl_ms` wraps in a release build); the
configurations here keep times below it.

The workloads of `Views` and `Replication` are listed with their bounds in their
MC modules. Channels of capacity one overrun as soon as a receiver is one message
late, and a stream of one makes the sync task wait for the replica. In
`Replication`, a writer that holds the mutex from its version to its last insert is
never overtaken, so that one stands for many; two are used where `put` and `delete`
race. Thirteen tokens of `Schema` hold a type with a prefix and a field, or two
small nodes, with an error at any place; longer inputs come from the renderings.

`Conflicts`, `Sequential`, `Views`, `Replication`, `Schema` and those configurations
below that have no background task switch the deadlock check off: with the
requests the bounds allow used up and no fault left, clients have nothing to send,
and a schema is read once.

Violation runs, each a disagreement of the code with the repository's README,
quoted in `PROJECT.json`:

| Run | Property | What happens |
|---|---|---|
| `PutDuringSnapshot` | `RecoverableTree` | a put logs, a snapshot truncates its line, then it inserts: lost at restart |
| `StaleRead` | `ReadsLatest` | a put with a TTL leaves the cached value: `get` answers with the old one |
| `ReplicaGap` | `ReplicaCatchesUp` | a write during the handshake never reaches the replica |

Further configurations of the same kind, kept for reference and violated as well:

| Configuration | Property | What happens |
|---|---|---|
| `SnapshotCrash` | `CrashKeepsData` | crash between rename or truncate and the flush of the `BufWriter` |
| `TornTail` | `RecoverableTree` | the first line after a crash is glued to the torn one and lost |
| `DeletedKey` | `NoLostUpdate` | a delete leaves no version behind, so the conflict check cannot see it |
| `CasPutRace` | `CasReplacesExpected` | a put changes the value between a cas's comparison and insert |
| `PurgeRace` | `OnlyExpiredPurged` | the TTL task removes a fresh record by key |
| `ConcurrentPuts` | `RecoverableTree` | two puts log in one order and insert in the other |
| `SnapshotWriteError` | `RecoverableTree` | a snapshot's write fails, the log is truncated all the same |
| `TornCharacter` | `CrashKeepsData` | a line torn inside a UTF-8 character makes the whole log unreadable |
| `FailedAppend` | `RecoverableTree` | an append fails, the request succeeds |
| `ExpiredOverwrite` | `RecoverableTree` | replay skips an expired put and brings back what it had replaced |
| `RecoveredVersion` | `NoSpuriousAbort` | replayed transactions have a version past the counter: spurious conflict |
| `ReusedIds` | `SequentialReplica` | delete, truncation, restart of the leader: an id is logged again for another command, and the replica skips that command as a duplicate (`server.rs:162`, `replica.rs:50`; "strictly sequential replication system", line 79 of the repository's README) |

They also say how far the passing runs can go: the workloads of `Locked`,
`Conflicts` and `Sequential` leave out what one of these configurations shows to
break their properties. The properties of `Views` carry such conditions in their
statement: puts of two threads fill the cache in one order and the tree in the
other, and race for the sets of the index; an expired record is skipped by replay
but not the entry of the one it had replaced; and a watch stream that has fallen
behind drops the error that says so.

### Fairness

`FairSpec` assumes weak fairness of what the server does by itself: a handler
that has been called goes on (threads are scheduled; handlers contain no
`await`), the snapshot task goes on once it has begun, the TTL task runs (its
interval always ticks again), and a process that is down is started again
(`restart: unless-stopped` in `docker-compose.yml`). Nothing is assumed of
clients, of the clock, of when a snapshot begins, or of who gets a contended
mutex. `Caches` assumes only that a thread inside FIFO's eviction loop runs.
`Replication` assumes weak fairness of each handler that has been called, of the
sync task and of the replica loop, which connects again three seconds after any
error; nothing of clients, truncations, restarts or broken streams. Its faults and
commands are bounded, so that its liveness properties are about what is reached
once they are over.

## Proofs

All theorems are checked by TLAPS to the last leaf, for every value of the
constants that satisfies the modules' assumptions: any number of threads, keys,
values, versions and so on, where the runs have two or three. A condition on the
workload is a hypothesis of the theorem, or part of the property; the configurations
above show what happens without it.

### Every workload and every fault

`KindServerProofs`:

- `TypeCorrect`: `Spec => []TypeOK`. `TypeOK` contains the mutex discipline, and
  is inductive as it stands.
- `LogIdsAreUnique`: `Spec => []LogIdsUnique`, about the lines that are in the log, not
  about truncated ones. The inductive invariant is
  `VersionsHeld` (versions held by handlers are distinct and at most
  `global_version`) with `VersionsLogged` (logged ids are distinct, at most the
  counter while the server is up, and not held by a handler about to append;
  during replay, the counter has passed the lines read so far).

`RecoveryProofs`:

- `RecoveryCorrect`: `Spec => []RecoveryExact`. The invariant `RecoveryInv` adds
  that nothing else runs while the process is not up (`Quiet`) and that the reader
  is within a readable file (`InFile`). The clock may run during the replay, so
  that a put passed over at its line is compared with one that was not; the lemma
  `RecoveredLater` says that expiry commutes with the replay.

### cas, transactions and snapshots

`LockedProofs`, under `LockedWorkload` (only `cas`, transactions and snapshots;
no TTLs; the faults `crash` and `truncate_error`; an initial log without damaged
lines):

- `LockedDurability`: `Spec => []RecoverableTree`;
- `CasAtomicity`: `Spec => []CasReplacesExpected`;
- `CrashSafety`: `Spec => CrashKeepsData`.

Their inductive invariant `LockedInv` says: the workload leaves out what it
leaves out (`LockedShape`); the tree is what the files stand for except for the
keys the holder of the mutex has logged and not applied (`TreeIsLog`);
the snapshot's buffer is the tree on the keys visited, and once it is complete
the log, truncated or not, adds nothing to it (`BufferIsTree`); the replay is
exact after each line (`ReplayIsExact`); the keys a commit still has to apply
are among its writes (`TodoIsTouched`); and what cas compared still holds
(`CasReplacesExpected`). `TreeIsLog` is needed because durability of a key holds
only once its request is settled, and the induction must know what an unsettled
one is going to become.

`LockedProofs` also has, under the same workload:

- `AtomicRefinement`: `Spec => ImplementsAtomicStore`. A request takes effect in
  the step that appends its line; every other step, a crash, a renamed snapshot and
  a truncated log included, leaves what the files stand for as it is. `Tidy` (an
  idle thread has left nothing in its locals) makes an idle thread an idle client.

`TransactionProofs`, under the same workload:

- `FirstCommitterTheorem`: `Spec => []FirstCommitterWins`. All that `commit` looks
  at is the version of the record in the tree. `Stamped` says that it is never
  behind the line of the log, or the record of the snapshot, that it stands for: in
  the tree, in the snapshot's buffer and during the replay.

### All writers

`WriteAheadProofs`, under `WriteAheadWorkload` (any requests and TTLs, but not put
and the snapshot task together; the faults `crash`, `truncate_error` and
`snapshot_crash`; an initial log whose lines are complete):

- `WriteAheadCorrect`: `Spec => []WriteAhead`, which is about live records: one that
  has expired may be in the tree and no longer in the log. The invariant `AheadInv`
  says that lines are complete (`Terminated`), that whoever is about to insert has
  its command in the log (`LogsFirst`), and that every live record is on file, or in
  the snapshot's buffer once its iterator has passed it (`TreeOnFile`,
  `BufferAhead`).

`TransactionProofs`, under `OneLifetime` (every writer; no crash, failing append or
snapshot, and no transaction in the initial log, as `RecoveredVersion` shows):

- `ConflictsReal`: `Spec => []NoSpuriousAbort`. `LifetimeInv` says that a version in
  the tree past the beginning of an open transaction is that of a line logged since.

### Caches

`CacheProofs`, for any keys, values and capacity:

- `LfuTyped`, `LfuCorrect`, `LfuPolicy` from `LfuInv`, which is inductive: the two
  maps are inverse to each other and there is no empty set of keys of one count;
- `FifoTyped`, `FifoCorrect`, `FifoRefinement` from `FifoInv`; while a put is in its
  loop, the map and queue it began with stand for the cache (`FifoLooping`);
- `LruTyped`, `LruCorrect`, `LruRefinement` from `LruInv`: there is a sequence of
  keys that the links spell out in both directions, that holds the keys of the map
  once each, and whose slots with the free list make up the vector (`Ordered`). The
  queue of the refinement mapping is read off the links by a recursive function;
  that it is this sequence is shown by its least counterexample.

### Read side

`ViewProofs`, for any threads, keys, values, workloads and capacity of the watch
channel:

- `ViewsTyped`: `Spec => []TypeOK`. `ViewInv` says that every request is at some
  place of the plan of its kind (`Shape`), that exactly `cas` and `tx` hold the mutex,
  and that the requests under way have room in the log. `HandleAdvances` sums up
  what an access of a thread leaves to do, and the proofs below build on it.
- `CacheCorrect`: `Spec => []CacheCoherent`. `CacheInv` says of each key: a cached
  value is that of the tree, or of a put that has yet to insert it, or some request
  has yet to take it out (`Backed`); what the put has filled in is not replaced
  (`FilledIn`); and a put that has filled in a key after a cas took it out is not past
  its log access before the cas inserts (`FilledAfter`), since the cas holds the
  mutex: this is why one thread of puts is no danger to the cache.
- `IndexIsComplete` and `IndexIsSound`. `IndexInv` says where the index has each key:
  where its record in the tree belongs; in no set while a request has taken it out and
  not put it back (`Bare`); where the new record belongs once it is added and not yet
  inserted (`Added`). That a set which was looked up in vain is still not there when it
  is made (`Placed`) holds only if the writers exclude each other. Completeness over
  restarts rests on what the replay loop `Rebuilt` keeps (`WellBuilt`), shown by the
  least counterexample.
- `WatchIsCurrent`. `WatchInv` says of each key without an event due (`Untold`) that the
  last event of it that waits in the channel, or else the last one received, is what
  the tree says.

`IndexInv` and `WatchInv` were checked by TLC on the workloads of `Views` before they
were proved.

### Replication

`ReplicationProofs`, for any writers, keys, workloads and capacities. The assumption
`NoneAssumption` says that `Option::None` is no record; `WorkloadsAssumption`
that there are finitely many writers and keys, and that the channels hold something.

- `ReplicationTyped`: `Spec => []TypeOK`. `Typed` adds what the steps rely on: jobs,
  logs, the task's records and messages and the stream's records name commands that
  there are (`Shaped`), and logs have whole lines only, unless the workload has `torn`
  (`Undamaged`).
- `NeverBackwardsTheorem`: `Spec => NeverBackwards`, under every workload and fault: a
  restart of the replica and a snapshot sent because the log could not be read are the
  only two ways back. `BackwardsInv` says that the leader's counter is not behind a log
  that it can read (`CounterAhead`); that the replica stays where it was when it asked
  until the task has decided, and gets a snapshot only if the leader is not behind it or
  could not read its log (`HandshakeAhead`); and that chunks come before records, all of
  one snapshot, whose version the replica has not passed unless the log could not be read
  (`ChunksAhead`).
- `IdsNeverReusedTheorem`: `Spec => []IdsNeverReused`. `IdsInv` says, under `Remembers`:
  the ids of commands that are logged or about to be differ, and none is beyond the
  counter (`IdsApart`); a restart finds each logged id, or a later one, in the snapshot or
  in the log (`IdsBacked`); and, where the log is truncated, there is one writer at a time
  (`OneWriter`), and the tree, which the snapshot is going to be, has each logged id or a
  later one once the writer has put its first key (`IdsInTree`). TLC has checked it on the workloads of the run.
- `OrderlyReplicaTheorem`: `Spec => []OrderlyReplica`. That replication is sequential
  says nothing of what is on its way, so `OrderlyInv` follows the data, under `Orderly`:
  - the leader (`LeaderOrderly`): one writer at a time, none during a handshake
    (`Serial`); ids in the log ascend; the tree is what the logged commands amount to,
    except for keys still to be applied (`TreeOrderly`); the snapshot is what the
    commands before the first line of the log amount to, and the log has all the others
    (`FilesOrderly`); a restarted leader comes back with its version, from the log or
    from a record (`Backed`, `TreeCovers`);
  - the task (`TaskOrderly`): its chunk is the part of the tree that it has visited;
    its records and messages are logged commands in order; and nothing that a replica at
    version 0 lacks is missing from the channel (`StreamsFromZero`), since such a replica
    takes any record for the next one;
  - the stream (`StreamOrderly`): a chunk is a whole snapshot, and is sent to an empty
    replica or where nothing is ever deleted; a record that finds a replica at version 0
    has no data before it;
  - the replica (`ReplicaOrderly`): the property itself, and it is not ahead of the
    leader's log.

  The lemmas on `Amount` say how what commands amount to changes when one is appended
  and from one version to the next. Three loops (`new` over the log, `read_from_tx_id`,
  and the replay against the amount) are reasoned about by the least counterexample,
  from the recursive functions `Replay` and `Records`. TLC checked `OrderlyInv` on
  workloads like those of the run before it was proved.

### Only model-checked

- Liveness (`LockReleased`, `ExpiredPurged`, `RecoveryCompletes`, `FifoPutReturns`,
  `StreamSettles`, `Converges`): the prover has no fairness.
- `Schema`: its operators are recursive over tokens, types and documents, and what
  they compute for every input is an induction over data.
- `CrashKeepsData` for one client with puts, deletes and damaged lines (`Sequential`).

## Plan

1. Done: `Wal`, `KindServer`, `AtomicStore`, the caches.
2. Done: `KindViews`, `Replication`, `Schema`.
3. Done: the theorems above. What remains for TLC alone is listed under "Only
   model-checked".

## Not modelled

- `kindctl`, the Go client, `main`, generated gRPC code, benchmarks: no state of
  their own, one call per invocation.
- `tests.rs` and `test_skipset.rs` in the root, which no target of the build
  includes.
- `prefix_scan` and the prefix of `watch`: the model's keys have no text, and the
  keys of a prefix are a range, which `range_scan` covers.
- Splitting text into lexemes; wording of logs and errors.
- Times to live in `Replication`: a replica gets a record with its expiry and runs
  its own TTL task, as in `KindServer`.
- The index and cache of a replica: `apply_command` maintains them under the
  replica's mutex as `commit` does on the leader. A snapshot chunk adds index
  entries and leaves the ones of the records it replaces, which is listed as a
  hazard.
