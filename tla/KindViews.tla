----------------------------- MODULE KindViews -----------------------------
(***************************************************************************)
(* What clients see: the tree against the hot cache that get asks first,   *)
(* the secondary index that query reads, and the events watch sends.  A    *)
(* handler is its sequence of accesses to these, in the code's order: the  *)
(* plan of its request, of which any thread may take the next access.      *)
(*                                                                         *)
(* Each access to a SkipMap, SkipSet or cache is one step.  A cas whose    *)
(* comparison or a commit whose conflict check fails changes nothing and   *)
(* is left out; versions, which serve that check alone, are too, so that   *)
(* any commit may go through here.  Snapshots are KindServer's.  A type    *)
(* has one indexed field.                                                  *)
(***************************************************************************)
EXTENDS Integers, FiniteSets, Sequences

CONSTANTS
  Threads, Keys,   \* keys, as numbers so that the skip lists have an order
  Values,          \* payloads
  Text,            \* Values -> text of the payload's indexed field, or None
  Number,          \* Values -> the number in this field, or None
  Parse,           \* texts -> the number a text is parsed to, or None
  None,            \* Option::None
  Workloads,       \* the workloads of this run: see Workload
  WatchCapacity,   \* capacity of the watch broadcast (1024 in the code)
  MaxTime          \* bound on the clock

VARIABLES
  setting,         \* the workload of this behaviour; never changes
  tree, indexes, cache,
  wal_lock,        \* holder of the WAL mutex, or None
  log,             \* the commands in the log
  req,             \* the request each thread serves
  watcher,         \* a watch stream and what its client has made of it
  now, restarts

vars == <<setting, tree, indexes, cache, wal_lock, log, req, watcher, now, restarts>>
-----------------------------------------------------------------------------
(* What each thread serves, whether puts may have a time to live, whether  *)
(* a client watches, the keys used, and bounds on writes and restarts.     *)
Workload ==
  [ops : [Threads -> SUBSET {"put", "delete", "cas", "tx", "purge"}], ttl : BOOLEAN,
   watch : BOOLEAN, keys : SUBSET Keys, max_writes : Nat, max_restarts : Nat]

Texts == DOMAIN Parse

ASSUME ViewsAssumption ==
  /\ Keys \subseteq Nat /\ IsFiniteSet(Keys) /\ IsFiniteSet(Threads)
  /\ Text \in [Values -> Texts \cup {None}]
  /\ Number \in [Values -> Int \cup {None}] /\ Parse \in [Texts -> Int \cup {None}]
  /\ Workloads \subseteq Workload
  /\ None \notin Values \cup Threads \cup Texts \cup Nat /\ "gone" \notin Values
  /\ WatchCapacity \in Nat \ {0} /\ MaxTime \in Nat

WatchChannel == INSTANCE Broadcast WITH Capacity <- WatchCapacity

DbRecord == [value : Values, expires_at : Nat \cup {None}]

(* A command: for each key a record, Gone for a delete, or None.           *)
Gone == [value |-> "gone", expires_at |-> None]

ASSUME RecordAssumption == None \notin DbRecord \cup {Gone}

Writes == [Keys -> DbRecord \cup {Gone, None}]

NoWrites == [k \in Keys |-> None]

is_expired(rec) == rec.expires_at # None /\ now > rec.expires_at

Live(k) == tree[k] # None /\ ~is_expired(tree[k])

(* The index entries of a payload.                                         *)
extract_index_keys(v) == {x \in Texts : Text[v] = x}

(* One filter: the field's text, or its number, equals the filter's.       *)
matches_filter(v, x) ==
  Text[v] # None /\ (Text[v] = x \/ (Number[v] # None /\ Number[v] = Parse[x]))
-----------------------------------------------------------------------------
(* The answers of the read handlers in the present state.                  *)

get(k) == IF cache[k] # None THEN cache[k] ELSE IF Live(k) THEN tree[k].value ELSE None

(* The keys of a page: those of the set, in order, with as many before     *)
(* them as offset and limit say.  An expired record takes up its place.    *)
query(x, offset, limit) ==
  LET before(k) == Cardinality({j \in indexes[x].keys : j < k})
  IN {k \in indexes[x].keys : offset <= before(k) /\ before(k) < offset + limit /\ Live(k)}

range_scan(lo, hi, x) ==
  {k \in Keys : lo <= k /\ k <= hi /\ Live(k) /\ matches_filter(tree[k].value, x)}
-----------------------------------------------------------------------------
(* Plans.                                                                  *)

(* A request: its plan and the place in it, what it writes, the keys that  *)
(* a commit has yet to apply, the record it read and the set it found.     *)
NoRequest ==
  [kind |-> "none", plan |-> <<>>, at |-> 1, writes |-> NoWrites, todo |-> {}, old |-> None, set |-> 0]

Plan(k, ops) == [i \in DOMAIN ops |-> [op |-> ops[i], key |-> k]]

(* Mutant of PutPlan: the cache is filled last.                            *)
PutPlanFillsLate(k, rec) ==
  Plan(k, IF rec.expires_at = None
          THEN <<"unindex", "lookup", "create", "add", "log", "insert", "notify", "fill">>
          ELSE <<"unindex", "lookup", "create", "add", "log", "insert", "notify">>)

(* put; a record with a time to live does not go through the cache.        *)
(* index_record is lookup, create and add.                                 *)
PutPlan(k, rec) ==
  Plan(k, IF rec.expires_at = None
          THEN <<"unindex", "lookup", "create", "add", "fill", "log", "insert", "notify">>
          ELSE <<"unindex", "lookup", "create", "add", "log", "insert", "notify">>)

DeletePlan(k) == Plan(k, <<"unindex", "remove", "invalidate", "log", "notify">>)

(* Mutant of CasPlan: the mutex is given up before the insert.             *)
CasPlanUnlocks(k, live) ==
  Plan(k, IF live
          THEN <<"unindex", "lookup", "create", "add", "invalidate", "log", "unlock", "insert", "notify">>
          ELSE <<"lookup", "create", "add", "invalidate", "log", "unlock", "insert", "notify">>)

(* cas on a live record, and on a key that is absent or expired.           *)
CasPlan(k, live) ==
  Plan(k, IF live
          THEN <<"unindex", "lookup", "create", "add", "invalidate", "log", "insert", "notify", "unlock">>
          ELSE <<"lookup", "create", "add", "invalidate", "log", "insert", "notify", "unlock">>)

(* Mutant of TxPutPlan: the old value's entry stays in the index.          *)
TxPutPlanKeeps(k) ==
  Plan(k, <<"read", "insert", "lookup", "create", "add", "notify", "invalidate", "next">>)

(* commit, for a key it puts and for one it deletes.                       *)
TxPutPlan(k) ==
  Plan(k, <<"read", "unindex", "insert", "lookup", "create", "add", "notify", "invalidate", "next">>)

(* Mutant of TxDeletePlan: no event is sent.                               *)
TxDeletePlanSilent(k) == Plan(k, <<"read", "unindex", "remove", "invalidate", "next">>)

TxDeletePlan(k) == Plan(k, <<"read", "unindex", "remove", "notify", "invalidate", "next">>)

(* commit, before and after the keys of its write_set.                     *)
TxPlan == Plan(None, <<"log", "next">>)

TxDonePlan == Plan(None, <<"unlock">>)

PurgePlan(k) == Plan(k, <<"unindex", "remove">>)
-----------------------------------------------------------------------------
(* Requests.                                                               *)

Pending == {t \in Threads : req[t].kind \notin {"none", "purge"} /\
                            \E i \in DOMAIN req[t].plan : i >= req[t].at /\ req[t].plan[i].op = "log"}

MayWrite == Len(log) + Cardinality(Pending) < setting.max_writes

Begin(t, kind, writes, old, plan) ==
  /\ req[t] = NoRequest /\ kind \in setting.ops[t]
  /\ req' = [req EXCEPT ![t] =
               [NoRequest EXCEPT !.kind = kind, !.plan = plan, !.writes = writes, !.old = old,
                                 !.todo = {k \in Keys : writes[k] # None}]]
  /\ UNCHANGED <<setting, tree, indexes, cache, log, watcher, now, restarts>>

Records ==
  [value : Values, expires_at : {None} \cup IF setting.ttl THEN {now} ELSE {}]

PutBegin(t, k, rec) ==
  /\ MayWrite
  /\ Begin(t, "put", [NoWrites EXCEPT ![k] = rec], tree[k], PutPlan(k, rec))
  /\ UNCHANGED wal_lock

DeleteBegin(t, k) ==
  /\ MayWrite
  /\ tree[k] # None
  /\ Begin(t, "delete", [NoWrites EXCEPT ![k] = Gone], tree[k], DeletePlan(k))
  /\ UNCHANGED wal_lock

(* The expected value is the one there is, or empty if there is none.      *)
CasBegin(t, k, rec) ==
  /\ MayWrite
  /\ wal_lock = None /\ wal_lock' = t
  /\ Begin(t, "cas", [NoWrites EXCEPT ![k] = rec], tree[k], CasPlan(k, Live(k)))

TxCommit(t, writes) ==
  /\ MayWrite
  /\ wal_lock = None /\ wal_lock' = t
  /\ Begin(t, "tx", writes, None, TxPlan)

(* get, or the TTL task, has found k expired.                              *)
PurgeBegin(t, k) ==
  /\ tree[k] # None /\ is_expired(tree[k])
  /\ Begin(t, "purge", NoWrites, tree[k], PurgePlan(k))
  /\ UNCHANGED wal_lock

TxWrites ==
  {w \in [Keys -> Records \cup {Gone, None}] : \A k \in Keys \ setting.keys : w[k] = None}

Request(t) ==
  \/ \E k \in setting.keys :
       \/ \E rec \in Records : PutBegin(t, k, rec) \/ CasBegin(t, k, rec)
       \/ DeleteBegin(t, k) \/ PurgeBegin(t, k)
  \/ "tx" \in setting.ops[t] /\ \E writes \in TxWrites : TxCommit(t, writes)
-----------------------------------------------------------------------------
(* Accesses.                                                               *)

Step(t) == req[t].plan[req[t].at]

(* The request n accesses further on; after the last one it is served.     *)
Ahead(r, n) ==
  IF r.at + n > Len(r.plan) THEN NoRequest ELSE [r EXCEPT !.at = @ + n]

Rest(t) == Ahead(req[t], 1)

(* The next access of t's plan is op; step is what is left to do.          *)
Access(t, op, step) ==
  /\ req[t] # NoRequest /\ Step(t).op = op
  /\ req' = [req EXCEPT ![t] = step]
  /\ UNCHANGED <<setting, now, restarts>>

(* commit's loop: write_set is a HashMap, so that its keys come in any     *)
(* order.  After the last one the mutex is given up.                       *)
NextKey(t) ==
  /\ \/ /\ req[t].todo = {}
        /\ Access(t, "next", [req[t] EXCEPT !.plan = TxDonePlan, !.at = 1])
     \/ \E k \in req[t].todo :
          Access(t, "next",
            [req[t] EXCEPT !.at = 1, !.todo = @ \ {k},
                           !.plan = IF req[t].writes[k] = Gone THEN TxDeletePlan(k) ELSE TxPutPlan(k)])
  /\ UNCHANGED <<tree, indexes, cache, wal_lock, log, watcher>>

(* tree.get of commit.                                                     *)
Read(t) ==
  /\ Access(t, "read", [Rest(t) EXCEPT !.old = tree[Step(t).key]])
  /\ UNCHANGED <<tree, indexes, cache, wal_lock, log, watcher>>

(* remove_record_from_index                                                *)
Unindex(t) ==
  /\ Access(t, "unindex", Rest(t))
  /\ indexes' = [x \in Texts |->
       IF req[t].old # None /\ x \in extract_index_keys(req[t].old.value)
       THEN [indexes[x] EXCEPT !.keys = @ \ {Step(t).key}] ELSE indexes[x]]
  /\ UNCHANGED <<tree, cache, wal_lock, log, watcher>>

NewTexts(t) == extract_index_keys(req[t].writes[Step(t).key].value)

NewText(t) == CHOOSE x \in NewTexts(t) : TRUE

(* index_record: find the set of the value's text, or see that there is    *)
(* none ...                                                                *)
Lookup(t) ==
  /\ Access(t, "lookup",
       IF NewTexts(t) = {} THEN Ahead(req[t], 3)
       ELSE IF indexes[NewText(t)].made = 0 THEN Rest(t)
       ELSE [Ahead(req[t], 2) EXCEPT !.set = indexes[NewText(t)].made])
  /\ UNCHANGED <<tree, indexes, cache, wal_lock, log, watcher>>

(* ... put a new set in its place, which replaces any made meanwhile ...   *)
Create(t) ==
  /\ LET x == NewText(t)
     IN /\ Access(t, "create", [Rest(t) EXCEPT !.set = indexes[x].made + 1])
        /\ indexes' = [indexes EXCEPT ![x] = [made |-> @.made + 1, keys |-> {}]]
  /\ UNCHANGED <<tree, cache, wal_lock, log, watcher>>

(* ... and add the key to the set found or made; it may be in no map now.  *)
Add(t) ==
  /\ Access(t, "add", Rest(t))
  /\ LET x == NewText(t)
     IN indexes' = IF indexes[x].made = req[t].set
                   THEN [indexes EXCEPT ![x].keys = @ \cup {Step(t).key}] ELSE indexes
  /\ UNCHANGED <<tree, cache, wal_lock, log, watcher>>

(* cache.put, which may evict another key.                                 *)
Fill(t) ==
  /\ Access(t, "fill", Rest(t))
  /\ \E victims \in SUBSET (Keys \ {Step(t).key}) :
       /\ Cardinality(victims) <= 1
       /\ cache' = [k \in Keys |-> IF k \in victims THEN None
                                   ELSE IF k = Step(t).key THEN req[t].writes[k].value
                                   ELSE cache[k]]
  /\ UNCHANGED <<tree, indexes, wal_lock, log, watcher>>

Invalidate(t) ==
  /\ Access(t, "invalidate", Rest(t))
  /\ cache' = [cache EXCEPT ![Step(t).key] = None]
  /\ UNCHANGED <<tree, indexes, wal_lock, log, watcher>>

(* fetch_add, append and sync_tx.send.                                     *)
Log(t) ==
  /\ Access(t, "log", Rest(t))
  /\ wal_lock \in {None, t}
  /\ log' = Append(log, req[t].writes)
  /\ UNCHANGED <<tree, indexes, cache, wal_lock, watcher>>

TreeInsert(t) ==
  /\ Access(t, "insert", Rest(t))
  /\ tree' = [tree EXCEPT ![Step(t).key] = req[t].writes[Step(t).key]]
  /\ UNCHANGED <<indexes, cache, wal_lock, log, watcher>>

TreeRemove(t) ==
  /\ Access(t, "remove", Rest(t))
  /\ tree' = [tree EXCEPT ![Step(t).key] = None]
  /\ UNCHANGED <<indexes, cache, wal_lock, log, watcher>>

Notify(t) ==
  /\ Access(t, "notify", Rest(t))
  /\ LET k == Step(t).key
         event == [key |-> k, new_value |-> req[t].writes[k].value]
     IN watcher' = IF watcher.on
                   THEN [watcher EXCEPT !.rx = WatchChannel!Received(@, event)] ELSE watcher
  /\ UNCHANGED <<tree, indexes, cache, wal_lock, log>>

Unlock(t) ==
  /\ Access(t, "unlock", Rest(t))
  /\ wal_lock' = None
  /\ UNCHANGED <<tree, indexes, cache, log, watcher>>

Handle(t) ==
  \/ NextKey(t) \/ Read(t) \/ Unindex(t) \/ Lookup(t) \/ Create(t) \/ Add(t) \/ Fill(t) \/ Invalidate(t)
  \/ Log(t) \/ TreeInsert(t) \/ TreeRemove(t) \/ Notify(t) \/ Unlock(t)
-----------------------------------------------------------------------------
(* watch.  `view' is the last event of each key the client received, and   *)
(* `missed' that the stream has dropped the error Lagged without a word.   *)

NoWatcher ==
  [on |-> FALSE, rx |-> WatchChannel!NewReceiver, view |-> [k \in Keys |-> None],
   missed |-> FALSE]

Watch ==
  /\ setting.watch /\ ~watcher.on
  /\ watcher' = [NoWatcher EXCEPT !.on = TRUE]
  /\ UNCHANGED <<setting, tree, indexes, cache, wal_lock, log, req, now, restarts>>

WatchNext ==
  /\ watcher.rx.lagged \/ watcher.rx.queue # <<>>
  /\ LET rx == WatchChannel!Popped(watcher.rx)
         event == Head(watcher.rx.queue)
     IN watcher' = IF watcher.rx.lagged THEN [watcher EXCEPT !.rx = rx, !.missed = TRUE]
                   ELSE [watcher EXCEPT !.rx = rx, !.view[event.key] = event.new_value]
  /\ UNCHANGED <<setting, tree, indexes, cache, wal_lock, log, req, now, restarts>>
-----------------------------------------------------------------------------
Tick ==
  /\ setting.ttl /\ now < MaxTime
  /\ now' = now + 1
  /\ UNCHANGED <<setting, tree, indexes, cache, wal_lock, log, req, watcher, restarts>>

EmptyViews ==
  [tree |-> [k \in Keys |-> None], indexes |-> [x \in Texts |-> [made |-> 0, keys |-> {}]]]

(* new's own copy of extract_index_keys.                                   *)
extract_keys(v) == extract_index_keys(v)

(* Mutant of Replayed: a replayed put does not get into the index.         *)
ReplayedUnindexed(acc, w) ==
  [acc EXCEPT !.tree = [k \in Keys |-> CASE w[k] = Gone -> None
                                         [] w[k] = None -> acc.tree[k]
                                         [] OTHER -> w[k]]]

(* One command of new's replay: a Put that has expired is passed over; one *)
(* that has not leaves the index entry of the value it replaces; a Delete  *)
(* takes away that of the value it finds.                                  *)
Replayed(acc, w) ==
  LET put == {k \in Keys : w[k] \notin {None, Gone}}
      loaded == {k \in put : ~is_expired(w[k])}
      deleted == {k \in Keys : w[k] = Gone}
      Deleted(x) == {k \in deleted : acc.tree[k] # None /\ x \in extract_keys(acc.tree[k].value)}
      Loaded(x) == {k \in loaded : x \in extract_keys(w[k].value)}
  IN [tree |-> [k \in Keys |-> IF k \in loaded THEN w[k]
                               ELSE IF k \in deleted THEN None ELSE acc.tree[k]],
      indexes |-> [x \in Texts |->
        [made |-> IF Loaded(x) # {} THEN 1 ELSE acc.indexes[x].made,
         keys |-> (acc.indexes[x].keys \ Deleted(x)) \cup Loaded(x)]]]

(* new's loop over the log.                                                *)
Rebuilt[n \in 0..Len(log)] == IF n = 0 THEN EmptyViews ELSE Replayed(Rebuilt[n - 1], log[n])

Restart ==
  /\ restarts < setting.max_restarts /\ restarts' = restarts + 1
  /\ LET new == Rebuilt[Len(log)]
     IN tree' = new.tree /\ indexes' = new.indexes
  /\ cache' = [k \in Keys |-> None]
  /\ wal_lock' = None
  /\ req' = [t \in Threads |-> NoRequest]
  /\ watcher' = NoWatcher
  /\ UNCHANGED <<setting, log, now>>

Init ==
  /\ setting \in Workloads
  /\ tree = EmptyViews.tree /\ indexes = EmptyViews.indexes
  /\ cache = [k \in Keys |-> None]
  /\ wal_lock = None /\ log = <<>>
  /\ req = [t \in Threads |-> NoRequest]
  /\ watcher = NoWatcher
  /\ now = 0 /\ restarts = 0

Next ==
  \/ \E t \in Threads : Request(t) \/ Handle(t)
  \/ Watch \/ WatchNext \/ Tick \/ Restart

Spec == Init /\ [][Next]_vars
-----------------------------------------------------------------------------
(* Properties.                                                             *)

(* Type invariant.  The mutex is held by a cas or a commit, and by nobody  *)
(* else; whoever holds it has it on its plan to give it up.                *)
TypeOK ==
  /\ setting \in Workloads
  /\ tree \in [Keys -> DbRecord \cup {None}]
  /\ indexes \in [Texts -> [made : Nat, keys : SUBSET Keys]]
  /\ cache \in [Keys -> Values \cup {None}]
  /\ wal_lock \in Threads \cup {None}
  /\ \A t \in Threads : wal_lock = t <=> req[t].kind \in {"cas", "tx"}
  /\ log \in Seq(Writes) /\ Len(log) <= setting.max_writes
  /\ Len(watcher.rx.queue) <= WatchCapacity

(* No request is under way on k, so that what clients see of it is to last.*)
Settled(k) ==
  \A t \in Threads : req[t].writes[k] = None /\
                     \A i \in DOMAIN req[t].plan : req[t].plan[i].key # k

(* "If one app writes something, the other apps need to see it             *)
(* immediately": get answers with what the tree holds.                     *)
ReadsLatest == \A k \in Keys : Settled(k) => get(k) = IF Live(k) THEN tree[k].value ELSE None

Writers(ops) == {t \in Threads : setting.ops[t] \cap ops # {}}

All == {"put", "delete", "cas", "tx", "purge"}

Sequential == Cardinality(Writers(All)) <= 1

(* Every writer holds the mutex from its first access to its last.         *)
Exclusive == Writers({"put", "delete"}) = {}

(* Without times to live, and as long as one thread at most serves puts,   *)
(* the cache never answers with anything but the tree's value, however     *)
(* puts, deletes, cas and commits interleave.                              *)
CacheCoherent == ~setting.ttl /\ Cardinality(Writers({"put"})) <= 1 => ReadsLatest

Complete ==
  \A k \in Keys : Settled(k) /\ Live(k) /\ Text[tree[k].value] # None
                  => k \in query(Text[tree[k].value], 0, Cardinality(Keys))

(* query finds every record that has the value asked for, restarts and     *)
(* expired records included, if the writers exclude each other.            *)
IndexComplete == Sequential \/ (Exclusive /\ ~setting.ttl) => Complete

(* query answers with nothing a scan with the same filter would not find,  *)
(* whatever page is asked for, if besides nothing expires and the index    *)
(* was not rebuilt by a restart.                                           *)
IndexSound ==
  (Sequential \/ Exclusive) /\ ~setting.ttl /\ restarts = 0 =>
    \A x \in Texts, offset, limit \in 0 .. Cardinality(Keys) :
      \A k \in query(x, offset, limit) : Settled(k) => k \in range_scan(k, k, x)

(* The last event of a key that a client which has kept up received is the *)
(* key's state, if the writers exclude each other.  Records that expire    *)
(* go without an event.                                                    *)
WatchCurrent ==
  (Sequential \/ (Exclusive /\ ~setting.ttl)) /\ watcher.on /\ ~watcher.missed
  /\ watcher.rx = WatchChannel!NewReceiver =>
    \A k \in Keys : Settled(k) /\ watcher.view[k] # None =>
      \/ tree[k] = None /\ (setting.ttl \/ watcher.view[k] = "gone")
      \/ tree[k] # None /\ watcher.view[k] = tree[k].value
=============================================================================
