------------------------- MODULE ReplicationProofs -------------------------
(***************************************************************************)
(* Theorems about Replication, for every set of writers and keys, every    *)
(* workload and every capacity: its types; when the replica's version goes *)
(* back; that no id is logged twice where a restarted leader knows what it *)
(* logged (Remembers); and that replication is sequential where the code   *)
(* keeps it (Orderly).                                                     *)
(***************************************************************************)
EXTENDS Replication, FiniteSetTheorems, SequenceTheorems, WellFoundedInduction, TLAPS

(* Types of what TypeOK leaves open, and which commands there are.         *)
Command == [tx_id : Nat \ {0}, tx : BOOLEAN, writes : Writes, logged : BOOLEAN]

(* What a writer has at hand.                                              *)
Job == [kind : {"none", "delete"}, cmd : Nat, todo : SUBSET Keys]

(* Keys with the commands of their records, as in a chunk.                 *)
Found == Keys \X (Nat \ {0})

(* What the stream carries: chunks of a snapshot and records of the log.   *)
Payload ==
  [type : {"snapshot"}, records : SUBSET Found, max_tx_id : Nat, unread : BOOLEAN]
    \cup [type : {"wal"}, tx_id : Nat \ {0}, cmd : Nat \ {0}]

(* The task's end of the broadcast channel.                                *)
Receivers == [queue : Seq(Nat \ {0}), lagged : BOOLEAN]

(* The task that serves a sync call.                                       *)
Task ==
  [pc : {"none", "read", "check", "snapshot", "visit", "replay", "subscribe", "stream"},
   last_known : Nat, start : Nat, records : Seq(Line), iter : SUBSET Keys,
   chunk : SUBSET Found, unread : BOOLEAN, rx : Receivers]

(* A line that Kind has written, of a command that there is.               *)
Written(line) ==
  line.ok /\ line.nl /\ line.utf8 /\ line.tx_id # 0 /\ line.cmd \in DOMAIN commands

(* A log in which every line is one; and one whose other lines at least do *)
(* not parse.                                                              *)
Whole(file) == \A i \in DOMAIN file : Written(file[i])
Sound(file) == \A i \in DOMAIN file : file[i].ok => Written(file[i])

(* A writer past its version has a command.                                *)
JobsTyped ==
  /\ job \in [Writers -> Job]
  /\ \A w \in Writers :
       pc[w] \in {"append", "send", "apply"} => job[w].cmd \in DOMAIN commands

(* What parses in the logs was written.                                    *)
FilesTyped == Sound(leader.wal) /\ Sound(replica.wal)

(* The task holds lines and commands that there are.                       *)
TaskTyped ==
  /\ task \in Task
  /\ task.pc = "none" => task = NoTask
  /\ task.pc = "replay" => task.records # <<>>
  /\ Whole(task.records)
  /\ \A i \in DOMAIN task.rx.queue : task.rx.queue[i] \in DOMAIN commands

(* The stream's records are of commands that there are.                    *)
StreamTyped ==
  /\ stream \in Seq(Payload)
  /\ \A i \in DOMAIN stream : stream[i].type = "wal" => stream[i].cmd \in DOMAIN commands

(* The inductive invariant behind TypeOK.                                  *)
Shaped == TypeOK /\ JobsTyped /\ FilesTyped /\ TaskTyped /\ StreamTyped /\ faults \in Nat

(* Both logs are whole, and the leader could read its own.                 *)
Intact ==
  /\ Whole(leader.wal) /\ Whole(replica.wal) /\ ~task.unread
  /\ \A i \in DOMAIN stream : stream[i].type = "snapshot" => ~stream[i].unread

(* If no crash cuts a line short they are.                                 *)
Torn == "torn" \in setting.faults
Undamaged == Torn \/ Intact

(* Both.                                                                   *)
Typed == Shaped /\ Undamaged
-----------------------------------------------------------------------------
(* NeverBackwards.                                                         *)

(* No id in a log that the leader can read, and none of a command not      *)
(* logged yet, is beyond its counter.                                      *)
CounterAhead ==
  /\ Readable(leader.wal) =>
       \A i \in DOMAIN leader.wal :
         leader.wal[i].ok => leader.wal[i].tx_id <= leader.global_version
  /\ \A w \in Writers :
       pc[w] \in {"append", "send", "apply"} =>
         commands[job[w].cmd].tx_id <= leader.global_version

(* Until the task decides for the log or a snapshot the replica is where   *)
(* it was when it asked, and a snapshot is taken only if it lags behind or *)
(* if the log could not be read.                                           *)
HandshakeAhead ==
  /\ task.pc \in {"read", "check", "snapshot"} =>
       stream = <<>> /\ task.last_known = replica.global_version
  /\ task.pc = "check" => task.last_known # 0
  /\ task.pc = "snapshot" => task.unread \/ replica.global_version <= leader.global_version
  /\ task.pc = "visit" =>
       /\ task.unread \/ replica.global_version <= task.start
       /\ \A i \in DOMAIN stream :
            /\ stream[i].type = "snapshot" /\ stream[i].max_tx_id = task.start
            /\ stream[i].unread = task.unread

(* The chunks come first, are of one snapshot, and the replica is not past *)
(* its version unless the log could not be read.                           *)
ChunksAhead ==
  \A i \in DOMAIN stream :
    stream[i].type = "snapshot" =>
      /\ stream[i].unread \/ replica.global_version <= stream[i].max_tx_id
      /\ \A j \in 1..i :
           /\ stream[j].type = "snapshot" /\ stream[j].max_tx_id = stream[i].max_tx_id
           /\ stream[j].unread = stream[i].unread

(* The inductive invariant behind NeverBackwards.                          *)
BackwardsInv == CounterAhead /\ HandshakeAhead /\ ChunksAhead
-----------------------------------------------------------------------------
(* IdsNeverReused.                                                         *)

(* The leader's log may be truncated.                                      *)
Truncates == "truncate" \in setting.faults

(* A command that is in the log or will be.                                *)
Live(c) ==
  commands[c].logged \/ \E w \in Writers : pc[w] = "append" /\ job[w].cmd = c

(* Their ids differ, and none is beyond the counter.                       *)
IdsApart ==
  \A c \in DOMAIN commands : Live(c) =>
    /\ commands[c].tx_id <= leader.global_version
    /\ \A d \in DOMAIN commands : Live(d) /\ commands[c].tx_id = commands[d].tx_id => c = d

(* Some key has a record of this version or a later one.                   *)
Covers(tree, v) == v = 0 \/ \E k \in Keys : tree[k] # None /\ v <= tree[k].version

(* A restarted leader finds each logged id, or a later one, in its files.  *)
IdsBacked ==
  \A c \in DOMAIN commands : commands[c].logged =>
    \/ Covers(leader.snapshot, commands[c].tx_id)
    \/ \E i \in DOMAIN leader.wal : commands[c].tx_id <= leader.wal[i].tx_id

(* If the log is truncated: one writer at a time, whose id is the counter; *)
(* each command puts something and deletes nothing.                        *)
OneWriter ==
  /\ \A w \in Writers : job[w].kind = "none"
  /\ \A w \in Writers :
       pc[w] # "idle" =>
         /\ wal_lock = w /\ pc[w] # "version"
         /\ commands[job[w].cmd].tx_id = leader.global_version
         /\ job[w].todo \subseteq Touched(job[w].cmd)
         /\ pc[w] # "apply" => job[w].todo = Touched(job[w].cmd)
  /\ \A c \in DOMAIN commands :
       /\ \A k \in Keys : commands[c].writes[k] # "delete"
       /\ \E k \in Keys : commands[c].writes[k] = "put"

(* And the tree has each logged id or a later one, once the writer has put *)
(* the first of its keys.                                                  *)
IdsInTree ==
  \A c \in DOMAIN commands : commands[c].logged =>
    \/ Covers(leader.tree, commands[c].tx_id)
    \/ \E w \in Writers :
         pc[w] # "idle" /\ job[w].cmd = c /\ job[w].todo = Touched(c)

(* The inductive invariant behind IdsNeverReused.                          *)
IdsParts == IdsApart /\ IdsBacked /\ (Truncates => OneWriter /\ IdsInTree)
IdsInv == Remembers => IdsParts
-----------------------------------------------------------------------------
(* OrderlyReplica.                                                         *)

(* The logged commands up to version v that write key k.                   *)
Carriers(cs, v, k) ==
  {c \in DOMAIN cs : cs[c].logged /\ cs[c].tx_id <= v /\ cs[c].writes[k] # "none"}

(* The last of a set of commands.                                          *)
LastOf(C) == CHOOSE c \in C : \A d \in C : d <= c

(* The command whose record key k has at version v, 0 if it has none.      *)
Amount(cs, v, k) ==
  IF Carriers(cs, v, k) = {} \/ cs[LastOf(Carriers(cs, v, k))].writes[k] = "delete" THEN 0
  ELSE LastOf(Carriers(cs, v, k))

(* Ids ascend over the logged commands.                                    *)
Ascending(cs) ==
  \A c, d \in DOMAIN cs : cs[c].logged /\ cs[d].logged /\ c < d => cs[c].tx_id < cs[d].tx_id

(* One writer at a time, none during a handshake; its command is the last. *)
Serial ==
  /\ \A w \in Writers : job[w].kind = "none"
  /\ \A w \in Writers :
       pc[w] # "idle" =>
         /\ wal_lock = w /\ pc[w] # "version"
         /\ job[w].cmd = Len(commands)
         /\ commands[job[w].cmd].tx_id = leader.global_version
         /\ (commands[job[w].cmd].logged <=> pc[w] # "append")
         /\ job[w].todo \subseteq Touched(job[w].cmd)
         /\ pc[w] # "apply" => job[w].todo = Touched(job[w].cmd)
  /\ Handshake => \A w \in Writers : pc[w] = "idle"

(* The counter, without the version whose command is not in the log yet.   *)
Settled ==
  IF \E w \in Writers : pc[w] = "append" THEN leader.global_version - 1
  ELSE leader.global_version

(* What commands write: keys of the workload, and something that stays if  *)
(* the log is truncated.                                                   *)
CommandsShaped ==
  \A c \in DOMAIN commands :
    /\ Touched(c) \subseteq setting.keys
    /\ Truncates => /\ \A k \in Keys : commands[c].writes[k] # "delete"
                    /\ \E k \in Keys : commands[c].writes[k] = "put"

(* Ids in the log ascend, and the counter is not behind them.              *)
IdsAscend ==
  \A c \in DOMAIN commands : commands[c].logged =>
    /\ commands[c].tx_id <= Settled
    /\ \A d \in DOMAIN commands :
         commands[d].logged /\ c < d => commands[c].tx_id < commands[d].tx_id

(* A restarted leader knows every version that is settled.                 *)
Backed ==
  \/ Covers(leader.snapshot, Settled)
  \/ \E i \in DOMAIN leader.wal : Settled <= leader.wal[i].tx_id

(* And so it does after the log has been truncated.                        *)
TreeCovers ==
  Truncates =>
    Covers(leader.tree,
           IF \E w \in Writers : pc[w] # "idle" /\ job[w].todo = Touched(job[w].cmd)
           THEN leader.global_version - 1 ELSE leader.global_version)

(* Keys that a logged command has still to change in the tree.             *)
Unapplied ==
  UNION {IF pc[w] \in {"send", "apply"} THEN job[w].todo ELSE {} : w \in Writers}

(* The command a record is of.                                             *)
Cmd(r) == IF r = None THEN 0 ELSE r.cmd

(* The leader's tree has what its logged commands amount to, on all keys   *)
(* but those that one of them has still to change.                         *)
TreeOrderly ==
  \A k \in Keys \ Unapplied :
    Cmd(leader.tree[k]) = Amount(commands, leader.global_version, k)

(* The version that the log starts from.                                   *)
Cut == IF leader.wal = <<>> THEN Settled ELSE leader.wal[1].tx_id - 1

(* The log has every command past the cut, in order; the snapshot is what  *)
(* those up to it amount to; and a log never truncated has all versions.   *)
FilesOrderly ==
  /\ \A i \in DOMAIN leader.wal :
       /\ commands[leader.wal[i].cmd].logged
       /\ commands[leader.wal[i].cmd].tx_id = leader.wal[i].tx_id
       /\ \A j \in 1..(i - 1) : leader.wal[j].cmd < leader.wal[i].cmd
  /\ \A c \in DOMAIN commands :
       commands[c].logged /\ commands[c].tx_id > Cut =>
         \E i \in DOMAIN leader.wal : leader.wal[i].cmd = c
  /\ \A k \in Keys : Cmd(leader.snapshot[k]) = Amount(commands, Cut, k)
  /\ ~Truncates =>
       /\ leader.snapshot = EmptyStore
       /\ Settled = Len(leader.wal)
       /\ \A i \in DOMAIN leader.wal : leader.wal[i].tx_id = i

(* What holds of the leader, its writers and its files.                    *)
LeaderOrderly ==
  /\ Serial /\ CommandsShaped /\ IdsAscend /\ Backed /\ TreeCovers /\ TreeOrderly /\ FilesOrderly

(* What a snapshot of these keys finds in the tree.                        *)
TreeRecords(ks) == {<<j, leader.tree[j].cmd>> : j \in {i \in ks : leader.tree[i] # None}}

(* At this version there are no data.                                      *)
Blank(v) == \A k \in Keys : Amount(commands, v, k) = 0

(* The replica stays at version 0 whatever of the stream it receives.      *)
AtZero ==
  /\ replica.global_version = 0
  /\ \A i \in DOMAIN stream : stream[i].type = "snapshot" /\ stream[i].max_tx_id = 0

(* A logged command is known to the task's receiver or will be.            *)
Announced(c) ==
  \/ \E i \in DOMAIN task.rx.queue : task.rx.queue[i] = c
  \/ \E w \in Writers : pc[w] = "send" /\ job[w].cmd = c

(* The task's records and messages are logged commands.                    *)
TaskLogged ==
  /\ \A i \in DOMAIN task.records :
       /\ commands[task.records[i].cmd].logged
       /\ commands[task.records[i].cmd].tx_id = task.records[i].tx_id
  /\ \A i \in DOMAIN task.rx.queue :
       /\ commands[task.rx.queue[i]].logged
       /\ \A j \in 1..(i - 1) : task.rx.queue[j] < task.rx.queue[i]
       /\ \A w \in Writers : pc[w] = "send" => task.rx.queue[i] < job[w].cmd

(* A log that was never truncated is never too short for the replica.      *)
HandshakeOrderly ==
  /\ task.pc \in {"read", "check", "snapshot"} => task.chunk = {}
  /\ task.pc \in {"check", "replay"} => replica.global_version # 0
  /\ task.pc = "check" /\ ~Truncates => leader.global_version <= task.last_known
  /\ task.pc = "snapshot" /\ ~Truncates => replica.global_version = 0

(* The snapshot: what was visited is in the chunk, or all of it was sent.  *)
VisitOrderly ==
  task.pc = "visit" =>
    /\ task.start = leader.global_version
    /\ \/ /\ stream = <<>> /\ task.chunk = TreeRecords(Keys \ task.iter)
          /\ ~Truncates => replica.global_version = 0
       \/ /\ task.chunk = {} /\ TreeRecords(task.iter) = {} /\ ~AtZero /\ task.start # 0

(* A replica that is still at version 0 misses nothing.                    *)
StreamsFromZero ==
  AtZero =>
    /\ task.pc = "subscribe" => task.start = leader.global_version /\ Blank(task.start)
    /\ task.pc = "stream" /\ ~task.rx.lagged =>
         /\ Blank(task.start) /\ task.start <= Settled
         /\ \A c \in DOMAIN commands :
              commands[c].logged /\ commands[c].tx_id > task.start => Announced(c)

(* The replica is still at version 0 when it receives payload i.           *)
ZeroBefore(i) ==
  /\ replica.global_version = 0
  /\ \A j \in 1..(i - 1) : stream[j].type = "snapshot" /\ stream[j].max_tx_id = 0

(* A replica at version 0 takes any record: none before it was left out.   *)
RecordOrderly(i) ==
  /\ commands[stream[i].cmd].logged
  /\ commands[stream[i].cmd].tx_id = stream[i].tx_id
  /\ ZeroBefore(i) => Blank(stream[i].tx_id - 1)

(* The records of the whole tree at version v.                             *)
WholeSnapshot(records, v) ==
  \A k \in Keys : {r \in records : r[1] = k} =
    IF Amount(commands, v, k) = 0 THEN {} ELSE {<<k, Amount(commands, v, k)>>}

(* A chunk is a whole snapshot and comes first; if the log is never        *)
(* truncated only an empty replica gets one.                               *)
ChunkOrderly(i) ==
  /\ i = 1 /\ stream[i].max_tx_id <= Settled
  /\ WholeSnapshot(stream[i].records, stream[i].max_tx_id)
  /\ ~Truncates => replica.global_version = 0

(* What is on the way: logged commands, and whole snapshots.               *)
StreamOrderly ==
  \A i \in DOMAIN stream :
    /\ stream[i].type = "wal" => RecordOrderly(i)
    /\ stream[i].type = "snapshot" => ChunkOrderly(i)

(* SequentialReplica, and that the replica is not ahead.                   *)
ReplicaOrderly ==
  /\ replica.global_version <= Settled
  /\ \A k \in Keys : Cmd(replica.tree[k]) = Amount(commands, replica.global_version, k)

(* What holds of the task.                                                 *)
TaskOrderly == TaskLogged /\ HandshakeOrderly /\ VisitOrderly /\ StreamsFromZero

(* All of it.                                                              *)
OrderlyParts == LeaderOrderly /\ TaskOrderly /\ StreamOrderly /\ ReplicaOrderly

(* The inductive invariant behind OrderlyReplica.                          *)
OrderlyInv == Orderly => OrderlyParts
-----------------------------------------------------------------------------
(* The loops over a log: of new, and of read_from_tx_id.                   *)

(* A set of numbers that is not empty has a least element.                 *)
LEMMA LeastNumber ==
  ASSUME NEW T \in SUBSET Nat, T # {}
  PROVE  \E x \in T : \A y \in T : x <= y
<1> DEFINE R == OpToRel(<, Nat)
<1>1. IsWellFoundedOn(R, Nat)
  BY NatLessThanWellFounded
<1>2. \A x, y \in Nat : y < x => <<y, x>> \in R
  BY DEF OpToRel
<1> HIDE DEF R
<1>3. PICK x \in T : \A y \in T : ~(<<y, x>> \in R)
  BY <1>1, WFMin
<1>4. \A y \in T : y \in Nat /\ x \in Nat /\ ~(y < x)
  BY <1>2, <1>3
<1> QED BY <1>4

(* The tree and the counter that new starts from.                          *)
Begun(n) == [tree |-> n.snapshot, global_version |-> VersionOf(n.snapshot)]

(* g is what new has after each of the first n lines.                    *)
ReplayLoop(x, g, n) ==
  g = [m \in 0..n |-> IF m = 0 THEN Begun(x) ELSE Replayed(g[m - 1], x.wal[m])]

(* There is such a g, so that Replay is what its equation says.          *)
LEMMA ReplayLoops ==
  ASSUME NEW x, NEW S, x.wal \in Seq(S)
  PROVE  ReplayLoop(x, Replay(x), Len(x.wal))
<1> DEFINE T == {n \in Nat : ~\E g : ReplayLoop(x, g, n)}
<1>1. T = {}
  <2> SUFFICES ASSUME T # {} PROVE FALSE
    OBVIOUS
  <2>1. PICK n \in T : \A y \in T : n <= y
    BY LeastNumber
  <2>2. n # 0
    <3> DEFINE g == [m \in 0..0 |-> Begun(x)]
    <3>1. ReplayLoop(x, g, 0)
      BY DEF ReplayLoop
    <3> QED BY <2>1, <3>1
  <2>3. n - 1 \in Nat /\ ~(n - 1 \in T)
    BY <2>1, <2>2
  <2>4. PICK g : ReplayLoop(x, g, n - 1)
    BY <2>3
  <2> DEFINE h == [m \in 0..n |-> IF m = n THEN Replayed(g[n - 1], x.wal[n]) ELSE g[m]]
             F == [m \in 0..n |-> IF m = 0 THEN Begun(x) ELSE Replayed(h[m - 1], x.wal[m])]
  <2>5. ASSUME NEW m \in 0..n
        PROVE  h[m] = F[m]
    <3>1. CASE m = n
      <4>1. m - 1 \in 0..n /\ m - 1 # n /\ m - 1 = n - 1 /\ m # 0
        BY <2>1, <2>2, <3>1
      <4>2. h[m - 1] = g[n - 1]
        BY <4>1
      <4>3. F[m] = Replayed(h[m - 1], x.wal[m])
        BY <4>1
      <4> QED BY <3>1, <4>2, <4>3
    <3>2. CASE m # n
      <4>1. m \in 0..(n - 1) /\ (m # 0 => m - 1 \in 0..n /\ m - 1 # n)
        BY <2>1, <3>2
      <4>2. g[m] = IF m = 0 THEN Begun(x) ELSE Replayed(g[m - 1], x.wal[m])
        BY <2>4, <4>1 DEF ReplayLoop
      <4>3. h[m] = g[m]
        BY <3>2
      <4>4. m # 0 => h[m - 1] = g[m - 1]
        BY <4>1
      <4>5. F[m] = IF m = 0 THEN Begun(x) ELSE Replayed(h[m - 1], x.wal[m])
        OBVIOUS
      <4> QED BY <4>2, <4>3, <4>4, <4>5
    <3> QED BY <3>1, <3>2
  <2>6. h = F
    <3>1. h = [m \in 0..n |-> h[m]] /\ F = [m \in 0..n |-> F[m]]
      OBVIOUS
    <3> HIDE DEF h, F
    <3> QED BY <2>5, <3>1
  <2>7. ReplayLoop(x, h, n)
    BY <2>6 DEF ReplayLoop
  <2> QED BY <2>1, <2>7
<1>2. Len(x.wal) \in Nat
  BY LenProperties
<1>3. \E g : ReplayLoop(x, g, Len(x.wal))
  BY <1>1, <1>2
<1>4. Replay(x) = CHOOSE g : ReplayLoop(x, g, Len(x.wal))
  BY DEF Replay, ReplayLoop, Begun
<1> QED BY <1>3, <1>4

(* The records found, and the next line.                                   *)
Kept(found, line, start) ==
  IF line.ok /\ line.tx_id >= start THEN Append(found, line) ELSE found

(* g is what was found after each of the first n lines.                  *)
RecordsLoop(file, start, g, n) ==
  g = [m \in 0..n |-> IF m = 0 THEN <<>> ELSE Kept(g[m - 1], file[m], start)]

(* There is such a g, so that Records is what its equation says.         *)
LEMMA RecordsLoops ==
  ASSUME NEW file, NEW start, NEW S, file \in Seq(S)
  PROVE  RecordsLoop(file, start, Records(file, start), Len(file))
<1> DEFINE T == {n \in Nat : ~\E g : RecordsLoop(file, start, g, n)}
<1>1. T = {}
  <2> SUFFICES ASSUME T # {} PROVE FALSE
    OBVIOUS
  <2>1. PICK n \in T : \A y \in T : n <= y
    BY LeastNumber
  <2>2. n # 0
    <3> DEFINE g == [m \in 0..0 |-> <<>>]
    <3>1. RecordsLoop(file, start, g, 0)
      BY DEF RecordsLoop
    <3> QED BY <2>1, <3>1
  <2>3. n - 1 \in Nat /\ ~(n - 1 \in T)
    BY <2>1, <2>2
  <2>4. PICK g : RecordsLoop(file, start, g, n - 1)
    BY <2>3
  <2> DEFINE h == [m \in 0..n |-> IF m = n THEN Kept(g[n - 1], file[n], start) ELSE g[m]]
             F == [m \in 0..n |-> IF m = 0 THEN <<>> ELSE Kept(h[m - 1], file[m], start)]
  <2>5. ASSUME NEW m \in 0..n
        PROVE  h[m] = F[m]
    <3>1. CASE m = n
      <4>1. m - 1 \in 0..n /\ m - 1 # n /\ m - 1 = n - 1 /\ m # 0
        BY <2>1, <2>2, <3>1
      <4>2. h[m - 1] = g[n - 1]
        BY <4>1
      <4>3. F[m] = Kept(h[m - 1], file[m], start)
        BY <4>1
      <4> QED BY <3>1, <4>2, <4>3
    <3>2. CASE m # n
      <4>1. m \in 0..(n - 1) /\ (m # 0 => m - 1 \in 0..n /\ m - 1 # n)
        BY <2>1, <3>2
      <4>2. g[m] = IF m = 0 THEN <<>> ELSE Kept(g[m - 1], file[m], start)
        BY <2>4, <4>1 DEF RecordsLoop
      <4>3. h[m] = g[m]
        BY <3>2
      <4>4. m # 0 => h[m - 1] = g[m - 1]
        BY <4>1
      <4>5. F[m] = IF m = 0 THEN <<>> ELSE Kept(h[m - 1], file[m], start)
        OBVIOUS
      <4> QED BY <4>2, <4>3, <4>4, <4>5
    <3> QED BY <3>1, <3>2
  <2>6. h = F
    <3>1. h = [m \in 0..n |-> h[m]] /\ F = [m \in 0..n |-> F[m]]
      OBVIOUS
    <3> HIDE DEF h, F
    <3> QED BY <2>5, <3>1
  <2>7. RecordsLoop(file, start, h, n)
    BY <2>6 DEF RecordsLoop
  <2> QED BY <2>1, <2>7
<1>2. Len(file) \in Nat
  BY LenProperties
<1>3. \E g : RecordsLoop(file, start, g, Len(file))
  BY <1>1, <1>2
<1>4. Records(file, start) = CHOOSE g : RecordsLoop(file, start, g, Len(file))
  BY DEF Records, RecordsLoop, Kept
<1> QED BY <1>3, <1>4

-----------------------------------------------------------------------------
(* Versions, lines and trees.                                              *)

(* Finitely many numbers have a bound.                                     *)
LEMMA BoundedKeys ==
  ASSUME NEW f, \A k \in Keys : f[k] \in Nat
  PROVE  \E b \in Nat : \A k \in Keys : f[k] <= b
<1> DEFINE Bounded(K) == \E b \in Nat : \A k \in K : f[k] <= b
           T == {n \in Nat : \E K \in SUBSET Keys : Cardinality(K) = n /\ ~Bounded(K)}
<1>1. IsFiniteSet(Keys)
  BY WorkloadsAssumption
<1>2. SUFFICES ASSUME ~Bounded(Keys) PROVE FALSE
  OBVIOUS
<1>3. Cardinality(Keys) \in Nat
  BY <1>1, FS_CardinalityType
<1>4. Cardinality(Keys) \in T
  BY <1>2, <1>3
<1>5. PICK n \in T : \A m \in T : n <= m
  BY <1>4, LeastNumber
<1>6. PICK K \in SUBSET Keys : Cardinality(K) = n /\ ~Bounded(K)
  BY <1>5
<1>7. IsFiniteSet(K)
  BY <1>1, <1>6, FS_Subset
<1>8. PICK k \in K : TRUE
  BY <1>6
<1>9. Cardinality(K \ {k}) = n - 1
  BY <1>6, <1>7, <1>8, FS_RemoveElement
<1>10. n - 1 \in Nat /\ n \in Nat
  <2>1. IsFiniteSet(K \ {k})
    BY <1>7, FS_RemoveElement
  <2> QED BY <1>5, <1>9, <2>1, FS_CardinalityType
<1>11. Bounded(K \ {k})
  BY <1>5, <1>6, <1>9, <1>10
<1>12. PICK b \in Nat : \A j \in K \ {k} : f[j] <= b
  BY <1>11
<1>13. f[k] \in Nat
  BY <1>6, <1>8
<1>14. \A j \in K : f[j] <= b + f[k]
  BY <1>6, <1>12, <1>13
<1> QED BY <1>6, <1>12, <1>13, <1>14

(* The version of a tree is the highest of its records'.                   *)
LEMMA VersionIsHighest ==
  ASSUME NEW tree \in Store
  PROVE  /\ VersionOf(tree) \in Nat
         /\ \A k \in Keys : tree[k] # None => tree[k].version <= VersionOf(tree)
         /\ Covers(tree, VersionOf(tree))
<1> DEFINE f == [k \in Keys |-> IF tree[k] = None THEN 0 ELSE tree[k].version]
           V == {0} \cup {tree[k].version : k \in {j \in Keys : tree[j] # None}}
           T == {b \in Nat : \A k \in Keys : f[k] <= b}
<1>1. \A k \in Keys : tree[k] # None => tree[k].version \in Nat
  BY DEF Store, Record
<1>2. T # {}
  <2>1. \A k \in Keys : f[k] \in Nat
    BY <1>1
  <2> QED BY <2>1, BoundedKeys
<1>3. PICK v \in T : \A b \in T : v <= b
  BY <1>2, LeastNumber
<1>4. \A k \in Keys : tree[k] # None => tree[k].version <= v
  BY <1>3
<1>5. v \in V
  <2>1. CASE v = 0
    BY <2>1
  <2>2. CASE v # 0
    <3>1. v - 1 \in Nat /\ v - 1 \notin T
      BY <1>3, <2>2
    <3>2. PICK k \in Keys : ~(f[k] <= v - 1)
      BY <3>1
    <3>3. tree[k] # None
      BY <3>1, <3>2
    <3>4. tree[k].version = v
      BY <1>1, <1>3, <1>4, <3>2, <3>3
    <3> QED BY <3>3, <3>4
  <2> QED BY <2>1, <2>2
<1>6. VersionOf(tree) \in V /\ \A k \in Keys : tree[k] # None => tree[k].version <= VersionOf(tree)
  <2>1. VersionOf(tree) = CHOOSE x \in V : \A k \in Keys : tree[k] # None => tree[k].version <= x
    BY DEF VersionOf
  <2> HIDE DEF V
  <2> QED BY <1>4, <1>5, <2>1
<1> QED BY <1>1, <1>6 DEF Covers

(* A line appended to a log of whole lines is a line of its own.           *)
LEMMA AppendLine ==
  ASSUME NEW file \in Seq(Line), Whole(file), NEW v \in Nat, NEW c \in Nat \ {0}
  PROVE  /\ append(file, Envelope(v, c)) = Append(file, Envelope(v, c))
         /\ Envelope(v, c) \in Line
<1>1. ~(file # <<>> /\ ~file[Len(file)].nl)
  BY DEF Whole, Written
<1>2. Envelope(v, c) \in Line
  BY DEF Envelope, Line
<1> QED BY <1>1, <1>2 DEF append

(* A command leaves a tree.                                                *)
LEMMA AppliedTree ==
  ASSUME NEW tree \in Store, NEW c \in Nat \ {0}, NEW v \in Nat
  PROVE  Applied(tree, c, v) \in Store
BY DEF Applied, Store, Record

(* What new has after each line, if the ids of the log's lines are ids.    *)
LEMMA ReplayTyped ==
  ASSUME NEW n, n \in Node, commands \in Seq(Command), Sound(n.wal)
  PROVE  /\ Len(n.wal) \in Nat
         /\ \A i \in 0..Len(n.wal) :
              /\ Replay(n)[i] = IF i = 0 THEN Begun(n) ELSE Replayed(Replay(n)[i - 1], n.wal[i])
              /\ Replay(n)[i].tree \in Store /\ Replay(n)[i].global_version \in Nat
<1>1. n.wal \in Seq(Line) /\ n.snapshot \in Store
  BY DEF Node
<1>2. Len(n.wal) \in Nat
  BY <1>1, LenProperties
<1>3. ReplayLoop(n, Replay(n), Len(n.wal))
  BY <1>1, ReplayLoops
<1> DEFINE g == Replay(n)
<1> HIDE DEF g
<1>4. \A i \in 0..Len(n.wal) : g[i] = IF i = 0 THEN Begun(n) ELSE Replayed(g[i - 1], n.wal[i])
  BY <1>3 DEF ReplayLoop, g
<1> DEFINE Good(i) == g[i].tree \in Store /\ g[i].global_version \in Nat
           T == {i \in 0..Len(n.wal) : ~Good(i)}
<1>5. T = {}
  <2> SUFFICES ASSUME T # {} PROVE FALSE
    OBVIOUS
  <2>0. T \in SUBSET Nat
    BY <1>2
  <2>1. PICK i \in T : \A y \in T : i <= y
    BY <2>0, LeastNumber
  <2>2. i # 0
    BY <1>1, <1>2, <1>4, <2>1, VersionIsHighest DEF Begun
  <2>3. i - 1 \in 0..Len(n.wal) /\ i - 1 \notin T /\ i \in 1..Len(n.wal)
    BY <1>2, <2>1, <2>2
  <2>4. Good(i - 1)
    BY <2>3
  <2>5. g[i] = Replayed(g[i - 1], n.wal[i])
    BY <1>4, <2>1, <2>2
  <2> SUFFICES ASSUME n.wal[i].ok PROVE FALSE
    <3>1. ~n.wal[i].ok => g[i] = g[i - 1]
      BY <2>5 DEF Replayed
    <3> QED BY <2>1, <2>4, <3>1
  <2>6. n.wal[i].tx_id \in Nat /\ n.wal[i].cmd \in Nat \ {0}
    <3>1. n.wal[i] \in Line /\ n.wal[i].cmd \in DOMAIN commands
      BY <1>1, <2>3 DEF Sound, Written
    <3>2. \A c \in DOMAIN commands : c \in Nat \ {0}
      OBVIOUS
    <3> QED BY <3>1, <3>2 DEF Line
  <2>7. MaxOf(g[i - 1].global_version, n.wal[i].tx_id) \in Nat
    BY <2>4, <2>6 DEF MaxOf
  <2> DEFINE m == MaxOf(g[i - 1].global_version, n.wal[i].tx_id)
  <2>8. m \in Nat /\ m + 1 \in Nat
    BY <2>7
  <2>9. PICK v \in Nat : g[i] = [tree |-> Applied(g[i - 1].tree, n.wal[i].cmd, v), global_version |-> m]
    BY <2>5, <2>8 DEF Replayed
  <2>10. Applied(g[i - 1].tree, n.wal[i].cmd, v) \in Store
    BY <2>4, <2>6, AppliedTree
  <2> QED BY <2>1, <2>8, <2>9, <2>10
<1> QED BY <1>2, <1>4, <1>5 DEF g

(* new leaves the files as they are; its counter is not behind those that  *)
(* it can read, and not ahead of what they have.                           *)
LEMMA RestartedNode ==
  ASSUME NEW n, n \in Node, commands \in Seq(Command), Sound(n.wal)
  PROVE  /\ Restarted(n) \in Node
         /\ Restarted(n).wal = n.wal /\ Restarted(n).snapshot = n.snapshot
         /\ Readable(n.wal) =>
              /\ Restarted(n).tree = Replay(n)[Len(n.wal)].tree
              /\ \A i \in DOMAIN n.wal :
                   n.wal[i].ok => n.wal[i].tx_id <= Restarted(n).global_version
         /\ \A v \in Nat : Covers(n.snapshot, v) => v <= Restarted(n).global_version
         /\ \A b \in Nat :
              /\ n.snapshot = EmptyStore
              /\ \A i \in DOMAIN n.wal : n.wal[i].tx_id <= b
              => Restarted(n).global_version <= b
<1> DEFINE g == Replay(n)
           len == Len(n.wal)
           id(i) == IF n.wal[i].ok THEN n.wal[i].tx_id ELSE 0
           first == VersionOf(n.snapshot)
           last == ReplayedLines(n)
<1>1. n.wal \in Seq(Line) /\ n.snapshot \in Store /\ n.tree \in Store /\ n.global_version \in Nat
  BY DEF Node
<1>2. /\ len \in Nat
      /\ \A i \in 0..len :
           /\ g[i] = IF i = 0 THEN Begun(n) ELSE Replayed(g[i - 1], n.wal[i])
           /\ g[i].tree \in Store /\ g[i].global_version \in Nat
  BY ReplayTyped
<1>3. \A i \in 1..len : id(i) \in Nat
  BY <1>1 DEF Line
<1>4. first \in Nat /\ (\A k \in Keys : n.snapshot[k] # None => n.snapshot[k].version <= first) /\ Covers(n.snapshot, first)
  BY <1>1, VersionIsHighest
<1>5. /\ Restarted(n) = [n EXCEPT !.tree = g[last].tree, !.global_version = g[last].global_version]
      /\ last \in 0..len /\ (Readable(n.wal) => last = len)
  <2>1. last = 0 \/ last = len
    BY DEF ReplayedLines
  <2>2. Readable(n.wal) => last = len
    BY DEF ReplayedLines
  <2> QED BY <1>2, <2>1, <2>2 DEF Restarted
<1>6. DOMAIN n.wal = 1..len
  BY <1>1
<1> DEFINE gv(i) == g[i].global_version
<1>7. gv(0) = first /\ \A i \in 1..len : gv(i) = IF gv(i - 1) > id(i) THEN gv(i - 1) ELSE id(i)
  <2>1. gv(0) = first
    BY <1>2 DEF Begun
  <2>2. ASSUME NEW i \in 1..len
        PROVE  gv(i) = IF gv(i - 1) > id(i) THEN gv(i - 1) ELSE id(i)
    <3>1. g[i] = Replayed(g[i - 1], n.wal[i]) /\ gv(i - 1) \in Nat
      BY <1>2
    <3>2. CASE n.wal[i].ok
      BY <3>1, <3>2 DEF Replayed, MaxOf
    <3>3. CASE ~n.wal[i].ok
      <4>1. g[i] = g[i - 1] /\ id(i) = 0
        BY <3>1, <3>3 DEF Replayed
      <4> QED BY <3>1, <4>1
    <3> QED BY <3>2, <3>3
  <2> QED BY <2>1, <2>2
<1>8. \A i \in 0..len : gv(i) \in Nat
  BY <1>2
<1> HIDE DEF g, id, first, gv, len, last
<1> DEFINE Reached(i) ==
             /\ first <= gv(i) /\ \A j \in 1..i : id(j) <= gv(i)
             /\ \A b \in Nat : first <= b /\ (\A j \in 1..len : id(j) <= b) => gv(i) <= b
           T == {i \in 0..len : ~Reached(i)}
<1>9. T = {}
  <2> SUFFICES ASSUME T # {} PROVE FALSE
    OBVIOUS
  <2>0. T \in SUBSET Nat
    BY <1>2
  <2>1. PICK i \in T : \A y \in T : i <= y
    BY <2>0, LeastNumber
  <2>2. i # 0
    BY <1>4, <1>7, <2>1
  <2>3. i - 1 \in 0..len /\ i - 1 \notin T /\ i \in 1..len /\ i \in Nat
    <3>1. len \in Nat /\ i \in 0..len
      BY <1>2, <2>1
    <3>2. i \in Nat /\ i - 1 \in Nat /\ i - 1 \in 0..len /\ i \in 1..len
      BY <2>2, <3>1
    <3> HIDE DEF T
    <3>3. i - 1 \notin T
      BY <2>1, <3>2
    <3> QED BY <3>2, <3>3
  <2>4. Reached(i - 1)
    BY <2>3
  <2>5. gv(i) = IF gv(i - 1) > id(i) THEN gv(i - 1) ELSE id(i)
    BY <1>7, <2>3
  <2>6. gv(i) \in Nat /\ gv(i - 1) \in Nat /\ id(i) \in Nat
    BY <1>3, <1>8, <2>3 DEF len, id
  <2>7. \A j \in 1..i : j = i \/ j \in 1..(i - 1)
    BY <2>3
  <2>8. \A j \in 1..(i - 1) : id(j) \in Nat
    BY <1>2, <1>3, <2>3
  <2>9. first <= gv(i) /\ \A j \in 1..i : id(j) <= gv(i)
    BY <1>4, <2>4, <2>5, <2>6, <2>7, <2>8
  <2>10. \A b \in Nat : first <= b /\ (\A j \in 1..len : id(j) <= b) => gv(i) <= b
    BY <2>3, <2>4, <2>5, <2>6
  <2> QED BY <2>1, <2>9, <2>10
<1>10. Reached(last)
  BY <1>2, <1>5, <1>9
<1>11. Restarted(n).global_version = gv(last) /\ gv(last) \in Nat
  BY <1>1, <1>2, <1>5, <1>8 DEF gv, Node
<1>12. g[last].tree \in Store
  BY <1>2, <1>5
<1>13. Restarted(n) \in Node /\ Restarted(n).wal = n.wal /\ Restarted(n).snapshot = n.snapshot
       /\ Restarted(n).tree = g[last].tree
  BY <1>5, <1>11, <1>12 DEF Node, gv
<1>14. Readable(n.wal) => \A i \in DOMAIN n.wal :
         n.wal[i].ok => n.wal[i].tx_id <= Restarted(n).global_version
  BY <1>5, <1>6, <1>10, <1>11 DEF id
<1>15. ASSUME NEW v \in Nat, Covers(n.snapshot, v)
       PROVE  v <= Restarted(n).global_version
  <2>1. v <= first
    <3>1. CASE v = 0
      BY <1>4, <3>1
    <3>2. CASE v # 0
      <4>1. PICK k \in Keys : n.snapshot[k] # None /\ v <= n.snapshot[k].version
        BY <1>15, <3>2 DEF Covers
      <4>2. n.snapshot[k].version \in Nat
        BY <1>1, <4>1 DEF Store, Record
      <4> QED BY <1>4, <4>1, <4>2
    <3> QED BY <3>1, <3>2
  <2> QED BY <1>4, <1>10, <1>11, <2>1
<1>16. ASSUME NEW b \in Nat, n.snapshot = EmptyStore, \A i \in DOMAIN n.wal : n.wal[i].tx_id <= b
       PROVE  Restarted(n).global_version <= b
  <2>1. first = 0
    BY <1>4, <1>16 DEF Covers, EmptyStore
  <2>2. \A j \in 1..len : id(j) <= b
    BY <1>6, <1>16 DEF id
  <2> QED BY <1>10, <1>11, <2>1, <2>2
<1> QED BY <1>5, <1>13, <1>14, <1>15, <1>16 DEF g, len

(* What a longer sequence has.                                             *)
LEMMA Appended ==
  ASSUME NEW S, NEW f \in Seq(S), NEW x \in S
  PROVE  /\ Append(f, x) \in Seq(S) /\ Append(f, x) # <<>> /\ Len(Append(f, x)) = Len(f) + 1
         /\ \A i \in DOMAIN Append(f, x) :
              \/ Append(f, x)[i] = x /\ i = Len(f) + 1
              \/ i \in DOMAIN f /\ Append(f, x)[i] = f[i]
         /\ \A i \in DOMAIN f : i \in DOMAIN Append(f, x) /\ Append(f, x)[i] = f[i]
         /\ Len(f) + 1 \in DOMAIN Append(f, x) /\ Append(f, x)[Len(f) + 1] = x
<1> DEFINE n == Len(f)
           g == Append(f, x)
<1>1. n \in Nat /\ DOMAIN f = 1..n
  OBVIOUS
<1>2. g \in Seq(S) /\ g # <<>> /\ Len(g) = n + 1 /\ g[n + 1] = x
  OBVIOUS
<1>3. \A i \in 1..n : g[i] = f[i]
  OBVIOUS
<1>4. DOMAIN g = 1..(n + 1)
  BY <1>2
<1> HIDE DEF n, g
<1>5. \A i \in 1..(n + 1) : i = n + 1 \/ i \in 1..n
  BY <1>1
<1>6. n + 1 \in 1..(n + 1) /\ \A i \in 1..n : i \in 1..(n + 1)
  BY <1>1
<1>7. \A i \in DOMAIN g : (g[i] = x /\ i = n + 1) \/ (i \in DOMAIN f /\ g[i] = f[i])
  BY <1>1, <1>2, <1>3, <1>4, <1>5
<1>8. \A i \in DOMAIN f : i \in DOMAIN g /\ g[i] = f[i]
  BY <1>1, <1>3, <1>4, <1>6
<1>9. n + 1 \in DOMAIN g /\ g[n + 1] = x
  BY <1>2, <1>4, <1>6
<1> QED BY <1>2, <1>7, <1>8, <1>9 DEF n, g

(* What is left after the first element.                                   *)
LEMMA Tailed ==
  ASSUME NEW S, NEW f \in Seq(S), f # <<>>
  PROVE  /\ Tail(f) \in Seq(S) /\ Len(Tail(f)) = Len(f) - 1 /\ Head(f) = f[1] /\ 1 \in DOMAIN f
         /\ Head(f) \in S
         /\ \A i \in DOMAIN Tail(f) : i + 1 \in DOMAIN f /\ Tail(f)[i] = f[i + 1] /\ i \in Nat \ {0}
         /\ \A i \in DOMAIN f : i # 1 => i - 1 \in DOMAIN Tail(f) /\ Tail(f)[i - 1] = f[i]
<1> DEFINE n == Len(f)
           g == Tail(f)
<1>1. n \in Nat /\ DOMAIN f = 1..n /\ n # 0 /\ Head(f) = f[1] /\ f[1] \in S
  OBVIOUS
<1>2. g \in Seq(S) /\ Len(g) = n - 1
  OBVIOUS
<1>3. \A i \in 1..(n - 1) : g[i] = f[i + 1]
  OBVIOUS
<1>4. DOMAIN g = 1..(n - 1)
  BY <1>2
<1> HIDE DEF n, g
<1>5. \A i \in 1..(n - 1) : i + 1 \in 1..n /\ i \in Nat \ {0}
  BY <1>1
<1>6. \A i \in 1..n : i # 1 => i - 1 \in 1..(n - 1) /\ (i - 1) + 1 = i
  BY <1>1
<1>7. 1 \in 1..n
  BY <1>1
<1> QED BY <1>1, <1>2, <1>3, <1>4, <1>5, <1>6, <1>7 DEF n, g

(* What a log is after an append: the line is there, or was joined to one  *)
(* cut short, and then it does not parse.                                  *)
LEMMA AppendSound ==
  ASSUME NEW file \in Seq(Line), NEW line \in Line
  PROVE  /\ append(file, line) \in Seq(Line)
         /\ \A i \in DOMAIN append(file, line) :
              \/ append(file, line)[i] = line
              \/ ~append(file, line)[i].ok
              \/ i \in DOMAIN file /\ append(file, line)[i] = file[i]
         /\ Readable(append(file, line)) => Readable(file)
         /\ \A i \in DOMAIN file : i \in DOMAIN append(file, line)
<1>1. CASE file # <<>> /\ ~file[Len(file)].nl
  <2> DEFINE n == Len(file)
             x == Unparsable(line.nl, file[n].utf8 /\ line.utf8)
  <2>1. append(file, line) = [file EXCEPT ![n] = x]
    BY <1>1 DEF append
  <2>2. n \in 1..n /\ n \in Nat /\ DOMAIN file = 1..n /\ file[n] \in Line
    BY <1>1
  <2>3. x \in Line /\ ~x.ok /\ x.utf8 = (file[n].utf8 /\ line.utf8)
    BY <2>2 DEF Unparsable, Line
  <2> HIDE DEF x
  <2>4. [file EXCEPT ![n] = x] \in Seq(Line) /\ DOMAIN [file EXCEPT ![n] = x] = 1..n
    BY <2>2, <2>3, SeqDef
  <2>5. [file EXCEPT ![n] = x][n] = x /\ \A i \in 1..n : i # n => [file EXCEPT ![n] = x][i] = file[i]
    BY <2>2
  <2>6. \A i \in 1..n : file[i] \in Line /\ file[i].utf8 \in BOOLEAN
    BY <2>2 DEF Line
  <2>7. Readable([file EXCEPT ![n] = x]) => Readable(file)
    <3> SUFFICES ASSUME Readable([file EXCEPT ![n] = x]), NEW i \in 1..n PROVE file[i].utf8
      BY <2>2 DEF Readable
    <3>1. [file EXCEPT ![n] = x][i].utf8
      BY <2>4 DEF Readable
    <3>2. CASE i = n
      BY <2>3, <2>5, <3>1, <3>2
    <3>3. CASE i # n
      BY <2>5, <3>1, <3>3
    <3> QED BY <3>2, <3>3
  <2> QED BY <2>1, <2>2, <2>3, <2>4, <2>5, <2>7
<1>2. CASE ~(file # <<>> /\ ~file[Len(file)].nl)
  <2>1. append(file, line) = Append(file, line)
    BY <1>2 DEF append
  <2>2. /\ Append(file, line) \in Seq(Line)
        /\ \A i \in DOMAIN Append(file, line) :
             \/ Append(file, line)[i] = line
             \/ i \in DOMAIN file /\ Append(file, line)[i] = file[i]
        /\ \A i \in DOMAIN file : i \in DOMAIN Append(file, line) /\ Append(file, line)[i] = file[i]
    BY Appended
  <2>3. Readable(Append(file, line)) => Readable(file)
    BY <2>2 DEF Readable
  <2> QED BY <2>1, <2>2, <2>3
<1> QED BY <1>1, <1>2

(* What a crash leaves of a log.                                           *)
LEMMA CrashedSound ==
  ASSUME NEW old \in Seq(Line), NEW a \in BOOLEAN, NEW file \in CrashedLog(old, a)
  PROVE  /\ file \in Seq(Line)
         /\ Sound(old) => Sound(file)
         /\ ~Torn => file = old
<1>1. CASE file = old
  BY <1>1
<1>2. ASSUME NEW utf8 \in BOOLEAN, Torn, file = append(old, Unparsable(FALSE, utf8))
      PROVE  file \in Seq(Line) /\ (Sound(old) => Sound(file))
  <2> DEFINE x == Unparsable(FALSE, utf8)
  <2>1. x \in Line /\ ~x.ok
    BY DEF Unparsable, Line
  <2> HIDE DEF x
  <2>2. /\ append(old, x) \in Seq(Line)
        /\ \A i \in DOMAIN append(old, x) :
             \/ append(old, x)[i] = x
             \/ ~append(old, x)[i].ok
             \/ i \in DOMAIN old /\ append(old, x)[i] = old[i]
    BY <2>1, AppendSound
  <2>3. file = append(old, x)
    BY <1>2 DEF x
  <2> QED BY <2>1, <2>2, <2>3 DEF Sound
<1>3. file = old \/ \E utf8 \in BOOLEAN : Torn /\ file = append(old, Unparsable(FALSE, utf8))
  BY DEF CrashedLog, Torn
<1> QED BY <1>1, <1>2, <1>3

(* read_from_tx_id keeps the line.                                         *)
Wanted(line, start) == line.ok /\ line.tx_id >= start

(* What read_from_tx_id returns: wanted lines of the file, the first of    *)
(* them first.                                                             *)
LEMMA RecordsRead ==
  ASSUME NEW file \in Seq(Line), NEW start \in Nat
  PROVE  /\ read_from_tx_id(file, start) \in Seq(Line)
         /\ \A i \in DOMAIN read_from_tx_id(file, start) :
              \E j \in DOMAIN file :
                read_from_tx_id(file, start)[i] = file[j] /\ Wanted(file[j], start)
         /\ read_from_tx_id(file, start) = <<>> => \A j \in DOMAIN file : ~Wanted(file[j], start)
         /\ read_from_tx_id(file, start) # <<>> =>
              \E j \in DOMAIN file :
                /\ read_from_tx_id(file, start)[1] = file[j] /\ Wanted(file[j], start)
                /\ \A i \in 1..(j - 1) : ~Wanted(file[i], start)
<1> DEFINE g == Records(file, start)
           len == Len(file)
<1>1. len \in Nat /\ DOMAIN file = 1..len /\ \A i \in 1..len : file[i] \in Line
  OBVIOUS
<1>2. RecordsLoop(file, start, g, len)
  BY RecordsLoops
<1>3. read_from_tx_id(file, start) = g[len]
  BY DEF read_from_tx_id
<1> HIDE DEF g, len
<1>4. \A i \in 0..len : g[i] = IF i = 0 THEN <<>> ELSE Kept(g[i - 1], file[i], start)
  BY <1>2 DEF RecordsLoop
<1> DEFINE From(f, n) == \A i \in DOMAIN f : \E j \in 1..n : f[i] = file[j] /\ Wanted(file[j], start)
           None1(f, n) == f = <<>> => \A j \in 1..n : ~Wanted(file[j], start)
           First(f, n) == f # <<>> =>
             \E j \in 1..n : f[1] = file[j] /\ Wanted(file[j], start)
                             /\ \A i \in 1..(j - 1) : ~Wanted(file[i], start)
           Good(n) == g[n] \in Seq(Line) /\ From(g[n], n) /\ None1(g[n], n) /\ First(g[n], n)
           T == {n \in 0..len : ~Good(n)}
<1>5. T = {}
  <2> SUFFICES ASSUME T # {} PROVE FALSE
    OBVIOUS
  <2>0. T \in SUBSET Nat
    BY <1>1
  <2>1. PICK n \in T : \A y \in T : n <= y
    BY <2>0, LeastNumber
  <2>2. n \in 0..len /\ ~Good(n)
    BY <2>1
  <2>3. n # 0
    <3>1. SUFFICES ASSUME n = 0 PROVE FALSE
      OBVIOUS
    <3>2. g[n] = <<>>
      BY <1>4, <2>2, <3>1
    <3>3. Good(n)
      BY <3>1, <3>2
    <3> QED BY <2>2, <3>3
  <2>4. n - 1 \in 0..len /\ n \in 1..len /\ n \in Nat /\ n - 1 \in Nat
    BY <1>1, <2>2, <2>3
  <2>5. Good(n - 1)
    <3> HIDE DEF Good
    <3>1. n - 1 \notin T
      BY <2>1, <2>4
    <3> QED BY <2>4, <3>1
  <2> DEFINE f == g[n - 1]
  <2>6. g[n] = Kept(f, file[n], start)
    BY <1>4, <2>2, <2>3
  <2>7. \A j \in 1..n : j = n \/ j \in 1..(n - 1)
    BY <2>4
  <2>8. \A j \in 1..(n - 1) : j \in 1..n
    BY <2>4
  <2>9. file[n] \in Line
    BY <1>1, <2>4
  <2>10. f \in Seq(Line) /\ From(f, n - 1) /\ None1(f, n - 1) /\ First(f, n - 1)
    BY <2>5
  <2> HIDE DEF f
  <2>11. CASE Wanted(file[n], start)
    <3>1. g[n] = Append(f, file[n])
      BY <2>6, <2>11 DEF Kept, Wanted
    <3>2. g[n] \in Seq(Line) /\ g[n] # <<>> /\ Len(g[n]) = Len(f) + 1
      BY <2>9, <2>10, <3>1
    <3>3. \A i \in DOMAIN g[n] : g[n][i] = file[n] \/ (i \in DOMAIN f /\ g[n][i] = f[i])
      BY <2>9, <2>10, <3>1, Appended
    <3>4. From(g[n], n)
      BY <2>4, <2>8, <2>10, <2>11, <3>3
    <3>5. First(g[n], n)
      <4>1. CASE f = <<>>
        <5>1. g[n][1] = file[n]
          BY <3>1, <4>1
        <5>2. \A i \in 1..(n - 1) : ~Wanted(file[i], start)
          BY <2>10, <4>1
        <5> QED BY <2>4, <2>11, <5>1, <5>2
      <4>2. CASE f # <<>>
        <5>1. g[n][1] = f[1]
          BY <2>9, <2>10, <3>1, <4>2
        <5> QED BY <2>8, <2>10, <4>2, <5>1
      <4> QED BY <4>1, <4>2
    <3> QED BY <2>2, <3>2, <3>4, <3>5
  <2>12. CASE ~Wanted(file[n], start)
    <3>1. g[n] = f
      BY <2>6, <2>12 DEF Kept, Wanted
    <3>2. From(g[n], n)
      BY <2>8, <2>10, <3>1
    <3>3. None1(g[n], n)
      BY <2>7, <2>10, <2>12, <3>1
    <3>4. First(g[n], n)
      BY <2>8, <2>10, <3>1
    <3> QED BY <2>2, <2>10, <3>1, <3>2, <3>3, <3>4
  <2> QED BY <2>11, <2>12
<1>6. Good(len)
  <2> HIDE DEF Good
  <2> QED BY <1>1, <1>5
<1>7. PICK x : x = g[len]
  OBVIOUS
<1>8. x \in Seq(Line) /\ From(x, len) /\ None1(x, len) /\ First(x, len)
  BY <1>6, <1>7
<1>9. read_from_tx_id(file, start) = x /\ 1..len = DOMAIN file
  BY <1>1, <1>3, <1>7
<1>10. \A i \in DOMAIN x : \E j \in DOMAIN file : x[i] = file[j] /\ Wanted(file[j], start)
  BY <1>8, <1>9
<1>11. x = <<>> => \A j \in DOMAIN file : ~Wanted(file[j], start)
  BY <1>8, <1>9
<1>12. x # <<>> => \E j \in DOMAIN file : /\ x[1] = file[j] /\ Wanted(file[j], start)
                                        /\ \A i \in 1..(j - 1) : ~Wanted(file[i], start)
  BY <1>8, <1>9
<1> HIDE DEF Good, From, None1, First, T
<1> QED BY <1>8, <1>9, <1>10, <1>11, <1>12
-----------------------------------------------------------------------------
(* What writers do to the commands and to their jobs.                      *)

(* Where a writer may be.                                                  *)
Pcs == {"idle", "version", "append", "send", "apply"}

(* A record with these fields is a command.                                *)
LEMMA CommandTyped ==
  \A i \in Nat \ {0}, t, l \in BOOLEAN, x \in Writes :
    [tx_id |-> i, tx |-> t, writes |-> x, logged |-> l] \in Command
BY DEF Command

(* What the type of the commands says of one of them.                      *)
LEMMA CommandFacts ==
  ASSUME commands \in Seq(Command), NEW c \in DOMAIN commands
  PROVE  /\ c \in Nat \ {0} /\ commands[c].tx_id \in Nat \ {0} /\ commands[c].tx \in BOOLEAN
         /\ commands[c].writes \in Writes /\ commands[c].logged \in BOOLEAN
<1>1. commands[c] \in Command /\ c \in Nat \ {0}
  OBVIOUS
<1> QED BY <1>1 DEF Command

(* FetchAdd adds a command and gives it to the writer.                     *)
LEMMA FetchAdded ==
  ASSUME commands \in Seq(Command), leader.global_version \in Nat,
         job \in [Writers -> Job], pc \in [Writers -> Pcs],
         NEW w \in Writers, NEW tx \in BOOLEAN, NEW writes \in Writes, FetchAdd(w, tx, writes)
  PROVE  /\ commands' \in Seq(Command) /\ Len(commands') = Len(commands) + 1
         /\ \A c \in DOMAIN commands : c \in DOMAIN commands' /\ commands'[c] = commands[c]
         /\ \A c \in DOMAIN commands' : c = Len(commands') \/ c \in DOMAIN commands
         /\ Len(commands') \in DOMAIN commands'
         /\ commands'[Len(commands')] =
              [tx_id |-> leader.global_version + 1, tx |-> tx, writes |-> writes, logged |-> FALSE]
         /\ job' \in [Writers -> Job]
         /\ job'[w].cmd = Len(commands') /\ job'[w].kind = job[w].kind
         /\ job'[w].todo = {k \in Keys : writes[k] # "none"}
         /\ \A u \in Writers : u # w => job'[u] = job[u]
         /\ pc' = [pc EXCEPT ![w] = "append"]
<1> DEFINE x == [tx_id |-> leader.global_version + 1, tx |-> tx, writes |-> writes, logged |-> FALSE]
<1>1. commands' = Append(commands, x) /\ pc' = [pc EXCEPT ![w] = "append"]
  BY DEF FetchAdd
<1>2. x \in Command
  BY DEF Command
<1> HIDE DEF x
<1>3. /\ commands' \in Seq(Command) /\ Len(commands') = Len(commands) + 1
      /\ \A c \in DOMAIN commands : c \in DOMAIN commands' /\ commands'[c] = commands[c]
      /\ \A c \in DOMAIN commands' : c = Len(commands') \/ c \in DOMAIN commands
      /\ Len(commands') \in DOMAIN commands' /\ commands'[Len(commands')] = x
  BY <1>1, <1>2, Appended
<1>4. Len(commands) + 1 \in Nat
  OBVIOUS
<1> DEFINE d == {k \in Keys : writes[k] # "none"}
<1>5. job' = [job EXCEPT ![w].cmd = Len(commands) + 1, ![w].todo = d]
  BY DEF FetchAdd
<1>6. d \in SUBSET Keys
  OBVIOUS
<1> HIDE DEF d
<1>7. job'[w] = [kind |-> job[w].kind, cmd |-> Len(commands) + 1, todo |-> d]
  BY <1>5 DEF Job
<1>8. \A u \in Writers : u # w => job'[u] = job[u]
  BY <1>5
<1>9. job'[w] \in Job
  BY <1>4, <1>6, <1>7 DEF Job
<1>10. job' \in [Writers -> Job]
  <2>1. job' = [u \in Writers |-> job'[u]]
    BY <1>5
  <2>2. \A u \in Writers : job'[u] \in Job
    BY <1>8, <1>9
  <2> QED BY <2>1, <2>2
<1>11. /\ job'[w].cmd = Len(commands') /\ job'[w].kind = job[w].kind /\ job'[w].todo = d
  BY <1>3, <1>7
<1> QED BY <1>1, <1>3, <1>8, <1>10, <1>11 DEF x, d

(* LogAppend marks the writer's command.                                   *)
LEMMA LogAppended ==
  ASSUME commands \in Seq(Command), leader \in Node,
         NEW w \in Writers, job[w].cmd \in DOMAIN commands, LogAppend(w)
  PROVE  /\ commands' \in Seq(Command) /\ DOMAIN commands' = DOMAIN commands
         /\ \A c \in DOMAIN commands :
              /\ commands'[c].tx_id = commands[c].tx_id /\ commands'[c].tx = commands[c].tx
              /\ commands'[c].writes = commands[c].writes
              /\ (commands'[c].logged <=> c = job[w].cmd \/ commands[c].logged)
         /\ leader'.wal = append(leader.wal, Envelope(commands[job[w].cmd].tx_id, job[w].cmd))
         /\ Whole(leader.wal) =>
              leader'.wal = Append(leader.wal, Envelope(commands[job[w].cmd].tx_id, job[w].cmd))
         /\ Envelope(commands[job[w].cmd].tx_id, job[w].cmd) \in Line
         /\ leader' \in Node /\ leader'.tree = leader.tree /\ leader'.snapshot = leader.snapshot
         /\ leader'.global_version = leader.global_version
<1> DEFINE c == job[w].cmd
<1>1. c \in DOMAIN commands /\ commands' = [commands EXCEPT ![c].logged = TRUE]
  BY DEF LogAppend
<1>2. \A d \in DOMAIN commands : commands[d] \in Command /\ d \in Nat \ {0}
  OBVIOUS
<1>3. /\ DOMAIN commands' = DOMAIN commands
      /\ \A d \in DOMAIN commands : d # c => commands'[d] = commands[d]
      /\ commands'[c] = [tx_id |-> commands[c].tx_id, tx |-> commands[c].tx,
                         writes |-> commands[c].writes, logged |-> TRUE]
  BY <1>1, <1>2 DEF Command
<1>4. commands' \in Seq(Command)
  <2>1. DOMAIN commands' = 1..Len(commands)
    BY <1>3
  <2>2. ASSUME NEW d \in 1..Len(commands) PROVE commands'[d] \in Command
    <3>1. CASE d = c
      <4>1. commands[c] \in Command
        BY <1>1, <1>2
      <4>2. commands[c].tx_id \in Nat \ {0} /\ commands[c].tx \in BOOLEAN /\ commands[c].writes \in Writes
        BY <4>1 DEF Command
      <4> QED BY <1>3, <3>1, <4>2, CommandTyped
    <3>2. CASE d # c
      <4>1. d \in DOMAIN commands
        OBVIOUS
      <4> QED BY <1>2, <1>3, <3>2, <4>1
    <3> QED BY <3>1, <3>2
  <2>3. commands' = [d \in 1..Len(commands) |-> commands'[d]]
    BY <1>1, <2>1
  <2>4. Len(commands) \in Nat
    OBVIOUS
  <2>5. commands' \in [1..Len(commands) -> Command]
    BY <2>2, <2>3
  <2> QED BY <2>4, <2>5, SeqDef
<1>5. commands[c].tx_id \in Nat /\ c \in Nat \ {0}
  BY <1>1, <1>2 DEF Command
<1>6. \A d \in DOMAIN commands : commands[d].logged \in BOOLEAN
  BY <1>2 DEF Command
<1> HIDE DEF c
<1>7. \A d \in DOMAIN commands :
        /\ commands'[d].tx_id = commands[d].tx_id /\ commands'[d].tx = commands[d].tx
        /\ commands'[d].writes = commands[d].writes
        /\ (commands'[d].logged <=> d = c \/ commands[d].logged)
  <2> TAKE d \in DOMAIN commands
  <2>1. CASE d = c
    BY <1>3, <2>1
  <2>2. CASE d # c
    BY <1>3, <1>6, <2>2
  <2> QED BY <2>1, <2>2
<1> DEFINE e == Envelope(commands[c].tx_id, c)
<1>8. leader.wal \in Seq(Line)
  BY DEF Node
<1>9. e \in Line /\ (Whole(leader.wal) => append(leader.wal, e) = Append(leader.wal, e))
  <2>1. e \in Line
    BY <1>5 DEF Envelope, Line
  <2> QED BY <1>5, <1>8, <2>1, AppendLine
<1>10. leader' = [leader EXCEPT !.wal = append(@, e)]
  BY DEF LogAppend, c
<1> HIDE DEF e
<1>11. append(leader.wal, e) \in Seq(Line)
  BY <1>8, <1>9, AppendSound
<1>12. /\ leader'.wal = append(leader.wal, e) /\ leader' \in Node /\ leader'.tree = leader.tree
       /\ leader'.snapshot = leader.snapshot /\ leader'.global_version = leader.global_version
  BY <1>9, <1>10, <1>11 DEF Node
<1> QED BY <1>3, <1>4, <1>7, <1>9, <1>12 DEF c, e
-----------------------------------------------------------------------------
(* Types.                                                                  *)

(* What the types say of the writers and of the leader, and of the rest.   *)
WritersTyped ==
  /\ commands \in Seq(Command) /\ leader \in Node /\ wal_lock \in Writers \cup {None}
  /\ pc \in [Writers -> Pcs]
  /\ \A w \in Writers : wal_lock = w => pc[w] \in {"append", "send", "apply"}
  /\ JobsTyped /\ Sound(leader.wal)

(* The types of task, stream, link and replica.                            *)
RestTyped ==
  /\ replica \in Node /\ Sound(replica.wal) /\ TaskTyped /\ StreamTyped
  /\ link \in {"up", "down"} /\ (link = "down" => task = NoTask)
  /\ Len(task.rx.queue) <= SyncCapacity /\ Len(stream) <= StreamCapacity

(* The types of what no step changes, and of the count of faults.          *)
SettingTyped == setting \in Workloads /\ faults \in Nat

(* These three make up the invariant.                                      *)
LEMMA TypedParts == Shaped <=> SettingTyped /\ WritersTyped /\ RestTyped
BY DEF Shaped, TypeOK, FilesTyped, SettingTyped, WritersTyped, RestTyped, Pcs, Command

(* The commands only become more.                                          *)
LEMMA MoreCommands ==
  ASSUME \A c \in DOMAIN commands : c \in DOMAIN commands'
  PROVE  /\ RestTyped /\ UNCHANGED <<task, stream, link, replica>> => RestTyped'
         /\ Sound(leader.wal) /\ leader'.wal = leader.wal => Sound(leader.wal)'
<1>1. ASSUME RestTyped, UNCHANGED <<task, stream, link, replica>> PROVE RestTyped'
  <2>1. Sound(replica.wal)'
    BY <1>1 DEF RestTyped, Whole, Sound, Written
  <2>2. TaskTyped'
    BY <1>1 DEF RestTyped, TaskTyped, Whole, Sound, Written
  <2>3. StreamTyped'
    BY <1>1 DEF RestTyped, StreamTyped
  <2> QED BY <1>1, <2>1, <2>2, <2>3 DEF RestTyped
<1>2. ASSUME Sound(leader.wal), leader'.wal = leader.wal PROVE Sound(leader.wal)'
  BY <1>2 DEF Whole, Sound, Written
<1> QED BY <1>1, <1>2

(* The workload in the types.                                              *)
LEMMA WorkloadTyped ==
  ASSUME setting \in Workloads
  PROVE  /\ setting.writers \subseteq Writers /\ setting.keys \subseteq Keys
         /\ setting.chunk \in Nat \ {0}
BY WorkloadsAssumption DEF Workload

(* A new version keeps the types of the writers.                           *)
LEMMA FetchAddTyped ==
  ASSUME WritersTyped, NEW w \in Writers, NEW tx \in BOOLEAN, NEW writes \in Writes,
         pc[w] \in {"idle", "version"}, FetchAdd(w, tx, writes),
         leader' = [leader EXCEPT !.global_version = @ + 1],
         wal_lock' \in {wal_lock, w}
  PROVE  WritersTyped' /\ \A c \in DOMAIN commands : c \in DOMAIN commands'
<1>1. leader.global_version \in Nat /\ leader' \in Node /\ leader'.wal = leader.wal
  BY DEF WritersTyped, Node
<1>2. commands \in Seq(Command) /\ job \in [Writers -> Job] /\ pc \in [Writers -> Pcs]
  BY DEF WritersTyped, JobsTyped
<1>3. /\ commands' \in Seq(Command) /\ Len(commands') \in DOMAIN commands'
      /\ \A c \in DOMAIN commands : c \in DOMAIN commands'
      /\ job' \in [Writers -> Job] /\ job'[w].cmd = Len(commands')
      /\ \A u \in Writers : u # w => job'[u] = job[u]
      /\ pc' = [pc EXCEPT ![w] = "append"]
  BY <1>1, <1>2, FetchAdded
<1>4. pc' \in [Writers -> Pcs] /\ pc'[w] = "append" /\ \A u \in Writers : u # w => pc'[u] = pc[u]
  BY <1>2, <1>3 DEF Pcs
<1>5. JobsTyped'
  <2>1. ASSUME NEW u \in Writers, pc'[u] \in {"append", "send", "apply"} PROVE job'[u].cmd \in DOMAIN commands'
    <3>1. CASE u = w
      BY <1>3, <3>1
    <3>2. CASE u # w
      BY <1>3, <1>4, <2>1, <3>2 DEF WritersTyped, JobsTyped
    <3> QED BY <3>1, <3>2
  <2> QED BY <1>3, <2>1 DEF JobsTyped
<1>6. \A u \in Writers : wal_lock' = u => pc'[u] \in {"append", "send", "apply"}
  BY <1>4 DEF WritersTyped
<1>7. wal_lock' \in Writers \cup {None}
  BY DEF WritersTyped
<1>8. Sound(leader.wal)'
  BY <1>1, <1>3, MoreCommands DEF WritersTyped
<1> QED BY <1>1, <1>3, <1>4, <1>5, <1>6, <1>7, <1>8 DEF WritersTyped

(* The writes of put, cas and delete.                                      *)
LEMMA OneTyped ==
  ASSUME NEW k \in Keys, NEW op \in {"put", "delete"}
  PROVE  One(k, op) \in Writes
BY DEF One, Writes

(* A request keeps the types.                                              *)
LEMMA RequestTyped ==
  ASSUME Shaped, NEW w \in Writers, Request(w)
  PROVE  Shaped'
<1>1. setting \in Workloads /\ SettingTyped /\ WritersTyped /\ RestTyped
  BY TypedParts DEF SettingTyped
<1>2. setting.keys \subseteq Keys
  BY <1>1, WorkloadTyped
<1>3. ASSUME UNCHANGED <<setting, task, stream, link, replica, faults>>, WritersTyped',
             \A c \in DOMAIN commands : c \in DOMAIN commands'
      PROVE  Shaped'
  <2>1. RestTyped'
    BY <1>1, <1>3, MoreCommands
  <2>2. SettingTyped'
    BY <1>1, <1>3 DEF SettingTyped
  <2>3. WritersTyped'
    BY <1>3
  <2> QED BY <2>1, <2>2, <2>3, TypedParts, PTL
<1>4. ASSUME NEW k \in setting.keys, PutVersion(w, k) PROVE Shaped'
  <2>1. One(k, "put") \in Writes
    BY <1>2, <1>4, OneTyped
  <2>2. WritersTyped' /\ \A c \in DOMAIN commands : c \in DOMAIN commands'
    BY <1>1, <1>4, <2>1, FetchAddTyped DEF PutVersion, Ready
  <2> QED BY <1>3, <1>4, <2>2 DEF PutVersion
<1>5. ASSUME NEW tx \in BOOLEAN, NEW writes \in Writes, LockVersion(w, tx, writes) PROVE Shaped'
  <2>1. WritersTyped' /\ \A c \in DOMAIN commands : c \in DOMAIN commands'
    BY <1>1, <1>5, FetchAddTyped DEF LockVersion, Ready
  <2> QED BY <1>3, <1>5, <2>1 DEF LockVersion
<1>6. ASSUME NEW k \in setting.keys, DeleteRemove(w, k) PROVE Shaped'
  <2>1. k \in Keys
    BY <1>2, <1>6
  <2>2. /\ leader.tree \in Store /\ leader' \in Node /\ leader'.wal = leader.wal
    <3>1. leader \in Node /\ leader' = [leader EXCEPT !.tree[k] = None]
      BY <1>1, <1>6 DEF DeleteRemove, WritersTyped
    <3>2. [leader.tree EXCEPT ![k] = None] \in Store
      BY <3>1 DEF Node, Store
    <3> QED BY <3>1, <3>2 DEF Node
  <2>3. /\ job' = [job EXCEPT ![w] = [kind |-> "delete", cmd |-> 0, todo |-> {k}]]
        /\ pc' = [pc EXCEPT ![w] = "version"] /\ commands' = commands /\ wal_lock' = wal_lock
        /\ pc[w] = "idle"
    BY <1>6 DEF DeleteRemove, Ready
  <2>4. job' \in [Writers -> Job] /\ pc' \in [Writers -> Pcs]
    BY <1>1, <2>1, <2>3 DEF WritersTyped, JobsTyped, Job, Pcs
  <2>5. JobsTyped'
    BY <1>1, <2>3, <2>4 DEF WritersTyped, JobsTyped
  <2>6. Sound(leader.wal)'
    BY <1>1, <2>2, <2>3, MoreCommands DEF WritersTyped
  <2>7. \A u \in Writers : wal_lock' = u => pc'[u] \in {"append", "send", "apply"}
    BY <1>1, <2>3 DEF WritersTyped
  <2>8. WritersTyped'
    BY <1>1, <2>2, <2>3, <2>4, <2>5, <2>6, <2>7 DEF WritersTyped
  <2> QED BY <1>3, <1>6, <2>3, <2>8 DEF DeleteRemove
<1>7. ASSUME NEW k \in setting.keys, CasVersion(w, k) PROVE Shaped'
  BY <1>2, <1>5, <1>7, OneTyped DEF CasVersion
<1>8. ASSUME NEW writes \in Writes, TxVersion(w, writes) PROVE Shaped'
  BY <1>5, <1>8 DEF TxVersion
<1> QED BY <1>4, <1>6, <1>7, <1>8 DEF Request

(* The receiver's queue after a message, and after one is taken.           *)
LEMMA ReceivedTyped ==
  ASSUME NEW rx \in Receivers, Len(rx.queue) <= SyncCapacity,
         NEW D, \A i \in DOMAIN rx.queue : rx.queue[i] \in D, NEW c \in D, c \in Nat \ {0}
  PROVE  /\ Sync!Received(rx, c) \in Receivers
         /\ Len(Sync!Received(rx, c).queue) <= SyncCapacity
         /\ \A i \in DOMAIN Sync!Received(rx, c).queue : Sync!Received(rx, c).queue[i] \in D
<1> DEFINE q == rx.queue
           q2 == Sync!Received(rx, c).queue
<1>0. SyncCapacity \in Nat \ {0}
  BY WorkloadsAssumption
<1>10. q \in Seq(Nat \ {0}) /\ rx.lagged \in BOOLEAN
  BY DEF Receivers
<1>1. CASE Len(rx.queue) < SyncCapacity
  <2>1. Sync!Received(rx, c) = [queue |-> Append(q, c), lagged |-> rx.lagged]
    BY <1>1 DEF Sync!Received, Receivers
  <2>2. q2 = Append(q, c) /\ Sync!Received(rx, c).lagged = rx.lagged
    BY <2>1
  <2>3. \A i \in DOMAIN q2 : q2[i] = c \/ (i \in DOMAIN q /\ q2[i] = q[i])
    BY <1>10, <2>2, Appended
  <2>4. q2 \in Seq(Nat \ {0}) /\ Len(q2) = Len(q) + 1 /\ Len(q) \in Nat
    BY <1>10, <2>2
  <2>5. Sync!Received(rx, c) \in Receivers
    BY <1>10, <2>1, <2>2, <2>4 DEF Receivers
  <2> QED BY <1>0, <1>1, <2>3, <2>4, <2>5
<1>2. CASE ~(Len(rx.queue) < SyncCapacity)
  <2>1. Sync!Received(rx, c) = [queue |-> Append(Tail(q), c), lagged |-> TRUE]
    BY <1>2 DEF Sync!Received
  <2>2. q # <<>>
    BY <1>0, <1>2, <1>10
  <2>3. /\ Tail(q) \in Seq(Nat \ {0}) /\ Len(Tail(q)) = Len(q) - 1
        /\ \A i \in DOMAIN Tail(q) : i + 1 \in DOMAIN q /\ Tail(q)[i] = q[i + 1]
    BY <1>10, <2>2, Tailed
  <2>4. q2 = Append(Tail(q), c) /\ Sync!Received(rx, c).lagged = TRUE
    BY <2>1
  <2>5. /\ q2 \in Seq(Nat \ {0}) /\ Len(q2) = Len(q)
        /\ \A i \in DOMAIN q2 : q2[i] = c \/ (i \in DOMAIN Tail(q) /\ q2[i] = Tail(q)[i])
    BY <1>10, <2>2, <2>3, <2>4, Appended
  <2>6. \A i \in DOMAIN q2 : q2[i] \in D
    BY <2>3, <2>5
  <2>7. Sync!Received(rx, c) \in Receivers
    BY <2>1, <2>4, <2>5 DEF Receivers
  <2> QED BY <2>5, <2>6, <2>7
<1> QED BY <1>1, <1>2

(* The other steps of a writer.                                            *)
LEMMA HandleTyped ==
  ASSUME Shaped, NEW w \in Writers, Handle(w)
  PROVE  Shaped'
<1>1. setting \in Workloads /\ SettingTyped /\ WritersTyped /\ RestTyped
  BY TypedParts DEF SettingTyped
<1>2. job \in [Writers -> Job] /\ pc \in [Writers -> Pcs] /\ leader \in Node /\ commands \in Seq(Command)
  BY <1>1 DEF WritersTyped, JobsTyped
<1>3. ASSUME UNCHANGED <<setting, task, stream, link, replica, faults>>, WritersTyped',
             \A c \in DOMAIN commands : c \in DOMAIN commands'
      PROVE  Shaped'
  <2>1. RestTyped'
    BY <1>1, <1>3, MoreCommands
  <2>2. SettingTyped'
    BY <1>1, <1>3 DEF SettingTyped
  <2>3. WritersTyped'
    BY <1>3
  <2> QED BY <2>1, <2>2, <2>3, TypedParts, PTL
<1>4. CASE DeleteVersion(w)
  <2>1. PICK k \in job[w].todo : FetchAdd(w, FALSE, One(k, "delete"))
    BY <1>4 DEF DeleteVersion
  <2>2. k \in Keys
    BY <1>2, <2>1 DEF Job
  <2>3. One(k, "delete") \in Writes
    BY <2>2, OneTyped
  <2>4. WritersTyped' /\ \A c \in DOMAIN commands : c \in DOMAIN commands'
    BY <1>1, <1>4, <2>1, <2>3, FetchAddTyped DEF DeleteVersion
  <2> QED BY <1>3, <1>4, <2>4 DEF DeleteVersion
<1>5. CASE LogAppend(w)
  <2>1. job[w].cmd \in DOMAIN commands
    BY <1>1, <1>5 DEF LogAppend, WritersTyped, JobsTyped
  <2>2. /\ commands' \in Seq(Command) /\ DOMAIN commands' = DOMAIN commands
        /\ leader'.wal = append(leader.wal, Envelope(commands[job[w].cmd].tx_id, job[w].cmd))
        /\ Envelope(commands[job[w].cmd].tx_id, job[w].cmd) \in Line
        /\ leader' \in Node
    BY <1>1, <1>2, <1>5, <2>1, LogAppended
  <2> DEFINE e == Envelope(commands[job[w].cmd].tx_id, job[w].cmd)
  <2>3. Written(e)
    <3>1. commands[job[w].cmd].tx_id # 0
      BY <1>2, <2>1, CommandFacts
    <3> QED BY <2>1, <3>1 DEF Envelope, Written
  <2>4. leader.wal \in Seq(Line)
    BY <1>2 DEF Node
  <2> HIDE DEF e
  <2>5. Sound(leader.wal)'
    <3>1. leader'.wal = append(leader.wal, e) /\ e \in Line
      BY <2>2 DEF e
    <3>2. ASSUME NEW i \in DOMAIN leader'.wal, leader'.wal[i].ok
          PROVE  Written(leader'.wal[i])
      <4>1. leader'.wal[i] = e \/ (i \in DOMAIN leader.wal /\ leader'.wal[i] = leader.wal[i])
        BY <2>4, <3>1, <3>2, AppendSound
      <4> QED BY <1>1, <2>3, <3>2, <4>1 DEF WritersTyped, Sound
    <3> QED BY <2>2, <3>2 DEF Sound, Written
  <2>6. pc' = [pc EXCEPT ![w] = "send"] /\ job' = job /\ wal_lock' = wal_lock /\ pc[w] = "append"
    BY <1>5 DEF LogAppend
  <2>7. pc' \in [Writers -> Pcs]
    BY <1>2, <2>6 DEF Pcs
  <2>8. JobsTyped'
    BY <1>1, <1>2, <2>2, <2>6 DEF WritersTyped, JobsTyped
  <2>9. \A u \in Writers : wal_lock' = u => pc'[u] \in {"append", "send", "apply"}
    BY <1>1, <1>2, <2>6 DEF WritersTyped
  <2>10. WritersTyped'
    BY <1>1, <2>2, <2>5, <2>6, <2>7, <2>8, <2>9 DEF WritersTyped
  <2> QED BY <1>3, <1>5, <2>2, <2>10 DEF LogAppend
<1>6. CASE SyncSend(w)
  <2>1. /\ pc[w] = "send" /\ pc' = [pc EXCEPT ![w] = "apply"]
        /\ job' = [job EXCEPT ![w].todo = IF job[w].kind = "delete" THEN {} ELSE @]
        /\ UNCHANGED <<setting, commands, leader, wal_lock, stream, link, replica, faults>>
        /\ task' = IF task.pc = "stream" THEN [task EXCEPT !.rx = Sync!Received(@, job[w].cmd)]
                   ELSE task
    BY <1>6 DEF SyncSend
  <2>2. job' \in [Writers -> Job] /\ pc' \in [Writers -> Pcs]
    BY <1>2, <2>1 DEF Job, Pcs
  <2>3. \A u \in Writers : job'[u].cmd = job[u].cmd
    BY <1>2, <2>1 DEF Job
  <2>4. JobsTyped'
    BY <1>1, <1>2, <2>1, <2>2, <2>3 DEF WritersTyped, JobsTyped
  <2>5. \A u \in Writers : wal_lock' = u => pc'[u] \in {"append", "send", "apply"}
    BY <1>1, <1>2, <2>1 DEF WritersTyped
  <2>6. Sound(leader.wal)'
    BY <1>1, <2>1 DEF WritersTyped, Whole, Sound, Written
  <2>7. WritersTyped'
    BY <1>1, <2>1, <2>2, <2>4, <2>5, <2>6 DEF WritersTyped
  <2>8. RestTyped'
    <3>1. CASE task.pc # "stream"
      <4>1. task' = task
        BY <2>1, <3>1
      <4> QED BY <1>1, <2>1, <4>1, MoreCommands
    <3>2. CASE task.pc = "stream"
      <4>1. task' = [task EXCEPT !.rx = Sync!Received(task.rx, job[w].cmd)]
        BY <2>1, <3>2
      <4> DEFINE rx == Sync!Received(task.rx, job[w].cmd)
      <4>2. job[w].cmd \in DOMAIN commands
        BY <1>1, <2>1 DEF WritersTyped, JobsTyped
      <4>3. task \in Task /\ task.rx \in Receivers
            /\ \A i \in DOMAIN task.rx.queue : task.rx.queue[i] \in DOMAIN commands
        BY <1>1 DEF RestTyped, TaskTyped, Task
      <4>4. rx \in Receivers /\ Len(rx.queue) <= SyncCapacity
            /\ \A i \in DOMAIN rx.queue : rx.queue[i] \in DOMAIN commands
        <5>1. Len(task.rx.queue) <= SyncCapacity /\ job[w].cmd \in Nat \ {0}
          BY <1>1, <1>2, <4>2 DEF RestTyped
        <5> QED BY <4>2, <4>3, <5>1, ReceivedTyped
      <4> HIDE DEF rx
      <4>6. task' \in Task /\ task'.rx = rx /\ task'.pc = task.pc /\ task'.records = task.records
        BY <4>1, <4>3, <4>4 DEF Task, rx
      <4>7. TaskTyped'
        BY <1>1, <2>1, <3>2, <4>4, <4>6 DEF RestTyped, TaskTyped, Whole, Sound, Written
      <4>8. StreamTyped' /\ Sound(replica.wal)'
        BY <1>1, <2>1 DEF RestTyped, StreamTyped, Whole, Sound, Written
      <4>9. link' = "up"
        BY <1>1, <2>1, <3>2 DEF RestTyped, NoTask
      <4> QED BY <1>1, <2>1, <4>4, <4>6, <4>7, <4>8, <4>9 DEF RestTyped
    <3> QED BY <3>1, <3>2
  <2>9. SettingTyped'
    BY <1>1, <2>1 DEF SettingTyped
  <2> QED BY <2>7, <2>8, <2>9, TypedParts, PTL
<1>7. ASSUME NEW k \in Keys, Insert(w, k) PROVE Shaped'
  <2>1. pc[w] = "apply" /\ job[w].cmd \in DOMAIN commands
    BY <1>1, <1>7 DEF Insert, WritersTyped, JobsTyped
  <2> DEFINE r == Applied(leader.tree, job[w].cmd, commands[job[w].cmd].tx_id)[k]
  <2>2. leader' = [leader EXCEPT !.tree[k] = r]
    BY <1>7 DEF Insert
  <2>3. r \in Record \cup {None}
    <3>1. leader.tree \in Store /\ job[w].cmd \in Nat \ {0} /\ commands[job[w].cmd].tx_id \in Nat
      BY <1>2, <2>1, CommandFacts DEF Node
    <3>2. Applied(leader.tree, job[w].cmd, commands[job[w].cmd].tx_id) \in Store
      BY <3>1, AppliedTree
    <3> QED BY <3>2 DEF Store
  <2> HIDE DEF r
  <2>4. leader' \in Node /\ leader'.wal = leader.wal
    <3>1. [leader.tree EXCEPT ![k] = r] \in Store
      BY <1>2, <2>3 DEF Node, Store
    <3> QED BY <1>2, <2>2, <3>1 DEF Node
  <2>5. job' = [job EXCEPT ![w].todo = @ \ {k}]
        /\ UNCHANGED <<setting, commands, wal_lock, pc, task, stream, link, replica, faults>>
    BY <1>7 DEF Insert
  <2>6. job' \in [Writers -> Job] /\ \A u \in Writers : job'[u].cmd = job[u].cmd
    BY <1>2, <2>5 DEF Job
  <2>7. JobsTyped'
    BY <1>1, <2>5, <2>6 DEF WritersTyped, JobsTyped
  <2>8. Sound(leader.wal)'
    BY <1>1, <2>4, <2>5, MoreCommands DEF WritersTyped
  <2>9. WritersTyped'
    BY <1>1, <2>4, <2>5, <2>7, <2>8 DEF WritersTyped
  <2> QED BY <1>3, <2>5, <2>9
<1>8. CASE Finish(w)
  <2>1. /\ pc' = [pc EXCEPT ![w] = "idle"] /\ job' = [job EXCEPT ![w] = NoJob]
        /\ wal_lock' = IF wal_lock = w THEN None ELSE wal_lock
        /\ UNCHANGED <<setting, commands, leader, task, stream, link, replica, faults>>
    BY <1>8 DEF Finish
  <2>2. NoJob \in Job
    BY DEF NoJob, Job
  <2>3. job' \in [Writers -> Job] /\ pc' \in [Writers -> Pcs]
    BY <1>2, <2>1, <2>2 DEF Pcs
  <2>4. JobsTyped'
    BY <1>1, <1>2, <2>1, <2>3 DEF WritersTyped, JobsTyped
  <2>5. \A u \in Writers : wal_lock' = u => pc'[u] \in {"append", "send", "apply"}
    BY <1>1, <1>2, <2>1, WorkloadsAssumption DEF WritersTyped
  <2>6. Sound(leader.wal)'
    BY <1>1, <2>1 DEF WritersTyped, Whole, Sound, Written
  <2>7. WritersTyped'
    BY <1>1, <2>1, <2>3, <2>4, <2>5, <2>6 DEF WritersTyped
  <2> QED BY <1>3, <2>1, <2>7
<1> QED BY <1>4, <1>5, <1>6, <1>7, <1>8 DEF Handle

(* Steps that leave the leader and its writers alone keep their types.     *)
LEMMA WritersKept ==
  ASSUME Shaped, UNCHANGED <<writers, setting>>, faults' \in Nat, RestTyped'
  PROVE  Shaped'
<1>1. SettingTyped /\ WritersTyped
  BY TypedParts
<1>2. SettingTyped'
  BY <1>1 DEF SettingTyped
<1>3. UNCHANGED <<commands, leader, wal_lock, pc, job>>
  BY DEF writers
<1>4. WritersTyped'
  BY <1>1, <1>3 DEF WritersTyped, JobsTyped, Whole, Sound, Written
<1> QED BY <1>2, <1>4, TypedParts, PTL

(* No task: its type and its fields.                                       *)
LEMMA NoTaskTyped == NoTask \in Task /\ NoTask.records = <<>> /\ NoTask.rx.queue = <<>> /\ NoTask.pc = "none" /\ ~NoTask.unread
<1>1. Sync!NewReceiver \in Receivers
  BY DEF Sync!NewReceiver, Receivers
<1> QED BY <1>1 DEF NoTask, Task, Sync!NewReceiver

(* A payload of a command, and of a snapshot.                              *)
LEMMA PayloadTyped ==
  ASSUME TaskTyped
  PROVE  /\ \A R \in SUBSET Found : Chunk(R) \in Payload /\ Chunk(R).type = "snapshot"
                                    /\ Chunk(R).max_tx_id = task.start /\ Chunk(R).records = R
                                    /\ Chunk(R).unread = task.unread
         /\ \A v, c \in Nat \ {0} : /\ WalRecord(v, c) \in Payload /\ WalRecord(v, c).type = "wal"
                                    /\ WalRecord(v, c).tx_id = v /\ WalRecord(v, c).cmd = c
BY DEF TaskTyped, Task, Chunk, WalRecord, Payload

(* A payload is added to the stream, or not.                               *)
LEMMA StreamAdded ==
  ASSUME StreamTyped, Len(stream) <= StreamCapacity, commands' = commands,
         \/ UNCHANGED stream
         \/ Room /\ \E p \in Payload : /\ p.type = "wal" => p.cmd \in DOMAIN commands
                                       /\ stream' = Append(stream, p)
  PROVE  StreamTyped' /\ Len(stream') <= StreamCapacity
<1>1. CASE UNCHANGED stream
  BY <1>1 DEF StreamTyped
<1>2. ASSUME Room, NEW p \in Payload, p.type = "wal" => p.cmd \in DOMAIN commands,
             stream' = Append(stream, p)
      PROVE  StreamTyped' /\ Len(stream') <= StreamCapacity
  <2>1. stream \in Seq(Payload) /\ StreamCapacity \in Nat
    BY WorkloadsAssumption DEF StreamTyped
  <2>2. /\ stream' \in Seq(Payload) /\ Len(stream') = Len(stream) + 1
        /\ \A i \in DOMAIN stream' : stream'[i] = p \/ (i \in DOMAIN stream /\ stream'[i] = stream[i])
    BY <1>2, <2>1, Appended
  <2>3. Len(stream') <= StreamCapacity
    BY <1>2, <2>1, <2>2 DEF Room
  <2> QED BY <1>2, <2>2, <2>3 DEF StreamTyped
<1> QED BY <1>1, <1>2

(* The task ends, or its stream grows.                                     *)
LEMMA TaskStepTyped ==
  ASSUME Shaped, task.pc # "none", UNCHANGED <<setting, writers, link, replica, faults>>, TaskTyped',
         Len(task'.rx.queue) <= SyncCapacity, StreamTyped', Len(stream') <= StreamCapacity
  PROVE  Shaped'
<1>1. RestTyped /\ SettingTyped
  BY TypedParts
<1>2. link' = "up"
  BY <1>1 DEF RestTyped, NoTask
<1>3. Sound(replica.wal)' /\ replica' \in Node
  BY <1>1 DEF RestTyped, Whole, Sound, Written, writers
<1>4. RestTyped'
  BY <1>2, <1>3 DEF RestTyped
<1> QED BY <1>1, <1>4, WritersKept DEF SettingTyped

(* The steps of the sync task keep the types.                              *)
LEMMA SyncTaskTyped ==
  ASSUME Shaped, SyncTask
  PROVE  Shaped'
<1>1. setting \in Workloads /\ SettingTyped /\ WritersTyped /\ RestTyped
  BY TypedParts DEF SettingTyped
<1>2. /\ TaskTyped /\ task \in Task /\ Whole(task.records) /\ StreamTyped /\ Len(stream) <= StreamCapacity
      /\ Len(task.rx.queue) <= SyncCapacity
      /\ \A i \in DOMAIN task.rx.queue : task.rx.queue[i] \in DOMAIN commands
      /\ leader \in Node /\ Sound(leader.wal) /\ commands \in Seq(Command)
  BY <1>1 DEF RestTyped, WritersTyped, TaskTyped
<1>3. /\ task.pc \in {"none", "read", "check", "snapshot", "visit", "replay", "subscribe", "stream"}
      /\ task.last_known \in Nat /\ task.start \in Nat /\ task.records \in Seq(Line)
      /\ task.iter \in SUBSET Keys /\ task.chunk \in SUBSET Found /\ task.rx \in Receivers
  BY <1>2 DEF Task
<1>4. UNCHANGED <<setting, writers, link, replica, faults>> /\ commands' = commands
  BY DEF SyncTask, SyncRead, SyncCheck, SyncSnapshot, SyncVisit, SyncLastChunk, SyncReplay,
         SyncSubscribe, SyncForward, writers
<1>5. \A v \in SUBSET Found : Chunk(v) \in Payload /\ Chunk(v).type = "snapshot"
  BY <1>2, PayloadTyped
<1>6. \A v, c \in Nat \ {0} : WalRecord(v, c) \in Payload /\ WalRecord(v, c).cmd = c
  BY <1>2, PayloadTyped
(* Steps that leave the receiver and the records as they are.              *)
<1>7. ASSUME task' \in Task, task'.pc # "none", task'.pc = "replay" => task'.records # <<>>,
             task'.rx = task.rx, Whole(task'.records), task.pc # "none",
             StreamTyped', Len(stream') <= StreamCapacity
      PROVE  Shaped'
  <2>1. TaskTyped'
    BY <1>2, <1>4, <1>7 DEF TaskTyped, Whole, Sound, Written
  <2> QED BY <1>2, <1>4, <1>7, <2>1, TaskStepTyped
<1>8. CASE SyncRead
  <2> DEFINE records == read_from_tx_id(leader.wal, task.last_known + 1)
  <2>1. leader.wal \in Seq(Line) /\ task.last_known + 1 \in Nat
    BY <1>2, <1>3 DEF Node
  <2>2. records \in Seq(Line) /\ Whole(records)
    <3>1. /\ records \in Seq(Line)
          /\ \A i \in DOMAIN records :
               \E j \in DOMAIN leader.wal : records[i] = leader.wal[j] /\ Wanted(leader.wal[j], task.last_known + 1)
      BY <2>1, RecordsRead
    <3> HIDE DEF records
    <3> QED BY <1>2, <3>1 DEF Whole, Sound, Wanted
  <2>3. task.pc = "read" /\ stream' = stream
        /\ \/ \E u \in BOOLEAN : task' = [task EXCEPT !.pc = "snapshot", !.unread = u]
           \/ task' = [task EXCEPT !.pc = "check", !.records = records, !.start = task.last_known]
           \/ records # <<>>
              /\ task' = [task EXCEPT !.pc = "replay", !.records = records, !.start = task.last_known]
    BY <1>8 DEF SyncRead
  <2> HIDE DEF records
  <2>4. /\ task' \in Task /\ task'.pc # "none" /\ (task'.pc = "replay" => task'.records # <<>>)
        /\ task'.rx = task.rx /\ (task'.records = task.records \/ task'.records = records)
    BY <1>2, <1>3, <2>2, <2>3 DEF Task
  <2>5. StreamTyped' /\ Len(stream') <= StreamCapacity
    BY <1>2, <1>4, <2>3, StreamAdded
  <2> QED BY <1>2, <1>7, <2>2, <2>3, <2>4, <2>5
<1>9. CASE SyncCheck
  <2>1. task.pc = "check" /\ stream' = stream
        /\ (task' = [task EXCEPT !.pc = "snapshot"] \/ task' = [task EXCEPT !.pc = "subscribe"])
    BY <1>9 DEF SyncCheck
  <2>2. task' \in Task /\ task'.pc \in {"snapshot", "subscribe"} /\ task'.rx = task.rx /\ task'.records = task.records
    BY <1>2, <2>1 DEF Task
  <2>3. StreamTyped' /\ Len(stream') <= StreamCapacity
    BY <1>2, <1>4, <2>1, StreamAdded
  <2> QED BY <1>2, <1>7, <2>1, <2>2, <2>3
<1>10. CASE SyncSnapshot
  <2>1. task.pc = "snapshot" /\ stream' = stream
        /\ task' = [task EXCEPT !.pc = "visit", !.start = leader.global_version, !.iter = Keys]
    BY <1>10 DEF SyncSnapshot
  <2>2. leader.global_version \in Nat
    BY <1>2 DEF Node
  <2>3. task' \in Task /\ task'.pc = "visit" /\ task'.rx = task.rx /\ task'.records = task.records
    BY <1>2, <2>1, <2>2 DEF Task
  <2>4. StreamTyped' /\ Len(stream') <= StreamCapacity
    BY <1>2, <1>4, <2>1, StreamAdded
  <2> QED BY <1>2, <1>7, <2>1, <2>3, <2>4
<1>11. ASSUME NEW k \in Keys, SyncVisit(k) PROVE Shaped'
  <2> DEFINE found == {<<j, leader.tree[j].cmd>> : j \in {i \in {k} : leader.tree[i] # None}}
             chunk == task.chunk \cup found
  <2>1. /\ task.pc = "visit"
        /\ \/ /\ Room /\ stream' = Append(stream, Chunk(chunk))
              /\ task' = [task EXCEPT !.iter = @ \ {k}, !.chunk = {}]
           \/ /\ task' = [task EXCEPT !.iter = @ \ {k}, !.chunk = chunk]
              /\ UNCHANGED stream
    BY <1>11 DEF SyncVisit
  <2>2. chunk \in SUBSET Found
    <3>1. leader.tree \in Store
      BY <1>2 DEF Node
    <3>2. leader.tree[k] # None => leader.tree[k].cmd \in Nat \ {0}
      BY <3>1 DEF Store, Record
    <3> QED BY <1>3, <3>2 DEF Found
  <2> HIDE DEF found, chunk
  <2>3. /\ task' \in Task /\ task'.pc = "visit" /\ task'.rx = task.rx /\ task'.records = task.records
    BY <1>2, <1>3, <2>1, <2>2 DEF Task
  <2>4. StreamTyped' /\ Len(stream') <= StreamCapacity
    <3>1. Chunk(chunk) \in Payload /\ Chunk(chunk).type = "snapshot"
      BY <1>5, <2>2
    <3> QED BY <1>2, <1>4, <2>1, <3>1, StreamAdded
  <2> QED BY <1>2, <1>7, <2>1, <2>3, <2>4
<1>12. CASE SyncLastChunk
  <2>1. /\ task.pc = "visit"
        /\ (Room /\ stream' = Append(stream, Chunk(task.chunk))) \/ UNCHANGED stream
        /\ task' = [task EXCEPT !.pc = "subscribe", !.chunk = {}]
    BY <1>12 DEF SyncLastChunk
  <2>2. /\ task' \in Task /\ task'.pc = "subscribe" /\ task'.rx = task.rx /\ task'.records = task.records
    BY <1>2, <1>3, <2>1 DEF Task
  <2>3. Chunk(task.chunk) \in Payload /\ Chunk(task.chunk).type = "snapshot"
    BY <1>3, <1>5
  <2>4. StreamTyped' /\ Len(stream') <= StreamCapacity
    BY <1>2, <1>4, <2>1, <2>3, StreamAdded
  <2> QED BY <1>2, <1>7, <2>1, <2>2, <2>4
<1>13. CASE SyncReplay
  <2> DEFINE line == Head(task.records)
  <2>1. /\ task.pc = "replay" /\ Room
        /\ stream' = Append(stream, WalRecord(line.tx_id, line.cmd))
        /\ task' = [task EXCEPT !.start = line.tx_id, !.records = Tail(@),
                                !.pc = IF Len(task.records) = 1 THEN "subscribe" ELSE "replay"]
    BY <1>13 DEF SyncReplay
  <2>2. task.records # <<>>
    BY <1>2, <2>1 DEF TaskTyped
  <2>3. /\ Tail(task.records) \in Seq(Line) /\ Len(Tail(task.records)) = Len(task.records) - 1
        /\ line = task.records[1] /\ 1 \in DOMAIN task.records /\ line \in Line
        /\ \A i \in DOMAIN Tail(task.records) :
             i + 1 \in DOMAIN task.records /\ Tail(task.records)[i] = task.records[i + 1]
    BY <1>3, <2>2, Tailed
  <2>4. line.tx_id \in Nat \ {0} /\ line.cmd \in DOMAIN commands /\ line.cmd \in Nat \ {0}
    <3>1. line.tx_id \in Nat /\ line.tx_id # 0 /\ line.cmd \in DOMAIN commands
      BY <1>2, <2>3 DEF Whole, Sound, Written, Line
    <3> QED BY <1>2, <3>1, CommandFacts
  <2>5. WalRecord(line.tx_id, line.cmd) \in Payload /\ WalRecord(line.tx_id, line.cmd).cmd = line.cmd
    BY <1>6, <2>4
  <2>6. StreamTyped' /\ Len(stream') <= StreamCapacity
    BY <1>2, <1>4, <2>1, <2>4, <2>5, StreamAdded
  <2>7. Whole(Tail(task.records))
    BY <1>2, <2>3 DEF Whole, Sound, Written
  <2>8. Len(task.records) \in Nat /\ (Len(task.records) # 1 => Tail(task.records) # <<>>)
    <3>1. Tail(task.records) = <<>> <=> Len(Tail(task.records)) = 0
      BY <2>3, EmptySeq
    <3>2. Len(task.records) \in Nat
      BY <1>3, LenProperties
    <3> QED BY <2>3, <3>1, <3>2
  <2> HIDE DEF line
  <2>9. task' \in Task /\ task'.records = Tail(task.records) /\ task'.rx = task.rx
        /\ task'.pc = IF Len(task.records) = 1 THEN "subscribe" ELSE "replay"
    BY <1>2, <1>3, <2>1, <2>3, <2>4 DEF Task
  <2> QED BY <1>2, <1>7, <2>1, <2>6, <2>7, <2>8, <2>9
<1>14. CASE SyncSubscribe
  <2>1. task.pc = "subscribe" /\ stream' = stream /\ task' = [task EXCEPT !.pc = "stream", !.rx = Sync!NewReceiver]
    BY <1>14 DEF SyncSubscribe
  <2>2. Sync!NewReceiver \in Receivers /\ Sync!NewReceiver.queue = <<>> /\ SyncCapacity \in Nat
    BY WorkloadsAssumption DEF Sync!NewReceiver, Receivers
  <2>3. task' \in Task /\ task'.pc = "stream" /\ task'.rx.queue = <<>> /\ task'.records = task.records
    BY <1>2, <2>1, <2>2 DEF Task
  <2>4. StreamTyped' /\ Len(stream') <= StreamCapacity
    BY <1>2, <1>4, <2>1, StreamAdded
  <2>5. TaskTyped' /\ Len(task'.rx.queue) <= SyncCapacity
    BY <1>2, <1>4, <2>2, <2>3 DEF TaskTyped, Whole, Sound, Written
  <2> QED BY <1>4, <2>1, <2>4, <2>5, TaskStepTyped
<1>15. CASE SyncForward
  <2>1. CASE task.rx.lagged
    <3>1. task.pc = "stream" /\ task' = NoTask /\ stream' = stream
      BY <1>15, <2>1 DEF SyncForward, OnLagged
    <3>2. TaskTyped' /\ Len(task'.rx.queue) <= SyncCapacity
      BY <3>1, NoTaskTyped, WorkloadsAssumption DEF TaskTyped, Whole, Sound, Written
    <3>3. StreamTyped' /\ Len(stream') <= StreamCapacity
      BY <1>2, <1>4, <3>1, StreamAdded
    <3> QED BY <1>4, <3>1, <3>2, <3>3, TaskStepTyped
  <2>2. CASE ~task.rx.lagged
    <3> DEFINE c == Head(task.rx.queue)
    <3>1. /\ task.pc = "stream" /\ task.rx.queue # <<>>
          /\ task' = [task EXCEPT !.rx = Sync!Popped(task.rx)]
          /\ \/ UNCHANGED stream
             \/ Room /\ stream' = Append(stream, WalRecord(commands[c].tx_id, c))
      BY <1>15, <2>2 DEF SyncForward
    <3>2. task.rx.queue \in Seq(Nat \ {0})
      BY <1>3 DEF Receivers
    <3>3. Sync!Popped(task.rx) = [queue |-> Tail(task.rx.queue), lagged |-> task.rx.lagged]
      BY <1>3, <2>2 DEF Sync!Popped, Receivers
    <3>4. /\ Tail(task.rx.queue) \in Seq(Nat \ {0}) /\ Len(Tail(task.rx.queue)) = Len(task.rx.queue) - 1
          /\ c = task.rx.queue[1] /\ 1 \in DOMAIN task.rx.queue
          /\ \A i \in DOMAIN Tail(task.rx.queue) :
               i + 1 \in DOMAIN task.rx.queue /\ Tail(task.rx.queue)[i] = task.rx.queue[i + 1]
      BY <3>1, <3>2, Tailed
    <3>5. c \in DOMAIN commands /\ c \in Nat \ {0} /\ commands[c].tx_id \in Nat \ {0}
      BY <1>2, <3>4, CommandFacts
    <3>6. WalRecord(commands[c].tx_id, c) \in Payload /\ WalRecord(commands[c].tx_id, c).cmd = c
      BY <1>6, <3>5
    <3> HIDE DEF c
    <3>7. StreamTyped' /\ Len(stream') <= StreamCapacity
      BY <1>2, <1>4, <3>1, <3>5, <3>6, StreamAdded
    <3> DEFINE rx == [queue |-> Tail(task.rx.queue), lagged |-> task.rx.lagged]
    <3>8. rx \in Receivers /\ rx.queue = Tail(task.rx.queue) /\ Sync!Popped(task.rx) = rx
      BY <1>3, <3>3, <3>4 DEF Receivers
    <3> HIDE DEF rx
    <3>9. /\ task' \in Task /\ task'.pc = "stream" /\ task'.rx.queue = Tail(task.rx.queue)
          /\ task'.records = task.records
      BY <1>2, <3>1, <3>8 DEF Task
    <3>10. Len(task'.rx.queue) <= SyncCapacity
      BY <1>2, <3>2, <3>4, <3>9, WorkloadsAssumption
    <3>11. TaskTyped'
      BY <1>2, <1>4, <3>4, <3>9 DEF TaskTyped, Whole, Sound, Written
    <3> QED BY <1>4, <3>1, <3>7, <3>10, <3>11, TaskStepTyped
  <2> QED BY <2>1, <2>2
<1> QED BY <1>8, <1>9, <1>10, <1>11, <1>12, <1>13, <1>14, <1>15 DEF SyncTask

(* The replica's version, its files and its task after its own steps.      *)
LEMMA ReplicaStepTyped ==
  ASSUME Shaped, UNCHANGED <<setting, writers>>, faults' \in Nat, replica' \in Node, Sound(replica.wal)',
         \/ /\ stream # <<>> /\ stream' = Tail(stream) /\ UNCHANGED <<task, link>>
         \/ UNCHANGED <<stream, task, link>>
         \/ link' = "down" /\ stream' = <<>> /\ task' = NoTask
         \/ /\ link' = "up" /\ stream' = <<>>
            /\ task' = [NoTask EXCEPT !.pc = "read", !.last_known = replica.global_version]
  PROVE  Shaped'
<1>1. RestTyped
  BY TypedParts
<1>2. StreamTyped /\ TaskTyped /\ StreamCapacity \in Nat /\ SyncCapacity \in Nat /\ Len(stream) <= StreamCapacity
      /\ Len(task.rx.queue) <= SyncCapacity /\ replica \in Node
  BY <1>1, WorkloadsAssumption DEF RestTyped
<1>3. commands' = commands
  BY DEF writers
<1>4. CASE stream # <<>> /\ stream' = Tail(stream) /\ UNCHANGED <<task, link>>
  <2>1. stream \in Seq(Payload)
    BY <1>2 DEF StreamTyped
  <2>2. /\ stream' \in Seq(Payload) /\ Len(stream') = Len(stream) - 1
        /\ \A i \in DOMAIN stream' : i + 1 \in DOMAIN stream /\ stream'[i] = stream[i + 1]
    BY <1>4, <2>1, Tailed
  <2>3. StreamTyped'
    BY <1>2, <1>3, <2>2 DEF StreamTyped
  <2>4. Len(stream') <= StreamCapacity
    BY <1>2, <2>1, <2>2
  <2>5. TaskTyped'
    BY <1>2, <1>3, <1>4 DEF TaskTyped, Whole, Sound, Written
  <2>6. RestTyped'
    BY <1>1, <1>4, <2>3, <2>4, <2>5 DEF RestTyped
  <2> QED BY <2>6, WritersKept
<1>5. CASE UNCHANGED <<stream, task, link>>
  <2>1. StreamTyped' /\ TaskTyped'
    BY <1>2, <1>3, <1>5 DEF StreamTyped, TaskTyped, Whole, Sound, Written
  <2>2. RestTyped'
    BY <1>1, <1>5, <2>1 DEF RestTyped
  <2> QED BY <2>2, WritersKept
<1>6. ASSUME stream' = <<>>, task' \in Task, task'.records = <<>>, task'.rx.queue = <<>>,
             task'.pc # "replay", task'.pc = "none" => task' = NoTask, link' \in {"up", "down"},
             link' = "down" => task' = NoTask
      PROVE  Shaped'
  <2>1. StreamTyped' /\ Len(stream') <= StreamCapacity
    BY <1>2, <1>6 DEF StreamTyped
  <2>2. TaskTyped' /\ Len(task'.rx.queue) <= SyncCapacity
    BY <1>2, <1>6 DEF TaskTyped, Whole, Sound, Written
  <2>3. RestTyped'
    BY <1>6, <2>1, <2>2 DEF RestTyped
  <2> QED BY <2>3, WritersKept
<1>7. CASE link' = "down" /\ stream' = <<>> /\ task' = NoTask
  BY <1>6, <1>7, NoTaskTyped
<1>8. CASE /\ link' = "up" /\ stream' = <<>>
           /\ task' = [NoTask EXCEPT !.pc = "read", !.last_known = replica.global_version]
  <2>1. replica.global_version \in Nat
    BY <1>2 DEF Node
  <2>2. /\ task' \in Task /\ task'.records = <<>> /\ task'.rx.queue = <<>> /\ task'.pc = "read"
    BY <1>8, <2>1, NoTaskTyped DEF Task
  <2> QED BY <1>6, <1>8, <2>2
<1> QED BY <1>4, <1>5, <1>7, <1>8

(* What a chunk does to the replica's tree.                                *)
Loaded(p, tree) ==
  [k \in Keys |-> IF {r \in p.records : r[1] = k} = {} THEN tree[k]
                  ELSE [cmd |-> (CHOOSE r \in {q \in p.records : q[1] = k} : TRUE)[2],
                        version |-> p.max_tx_id]]

(* What ReceiveChunk does to the replica.                                  *)
LEMMA ChunkReceived ==
  ASSUME ReceiveChunk, replica \in Node, StreamTyped
  PROVE  /\ stream # <<>> /\ 1 \in DOMAIN stream /\ stream[1].type = "snapshot" /\ stream[1] \in Payload
         /\ replica'.tree = Loaded(stream[1], replica.tree)
         /\ replica'.global_version = stream[1].max_tx_id
         /\ replica'.wal = replica.wal /\ replica' \in Node
<1>1. /\ stream # <<>> /\ Head(stream).type = "snapshot"
      /\ replica' = [replica EXCEPT !.tree = Loaded(Head(stream), replica.tree),
                                    !.global_version = Head(stream).max_tx_id]
  BY DEF ReceiveChunk, Loaded
<1>2. Head(stream) = stream[1] /\ stream[1] \in Payload /\ 1 \in DOMAIN stream
  BY <1>1, Tailed DEF StreamTyped
<1>3. stream[1].max_tx_id \in Nat /\ stream[1].records \in SUBSET Found
  BY <1>1, <1>2 DEF Payload
<1>4. replica.tree \in Store
  BY DEF Node
<1>5. ASSUME NEW k \in Keys PROVE Loaded(stream[1], replica.tree)[k] \in Record \cup {None}
  <2> DEFINE R == {r \in stream[1].records : r[1] = k}
  <2>1. CASE R = {}
    BY <1>4, <2>1 DEF Loaded, Store
  <2>2. CASE R # {}
    <3>1. (CHOOSE r \in R : TRUE) \in Found
      BY <1>3, <2>2
    <3>2. (CHOOSE r \in R : TRUE)[2] \in Nat \ {0}
      BY <3>1 DEF Found
    <3>3. Loaded(stream[1], replica.tree)[k] = [cmd |-> (CHOOSE r \in R : TRUE)[2], version |-> stream[1].max_tx_id]
      BY <2>2 DEF Loaded
    <3> QED BY <1>3, <3>2, <3>3 DEF Record
  <2> QED BY <2>1, <2>2
<1>6. Loaded(stream[1], replica.tree) \in Store
  <2>1. Loaded(stream[1], replica.tree) = [k \in Keys |-> Loaded(stream[1], replica.tree)[k]]
    BY DEF Loaded
  <2> QED BY <1>5, <2>1 DEF Store
<1> QED BY <1>1, <1>2, <1>3, <1>6 DEF Node

(* What a record of the log does to the replica.                           *)
LEMMA RecordApplied ==
  ASSUME apply_command, replica \in Node, StreamTyped, Sound(replica.wal), commands \in Seq(Command),
         commands' = commands
  PROVE  /\ stream # <<>> /\ 1 \in DOMAIN stream /\ stream[1].type = "wal" /\ stream[1] \in Payload
         /\ stream[1].cmd \in DOMAIN commands
         /\ replica.global_version < stream[1].tx_id /\ stream[1].tx_id \in Nat
         /\ replica.global_version # 0 => stream[1].tx_id = replica.global_version + 1
         /\ replica'.tree = Applied(replica.tree, stream[1].cmd, stream[1].tx_id)
         /\ replica'.global_version = stream[1].tx_id
         /\ replica'.wal = append(replica.wal, Envelope(stream[1].tx_id, stream[1].cmd))
         /\ replica' \in Node /\ Sound(replica.wal)'
<1> DEFINE p == stream[1]
<1>1. stream # <<>> /\ Head(stream).type = "wal"
  BY DEF apply_command, Appending, NextRecord
<1>2. Head(stream) = p /\ p \in Payload /\ 1 \in DOMAIN stream
  BY <1>1, Tailed DEF StreamTyped
<1>3. p.tx_id \in Nat \ {0} /\ p.cmd \in Nat \ {0} /\ p.cmd \in DOMAIN commands
  BY <1>1, <1>2 DEF Payload, StreamTyped
<1>4. replica' = [replica EXCEPT !.wal = append(replica.wal, Envelope(p.tx_id, p.cmd)),
                                 !.tree = Applied(replica.tree, p.cmd, p.tx_id),
                                 !.global_version = p.tx_id]
  BY <1>2 DEF apply_command
<1>5. ~IsDuplicate(p.tx_id) /\ ~IsGap(p.tx_id)
  BY <1>2 DEF apply_command, Appending
<1>6. replica.global_version \in Nat /\ replica.tree \in Store /\ replica.wal \in Seq(Line)
  BY DEF Node
<1>7. replica.global_version < p.tx_id /\ (replica.global_version # 0 => p.tx_id = replica.global_version + 1)
  BY <1>3, <1>5, <1>6 DEF IsDuplicate, IsGap
<1> DEFINE e == Envelope(p.tx_id, p.cmd)
<1>8. e \in Line /\ Written(e)
  BY <1>3 DEF Envelope, Line, Written
<1> DEFINE t == Applied(replica.tree, p.cmd, p.tx_id)
<1>10. t \in Store
  BY <1>3, <1>6, AppliedTree
<1> HIDE DEF e, t, p
<1>11. append(replica.wal, e) \in Seq(Line)
       /\ \A i \in DOMAIN append(replica.wal, e) :
            \/ append(replica.wal, e)[i] = e
            \/ ~append(replica.wal, e)[i].ok
            \/ i \in DOMAIN replica.wal /\ append(replica.wal, e)[i] = replica.wal[i]
  BY <1>6, <1>8, AppendSound
<1>12. /\ replica'.wal = append(replica.wal, e) /\ replica'.tree = t
       /\ replica'.global_version = p.tx_id /\ replica' \in Node
  BY <1>3, <1>4, <1>10, <1>11 DEF Node, e, t
<1>13. Sound(replica.wal)'
  BY <1>8, <1>11, <1>12 DEF Sound, Written
<1> QED BY <1>1, <1>2, <1>3, <1>7, <1>12, <1>13 DEF p, t, e

(* What a saved snapshot changes.                                          *)
LEMMA SavedTyped ==
  ASSUME NEW n, n \in Node
  PROVE  /\ Saved(n) \in Node /\ Saved(n).wal = <<>> /\ Saved(n).snapshot = n.tree
         /\ Saved(n).tree = n.tree /\ Saved(n).global_version = n.global_version
<1>1. <<>> \in Seq(Line)
  BY EmptySeq
<1>2. Saved(n) = [n EXCEPT !.snapshot = n.tree, !.wal = <<>>]
  BY DEF Saved, truncate
<1> QED BY <1>1, <1>2 DEF Node

(* A restart over what a crash has left of the log.                        *)
LEMMA RestartsSound ==
  ASSUME NEW n, n \in Node, Sound(n.wal), commands \in Seq(Command), NEW a \in BOOLEAN,
         NEW file \in CrashedLog(n.wal, a)
  PROVE  /\ [n EXCEPT !.wal = file] \in Node /\ [n EXCEPT !.wal = file].wal = file
         /\ Restarted([n EXCEPT !.wal = file]) \in Node /\ Sound(file)
         /\ Restarted([n EXCEPT !.wal = file]).wal = file
         /\ ~Torn => [n EXCEPT !.wal = file] = n
<1>1. n.wal \in Seq(Line)
  BY DEF Node
<1>2. file \in Seq(Line) /\ Sound(file) /\ (~Torn => file = n.wal)
  BY <1>1, CrashedSound
<1> DEFINE m == [n EXCEPT !.wal = file]
<1>3. m \in Node /\ m.wal = file /\ (file = n.wal => m = n)
  BY <1>2 DEF Node
<1> HIDE DEF m
<1>4. Restarted(m) \in Node /\ Restarted(m).wal = m.wal
  BY <1>2, <1>3, RestartedNode
<1> QED BY <1>2, <1>3, <1>4 DEF m

(* The steps of the replica, and its faults.                               *)
LEMMA ReplicaTyped ==
  ASSUME Shaped, ReplicaLoop \/ ReplicaSave \/ StreamBreaks \/ ReplicaRestarts
  PROVE  Shaped'
<1>1. RestTyped /\ SettingTyped /\ WritersTyped
  BY TypedParts
<1>2. /\ StreamTyped /\ replica \in Node /\ Sound(replica.wal) /\ commands \in Seq(Command)
      /\ faults \in Nat
  BY <1>1 DEF RestTyped, WritersTyped, SettingTyped
<1>3. UNCHANGED <<setting, writers>> /\ commands' = commands
  BY DEF ReplicaLoop, ReplicaSave, StreamBreaks, ReplicaRestarts, Connect, ReceiveChunk, SkipDuplicate,
         BreakOnGap, apply_command, StreamEnds, writers
<1>4. faults' \in Nat
  BY <1>2 DEF ReplicaLoop, ReplicaSave, StreamBreaks, ReplicaRestarts, Connect, ReceiveChunk, SkipDuplicate,
         BreakOnGap, apply_command, StreamEnds, Fault
<1>5. replica'.wal = replica.wal => Sound(replica.wal)'
  BY <1>2, <1>3 DEF Whole, Sound, Written
<1>6. CASE Connect
  BY <1>2, <1>3, <1>4, <1>5, <1>6, ReplicaStepTyped DEF Connect
<1>7. CASE ReceiveChunk
  <2>1. replica' \in Node /\ replica'.wal = replica.wal /\ stream # <<>>
    BY <1>2, <1>7, ChunkReceived
  <2>2. stream' = Tail(stream) /\ UNCHANGED <<task, link>>
    BY <1>7 DEF ReceiveChunk
  <2> QED BY <1>3, <1>4, <1>5, <2>1, <2>2, ReplicaStepTyped
<1>8. CASE SkipDuplicate
  BY <1>2, <1>3, <1>4, <1>5, <1>8, ReplicaStepTyped DEF SkipDuplicate, NextRecord
<1>9. CASE BreakOnGap
  BY <1>2, <1>3, <1>4, <1>5, <1>9, ReplicaStepTyped DEF BreakOnGap
<1>10. CASE apply_command
  <2>1. replica' \in Node /\ Sound(replica.wal)' /\ stream # <<>>
    BY <1>2, <1>3, <1>10, RecordApplied
  <2>2. stream' = Tail(stream) /\ UNCHANGED <<task, link>>
    BY <1>10 DEF apply_command
  <2> QED BY <1>3, <1>4, <2>1, <2>2, ReplicaStepTyped
<1>11. CASE StreamEnds
  <2>1. stream = <<>> /\ stream' = stream /\ task' = task /\ link' = "down" /\ task.pc = "none" /\ replica' = replica
    BY <1>11 DEF StreamEnds
  <2>2. task' = NoTask
    BY <1>1, <2>1 DEF RestTyped, TaskTyped
  <2> QED BY <1>2, <1>3, <1>4, <1>5, <2>1, <2>2, ReplicaStepTyped
<1>12. CASE ReplicaSave
  <2>1. replica' = Saved(replica) /\ UNCHANGED <<stream, task, link>>
    BY <1>12 DEF ReplicaSave
  <2>2. replica' \in Node /\ replica'.wal = <<>>
    BY <1>2, <2>1, SavedTyped
  <2>3. Sound(replica.wal)'
    BY <2>2 DEF Whole, Sound, Written
  <2> QED BY <1>3, <1>4, <2>1, <2>2, <2>3, ReplicaStepTyped
<1>13. CASE StreamBreaks
  BY <1>2, <1>3, <1>4, <1>5, <1>13, ReplicaStepTyped DEF StreamBreaks
<1>14. CASE ReplicaRestarts
  <2>1. link' = "down" /\ stream' = <<>> /\ task' = NoTask
    BY <1>14 DEF ReplicaRestarts
  <2>2. PICK file \in CrashedLog(replica.wal, Appending) :
          replica' = Restarted([replica EXCEPT !.wal = file])
    BY <1>14 DEF ReplicaRestarts
  <2>3. replica' \in Node /\ replica'.wal = file /\ Sound(file)
    BY <1>2, <2>2, RestartsSound DEF Appending, NextRecord
  <2>4. Sound(replica.wal)'
    BY <1>3, <2>3 DEF Sound, Written
  <2> QED BY <1>3, <1>4, <2>1, <2>3, <2>4, ReplicaStepTyped
<1> QED BY <1>6, <1>7, <1>8, <1>9, <1>10, <1>11, <1>12, <1>13, <1>14 DEF ReplicaLoop

(* The leader's truncation and its restart.                                *)
LEMMA LeaderTyped ==
  ASSUME Shaped, LeaderSave \/ LeaderRestarts
  PROVE  Shaped'
<1>1. RestTyped /\ SettingTyped /\ WritersTyped
  BY TypedParts
<1>2. leader \in Node /\ Sound(leader.wal) /\ commands \in Seq(Command)
  BY <1>1 DEF WritersTyped
<1>3. SettingTyped' /\ commands' = commands
  <2>1. setting' = setting /\ commands' = commands /\ (faults' = faults \/ faults' = faults + 1)
    BY DEF LeaderSave, LeaderRestarts, Fault
  <2> QED BY <1>1, <2>1 DEF SettingTyped
<1>4. CASE LeaderSave
  <2>1. leader' = Saved(leader) /\ UNCHANGED <<commands, wal_lock, pc, job, task, stream, link, replica>>
    BY <1>4 DEF LeaderSave
  <2>2. leader' \in Node /\ leader'.wal = <<>>
    BY <1>2, <2>1, SavedTyped
  <2>3. Sound(leader.wal)'
    BY <2>2 DEF Whole, Sound, Written
  <2>4. WritersTyped'
    BY <1>1, <2>1, <2>2, <2>3 DEF WritersTyped, JobsTyped
  <2>5. RestTyped'
    BY <1>1, <1>3, <2>1, MoreCommands
  <2> QED BY <1>3, <2>4, <2>5, TypedParts, PTL
<1>5. CASE LeaderRestarts
  <2>1. /\ wal_lock' = None
        /\ pc' = [w \in Writers |-> "idle"] /\ job' = [w \in Writers |-> NoJob]
        /\ task' = NoTask /\ UNCHANGED <<commands, stream, link, replica>>
    BY <1>5 DEF LeaderRestarts
  <2> DEFINE a == \E w \in Writers : pc[w] = "append" /\ wal_lock \in {None, w}
  <2>2. PICK file \in CrashedLog(leader.wal, a) : leader' = Restarted([leader EXCEPT !.wal = file])
    BY <1>5 DEF LeaderRestarts
  <2>0. leader' \in Node /\ leader'.wal = file /\ Sound(file)
    BY <1>2, <2>2, RestartsSound
  <2>3. Sound(leader.wal)'
    BY <1>3, <2>0 DEF Sound, Written
  <2>4. pc' \in [Writers -> Pcs] /\ job' \in [Writers -> Job] /\ \A w \in Writers : pc'[w] = "idle"
    BY <2>1 DEF Pcs, NoJob, Job
  <2>5. WritersTyped'
    BY <1>1, <2>0, <2>1, <2>3, <2>4, WorkloadsAssumption DEF WritersTyped, JobsTyped
  <2>6. TaskTyped' /\ Len(task'.rx.queue) <= SyncCapacity
    BY <2>1, NoTaskTyped, WorkloadsAssumption DEF TaskTyped, Whole, Sound, Written
  <2>7. StreamTyped' /\ Sound(replica.wal)'
    BY <1>1, <2>1 DEF RestTyped, StreamTyped, Whole, Sound, Written
  <2>8. RestTyped'
    BY <1>1, <2>1, <2>6, <2>7 DEF RestTyped
  <2> QED BY <1>3, <2>5, <2>8, TypedParts, PTL
<1> QED BY <1>4, <1>5

(* Every step keeps the types.                                             *)
LEMMA ShapedStep ==
  ASSUME Shaped, [Next]_vars
  PROVE  Shaped'
<1>1. CASE UNCHANGED vars
  <2>1. SettingTyped /\ WritersTyped /\ RestTyped
    BY TypedParts
  <2>2. UNCHANGED <<writers, setting, task, stream, link, replica, faults>> /\ commands' = commands
    BY <1>1 DEF vars, writers
  <2>3. RestTyped' /\ faults' \in Nat
    BY <2>1, <2>2, MoreCommands DEF SettingTyped
  <2> QED BY <2>2, <2>3, WritersKept
<1> QED BY <1>1, RequestTyped, HandleTyped, SyncTaskTyped, ReplicaTyped, LeaderTyped DEF Next

(* The types hold at first.                                                *)
LEMMA ShapedInit ==
  ASSUME Init
  PROVE  Shaped
<1>1. EmptyStore \in Store /\ <<>> \in Seq(Line)
  BY EmptySeq DEF EmptyStore, Store
<1>2. Fresh \in Node /\ Fresh.wal = <<>>
  BY <1>1 DEF Fresh, Node
<1>3. NoJob \in Job
  BY DEF NoJob, Job
<1>4. commands = <<>> /\ leader = Fresh /\ replica = Fresh /\ wal_lock = None
      /\ pc = [w \in Writers |-> "idle"] /\ job = [w \in Writers |-> NoJob]
      /\ task = NoTask /\ stream = <<>> /\ link = "down" /\ setting \in Workloads /\ faults = 0
  BY DEF Init
<1>5. commands \in Seq(Command) /\ stream \in Seq(Payload)
  BY <1>4, EmptySeq
<1>6. WritersTyped
  BY <1>2, <1>3, <1>4, <1>5, WorkloadsAssumption DEF WritersTyped, JobsTyped, Whole, Sound, Written, Pcs
<1>7. Len(task.rx.queue) <= SyncCapacity /\ Len(stream) <= StreamCapacity
  BY <1>4, NoTaskTyped, WorkloadsAssumption
<1>8. RestTyped
  BY <1>2, <1>4, <1>5, <1>7, NoTaskTyped DEF RestTyped, TaskTyped, StreamTyped, Whole, Sound, Written
<1> QED BY <1>4, <1>6, <1>8, TypedParts DEF SettingTyped

(* A whole log stays whole: it is truncated, or a line is added to it.     *)
LEMMA WholeKept ==
  ASSUME NEW old \in Seq(Line), NEW new, Whole(old),
         \A c \in DOMAIN commands : c \in DOMAIN commands',
         \/ new = old
         \/ new = <<>>
         \/ \E v \in Nat \ {0}, c \in Nat \ {0} :
              c \in DOMAIN commands /\ new = append(old, Envelope(v, c))
  PROVE  \A i \in DOMAIN new :
           new[i].ok /\ new[i].nl /\ new[i].utf8 /\ new[i].tx_id # 0 /\ new[i].cmd \in DOMAIN commands'
<1>1. CASE new = old
  BY <1>1 DEF Whole, Written
<1>2. CASE new = <<>>
  BY <1>2
<1>3. ASSUME NEW v \in Nat \ {0}, NEW c \in Nat \ {0}, c \in DOMAIN commands,
             new = append(old, Envelope(v, c)), NEW i \in DOMAIN new
      PROVE  new[i].ok /\ new[i].nl /\ new[i].utf8 /\ new[i].tx_id # 0 /\ new[i].cmd \in DOMAIN commands'
  <2> DEFINE e == Envelope(v, c)
  <2>1. new = Append(old, e) /\ e \in Line
    BY <1>3, AppendLine
  <2>2. e.ok /\ e.nl /\ e.utf8 /\ e.tx_id # 0 /\ e.cmd \in DOMAIN commands
    BY <1>3 DEF Envelope
  <2> HIDE DEF e
  <2>3. new[i] = e \/ (i \in DOMAIN old /\ new[i] = old[i])
    BY <1>3, <2>1, Appended
  <2> QED BY <2>2, <2>3 DEF Whole, Written
<1> QED BY <1>1, <1>2, <1>3

(* What writers, and the leader's snapshot, do to the logs and the task.   *)
LEMMA WritersIntact ==
  ASSUME Shaped, Intact, \/ \E w \in Writers : Request(w) \/ Handle(w)
                         \/ LeaderSave
  PROVE  Intact'
<1>1. SettingTyped /\ WritersTyped /\ RestTyped
  BY TypedParts
<1>2. /\ commands \in Seq(Command) /\ leader \in Node /\ leader.wal \in Seq(Line)
      /\ replica \in Node /\ replica.wal \in Seq(Line) /\ leader.global_version \in Nat
      /\ job \in [Writers -> Job] /\ pc \in [Writers -> Pcs] /\ task \in Task
      /\ \A w \in Writers : pc[w] = "append" => job[w].cmd \in DOMAIN commands
  BY <1>1 DEF WritersTyped, RestTyped, JobsTyped, TaskTyped, Node
<1>3. ASSUME \A c \in DOMAIN commands : c \in DOMAIN commands',
             \/ leader'.wal = leader.wal
             \/ leader'.wal = <<>>
             \/ \E v \in Nat \ {0}, c \in Nat \ {0} :
                  c \in DOMAIN commands /\ leader'.wal = append(leader.wal, Envelope(v, c)),
             UNCHANGED <<stream, replica>>, task'.unread = task.unread
      PROVE  Intact'
  <2>1. Whole(leader.wal)'
    <3>1. PICK new : new = leader'.wal
      OBVIOUS
    <3>2. \A i \in DOMAIN new :
            new[i].ok /\ new[i].nl /\ new[i].utf8 /\ new[i].tx_id # 0 /\ new[i].cmd \in DOMAIN commands'
      BY <1>2, <1>3, <3>1, WholeKept DEF Intact
    <3> QED BY <3>1, <3>2 DEF Whole, Written
  <2>2. Whole(replica.wal)'
    BY <1>3 DEF Intact, Whole, Written
  <2> QED BY <1>3, <2>1, <2>2 DEF Intact
<1>4. ASSUME NEW w \in Writers, NEW tx, NEW writes, FetchAdd(w, tx, writes)
      PROVE  \A c \in DOMAIN commands : c \in DOMAIN commands'
  <2>1. commands' = Append(commands, [tx_id |-> leader.global_version + 1, tx |-> tx,
                                      writes |-> writes, logged |-> FALSE])
    BY <1>4 DEF FetchAdd
  <2> QED BY <1>2, <2>1
<1>5. ASSUME NEW w \in Writers, Request(w) PROVE Intact'
  <2>1. UNCHANGED <<stream, replica, task>> /\ leader'.wal = leader.wal
    BY <1>2, <1>5 DEF Request, PutVersion, CasVersion, TxVersion, LockVersion, DeleteRemove, Node
  <2>2. \A c \in DOMAIN commands : c \in DOMAIN commands'
    BY <1>4, <1>5 DEF Request, PutVersion, CasVersion, TxVersion, LockVersion, DeleteRemove
  <2> QED BY <1>3, <2>1, <2>2
<1>6. ASSUME NEW w \in Writers, LogAppend(w) PROVE Intact'
  <2>1. job[w].cmd \in DOMAIN commands
    BY <1>2, <1>6 DEF LogAppend
  <2>2. /\ leader'.wal = append(leader.wal, Envelope(commands[job[w].cmd].tx_id, job[w].cmd))
        /\ DOMAIN commands' = DOMAIN commands
    BY <1>2, <1>6, <2>1, LogAppended
  <2>3. commands[job[w].cmd].tx_id \in Nat \ {0} /\ job[w].cmd \in Nat \ {0}
    BY <1>2, <2>1, CommandFacts
  <2>4. UNCHANGED <<stream, replica, task>>
    BY <1>6 DEF LogAppend
  <2> QED BY <1>3, <2>1, <2>2, <2>3, <2>4
<1>7. ASSUME NEW w \in Writers, Handle(w), ~LogAppend(w) PROVE Intact'
  <2>1. UNCHANGED <<stream, replica>> /\ leader'.wal = leader.wal
    BY <1>2, <1>7 DEF Handle, DeleteVersion, SyncSend, Insert, Finish, Node
  <2>2. \A c \in DOMAIN commands : c \in DOMAIN commands'
    BY <1>4, <1>7 DEF Handle, DeleteVersion, SyncSend, Insert, Finish
  <2>3. task'.unread = task.unread
    BY <1>2, <1>7 DEF Handle, DeleteVersion, SyncSend, Insert, Finish, Task
  <2> QED BY <1>3, <2>1, <2>2, <2>3
<1>8. CASE LeaderSave
  <2>1. leader' = Saved(leader) /\ UNCHANGED <<commands, task, stream, replica>>
    BY <1>8 DEF LeaderSave
  <2>2. leader'.wal = <<>>
    BY <1>2, <2>1, SavedTyped
  <2> QED BY <1>3, <2>1, <2>2
<1> QED BY <1>5, <1>6, <1>7, <1>8

(* What the sync task and the replica do to them.                          *)
LEMMA RestIntact ==
  ASSUME Shaped, Intact, ~Torn, SyncTask \/ ReplicaLoop \/ ReplicaSave \/ StreamBreaks
                                \/ ReplicaRestarts \/ LeaderRestarts
  PROVE  Intact'
<1>1. SettingTyped /\ WritersTyped /\ RestTyped
  BY TypedParts
<1>2. /\ commands \in Seq(Command) /\ leader \in Node /\ leader.wal \in Seq(Line)
      /\ replica \in Node /\ replica.wal \in Seq(Line) /\ StreamTyped /\ stream \in Seq(Payload)
      /\ TaskTyped /\ task \in Task /\ Sound(leader.wal) /\ Sound(replica.wal)
      /\ task.chunk \in SUBSET Found
  BY <1>1 DEF WritersTyped, RestTyped, StreamTyped, TaskTyped, Node, Task
<1>3. commands' = commands
  BY DEF SyncTask, SyncRead, SyncCheck, SyncSnapshot, SyncVisit, SyncLastChunk, SyncReplay,
         SyncSubscribe, SyncForward, ReplicaLoop, ReplicaSave, StreamBreaks, ReplicaRestarts, Connect,
         ReceiveChunk, SkipDuplicate, BreakOnGap, apply_command, StreamEnds, LeaderRestarts, writers
<1>4. ASSUME leader'.wal = leader.wal,
             \/ replica'.wal = replica.wal
             \/ replica'.wal = <<>>
             \/ \E v \in Nat \ {0}, c \in Nat \ {0} :
                  c \in DOMAIN commands /\ replica'.wal = append(replica.wal, Envelope(v, c)),
             ~task'.unread,
             \A i \in DOMAIN stream' : stream'[i].type = "snapshot" => ~stream'[i].unread
      PROVE  Intact'
  <2>1. Whole(replica.wal)'
    <3>1. PICK new : new = replica'.wal
      OBVIOUS
    <3>2. \A i \in DOMAIN new :
            new[i].ok /\ new[i].nl /\ new[i].utf8 /\ new[i].tx_id # 0 /\ new[i].cmd \in DOMAIN commands'
      BY <1>2, <1>3, <1>4, <3>1, WholeKept DEF Intact
    <3> QED BY <3>1, <3>2 DEF Whole, Written
  <2>2. Whole(leader.wal)'
    BY <1>3, <1>4 DEF Intact, Whole, Written
  <2> QED BY <1>4, <2>1, <2>2 DEF Intact
<1>5. ASSUME UNCHANGED <<leader, replica>>, task'.unread = task.unread \/ task' = NoTask \/ ~task'.unread,
             \/ UNCHANGED stream
             \/ stream' = <<>>
             \/ \E R \in SUBSET Found : stream' = Append(stream, Chunk(R))
             \/ \E v, c \in Nat \ {0} : stream' = Append(stream, WalRecord(v, c))
      PROVE  Intact'
  <2>1. ~task'.unread
    BY <1>5, NoTaskTyped DEF Intact
  <2>2. ASSUME NEW p \in Payload, p.type = "snapshot" => ~p.unread, stream' = Append(stream, p)
        PROVE  \A i \in DOMAIN stream' : stream'[i].type = "snapshot" => ~stream'[i].unread
    <3>1. \A i \in DOMAIN stream' : stream'[i] = p \/ (i \in DOMAIN stream /\ stream'[i] = stream[i])
      BY <1>2, <2>2, Appended
    <3> QED BY <2>2, <3>1 DEF Intact
  <2>3. \A R \in SUBSET Found : Chunk(R) \in Payload /\ Chunk(R).unread = task.unread
    BY <1>2, PayloadTyped
  <2>4. \A v, c \in Nat \ {0} : WalRecord(v, c) \in Payload /\ WalRecord(v, c).type = "wal"
    BY <1>2, PayloadTyped
  <2>5. \A i \in DOMAIN stream' : stream'[i].type = "snapshot" => ~stream'[i].unread
    BY <1>5, <2>2, <2>3, <2>4 DEF Intact
  <2> QED BY <1>4, <1>5, <2>1, <2>5
<1>6. CASE SyncTask
  <2>1. UNCHANGED <<leader, replica>>
    BY <1>6 DEF SyncTask, SyncRead, SyncCheck, SyncSnapshot, SyncVisit, SyncLastChunk, SyncReplay,
                SyncSubscribe, SyncForward, writers
  <2>2. CASE SyncRead
    <3>1. Readable(leader.wal)
      BY DEF Intact, Whole, Written, Readable
    <3>2. task'.unread = task.unread \/ ~task'.unread
      BY <1>2, <2>2, <3>1 DEF SyncRead, Task
    <3>3. UNCHANGED stream
      BY <2>2 DEF SyncRead
    <3> QED BY <1>5, <2>1, <3>2, <3>3
  <2>3. CASE SyncCheck \/ SyncSnapshot \/ SyncSubscribe
    <3>1. task'.unread = task.unread /\ UNCHANGED stream
      BY <1>2, <2>3 DEF SyncCheck, SyncSnapshot, SyncSubscribe, Task
    <3> QED BY <1>5, <2>1, <3>1
  <2>4. ASSUME NEW k \in Keys, SyncVisit(k) PROVE Intact'
    <3> DEFINE found == {<<j, leader.tree[j].cmd>> : j \in {i \in {k} : leader.tree[i] # None}}
               chunk == task.chunk \cup found
    <3>1. /\ stream' = Append(stream, Chunk(chunk)) \/ UNCHANGED stream
          /\ task'.unread = task.unread
      BY <1>2, <2>4 DEF SyncVisit, Task
    <3>2. chunk \in SUBSET Found
      <4>1. leader.tree \in Store
        BY <1>2 DEF Node
      <4>2. leader.tree[k] # None => leader.tree[k].cmd \in Nat \ {0}
        BY <4>1 DEF Store, Record
      <4> QED BY <1>2, <4>2 DEF Found
    <3> HIDE DEF found, chunk
    <3> QED BY <1>5, <2>1, <3>1, <3>2
  <2>5. CASE SyncLastChunk
    <3>1. /\ stream' = Append(stream, Chunk(task.chunk)) \/ UNCHANGED stream
          /\ task'.unread = task.unread
      BY <1>2, <2>5 DEF SyncLastChunk, Task
    <3> QED BY <1>2, <1>5, <2>1, <3>1
  <2>6. CASE SyncReplay
    <3>1. /\ stream' = Append(stream, WalRecord(Head(task.records).tx_id, Head(task.records).cmd))
          /\ task'.unread = task.unread /\ task.records # <<>>
      BY <1>2, <2>6 DEF SyncReplay, Task, TaskTyped
    <3>2. Head(task.records) = task.records[1] /\ 1 \in DOMAIN task.records /\ task.records[1] \in Line
      BY <1>2, <3>1, Tailed DEF Task
    <3>3. Head(task.records).tx_id \in Nat \ {0} /\ Head(task.records).cmd \in Nat \ {0}
      BY <1>2, <3>2 DEF TaskTyped, Whole, Written, Line
    <3> QED BY <1>5, <2>1, <3>1, <3>3
  <2>7. CASE SyncForward
    <3>1. CASE task.rx.lagged
      BY <1>5, <2>1, <2>7, <3>1 DEF SyncForward, OnLagged
    <3>2. CASE ~task.rx.lagged
      <4> DEFINE c == Head(task.rx.queue)
      <4>1. /\ task'.unread = task.unread /\ task.rx.queue # <<>>
            /\ UNCHANGED stream \/ stream' = Append(stream, WalRecord(commands[c].tx_id, c))
        BY <1>2, <2>7, <3>2 DEF SyncForward, Task
      <4>2. task.rx.queue \in Seq(Nat \ {0})
        BY <1>2 DEF Task, Receivers
      <4>3. c = task.rx.queue[1] /\ 1 \in DOMAIN task.rx.queue
        BY <4>1, <4>2, Tailed
      <4>4. c \in DOMAIN commands
        BY <1>2, <4>3 DEF TaskTyped
      <4>5. c \in Nat \ {0} /\ commands[c].tx_id \in Nat \ {0}
        BY <1>2, <4>4, CommandFacts
      <4> HIDE DEF c
      <4> QED BY <1>5, <2>1, <4>1, <4>5
    <3> QED BY <3>1, <3>2
  <2> QED BY <1>6, <2>2, <2>3, <2>4, <2>5, <2>6, <2>7 DEF SyncTask
<1>7. ASSUME stream # <<>>, stream' = Tail(stream), task' = task, UNCHANGED leader,
             \/ replica'.wal = replica.wal
             \/ \E v \in Nat \ {0}, c \in Nat \ {0} :
                  c \in DOMAIN commands /\ replica'.wal = append(replica.wal, Envelope(v, c))
      PROVE  Intact'
  <2>1. \A i \in DOMAIN stream' : i + 1 \in DOMAIN stream /\ stream'[i] = stream[i + 1]
    BY <1>2, <1>7, Tailed
  <2>2. \A i \in DOMAIN stream' : stream'[i].type = "snapshot" => ~stream'[i].unread
    BY <2>1 DEF Intact
  <2> QED BY <1>4, <1>7, <2>2 DEF Intact
<1>8. CASE ReplicaLoop
  <2>1. UNCHANGED leader
    BY <1>8 DEF ReplicaLoop, Connect, ReceiveChunk, SkipDuplicate, BreakOnGap, apply_command,
                StreamEnds, writers
  <2>2. CASE Connect
    <3>1. stream' = <<>> /\ replica' = replica /\ ~task'.unread
      BY <2>2, NoTaskTyped DEF Connect, Task
    <3> QED BY <1>5, <2>1, <3>1
  <2>3. CASE ReceiveChunk
    <3>1. replica'.wal = replica.wal /\ stream # <<>>
      BY <1>2, <2>3, ChunkReceived
    <3> QED BY <1>7, <2>1, <2>3, <3>1 DEF ReceiveChunk
  <2>4. CASE SkipDuplicate
    BY <1>7, <2>1, <2>4 DEF SkipDuplicate, NextRecord
  <2>5. CASE apply_command
    <3>1. /\ stream # <<>> /\ stream[1] \in Payload /\ stream[1].type = "wal"
          /\ stream[1].cmd \in DOMAIN commands
          /\ replica'.wal = append(replica.wal, Envelope(stream[1].tx_id, stream[1].cmd))
      BY <1>2, <1>3, <2>5, RecordApplied
    <3>2. stream[1].tx_id \in Nat \ {0} /\ stream[1].cmd \in Nat \ {0}
      BY <3>1 DEF Payload
    <3> QED BY <1>7, <2>1, <2>5, <3>1, <3>2 DEF apply_command
  <2>6. CASE BreakOnGap \/ StreamEnds
    BY <1>5, <2>1, <2>6 DEF BreakOnGap, StreamEnds
  <2> QED BY <1>8, <2>2, <2>3, <2>4, <2>5, <2>6 DEF ReplicaLoop
<1>9. CASE ReplicaSave
  <2>1. replica' = Saved(replica) /\ UNCHANGED <<leader, stream, task>>
    BY <1>9 DEF ReplicaSave, writers
  <2>2. replica'.wal = <<>>
    BY <1>2, <2>1, SavedTyped
  <2> QED BY <1>4, <2>1, <2>2 DEF Intact
<1>10. CASE StreamBreaks
  BY <1>5, <1>10 DEF StreamBreaks, writers
<1>11. CASE ReplicaRestarts
  <2>1. UNCHANGED leader /\ stream' = <<>> /\ task' = NoTask
    BY <1>11 DEF ReplicaRestarts, writers
  <2>2. PICK file \in CrashedLog(replica.wal, Appending) :
          replica' = Restarted([replica EXCEPT !.wal = file])
    BY <1>11 DEF ReplicaRestarts
  <2>3. replica'.wal = file /\ [replica EXCEPT !.wal = file] = replica
        /\ [replica EXCEPT !.wal = file].wal = file
    BY <1>2, <2>2, RestartsSound DEF Appending, NextRecord
  <2>4. replica'.wal = replica.wal /\ leader'.wal = leader.wal
    BY <2>1, <2>3
  <2>5. ~task'.unread /\ DOMAIN stream' = {}
    BY <2>1, NoTaskTyped
  <2> QED BY <1>4, <2>4, <2>5
<1>12. CASE LeaderRestarts
  <2>1. UNCHANGED <<replica, stream>> /\ task' = NoTask
    BY <1>12 DEF LeaderRestarts
  <2> DEFINE a == \E w \in Writers : pc[w] = "append" /\ wal_lock \in {None, w}
  <2>2. PICK file \in CrashedLog(leader.wal, a) : leader' = Restarted([leader EXCEPT !.wal = file])
    BY <1>12 DEF LeaderRestarts
  <2>3. leader'.wal = file /\ [leader EXCEPT !.wal = file] = leader
        /\ [leader EXCEPT !.wal = file].wal = file
    BY <1>2, <2>2, RestartsSound
  <2> QED BY <1>4, <2>1, <2>3, NoTaskTyped DEF Intact
<1> QED BY <1>6, <1>8, <1>9, <1>10, <1>11, <1>12

(* No step changes the workload.                                           *)
LEMMA SettingKept ==
  ASSUME [Next]_vars
  PROVE  setting' = setting
BY DEF Next, vars, writers, Request, PutVersion, CasVersion, TxVersion, LockVersion, DeleteRemove,
       Handle, DeleteVersion, LogAppend, SyncSend, Insert, Finish, LeaderSave,
       SyncTask, SyncRead, SyncCheck, SyncSnapshot, SyncVisit, SyncLastChunk, SyncReplay,
       SyncSubscribe, SyncForward, ReplicaLoop, ReplicaSave, StreamBreaks, ReplicaRestarts, Connect,
       ReceiveChunk, SkipDuplicate, BreakOnGap, apply_command, StreamEnds, LeaderRestarts

(* Every step keeps the types, and intact logs if none is cut short.       *)
LEMMA TypedStep ==
  ASSUME Typed, [Next]_vars
  PROVE  Typed'
<1>1. Shaped /\ Undamaged
  BY DEF Typed
<1>2. Shaped'
  BY <1>1, ShapedStep
<1>3. Torn' = Torn
  BY SettingKept DEF Torn
<1>4. CASE Torn
  BY <1>2, <1>3, <1>4 DEF Typed, Undamaged
<1>5. CASE ~Torn
  <2> SUFFICES Intact'
    BY <1>2 DEF Typed, Undamaged
  <2>1. Intact
    BY <1>1, <1>5 DEF Undamaged
  <2>2. CASE UNCHANGED vars
    <3>1. UNCHANGED <<commands, leader, replica, task, stream>>
      BY <2>2 DEF vars, writers
    <3> QED BY <2>1, <3>1 DEF Intact, Whole, Written
  <2>3. CASE (\E w \in Writers : Request(w) \/ Handle(w)) \/ LeaderSave
    BY <1>1, <2>1, <2>3, WritersIntact
  <2>4. CASE SyncTask \/ ReplicaLoop \/ ReplicaSave \/ StreamBreaks \/ ReplicaRestarts \/ LeaderRestarts
    BY <1>1, <1>5, <2>1, <2>4, RestIntact
  <2> QED BY <2>2, <2>3, <2>4 DEF Next
<1> QED BY <1>4, <1>5

(* They hold at first.                                                     *)
LEMMA TypedInit ==
  ASSUME Init
  PROVE  Typed
<1>1. Shaped
  BY ShapedInit
<1>2. leader = Fresh /\ replica = Fresh /\ task = NoTask /\ stream = <<>>
  BY DEF Init
<1>3. Fresh.wal = <<>>
  BY DEF Fresh
<1>4. Intact
  BY <1>2, <1>3, NoTaskTyped DEF Intact, Whole
<1> QED BY <1>1, <1>4 DEF Typed, Undamaged

(* Every behaviour keeps the types: each step's job, record, message and   *)
(* payload names a command that there is, the streams stay within their    *)
(* capacity, a broken stream leaves no task behind, and the mutex is held  *)
(* only by a writer between its version and its end.                       *)
THEOREM ReplicationTyped == Spec => []TypeOK
<1>1. Init => Typed
  BY TypedInit
<1>2. Typed /\ [Next]_vars => Typed'
  BY TypedStep
<1>3. Typed => TypeOK
  BY DEF Typed, Shaped
<1> QED BY <1>1, <1>2, <1>3, PTL DEF Spec
-----------------------------------------------------------------------------
(* How the replica's version may go back.                                  *)

(* The logs are whole if no crash cuts a line short.                       *)
LEMMA IntactFacts ==
  ASSUME Typed, ~Torn
  PROVE  /\ Whole(leader.wal) /\ Whole(replica.wal) /\ ~task.unread
         /\ Readable(leader.wal) /\ (\A i \in DOMAIN leader.wal : leader.wal[i].ok)
         /\ \A i \in DOMAIN stream : stream[i].type = "snapshot" => ~stream[i].unread
BY DEF Typed, Undamaged, Intact, Whole, Written, Readable

(* Parts of the types that the steps below need.                           *)
LEMMA TypedFacts ==
  ASSUME Typed
  PROVE  /\ commands \in Seq(Command) /\ leader \in Node /\ replica \in Node
         /\ leader.global_version \in Nat /\ replica.global_version \in Nat
         /\ leader.wal \in Seq(Line) /\ leader.tree \in Store /\ leader.snapshot \in Store
         /\ pc \in [Writers -> Pcs] /\ job \in [Writers -> Job]
         /\ Sound(leader.wal) /\ StreamTyped /\ stream \in Seq(Payload) /\ Sound(replica.wal)
         /\ task \in Task /\ TaskTyped /\ task.last_known \in Nat /\ task.start \in Nat
         /\ task.chunk \in SUBSET Found /\ task.rx \in Receivers
         /\ setting \in Workloads /\ setting.keys \subseteq Keys
         /\ \A w \in Writers : pc[w] \in {"append", "send", "apply"} => job[w].cmd \in DOMAIN commands
         /\ wal_lock \in Writers \cup {None}
<1>1. SettingTyped /\ WritersTyped /\ RestTyped
  BY TypedParts DEF Typed
<1> QED BY <1>1, WorkloadTyped
   DEF SettingTyped, WritersTyped, RestTyped, JobsTyped, Node, TaskTyped, StreamTyped, Task

(* Unless a line is cut short a restart replays the log as it is.          *)
LEMMA LeaderReplays ==
  ASSUME Typed, ~Torn, LeaderRestarts
  PROVE  leader' = Restarted(leader)
<1> DEFINE a == \E w \in Writers : pc[w] = "append" /\ wal_lock \in {None, w}
<1>1. PICK file \in CrashedLog(leader.wal, a) : leader' = Restarted([leader EXCEPT !.wal = file])
  BY DEF LeaderRestarts
<1>2. a \in BOOLEAN
  OBVIOUS
<1> HIDE DEF a
<1>3. [leader EXCEPT !.wal = file] = leader
  BY <1>2, TypedFacts, RestartsSound
<1> QED BY <1>1, <1>3

(* Writers and the leader's truncation leave stream and replica alone, and *)
(* of the task all but the receiver.                                       *)
LEMMA WriterSteps ==
  ASSUME Typed, \/ \E w \in Writers : Request(w) \/ Handle(w)
                \/ LeaderSave
  PROVE  /\ UNCHANGED <<setting, stream, link, replica>>
         /\ task'.pc = task.pc /\ task'.last_known = task.last_known /\ task'.start = task.start
         /\ task'.records = task.records /\ task'.iter = task.iter /\ task'.chunk = task.chunk
         /\ task'.unread = task.unread
         /\ leader'.global_version \in Nat /\ leader.global_version <= leader'.global_version
<1>1. leader \in Node /\ leader.global_version \in Nat /\ task \in Task
  BY TypedFacts
<1>2. ASSUME leader' = [leader EXCEPT !.global_version = @ + 1]
      PROVE  leader'.global_version \in Nat /\ leader.global_version <= leader'.global_version
  BY <1>1, <1>2 DEF Node
<1>3. ASSUME NEW w \in Writers, Request(w) \/ Handle(w)
      PROVE  /\ UNCHANGED <<setting, stream, link, replica>>
             /\ task'.pc = task.pc /\ task'.last_known = task.last_known /\ task'.start = task.start
             /\ task'.records = task.records /\ task'.iter = task.iter /\ task'.chunk = task.chunk
             /\ task'.unread = task.unread
             /\ leader'.global_version \in Nat /\ leader.global_version <= leader'.global_version
  <2>1. ASSUME NEW k \in setting.keys, PutVersion(w, k)
        PROVE  UNCHANGED <<setting, stream, link, replica, task>>
               /\ leader' = [leader EXCEPT !.global_version = @ + 1]
    BY <2>1 DEF PutVersion
  <2>2. ASSUME NEW tx, NEW x, LockVersion(w, tx, x)
        PROVE  UNCHANGED <<setting, stream, link, replica, task>>
               /\ leader' = [leader EXCEPT !.global_version = @ + 1]
    BY <2>2 DEF LockVersion
  <2>3. ASSUME NEW k \in setting.keys, DeleteRemove(w, k)
        PROVE  UNCHANGED <<setting, stream, link, replica, task>>
               /\ leader'.global_version = leader.global_version
    BY <1>1, <2>3 DEF DeleteRemove, Node
  <2>4. CASE DeleteVersion(w)
    <3>1. UNCHANGED <<setting, stream, link, replica, task>>
               /\ leader' = [leader EXCEPT !.global_version = @ + 1]
      BY <2>4 DEF DeleteVersion
    <3> QED BY <1>2, <3>1
  <2>5. CASE LogAppend(w)
    <3>1. UNCHANGED <<setting, stream, link, replica, task>> /\ leader'.global_version = leader.global_version
      BY <1>1, <2>5 DEF LogAppend, Node
    <3> QED BY <1>1, <3>1
  <2>6. CASE SyncSend(w)
    <3>1. UNCHANGED <<setting, stream, link, replica, leader>>
      BY <2>6 DEF SyncSend
    <3>2. \E rx : task' = task \/ task' = [task EXCEPT !.rx = rx]
      BY <2>6 DEF SyncSend
    <3> QED BY <1>1, <3>1, <3>2 DEF Task
  <2>7. ASSUME NEW k \in Keys, Insert(w, k)
        PROVE  UNCHANGED <<setting, stream, link, replica, task>>
               /\ leader'.global_version = leader.global_version
    BY <1>1, <2>7 DEF Insert, Node
  <2>8. CASE Finish(w)
    BY <1>1, <2>8 DEF Finish
  <2>9. CASE Handle(w)
    BY <1>1, <2>4, <2>5, <2>6, <2>7, <2>8, <2>9 DEF Handle
  <2>10. CASE Request(w)
    <3>1. ASSUME NEW k \in setting.keys, PutVersion(w, k) \/ CasVersion(w, k)
          PROVE  UNCHANGED <<setting, stream, link, replica, task>>
                 /\ leader' = [leader EXCEPT !.global_version = @ + 1]
      BY <2>1, <2>2, <3>1 DEF CasVersion
    <3>2. ASSUME NEW x \in Writes, TxVersion(w, x)
          PROVE  UNCHANGED <<setting, stream, link, replica, task>>
                 /\ leader' = [leader EXCEPT !.global_version = @ + 1]
      BY <2>2, <3>2 DEF TxVersion
    <3>3. \/ /\ UNCHANGED <<setting, stream, link, replica, task>>
             /\ leader' = [leader EXCEPT !.global_version = @ + 1]
          \/ /\ UNCHANGED <<setting, stream, link, replica, task>>
             /\ leader'.global_version = leader.global_version
      BY <2>3, <2>10, <3>1, <3>2 DEF Request
    <3> QED BY <1>1, <1>2, <3>3
  <2> QED BY <1>3, <2>9, <2>10
<1>4. CASE LeaderSave
  <2>1. UNCHANGED <<setting, stream, link, replica, task>> /\ leader' = Saved(leader)
    BY <1>4 DEF LeaderSave
  <2> QED BY <1>1, <2>1, SavedTyped
<1> QED BY <1>3, <1>4

(* The leader's counter.                                                   *)
LEMMA CounterStep ==
  ASSUME Typed, CounterAhead, Next
  PROVE  CounterAhead'
<1>1. /\ commands \in Seq(Command) /\ leader \in Node /\ leader.global_version \in Nat
      /\ leader.wal \in Seq(Line) /\ Sound(leader.wal)
      /\ pc \in [Writers -> Pcs] /\ job \in [Writers -> Job]
      /\ \A w \in Writers : pc[w] \in {"append", "send", "apply"} => job[w].cmd \in DOMAIN commands
  BY TypedFacts
<1>2. ASSUME NEW w \in Writers, NEW tx \in BOOLEAN, NEW writes \in Writes, FetchAdd(w, tx, writes),
             leader' = [leader EXCEPT !.global_version = @ + 1]
      PROVE  CounterAhead'
  <2>1. /\ commands'[Len(commands')].tx_id = leader.global_version + 1
        /\ \A c \in DOMAIN commands : c \in DOMAIN commands' /\ commands'[c] = commands[c]
        /\ job'[w].cmd = Len(commands')
        /\ \A u \in Writers : u # w => job'[u] = job[u]
        /\ pc' = [pc EXCEPT ![w] = "append"]
    <3>1. commands'[Len(commands')] =
            [tx_id |-> leader.global_version + 1, tx |-> tx, writes |-> writes, logged |-> FALSE]
      BY <1>1, <1>2, FetchAdded
    <3>2. commands'[Len(commands')].tx_id = leader.global_version + 1
      BY <3>1
    <3>3. /\ \A c \in DOMAIN commands : c \in DOMAIN commands' /\ commands'[c] = commands[c]
          /\ job'[w].cmd = Len(commands')
          /\ \A u \in Writers : u # w => job'[u] = job[u]
          /\ pc' = [pc EXCEPT ![w] = "append"]
      BY <1>1, <1>2, FetchAdded
    <3> QED BY <3>2, <3>3
  <2>2. leader'.global_version = leader.global_version + 1 /\ leader'.wal = leader.wal
    BY <1>1, <1>2 DEF Node
  <2>3. ASSUME NEW u \in Writers, pc'[u] \in {"append", "send", "apply"}
        PROVE  commands'[job'[u].cmd].tx_id <= leader'.global_version
    <3>1. CASE u = w
      BY <1>1, <2>1, <2>2, <3>1
    <3>2. CASE u # w
      <4>1. pc[u] \in {"append", "send", "apply"} /\ job'[u].cmd \in DOMAIN commands /\ job'[u] = job[u]
        BY <1>1, <2>1, <2>3, <3>2
      <4>2. commands[job[u].cmd].tx_id <= leader.global_version /\ commands[job[u].cmd].tx_id \in Nat
        BY <1>1, <4>1, CommandFacts DEF CounterAhead
      <4> QED BY <1>1, <2>1, <2>2, <4>1, <4>2
    <3> QED BY <3>1, <3>2
  <2>4. \A i \in DOMAIN leader.wal : leader.wal[i].tx_id \in Nat
    BY <1>1 DEF Line
  <2>5. Readable(leader'.wal) =>
          \A i \in DOMAIN leader'.wal : leader'.wal[i].ok => leader'.wal[i].tx_id <= leader'.global_version
    BY <1>1, <2>2, <2>4 DEF CounterAhead
  <2> QED BY <2>3, <2>5 DEF CounterAhead
<1>3. ASSUME NEW w \in Writers, Request(w) PROVE CounterAhead'
  <2>0. setting.keys \subseteq Keys
    BY TypedFacts
  <2>1. ASSUME NEW k \in setting.keys, PutVersion(w, k) \/ CasVersion(w, k) PROVE CounterAhead'
    <3>1. One(k, "put") \in Writes /\ FetchAdd(w, FALSE, One(k, "put"))
      BY <2>0, <2>1, OneTyped DEF PutVersion, CasVersion, LockVersion
    <3>2. leader' = [leader EXCEPT !.global_version = @ + 1]
      BY <2>1 DEF PutVersion, CasVersion, LockVersion
    <3> QED BY <1>2, <3>1, <3>2
  <2>2. ASSUME NEW x \in Writes, TxVersion(w, x) PROVE CounterAhead'
    BY <1>2, <2>2 DEF TxVersion, LockVersion
  <2>3. ASSUME NEW k \in setting.keys, DeleteRemove(w, k) PROVE CounterAhead'
    <3>1. leader'.global_version = leader.global_version /\ leader'.wal = leader.wal
      BY <1>1, <2>3 DEF DeleteRemove, Node
    <3>2. commands' = commands /\ pc' = [pc EXCEPT ![w] = "version"]
          /\ job' = [job EXCEPT ![w] = [kind |-> "delete", cmd |-> 0, todo |-> {k}]]
      BY <2>3 DEF DeleteRemove
    <3> QED BY <1>1, <3>1, <3>2 DEF CounterAhead
  <2> QED BY <1>3, <2>1, <2>2, <2>3 DEF Request
<1>4. ASSUME NEW w \in Writers, Handle(w) PROVE CounterAhead'
  <2>1. CASE DeleteVersion(w)
    <3>1. PICK k \in job[w].todo : FetchAdd(w, FALSE, One(k, "delete"))
      BY <2>1 DEF DeleteVersion
    <3>2. One(k, "delete") \in Writes
      <4>1. k \in Keys
        BY <1>1, <3>1 DEF Job
      <4> QED BY <4>1, OneTyped
    <3>3. leader' = [leader EXCEPT !.global_version = @ + 1]
      BY <2>1 DEF DeleteVersion
    <3> QED BY <1>2, <3>1, <3>2, <3>3
  <2>2. CASE LogAppend(w)
    <3> DEFINE c == job[w].cmd
               e == Envelope(commands[c].tx_id, c)
    <3>1. pc[w] = "append" /\ c \in DOMAIN commands /\ pc' = [pc EXCEPT ![w] = "send"] /\ job' = job
      BY <1>1, <2>2 DEF LogAppend
    <3>2. /\ \A d \in DOMAIN commands : commands'[d].tx_id = commands[d].tx_id
          /\ leader'.wal = append(leader.wal, e) /\ e \in Line
          /\ leader'.global_version = leader.global_version
      BY <1>1, <2>2, <3>1, LogAppended
    <3>3. e.tx_id <= leader.global_version
      BY <3>1 DEF CounterAhead, Envelope
    <3> HIDE DEF e
    <3>4. /\ \A i \in DOMAIN leader'.wal :
               \/ leader'.wal[i] = e
               \/ ~leader'.wal[i].ok
               \/ i \in DOMAIN leader.wal /\ leader'.wal[i] = leader.wal[i]
          /\ Readable(leader'.wal) => Readable(leader.wal)
      <4>1. /\ \A i \in DOMAIN append(leader.wal, e) :
                 \/ append(leader.wal, e)[i] = e
                 \/ ~append(leader.wal, e)[i].ok
                 \/ i \in DOMAIN leader.wal /\ append(leader.wal, e)[i] = leader.wal[i]
            /\ Readable(append(leader.wal, e)) => Readable(leader.wal)
        BY <1>1, <3>2, AppendSound
      <4> QED BY <3>2, <4>1
    <3>5. Readable(leader'.wal) =>
            \A i \in DOMAIN leader'.wal : leader'.wal[i].ok => leader'.wal[i].tx_id <= leader'.global_version
      BY <3>2, <3>3, <3>4 DEF CounterAhead
    <3>6. \A u \in Writers : pc'[u] \in {"append", "send", "apply"} =>
            pc[u] \in {"append", "send", "apply"} /\ job[u].cmd \in DOMAIN commands
      BY <1>1, <3>1
    <3> QED BY <3>1, <3>2, <3>5, <3>6 DEF CounterAhead
  <2>3. CASE SyncSend(w) \/ Finish(w) \/ \E k \in Keys : Insert(w, k)
    <3>1. commands' = commands /\ leader'.wal = leader.wal /\ leader'.global_version = leader.global_version
      BY <1>1, <2>3 DEF SyncSend, Finish, Insert, Node
    <3>2. \A u \in Writers : pc'[u] \in {"append", "send", "apply"} =>
            pc[u] \in {"append", "send", "apply"} /\ job'[u].cmd = job[u].cmd
      BY <1>1, <2>3 DEF SyncSend, Finish, Insert, Job
    <3> QED BY <3>1, <3>2 DEF CounterAhead
  <2> QED BY <1>4, <2>1, <2>2, <2>3 DEF Handle
<1>5. CASE LeaderSave
  <2>1. leader' = Saved(leader) /\ UNCHANGED <<commands, pc, job>>
    BY <1>5 DEF LeaderSave
  <2>2. leader'.wal = <<>> /\ leader'.global_version = leader.global_version
    BY <1>1, <2>1, SavedTyped
  <2> QED BY <2>1, <2>2 DEF CounterAhead
<1>6. CASE LeaderRestarts
  <2> DEFINE a == \E w \in Writers : pc[w] = "append" /\ wal_lock \in {None, w}
  <2>1. \A w \in Writers : pc'[w] = "idle"
    BY <1>6 DEF LeaderRestarts
  <2>2. PICK file \in CrashedLog(leader.wal, a) : leader' = Restarted([leader EXCEPT !.wal = file])
    BY <1>6 DEF LeaderRestarts
  <2> DEFINE n == [leader EXCEPT !.wal = file]
  <2>3. n \in Node /\ n.wal = file /\ Sound(file)
    BY <1>1, <2>2, RestartsSound
  <2> HIDE DEF n
  <2>4. /\ Restarted(n).wal = n.wal
        /\ Readable(n.wal) => \A i \in DOMAIN n.wal :
             n.wal[i].ok => n.wal[i].tx_id <= Restarted(n).global_version
    BY <1>1, <2>3, RestartedNode
  <2>5. leader' = Restarted(n)
    BY <2>2 DEF n
  <2> QED BY <2>1, <2>4, <2>5 DEF CounterAhead
<1>7. CASE SyncTask \/ ReplicaLoop \/ ReplicaSave \/ StreamBreaks \/ ReplicaRestarts
  <2>1. UNCHANGED writers
    BY <1>7 DEF SyncTask, SyncRead, SyncCheck, SyncSnapshot, SyncVisit, SyncLastChunk, SyncReplay,
       SyncSubscribe, SyncForward, ReplicaLoop, ReplicaSave, StreamBreaks, ReplicaRestarts, Connect,
       ReceiveChunk, SkipDuplicate, BreakOnGap, apply_command, StreamEnds
  <2> QED BY <2>1 DEF CounterAhead, writers
<1> QED BY <1>3, <1>4, <1>5, <1>6, <1>7 DEF Next

(* The stream behind its head.                                             *)
LEMMA ChunksBehind ==
  ASSUME Typed, ChunksAhead, stream # <<>>, stream' = Tail(stream), replica'.global_version \in Nat,
         \A i \in DOMAIN stream :
           stream[i].type = "snapshot" =>
             stream[i].unread \/ replica'.global_version <= stream[i].max_tx_id
  PROVE  ChunksAhead'
<1>1. stream \in Seq(Payload)
  BY TypedFacts
<1>2. /\ 1 \in DOMAIN stream
      /\ \A i \in DOMAIN stream' : i + 1 \in DOMAIN stream /\ stream'[i] = stream[i + 1] /\ i \in Nat \ {0}
      /\ stream' \in Seq(Payload) /\ Len(stream') = Len(stream) - 1
  BY <1>1, Tailed
<1>3. ASSUME NEW i \in DOMAIN stream', stream'[i].type = "snapshot"
      PROVE  /\ stream'[i].unread \/ replica'.global_version <= stream'[i].max_tx_id
             /\ \A j \in 1..i : /\ stream'[j].type = "snapshot"
                                /\ stream'[j].max_tx_id = stream'[i].max_tx_id
                                /\ stream'[j].unread = stream'[i].unread
  <2>1. i \in Nat \ {0} /\ i + 1 \in DOMAIN stream /\ stream'[i] = stream[i + 1]
    BY <1>2, <1>3
  <2>2. \A j \in 1..(i + 1) : /\ stream[j].type = "snapshot" /\ stream[j].max_tx_id = stream[i + 1].max_tx_id
                              /\ stream[j].unread = stream[i + 1].unread
    BY <1>3, <2>1 DEF ChunksAhead
  <2>3. ASSUME NEW j \in 1..i PROVE j \in DOMAIN stream' /\ j + 1 \in 1..(i + 1)
    <3>1. Len(stream') \in Nat /\ DOMAIN stream' = 1..Len(stream')
      BY <1>2
    <3> QED BY <1>3, <2>1, <3>1
  <2>4. \A j \in 1..i : stream'[j] = stream[j + 1]
    BY <1>2, <2>3
  <2> QED BY <1>3, <2>1, <2>2, <2>3, <2>4
<1> QED BY <1>3 DEF ChunksAhead

(* The steps of the task.                                                  *)
LEMMA TaskAhead ==
  ASSUME Typed, BackwardsInv, SyncTask
  PROVE  HandshakeAhead' /\ ChunksAhead'
<1>1. /\ leader.global_version \in Nat /\ replica.global_version \in Nat /\ task \in Task
      /\ leader.wal \in Seq(Line) /\ task.last_known \in Nat /\ task.start \in Nat
      /\ stream \in Seq(Payload) /\ TaskTyped
  BY TypedFacts
<1>2. HandshakeAhead /\ ChunksAhead /\ CounterAhead
  BY DEF BackwardsInv
<1>3. UNCHANGED <<leader, replica>>
  BY DEF SyncTask, SyncRead, SyncCheck, SyncSnapshot, SyncVisit, SyncLastChunk, SyncReplay,
         SyncSubscribe, SyncForward, writers
<1>4. stream' = stream => ChunksAhead'
  BY <1>2, <1>3 DEF ChunksAhead
<1>5. CASE SyncRead
  <2> DEFINE records == read_from_tx_id(leader.wal, task.last_known + 1)
  <2>1. task.pc = "read" /\ stream' = stream
        /\ \/ /\ task.last_known = 0 \/ ~Readable(leader.wal) \/ GapAfter(records, task.last_known)
              /\ task' = [task EXCEPT !.pc = "snapshot",
                                      !.unread = task.last_known # 0 /\ ~Readable(leader.wal)]
           \/ /\ task.last_known # 0
              /\ \/ task' = [task EXCEPT !.pc = "check", !.records = records, !.start = task.last_known]
                 \/ task' = [task EXCEPT !.pc = "replay", !.records = records, !.start = task.last_known]
    BY <1>5 DEF SyncRead
  <2>2. stream = <<>> /\ task.last_known = replica.global_version
    BY <1>2, <2>1 DEF HandshakeAhead
  <2>3. Readable(leader.wal) /\ GapAfter(records, task.last_known) => task.last_known < leader.global_version
    <3>0. SUFFICES ASSUME Readable(leader.wal)
                   PROVE  GapAfter(records, task.last_known) => task.last_known < leader.global_version
      OBVIOUS
    <3>1. task.last_known + 1 \in Nat
      BY <1>1
    <3>2. records # <<>> =>
            \E j \in DOMAIN leader.wal :
              /\ records[1] = leader.wal[j] /\ Wanted(leader.wal[j], task.last_known + 1)
              /\ \A i \in 1..(j - 1) : ~Wanted(leader.wal[i], task.last_known + 1)
      BY <1>1, <3>1, RecordsRead
    <3> HIDE DEF records
    <3>3. \A j \in DOMAIN leader.wal :
            leader.wal[j].ok => leader.wal[j].tx_id \in Nat /\ leader.wal[j].tx_id <= leader.global_version
      BY <1>1, <1>2, <3>0 DEF CounterAhead, Line
    <3> QED BY <1>1, <3>2, <3>3 DEF GapAfter, Wanted
  <2> HIDE DEF records
  <2>4. CASE /\ task' = [task EXCEPT !.pc = "snapshot",
                                    !.unread = task.last_known # 0 /\ ~Readable(leader.wal)]
             /\ task.last_known = 0 \/ ~Readable(leader.wal) \/ GapAfter(records, task.last_known)
    <3>1. /\ task'.pc = "snapshot" /\ task'.last_known = task.last_known
          /\ task'.unread <=> task.last_known # 0 /\ ~Readable(leader.wal)
      BY <1>1, <2>4 DEF Task
    <3>2. task'.unread \/ replica.global_version <= leader.global_version
      <4>1. CASE task.last_known = 0
        BY <1>1, <2>2, <4>1
      <4>2. CASE task.last_known # 0 /\ ~Readable(leader.wal)
        BY <3>1, <4>2
      <4>3. CASE Readable(leader.wal) /\ GapAfter(records, task.last_known)
        BY <1>1, <2>2, <2>3, <4>3
      <4> QED BY <2>4, <4>1, <4>2, <4>3
    <3> QED BY <1>3, <1>4, <2>1, <2>2, <3>1, <3>2 DEF HandshakeAhead
  <2>5. CASE /\ task.last_known # 0
             /\ \/ task' = [task EXCEPT !.pc = "check", !.records = records, !.start = task.last_known]
                \/ task' = [task EXCEPT !.pc = "replay", !.records = records, !.start = task.last_known]
    <3>1. task'.pc \in {"check", "replay"} /\ task'.last_known = task.last_known
      BY <1>1, <2>5 DEF Task
    <3> QED BY <1>3, <1>4, <2>1, <2>2, <2>5, <3>1 DEF HandshakeAhead
  <2> QED BY <2>1, <2>4, <2>5
<1>6. CASE SyncCheck
  <2>1. task.pc = "check" /\ stream' = stream
        /\ \/ leader.global_version > task.last_known /\ task' = [task EXCEPT !.pc = "snapshot"]
           \/ task' = [task EXCEPT !.pc = "subscribe"]
    BY <1>6 DEF SyncCheck, Outdated
  <2>2. task'.last_known = task.last_known
        /\ \/ task'.pc = "snapshot" /\ leader.global_version > task.last_known
           \/ task'.pc = "subscribe"
    BY <1>1, <2>1 DEF Task
  <2> QED BY <1>1, <1>2, <1>3, <1>4, <2>1, <2>2 DEF HandshakeAhead
<1>7. CASE SyncSnapshot
  <2>1. task.pc = "snapshot" /\ stream' = stream
        /\ task' = [task EXCEPT !.pc = "visit", !.start = leader.global_version, !.iter = Keys]
    BY <1>7 DEF SyncSnapshot
  <2>2. task'.pc = "visit" /\ task'.start = leader.global_version /\ task'.unread = task.unread
    BY <1>1, <2>1 DEF Task
  <2>3. stream' = <<>> /\ (task.unread \/ replica.global_version <= leader.global_version)
    BY <1>2, <2>1 DEF HandshakeAhead
  <2> QED BY <1>3, <1>4, <2>1, <2>2, <2>3 DEF HandshakeAhead
<1>8. ASSUME task.pc = "visit", task'.pc \in {"visit", "subscribe"}, task'.start = task.start,
             task'.unread = task.unread,
             NEW R \in SUBSET Found, stream' = stream \/ stream' = Append(stream, Chunk(R))
      PROVE  HandshakeAhead' /\ ChunksAhead'
  <2> DEFINE p == Chunk(R)
  <2>1. p \in Payload /\ p.type = "snapshot" /\ p.max_tx_id = task.start /\ p.unread = task.unread
    BY <1>1, PayloadTyped DEF Chunk
  <2>2. /\ task.unread \/ replica.global_version <= task.start
        /\ \A i \in DOMAIN stream : /\ stream[i].type = "snapshot" /\ stream[i].max_tx_id = task.start
                                   /\ stream[i].unread = task.unread
    BY <1>2, <1>8 DEF HandshakeAhead
  <2> HIDE DEF p
  <2>3. \A i \in DOMAIN stream' : /\ stream'[i].type = "snapshot" /\ stream'[i].max_tx_id = task.start
                                 /\ stream'[i].unread = task.unread
    <3>1. CASE stream' = stream
      BY <2>2, <3>1
    <3>2. CASE stream' = Append(stream, p)
      <4>1. \A i \in DOMAIN stream' : stream'[i] = p \/ (i \in DOMAIN stream /\ stream'[i] = stream[i])
        BY <1>1, <2>1, <3>2, Appended
      <4> QED BY <2>1, <2>2, <4>1
    <3> QED BY <1>8, <3>1, <3>2 DEF p
  <2>4. \A i \in DOMAIN stream' : \A j \in 1..i : j \in DOMAIN stream'
    <3>1. stream' \in Seq(Payload)
      <4>1. Append(stream, p) \in Seq(Payload)
        BY <1>1, <2>1, Appended
      <4> QED BY <1>1, <1>8, <4>1 DEF p
    <3>2. Len(stream') \in Nat /\ DOMAIN stream' = 1..Len(stream')
      BY <3>1, LenProperties
    <3> QED BY <3>2
  <2>5. ChunksAhead'
    BY <1>3, <2>2, <2>3, <2>4 DEF ChunksAhead
  <2>6. HandshakeAhead'
    BY <1>3, <1>8, <2>2, <2>3 DEF HandshakeAhead
  <2> QED BY <2>5, <2>6
<1>9. ASSUME NEW k \in Keys, SyncVisit(k) PROVE HandshakeAhead' /\ ChunksAhead'
  <2> DEFINE found == {<<j, leader.tree[j].cmd>> : j \in {i \in {k} : leader.tree[i] # None}}
             chunk == task.chunk \cup found
  <2>1. /\ task.pc = "visit"
        /\ \/ /\ stream' = Append(stream, Chunk(chunk))
              /\ task' = [task EXCEPT !.iter = @ \ {k}, !.chunk = {}]
           \/ /\ task' = [task EXCEPT !.iter = @ \ {k}, !.chunk = chunk]
              /\ UNCHANGED stream
    BY <1>9 DEF SyncVisit
  <2>2. chunk \in SUBSET Found
    <3>1. leader.tree \in Store /\ task.chunk \in SUBSET Found
      BY TypedFacts
    <3>2. leader.tree[k] # None => leader.tree[k].cmd \in Nat \ {0}
      BY <3>1 DEF Store, Record
    <3> QED BY <3>1, <3>2 DEF Found
  <2> HIDE DEF found, chunk
  <2>3. task'.pc = "visit" /\ task'.start = task.start /\ task'.unread = task.unread
    BY <1>1, <2>1 DEF Task
  <2> QED BY <1>8, <2>1, <2>2, <2>3
<1>10. CASE SyncLastChunk
  <2>1. /\ task.pc = "visit" /\ (stream' = Append(stream, Chunk(task.chunk)) \/ UNCHANGED stream)
        /\ task' = [task EXCEPT !.pc = "subscribe", !.chunk = {}]
    BY <1>10 DEF SyncLastChunk
  <2>2. task'.pc = "subscribe" /\ task'.start = task.start /\ task'.unread = task.unread
    BY <1>1, <2>1 DEF Task
  <2>3. task.chunk \in SUBSET Found
    BY TypedFacts
  <2> QED BY <1>8, <2>1, <2>2, <2>3
(* After the handshake only records of the log are added.                  *)
<1>11. ASSUME task'.pc \notin {"read", "check", "snapshot", "visit"},
              \/ stream' = stream
              \/ \E v \in Nat \ {0}, c \in Nat \ {0} : stream' = Append(stream, WalRecord(v, c))
       PROVE  HandshakeAhead' /\ ChunksAhead'
  <2>1. HandshakeAhead'
    BY <1>11 DEF HandshakeAhead
  <2>2. ASSUME NEW v \in Nat \ {0}, NEW c \in Nat \ {0}, stream' = Append(stream, WalRecord(v, c))
        PROVE  ChunksAhead'
    <3>1. WalRecord(v, c) \in Payload /\ WalRecord(v, c).type = "wal"
      BY <1>1, PayloadTyped
    <3>2. /\ \A i \in DOMAIN stream' :
               stream'[i] = WalRecord(v, c) \/ (i \in DOMAIN stream /\ stream'[i] = stream[i])
          /\ \A i \in DOMAIN stream : stream'[i] = stream[i]
      BY <1>1, <2>2, <3>1, Appended
    <3>3. \A i \in DOMAIN stream : \A j \in 1..i : j \in DOMAIN stream
      <4>1. Len(stream) \in Nat /\ DOMAIN stream = 1..Len(stream)
        BY <1>1, LenProperties
      <4> QED BY <4>1
    <3>4. ASSUME NEW i \in DOMAIN stream', stream'[i].type = "snapshot"
          PROVE  /\ stream'[i].unread \/ replica'.global_version <= stream'[i].max_tx_id
                 /\ \A j \in 1..i : /\ stream'[j].type = "snapshot"
                                    /\ stream'[j].max_tx_id = stream'[i].max_tx_id
                                    /\ stream'[j].unread = stream'[i].unread
      <4>1. i \in DOMAIN stream /\ stream'[i] = stream[i]
        BY <3>1, <3>2, <3>4
      <4>2. \A j \in 1..i : stream'[j] = stream[j]
        BY <3>2, <3>3, <4>1
      <4> QED BY <1>2, <1>3, <3>4, <4>1, <4>2 DEF ChunksAhead
    <3> QED BY <3>4 DEF ChunksAhead
  <2> QED BY <1>4, <1>11, <2>1, <2>2
<1>12. CASE SyncReplay
  <2> DEFINE line == Head(task.records)
  <2>1. /\ task.pc = "replay" /\ stream' = Append(stream, WalRecord(line.tx_id, line.cmd))
        /\ task' = [task EXCEPT !.start = line.tx_id, !.records = Tail(@),
                                !.pc = IF Len(task.records) = 1 THEN "subscribe" ELSE "replay"]
    BY <1>12 DEF SyncReplay
  <2>2. task.records # <<>> /\ task.records \in Seq(Line) /\ Whole(task.records) /\ commands \in Seq(Command)
    BY <1>1, <2>1, TypedFacts DEF TaskTyped, Task
  <2>3. line = task.records[1] /\ 1 \in DOMAIN task.records /\ line \in Line
    BY <2>2, Tailed
  <2>4. line.tx_id \in Nat \ {0} /\ line.cmd \in Nat \ {0}
    <3>1. line.tx_id \in Nat /\ line.tx_id # 0 /\ line.cmd \in DOMAIN commands
      BY <2>2, <2>3 DEF Whole, Written, Line
    <3> QED BY <2>2, <3>1, CommandFacts
  <2> HIDE DEF line
  <2>5. task'.pc \in {"subscribe", "replay"}
    BY <1>1, <2>1 DEF Task
  <2> QED BY <1>11, <2>1, <2>4, <2>5
<1>13. CASE SyncSubscribe
  <2>1. stream' = stream /\ task'.pc = "stream"
    BY <1>1, <1>13 DEF SyncSubscribe, Task
  <2> QED BY <1>11, <2>1
<1>14. CASE SyncForward
  <2>1. CASE task.rx.lagged
    <3>1. stream' = stream /\ task' = NoTask
      BY <1>14, <2>1 DEF SyncForward, OnLagged
    <3> QED BY <1>11, <3>1, NoTaskTyped
  <2>2. CASE ~task.rx.lagged
    <3> DEFINE c == Head(task.rx.queue)
    <3>1. /\ task.pc = "stream" /\ task.rx.queue # <<>>
          /\ task' = [task EXCEPT !.rx = Sync!Popped(task.rx)]
          /\ \/ stream' = stream
             \/ stream' = Append(stream, WalRecord(commands[c].tx_id, c))
      BY <1>14, <2>2 DEF SyncForward
    <3>2. task.rx.queue \in Seq(Nat \ {0})
      BY <1>1 DEF Task, Receivers
    <3>3. c = task.rx.queue[1] /\ 1 \in DOMAIN task.rx.queue
      BY <3>1, <3>2, Tailed
    <3>4. c \in DOMAIN commands /\ commands \in Seq(Command)
      BY <1>1, <3>3, TypedFacts DEF TaskTyped
    <3>5. c \in Nat \ {0} /\ commands[c].tx_id \in Nat \ {0}
      BY <3>4, CommandFacts
    <3>6. task'.pc = "stream"
      BY <1>1, <3>1 DEF Task
    <3> HIDE DEF c
    <3> QED BY <1>11, <3>1, <3>5, <3>6
  <2> QED BY <2>1, <2>2
<1> QED BY <1>5, <1>6, <1>7, <1>9, <1>10, <1>12, <1>13, <1>14 DEF SyncTask

(* The steps of the replica: what it receives does not take it back.       *)
LEMMA ReplicaAhead ==
  ASSUME Typed, BackwardsInv, ReplicaLoop \/ ReplicaSave \/ StreamBreaks \/ ReplicaRestarts
  PROVE  /\ HandshakeAhead' /\ ChunksAhead'
         /\ \/ ReplicaRestarts \/ (ReceiveChunk /\ Head(stream).unread)
            \/ replica.global_version <= replica'.global_version
<1>1. /\ replica.global_version \in Nat /\ task \in Task /\ stream \in Seq(Payload) /\ StreamTyped
      /\ replica \in Node /\ Sound(replica.wal) /\ commands \in Seq(Command)
  BY TypedFacts
<1>2. HandshakeAhead /\ ChunksAhead
  BY DEF BackwardsInv
<1>3. UNCHANGED leader /\ commands' = commands
  BY DEF ReplicaLoop, ReplicaSave, StreamBreaks, ReplicaRestarts, Connect,
       ReceiveChunk, SkipDuplicate, BreakOnGap, apply_command, StreamEnds, writers
<1>4. ASSUME stream' = <<>>, task'.pc \notin {"read", "check", "snapshot", "visit"}
      PROVE  HandshakeAhead' /\ ChunksAhead'
  BY <1>4 DEF HandshakeAhead, ChunksAhead
<1>5. CASE Connect
  <2>1. /\ stream' = <<>> /\ replica' = replica
        /\ task' = [NoTask EXCEPT !.pc = "read", !.last_known = replica.global_version]
    BY <1>5 DEF Connect
  <2>2. task'.pc = "read" /\ task'.last_known = replica.global_version
    BY <2>1, NoTaskTyped DEF Task
  <2> QED BY <1>1, <2>1, <2>2 DEF HandshakeAhead, ChunksAhead
<1>6. CASE ReceiveChunk
  <2>1. /\ stream # <<>> /\ 1 \in DOMAIN stream /\ stream[1].type = "snapshot" /\ stream[1] \in Payload
        /\ replica'.global_version = stream[1].max_tx_id
    BY <1>1, <1>6, ChunkReceived
  <2>2. stream' = Tail(stream) /\ task' = task
    BY <1>6 DEF ReceiveChunk
  <2>3. stream[1].max_tx_id \in Nat
    BY <2>1 DEF Payload
  <2>4. \A i \in DOMAIN stream : stream[i].type = "snapshot" => stream[i].max_tx_id = stream[1].max_tx_id
    <3>1. \A i \in DOMAIN stream : 1 \in 1..i
      <4>1. DOMAIN stream = 1..Len(stream) /\ Len(stream) \in Nat
        BY <1>1, LenProperties
      <4> QED BY <4>1
    <3> QED BY <1>2, <3>1 DEF ChunksAhead
  <2>5. \A i \in DOMAIN stream :
           stream[i].type = "snapshot" => replica'.global_version <= stream[i].max_tx_id
    BY <2>1, <2>3, <2>4
  <2>6. ChunksAhead'
    BY <1>2, <2>1, <2>2, <2>3, <2>5, ChunksBehind
  <2>7. Head(stream).unread \/ replica.global_version <= replica'.global_version
    BY <1>1, <1>2, <2>1, Tailed DEF ChunksAhead
  <2>8. \A i \in DOMAIN stream' : i + 1 \in DOMAIN stream /\ stream'[i] = stream[i + 1]
    BY <1>1, <2>1, <2>2, Tailed
  <2>9. task.pc \notin {"read", "check", "snapshot"}
    BY <1>2, <2>1 DEF HandshakeAhead
  <2>10. task.pc = "visit" => replica'.global_version = task.start
    BY <1>2, <2>1 DEF HandshakeAhead
  <2>11. HandshakeAhead'
    BY <1>2, <2>1, <2>2, <2>3, <2>8, <2>9, <2>10 DEF HandshakeAhead
  <2> QED BY <1>6, <2>6, <2>7, <2>11
<1>7. ASSUME stream # <<>>, stream' = Tail(stream), task' = task, Head(stream).type = "wal",
             replica'.global_version \in Nat
      PROVE  HandshakeAhead' /\ ChunksAhead'
  <2>1. 1 \in DOMAIN stream /\ stream[1].type = "wal"
    BY <1>1, <1>7, Tailed
  <2>2. \A i \in DOMAIN stream : stream[i].type # "snapshot"
    <3>1. \A i \in DOMAIN stream : 1 \in 1..i
      <4>1. DOMAIN stream = 1..Len(stream) /\ Len(stream) \in Nat
        BY <1>1, LenProperties
      <4> QED BY <4>1
    <3> QED BY <1>2, <2>1, <3>1 DEF ChunksAhead
  <2>3. ChunksAhead'
    BY <1>2, <1>7, <2>2, ChunksBehind
  <2>4. task.pc \notin {"read", "check", "snapshot", "visit"}
    BY <1>2, <1>7, <2>1, <2>2 DEF HandshakeAhead
  <2> QED BY <1>7, <2>3, <2>4 DEF HandshakeAhead
<1>8. CASE SkipDuplicate
  <2>1. stream # <<>> /\ stream' = Tail(stream) /\ task' = task /\ Head(stream).type = "wal" /\ replica' = replica
    BY <1>8 DEF SkipDuplicate, NextRecord
  <2> QED BY <1>1, <1>7, <2>1
<1>9. CASE apply_command
  <2>1. stream # <<>> /\ stream' = Tail(stream) /\ task' = task /\ Head(stream).type = "wal"
    BY <1>9 DEF apply_command, Appending, NextRecord
  <2>2. replica.global_version < stream[1].tx_id /\ replica'.global_version = stream[1].tx_id /\ stream[1].tx_id \in Nat
    BY <1>1, <1>3, <1>9, RecordApplied
  <2> QED BY <1>1, <1>7, <2>1, <2>2
<1>10. CASE BreakOnGap \/ StreamBreaks \/ ReplicaRestarts
  <2>1. stream' = <<>> /\ task' = NoTask /\ (replica' = replica \/ ReplicaRestarts)
    BY <1>10 DEF BreakOnGap, StreamBreaks, ReplicaRestarts
  <2> QED BY <1>1, <1>4, <2>1, NoTaskTyped
<1>11. CASE StreamEnds
  <2>1. stream' = <<>> /\ task.pc = "none" /\ task' = task /\ replica' = replica
    BY <1>11 DEF StreamEnds
  <2> QED BY <1>1, <1>4, <2>1
<1>12. CASE ReplicaSave
  <2>1. replica' = Saved(replica) /\ UNCHANGED <<task, stream>>
    BY <1>12 DEF ReplicaSave
  <2>2. replica'.global_version = replica.global_version
    BY <1>1, <2>1, SavedTyped
  <2> QED BY <1>1, <1>2, <1>3, <2>1, <2>2 DEF HandshakeAhead, ChunksAhead
<1> QED BY <1>5, <1>6, <1>8, <1>9, <1>10, <1>11, <1>12 DEF ReplicaLoop

(* Every step keeps the invariant, and takes the replica's version back    *)
(* only by a restart or by a chunk sent for want of a log.                 *)
LEMMA BackwardsStep ==
  ASSUME Typed, BackwardsInv, [Next]_vars
  PROVE  /\ BackwardsInv'
         /\ \/ replica'.global_version >= replica.global_version
            \/ ReplicaRestarts \/ (ReceiveChunk /\ Head(stream).unread) \/ UNCHANGED vars
<1>1. /\ replica.global_version \in Nat /\ leader.global_version \in Nat
      /\ HandshakeAhead /\ ChunksAhead /\ CounterAhead
  BY TypedFacts DEF BackwardsInv
<1>2. CASE UNCHANGED vars
  BY <1>2 DEF BackwardsInv, HandshakeAhead, ChunksAhead, CounterAhead, vars, writers
<1>3. Next => CounterAhead'
  BY <1>1, CounterStep
<1>4. CASE (\E w \in Writers : Request(w) \/ Handle(w)) \/ LeaderSave
  <2>1. /\ UNCHANGED <<stream, replica>> /\ task'.pc = task.pc /\ task'.last_known = task.last_known
        /\ task'.start = task.start /\ task'.unread = task.unread
        /\ leader'.global_version \in Nat /\ leader.global_version <= leader'.global_version
    BY <1>4, WriterSteps
  <2>2. HandshakeAhead' /\ ChunksAhead'
    BY <1>1, <2>1 DEF HandshakeAhead, ChunksAhead
  <2> QED BY <1>1, <1>3, <1>4, <2>1, <2>2 DEF BackwardsInv, Next
<1>5. CASE LeaderRestarts
  <2>1. UNCHANGED <<stream, replica>> /\ task' = NoTask
    BY <1>5 DEF LeaderRestarts
  <2>2. HandshakeAhead' /\ ChunksAhead'
    BY <1>1, <2>1, NoTaskTyped DEF HandshakeAhead, ChunksAhead
  <2> QED BY <1>1, <1>3, <1>5, <2>1, <2>2 DEF BackwardsInv, Next
<1>6. CASE SyncTask
  <2>1. HandshakeAhead' /\ ChunksAhead'
    BY <1>6, TaskAhead
  <2>2. replica' = replica
    BY <1>6 DEF SyncTask, SyncRead, SyncCheck, SyncSnapshot, SyncVisit, SyncLastChunk, SyncReplay,
         SyncSubscribe, SyncForward
  <2> QED BY <1>1, <1>3, <1>6, <2>1, <2>2 DEF BackwardsInv, Next
<1>7. CASE ReplicaLoop \/ ReplicaSave \/ StreamBreaks \/ ReplicaRestarts
  <2>1. /\ HandshakeAhead' /\ ChunksAhead'
        /\ \/ ReplicaRestarts \/ (ReceiveChunk /\ Head(stream).unread)
           \/ replica.global_version <= replica'.global_version
    BY <1>7, ReplicaAhead
  <2>2. replica' \in Node => replica'.global_version \in Nat
    BY DEF Node
  <2>3. Typed'
    BY <1>7, TypedStep DEF Next
  <2>4. replica' \in Node
    BY <2>3 DEF Typed, Shaped, TypeOK
  <2> QED BY <1>1, <1>3, <1>7, <2>1, <2>2, <2>4 DEF BackwardsInv, Next
<1> QED BY <1>2, <1>4, <1>5, <1>6, <1>7 DEF Next

(* The invariant holds at first.                                           *)
LEMMA BackwardsInit ==
  ASSUME Init
  PROVE  BackwardsInv
BY NoTaskTyped DEF Init, BackwardsInv, CounterAhead, HandshakeAhead, ChunksAhead, Fresh

(* For every workload: unless the leader cannot read its log, neither a    *)
(* late record nor a snapshot takes the replica's version back, because    *)
(* the task takes a snapshot only if the leader's counter is past the      *)
(* replica's version, and chunks are never behind a record of the log.     *)
(* What is left are restarts of the replica and the chunks of snapshots    *)
(* that are sent because read_from_tx_id failed.                           *)
THEOREM NeverBackwardsTheorem == Spec => NeverBackwards
<1>1. Init => Typed /\ BackwardsInv
  BY TypedInit, BackwardsInit
<1>2. Typed /\ BackwardsInv /\ [Next]_vars =>
        /\ Typed' /\ BackwardsInv'
        /\ [\/ replica'.global_version >= replica.global_version
            \/ ReplicaRestarts
            \/ ReceiveChunk /\ Head(stream).unread]_vars
  BY TypedStep, BackwardsStep
<1> QED BY <1>1, <1>2, PTL DEF Spec, NeverBackwards
-----------------------------------------------------------------------------
(* What logged commands amount to, for any sequence of commands.           *)

(* StateAt is the amount of the commands, key by key.                      *)
LEMMA StateIsAmount ==
  ASSUME NEW v, NEW k \in Keys
  PROVE  StateAt(v)[k] = Amount(commands, v, k)
<1> DEFINE C == {c \in DOMAIN commands : /\ commands[c].logged /\ commands[c].tx_id <= v
                                         /\ k \in Touched(c)}
<1>1. C = Carriers(commands, v, k)
  BY DEF Touched, Carriers
<1>2. StateAt(v)[k] =
        IF C = {} \/ commands[LastOf(C)].writes[k] = "delete" THEN 0 ELSE LastOf(C)
  BY DEF StateAt, LastOf
<1> HIDE DEF C
<1> QED BY <1>1, <1>2 DEF Amount

(* The facts about the members of a sequence of commands.                  *)
LEMMA MemberFacts ==
  ASSUME NEW cs \in Seq(Command), NEW c \in DOMAIN cs
  PROVE  /\ c \in Nat \ {0} /\ cs[c].tx_id \in Nat \ {0} /\ cs[c].logged \in BOOLEAN
         /\ cs[c].writes \in Writes /\ \A k \in Keys : cs[c].writes[k] \in {"put", "delete", "none"}
<1>1. DOMAIN cs = 1..Len(cs) /\ Len(cs) \in Nat
  BY LenProperties
<1>2. c \in Nat \ {0}
  BY <1>1
<1>3. cs[c] \in Command
  BY <1>1, ElementOfSeq
<1> QED BY <1>2, <1>3 DEF Command, Writes

(* A bounded set of numbers that is not empty has a last element.          *)
LEMMA LastExists ==
  ASSUME NEW C \in SUBSET Nat, C # {}, NEW b \in Nat, \A c \in C : c <= b
  PROVE  LastOf(C) \in C /\ \A d \in C : d <= LastOf(C)
<1> DEFINE T == {n \in Nat : \A d \in C : d <= n}
<1>1. PICK x \in T : \A y \in T : x <= y
  <2>1. b \in T
    OBVIOUS
  <2> HIDE DEF T
  <2>2. T \in SUBSET Nat
    BY DEF T
  <2> QED BY <2>1, <2>2, LeastNumber
<1>2. x \in Nat /\ \A d \in C : d <= x
  BY <1>1
<1>3. x \in C
  <2> SUFFICES ASSUME x \notin C PROVE FALSE
    OBVIOUS
  <2>1. \A d \in C : d \in Nat /\ d <= x /\ d # x
    BY <1>2
  <2>2. x # 0
    <3>1. PICK d \in C : TRUE
      OBVIOUS
    <3>2. d \in Nat /\ d <= x /\ d # x
      BY <2>1, <3>1
    <3> QED BY <1>2, <3>2
  <2>3. x - 1 \in Nat /\ \A d \in C : d <= x - 1
    BY <1>2, <2>1, <2>2
  <2>4. x - 1 \in T
    BY <2>3
  <2> QED BY <1>1, <1>2, <2>4
<1>4. \E c \in C : \A d \in C : d <= c
  BY <1>2, <1>3
<1> QED BY <1>4 DEF LastOf

(* The last carrier, of any commands.                                      *)
LEMMA LastCarrier ==
  ASSUME NEW cs \in Seq(Command), NEW v, NEW k, Carriers(cs, v, k) # {}
  PROVE  /\ LastOf(Carriers(cs, v, k)) \in Carriers(cs, v, k)
         /\ \A d \in Carriers(cs, v, k) : d <= LastOf(Carriers(cs, v, k))
<1>1. DOMAIN cs = 1..Len(cs) /\ Len(cs) \in Nat
  BY LenProperties
<1>2. Carriers(cs, v, k) \in SUBSET Nat /\ \A c \in Carriers(cs, v, k) : c <= Len(cs)
  BY <1>1 DEF Carriers
<1> QED BY <1>1, <1>2, LastExists

(* The last carrier is the only one that no other is after.                *)
LEMMA LastIs ==
  ASSUME NEW cs \in Seq(Command), NEW v, NEW k, NEW c \in Carriers(cs, v, k),
         \A d \in Carriers(cs, v, k) : d <= c
  PROVE  LastOf(Carriers(cs, v, k)) = c
<1> DEFINE x == LastOf(Carriers(cs, v, k))
<1>1. x \in Carriers(cs, v, k) /\ c <= x
  BY LastCarrier
<1>2. x \in DOMAIN cs /\ c \in DOMAIN cs /\ x <= c
  BY <1>1 DEF Carriers
<1>3. x \in Nat /\ c \in Nat
  BY <1>2, MemberFacts
<1> HIDE DEF x
<1> QED BY <1>1, <1>2, <1>3 DEF x

(* Commands with the same carriers amount to the same.                     *)
LEMMA SameAmount ==
  ASSUME NEW cs \in Seq(Command), NEW ds, NEW v, NEW u, NEW k,
         Carriers(cs, v, k) = Carriers(ds, u, k),
         \A c \in Carriers(cs, v, k) : cs[c].writes[k] = ds[c].writes[k]
  PROVE  Amount(cs, v, k) = Amount(ds, u, k)
<1>1. CASE Carriers(cs, v, k) = {}
  BY <1>1 DEF Amount
<1>2. CASE Carriers(cs, v, k) # {}
  <2>1. LastOf(Carriers(cs, v, k)) \in Carriers(cs, v, k)
    BY <1>2, LastCarrier
  <2> QED BY <2>1 DEF Amount
<1> QED BY <1>1, <1>2

(* No command in between: the same amount.                                 *)
LEMMA AmountBetween ==
  ASSUME NEW cs \in Seq(Command), NEW v \in Nat, NEW u \in Nat, v <= u, NEW k,
         \A c \in DOMAIN cs : cs[c].logged /\ cs[c].tx_id <= u => cs[c].tx_id <= v
  PROVE  Amount(cs, v, k) = Amount(cs, u, k)
<1>1. \A c \in DOMAIN cs : cs[c].tx_id <= v => cs[c].tx_id <= u
  BY MemberFacts
<1>2. Carriers(cs, v, k) = Carriers(cs, u, k)
  BY <1>1 DEF Carriers
<1> QED BY <1>2, SameAmount

(* One command on.                                                         *)
LEMMA AmountNext ==
  ASSUME NEW cs \in Seq(Command), Ascending(cs), NEW c \in DOMAIN cs, cs[c].logged, NEW k \in Keys
  PROVE  Amount(cs, cs[c].tx_id, k) =
           CASE cs[c].writes[k] = "put" -> c
             [] cs[c].writes[k] = "delete" -> 0
             [] OTHER -> Amount(cs, cs[c].tx_id - 1, k)
<1> DEFINE v == cs[c].tx_id
<1>1. /\ c \in Nat \ {0} /\ v \in Nat \ {0} /\ cs[c].writes[k] \in {"put", "delete", "none"}
      /\ \A d \in DOMAIN cs : d \in Nat \ {0} /\ cs[d].tx_id \in Nat \ {0}
  BY MemberFacts
<1>2. \A d \in DOMAIN cs : cs[d].logged /\ cs[d].tx_id <= v => d <= c
  <2> SUFFICES ASSUME NEW d \in DOMAIN cs, cs[d].logged, cs[d].tx_id <= v, c < d PROVE FALSE
    BY <1>1
  <2>1. v < cs[d].tx_id
    BY DEF Ascending
  <2> QED BY <1>1, <2>1
<1>3. \A d \in DOMAIN cs : cs[d].logged /\ cs[d].tx_id <= v => d = c \/ cs[d].tx_id <= v - 1
  <2> SUFFICES ASSUME NEW d \in DOMAIN cs, cs[d].logged, cs[d].tx_id <= v, d # c
               PROVE  cs[d].tx_id <= v - 1
    OBVIOUS
  <2>1. d < c
    BY <1>1, <1>2
  <2>2. cs[d].tx_id < v
    BY <2>1 DEF Ascending
  <2> QED BY <1>1, <2>2
<1>4. CASE cs[c].writes[k] = "none"
  <2>1. \A d \in DOMAIN cs : cs[d].logged /\ cs[d].tx_id <= v /\ cs[d].writes[k] # "none"
                               => cs[d].tx_id <= v - 1
    BY <1>3, <1>4
  <2>2. \A d \in DOMAIN cs : cs[d].tx_id <= v - 1 => cs[d].tx_id <= v
    BY <1>1
  <2> HIDE DEF v
  <2>3. Carriers(cs, v - 1, k) = Carriers(cs, v, k)
    BY <2>1, <2>2 DEF Carriers
  <2>4. Amount(cs, v - 1, k) = Amount(cs, v, k)
    BY <2>3, SameAmount
  <2> QED BY <1>4, <2>4 DEF v
<1>5. CASE cs[c].writes[k] # "none"
  <2>1. v <= v
    BY <1>1
  <2> HIDE DEF v
  <2>2. c \in Carriers(cs, v, k)
    BY <1>5, <2>1 DEF Carriers, v
  <2>3. \A d \in Carriers(cs, v, k) : d <= c
    BY <1>2 DEF Carriers
  <2>4. LastOf(Carriers(cs, v, k)) = c
    BY <2>2, <2>3, LastIs
  <2>5. Amount(cs, v, k) = IF cs[c].writes[k] = "delete" THEN 0 ELSE c
    BY <2>2, <2>4 DEF Amount
  <2> QED BY <1>1, <1>5, <2>5 DEF v
<1> QED BY <1>4, <1>5

(* What an amount is; nothing is lost where nothing is deleted.            *)
LEMMA AmountFacts ==
  ASSUME NEW cs \in Seq(Command), NEW v \in Nat, NEW k \in Keys
  PROVE  /\ Amount(cs, v, k) \in Nat
         /\ Amount(cs, v, k) # 0 => Amount(cs, v, k) \in DOMAIN cs
         /\ Amount(cs, v, k) # 0 => cs[Amount(cs, v, k)].writes[k] = "put"
         /\ Amount(cs, 0, k) = 0
         /\ (\A c \in DOMAIN cs : cs[c].writes[k] # "delete") =>
              \A u \in Nat : v <= u /\ Amount(cs, v, k) # 0 => Amount(cs, u, k) # 0
<1>1. \A d \in DOMAIN cs : d \in Nat \ {0} /\ cs[d].tx_id \in Nat \ {0}
        /\ cs[d].writes[k] \in {"put", "delete", "none"}
  BY MemberFacts
<1>2. ASSUME NEW u \in Nat
      PROVE  \/ Carriers(cs, u, k) = {} /\ Amount(cs, u, k) = 0
             \/ /\ Carriers(cs, u, k) # {} /\ LastOf(Carriers(cs, u, k)) \in DOMAIN cs
                /\ cs[LastOf(Carriers(cs, u, k))].writes[k] # "none"
                /\ Amount(cs, u, k) =
                     IF cs[LastOf(Carriers(cs, u, k))].writes[k] = "delete" THEN 0
                     ELSE LastOf(Carriers(cs, u, k))
  <2>1. CASE Carriers(cs, u, k) = {}
    BY <2>1 DEF Amount
  <2>2. CASE Carriers(cs, u, k) # {}
    <3> DEFINE x == LastOf(Carriers(cs, u, k))
    <3>1. x \in Carriers(cs, u, k)
      BY <2>2, LastCarrier
    <3>2. x \in DOMAIN cs /\ cs[x].writes[k] # "none"
      BY <3>1 DEF Carriers
    <3>3. Amount(cs, u, k) = IF cs[x].writes[k] = "delete" THEN 0 ELSE x
      BY <2>2 DEF Amount
    <3> HIDE DEF x
    <3> QED BY <2>2, <3>2, <3>3 DEF x
  <2> QED BY <2>1, <2>2
<1>3. /\ Amount(cs, v, k) \in Nat
      /\ Amount(cs, v, k) # 0 =>
           Amount(cs, v, k) \in DOMAIN cs /\ cs[Amount(cs, v, k)].writes[k] = "put"
  BY <1>1, <1>2
<1>4. Carriers(cs, 0, k) = {}
  <2>1. \A d \in DOMAIN cs : ~(cs[d].tx_id <= 0)
    BY <1>1
  <2> QED BY <2>1 DEF Carriers
<1>5. ASSUME \A c \in DOMAIN cs : cs[c].writes[k] # "delete", NEW u \in Nat, v <= u,
             Amount(cs, v, k) # 0
      PROVE  Amount(cs, u, k) # 0
  <2>1. Carriers(cs, v, k) # {}
    BY <1>2, <1>5
  <2>2. \A d \in DOMAIN cs : cs[d].tx_id <= v => cs[d].tx_id <= u
    BY <1>1, <1>5
  <2>3. Carriers(cs, u, k) # {}
    BY <2>1, <2>2 DEF Carriers
  <2>4. /\ LastOf(Carriers(cs, u, k)) \in DOMAIN cs
        /\ Amount(cs, u, k) =
                     IF cs[LastOf(Carriers(cs, u, k))].writes[k] = "delete" THEN 0
                     ELSE LastOf(Carriers(cs, u, k))
    BY <1>2, <2>3
  <2>5. Amount(cs, u, k) = LastOf(Carriers(cs, u, k))
    BY <1>5, <2>4
  <2> QED BY <1>1, <2>4, <2>5
<1>6. Amount(cs, 0, k) = 0
  BY <1>4 DEF Amount
<1> QED BY <1>3, <1>5, <1>6
-----------------------------------------------------------------------------
(* OrderlyReplica: the leader's writers.                                   *)

(* No writer is busy.                                                      *)
LEMMA AllIdle ==
  ASSUME Typed, \A w \in Writers : pc[w] = "idle"
  PROVE  /\ Settled = leader.global_version /\ Unapplied = {}
         /\ ~\E w \in Writers : pc[w] # "idle" /\ job[w].todo = Touched(job[w].cmd)
<1>1. Settled = leader.global_version
  BY DEF Settled
<1>2. Unapplied = {}
  BY DEF Unapplied
<1> QED BY <1>1, <1>2

(* A writer without the mutex is idle.                                     *)
LEMMA UnlockedIdle ==
  ASSUME Serial, wal_lock = None
  PROVE  \A w \in Writers : pc[w] = "idle"
BY WorkloadsAssumption DEF Serial

(* One writer is busy, with the last command.                              *)
LEMMA OneBusy ==
  ASSUME Typed, Serial, NEW w \in Writers, pc[w] # "idle"
  PROVE  /\ \A u \in Writers : u # w => pc[u] = "idle"
         /\ wal_lock = w /\ pc[w] \in {"append", "send", "apply"} /\ ~Handshake
         /\ job[w].cmd = Len(commands) /\ job[w].cmd \in DOMAIN commands
         /\ job[w].cmd \in Nat \ {0} /\ \A c \in DOMAIN commands : c <= job[w].cmd
         /\ commands[job[w].cmd].tx_id = leader.global_version /\ leader.global_version \in Nat \ {0}
         /\ (commands[job[w].cmd].logged <=> pc[w] # "append")
         /\ job[w].todo \subseteq Touched(job[w].cmd) /\ job[w].kind = "none"
         /\ pc[w] # "apply" => job[w].todo = Touched(job[w].cmd)
         /\ Settled = IF pc[w] = "append" THEN leader.global_version - 1 ELSE leader.global_version
         /\ Unapplied = IF pc[w] = "append" THEN {} ELSE job[w].todo
<1>1. /\ commands \in Seq(Command) /\ pc \in [Writers -> Pcs]
      /\ \A u \in Writers : pc[u] \in {"append", "send", "apply"} => job[u].cmd \in DOMAIN commands
  BY TypedFacts
<1>2. /\ wal_lock = w /\ pc[w] # "version" /\ job[w].cmd = Len(commands)
      /\ commands[job[w].cmd].tx_id = leader.global_version
      /\ (commands[job[w].cmd].logged <=> pc[w] # "append")
      /\ job[w].todo \subseteq Touched(job[w].cmd) /\ job[w].kind = "none"
      /\ pc[w] # "apply" => job[w].todo = Touched(job[w].cmd)
      /\ ~Handshake
  BY DEF Serial
<1>3. \A u \in Writers : u # w => pc[u] = "idle"
  BY <1>2 DEF Serial
<1>4. pc[w] \in {"append", "send", "apply"}
  BY <1>1, <1>2 DEF Pcs
<1>5. job[w].cmd \in DOMAIN commands
  BY <1>1, <1>4
<1>6. job[w].cmd \in Nat \ {0} /\ leader.global_version \in Nat \ {0}
  BY <1>1, <1>2, <1>5, CommandFacts
<1>7. \A c \in DOMAIN commands : c <= job[w].cmd
  <2>1. DOMAIN commands = 1..Len(commands) /\ Len(commands) \in Nat
    BY <1>1, LenProperties
  <2> QED BY <1>2, <2>1
<1>8. Settled = IF pc[w] = "append" THEN leader.global_version - 1 ELSE leader.global_version
  BY <1>3 DEF Settled
<1>9. Unapplied = IF pc[w] = "append" THEN {} ELSE job[w].todo
  BY <1>3, <1>4 DEF Unapplied
<1> QED BY <1>2, <1>3, <1>4, <1>5, <1>6, <1>7, <1>8, <1>9

(* No line is cut short then, so the logs are whole.                       *)
LEMMA OrderlyWhole ==
  ASSUME Typed, Orderly
  PROVE  /\ ~Torn /\ Whole(leader.wal) /\ Whole(replica.wal) /\ Readable(leader.wal)
         /\ \A i \in DOMAIN leader.wal : leader.wal[i].ok /\ leader.wal[i].cmd \in DOMAIN commands
         /\ \A i \in DOMAIN stream : stream[i].type = "snapshot" => ~stream[i].unread
<1>1. ~Torn
  BY DEF Orderly, Torn
<1> QED BY <1>1, IntactFacts DEF Whole, Written

(* Where the leader's versions are.                                        *)
LEMMA LeaderFacts ==
  ASSUME Typed, Orderly, BackwardsInv, LeaderOrderly
  PROVE  /\ Settled \in Nat /\ Settled <= leader.global_version
         /\ Cut \in Nat /\ Cut <= Settled
         /\ commands \in Seq(Command) /\ Ascending(commands)
         /\ \A c \in DOMAIN commands : commands[c].logged => commands[c].tx_id <= Settled
         /\ \A c \in DOMAIN commands : c \in Nat \ {0} /\ commands[c].tx_id \in Nat \ {0}
<1>1. /\ leader.global_version \in Nat /\ commands \in Seq(Command) /\ leader.wal \in Seq(Line)
      /\ Whole(leader.wal)
  BY TypedFacts, OrderlyWhole
<1>2. Serial /\ IdsAscend /\ FilesOrderly
  BY DEF LeaderOrderly
<1>3. Settled \in Nat /\ Settled <= leader.global_version
  <2>1. CASE \A w \in Writers : pc[w] = "idle"
    BY <1>1, <2>1, AllIdle
  <2>2. ASSUME NEW w \in Writers, pc[w] # "idle"
        PROVE  Settled \in Nat /\ Settled <= leader.global_version
    <3>1. /\ leader.global_version \in Nat \ {0}
          /\ Settled = IF pc[w] = "append" THEN leader.global_version - 1 ELSE leader.global_version
      BY <1>2, <2>2, OneBusy
    <3> QED BY <3>1
  <2> QED BY <2>1, <2>2
<1>4. \A c \in DOMAIN commands : c \in Nat \ {0} /\ commands[c].tx_id \in Nat \ {0}
  BY <1>1, CommandFacts
<1>5. Ascending(commands) /\ \A c \in DOMAIN commands : commands[c].logged => commands[c].tx_id <= Settled
  BY <1>2 DEF IdsAscend, Ascending
<1>6. Cut \in Nat /\ Cut <= Settled
  <2>1. CASE leader.wal = <<>>
    BY <1>3, <2>1 DEF Cut
  <2>2. CASE leader.wal # <<>>
    <3>1. 1 \in DOMAIN leader.wal
      BY <1>1, <2>2, Tailed
    <3>2. leader.wal[1].cmd \in DOMAIN commands
      BY <1>1, <3>1 DEF Whole, Written
    <3>3. commands[leader.wal[1].cmd].logged /\ commands[leader.wal[1].cmd].tx_id = leader.wal[1].tx_id
      BY <1>2, <3>1 DEF FilesOrderly
    <3>4. leader.wal[1].tx_id \in Nat \ {0} /\ leader.wal[1].tx_id <= Settled
      BY <1>4, <1>5, <3>2, <3>3
    <3> QED BY <1>3, <2>2, <3>4 DEF Cut
  <2> QED BY <2>1, <2>2
<1> QED BY <1>1, <1>3, <1>4, <1>5, <1>6

(* A command that is not in the log yet changes no amount; one that gets   *)
(* into it changes those from its version on.                              *)
LEMMA AmountsAfterFetchAdd ==
  ASSUME commands \in Seq(Command),
         \A c \in DOMAIN commands : c \in DOMAIN commands' /\ commands'[c] = commands[c],
         \A c \in DOMAIN commands' : c \in DOMAIN commands \/ ~commands'[c].logged
  PROVE  \A v, k : Amount(commands', v, k) = Amount(commands, v, k)
<1> SUFFICES ASSUME NEW v, NEW k PROVE Amount(commands', v, k) = Amount(commands, v, k)
  OBVIOUS
<1>1. Carriers(commands, v, k) = Carriers(commands', v, k)
  BY DEF Carriers
<1>2. \A c \in Carriers(commands, v, k) : commands[c].writes[k] = commands'[c].writes[k]
  BY DEF Carriers
<1> QED BY <1>1, <1>2, SameAmount

(* A command that gets into the log changes no amount before its version.  *)
LEMMA AmountsAfterAppend ==
  ASSUME commands \in Seq(Command), DOMAIN commands' = DOMAIN commands, NEW j \in DOMAIN commands,
         \A c \in DOMAIN commands :
           /\ commands'[c].tx_id = commands[c].tx_id /\ commands'[c].writes = commands[c].writes
           /\ (commands'[c].logged <=> c = j \/ commands[c].logged)
  PROVE  \A v \in Nat : \A k : v < commands[j].tx_id => Amount(commands', v, k) = Amount(commands, v, k)
<1> SUFFICES ASSUME NEW v \in Nat, NEW k, v < commands[j].tx_id
             PROVE  Amount(commands', v, k) = Amount(commands, v, k)
  OBVIOUS
<1>1. ~(commands[j].tx_id <= v)
  BY CommandFacts
<1>2. Carriers(commands, v, k) = Carriers(commands', v, k)
  BY <1>1 DEF Carriers
<1>3. \A c \in Carriers(commands, v, k) : commands[c].writes[k] = commands'[c].writes[k]
  BY DEF Carriers
<1> QED BY <1>2, <1>3, SameAmount

(* Logged commands stay logged, and the amounts that are settled stay.     *)
KeepsLogged ==
  /\ \A c \in DOMAIN commands : commands[c].logged =>
       c \in DOMAIN commands' /\ commands'[c].logged /\ commands'[c].tx_id = commands[c].tx_id
  /\ \A v \in Nat : v <= Settled => \A k : Amount(commands', v, k) = Amount(commands, v, k)
  /\ Settled' \in Nat /\ Settled <= Settled'

(* Then what is on the way stays as it should be, and so does the replica. *)
LEMMA StreamKept ==
  ASSUME Typed, Orderly, BackwardsInv, OrderlyParts, UNCHANGED <<setting, stream, replica>>, KeepsLogged
  PROVE  StreamOrderly' /\ ReplicaOrderly'
<1>1. /\ commands \in Seq(Command) /\ stream \in Seq(Payload) /\ StreamTyped /\ replica.global_version \in Nat
  BY TypedFacts
<1>2. LeaderOrderly /\ StreamOrderly /\ ReplicaOrderly
  BY DEF OrderlyParts
<1>3. /\ Settled \in Nat
      /\ \A c \in DOMAIN commands : commands[c].logged => commands[c].tx_id <= Settled
      /\ \A c \in DOMAIN commands : c \in Nat \ {0} /\ commands[c].tx_id \in Nat \ {0}
  BY <1>2, LeaderFacts
<1>4. ReplicaOrderly'
  <2>1. replica.global_version <= Settled
    BY <1>2 DEF ReplicaOrderly
  <2>2. \A k : Amount(commands', replica.global_version, k) = Amount(commands, replica.global_version, k)
    BY <1>1, <2>1 DEF KeepsLogged
  <2>3. replica'.global_version <= Settled'
    BY <1>1, <1>3, <2>1 DEF KeepsLogged
  <2> QED BY <1>2, <2>2, <2>3 DEF ReplicaOrderly
<1>5. ASSUME NEW i \in DOMAIN stream, stream[i].type = "wal"
      PROVE  RecordOrderly(i)'
  <2>1. stream[i].cmd \in DOMAIN commands
    BY <1>1, <1>5 DEF StreamTyped
  <2>2. /\ commands[stream[i].cmd].logged /\ commands[stream[i].cmd].tx_id = stream[i].tx_id
        /\ ZeroBefore(i) => Blank(stream[i].tx_id - 1)
    BY <1>2, <1>5 DEF StreamOrderly, RecordOrderly
  <2>3. stream[i].tx_id - 1 \in Nat /\ stream[i].tx_id - 1 <= Settled
    BY <1>3, <2>1, <2>2
  <2>4. \A k : Amount(commands', stream[i].tx_id - 1, k) = Amount(commands, stream[i].tx_id - 1, k)
    BY <2>3 DEF KeepsLogged
  <2>5. commands'[stream[i].cmd].logged /\ commands'[stream[i].cmd].tx_id = stream[i].tx_id
    BY <2>1, <2>2 DEF KeepsLogged
  <2>6. ZeroBefore(i)' => ZeroBefore(i)
    BY DEF ZeroBefore
  <2>7. Blank(stream[i].tx_id - 1) => Blank(stream[i].tx_id - 1)'
    BY <2>4 DEF Blank
  <2> QED BY <2>2, <2>5, <2>6, <2>7 DEF RecordOrderly
<1>6. ASSUME NEW i \in DOMAIN stream, stream[i].type = "snapshot"
      PROVE  ChunkOrderly(i)'
  <2>1. /\ i = 1 /\ stream[i].max_tx_id <= Settled
        /\ WholeSnapshot(stream[i].records, stream[i].max_tx_id)
        /\ ~Truncates => replica.global_version = 0
    BY <1>2, <1>6 DEF StreamOrderly, ChunkOrderly
  <2>2. stream[i].max_tx_id \in Nat
    <3>1. stream[i] \in Payload
      BY <1>1, ElementOfSeq, LenProperties
    <3> QED BY <1>6, <3>1 DEF Payload
  <2>3. \A k : Amount(commands', stream[i].max_tx_id, k) = Amount(commands, stream[i].max_tx_id, k)
    BY <2>1, <2>2 DEF KeepsLogged
  <2>4. WholeSnapshot(stream[i].records, stream[i].max_tx_id)'
    BY <2>1, <2>3 DEF WholeSnapshot
  <2>5. stream'[i].max_tx_id <= Settled'
    BY <1>3, <2>1, <2>2 DEF KeepsLogged
  <2> QED BY <2>1, <2>4, <2>5 DEF ChunkOrderly, Truncates
<1>7. StreamOrderly'
  BY <1>5, <1>6 DEF StreamOrderly
<1> QED BY <1>4, <1>7

(* And so does a task that subscribed before, if it is told of what is     *)
(* logged now.                                                             *)
LEMMA TaskKept ==
  ASSUME Typed, Orderly, BackwardsInv, OrderlyParts, ~Handshake, UNCHANGED <<setting, stream, replica, task>>,
         KeepsLogged,
         \A c \in DOMAIN commands' : commands'[c].logged =>
           \/ Announced(c)'
           \/ c \in DOMAIN commands /\ commands[c].logged /\ (Announced(c) => Announced(c)'),
         \A i \in DOMAIN task.rx.queue : \A w \in Writers :
           pc'[w] = "send" => task.rx.queue[i] < job'[w].cmd
  PROVE  TaskOrderly'
<1>1. /\ commands \in Seq(Command) /\ TaskTyped /\ task.start \in Nat
  BY TypedFacts
<1>2. LeaderOrderly /\ TaskLogged /\ StreamsFromZero
  BY DEF OrderlyParts, TaskOrderly
<1>3. /\ Settled \in Nat
      /\ \A c \in DOMAIN commands : c \in Nat \ {0} /\ commands[c].tx_id \in Nat \ {0}
  BY <1>2, LeaderFacts
<1>4. task.pc \notin {"read", "check", "snapshot", "visit", "replay", "subscribe"}
  BY DEF Handshake
<1>5. HandshakeOrderly' /\ VisitOrderly'
  BY <1>4 DEF HandshakeOrderly, VisitOrderly
<1>6. TaskLogged'
  <2>1. ASSUME NEW i \in DOMAIN task.records
        PROVE  /\ commands'[task.records[i].cmd].logged
               /\ commands'[task.records[i].cmd].tx_id = task.records[i].tx_id
    <3>1. task.records[i].cmd \in DOMAIN commands
      BY <1>1 DEF TaskTyped, Whole, Written
    <3>2. /\ commands[task.records[i].cmd].logged
          /\ commands[task.records[i].cmd].tx_id = task.records[i].tx_id
      BY <1>2 DEF TaskLogged
    <3> QED BY <3>1, <3>2 DEF KeepsLogged
  <2>2. ASSUME NEW i \in DOMAIN task.rx.queue
        PROVE  commands'[task.rx.queue[i]].logged
    <3>1. task.rx.queue[i] \in DOMAIN commands
      BY <1>1 DEF TaskTyped
    <3>2. commands[task.rx.queue[i]].logged
      BY <1>2 DEF TaskLogged
    <3> QED BY <3>1, <3>2 DEF KeepsLogged
  <2> QED BY <1>2, <2>1, <2>2 DEF TaskLogged
<1>7. StreamsFromZero'
  <2> SUFFICES ASSUME AtZero', task.pc = "stream", ~task.rx.lagged
               PROVE  /\ Blank(task.start)' /\ task.start <= Settled'
                      /\ \A c \in DOMAIN commands' :
                           commands'[c].logged /\ commands'[c].tx_id > task.start => Announced(c)'
    BY <1>4 DEF StreamsFromZero
  <2>1. AtZero
    BY DEF AtZero
  <2>2. /\ Blank(task.start) /\ task.start <= Settled
        /\ \A c \in DOMAIN commands :
             commands[c].logged /\ commands[c].tx_id > task.start => Announced(c)
    BY <1>2, <2>1 DEF StreamsFromZero
  <2>3. Blank(task.start)'
    <3>1. \A k : Amount(commands', task.start, k) = Amount(commands, task.start, k)
      BY <1>1, <2>2 DEF KeepsLogged
    <3> QED BY <2>2, <3>1 DEF Blank
  <2>4. task.start <= Settled'
    BY <1>1, <1>3, <2>2 DEF KeepsLogged
  <2>5. ASSUME NEW c \in DOMAIN commands', commands'[c].logged, commands'[c].tx_id > task.start
        PROVE  Announced(c)'
    <3>1. CASE Announced(c)'
      BY <3>1
    <3>2. CASE c \in DOMAIN commands /\ commands[c].logged /\ (Announced(c) => Announced(c)')
      <4>1. commands[c].tx_id > task.start
        BY <2>5, <3>2 DEF KeepsLogged
      <4> QED BY <2>2, <3>2, <4>1
    <3> QED BY <2>5, <3>1, <3>2
  <2> QED BY <2>3, <2>4, <2>5
<1> QED BY <1>5, <1>6, <1>7 DEF TaskOrderly

(* The commands of an orderly workload.                                    *)
LEMMA OrderlyRequest ==
  ASSUME Typed, Orderly, NEW w \in Writers, Request(w)
  PROVE  \E tx \in BOOLEAN, writes \in Writes :
           /\ LockVersion(w, tx, writes)
           /\ {k \in Keys : writes[k] # "none"} \subseteq setting.keys
           /\ Truncates => /\ \A k \in Keys : writes[k] # "delete"
                           /\ \E k \in Keys : writes[k] = "put"
<1>1. /\ "put" \notin setting.ops /\ "delete" \notin setting.ops
      /\ Truncates => "tx_any" \notin setting.ops
  BY DEF Orderly, Truncates
<1>2. ASSUME NEW k \in setting.keys, CasVersion(w, k)
      PROVE  \E tx \in BOOLEAN, writes \in Writes :
           /\ LockVersion(w, tx, writes)
           /\ {j \in Keys : writes[j] # "none"} \subseteq setting.keys
           /\ Truncates => /\ \A j \in Keys : writes[j] # "delete"
                           /\ \E j \in Keys : writes[j] = "put"
  <2>1. k \in Keys
    BY TypedFacts
  <2>2. One(k, "put") \in Writes
    BY <2>1, OneTyped
  <2>3. LockVersion(w, FALSE, One(k, "put"))
    BY <1>2 DEF CasVersion
  <2>4. \A j \in Keys : One(k, "put")[j] = IF j = k THEN "put" ELSE "none"
    BY DEF One
  <2> QED BY <2>1, <2>2, <2>3, <2>4
<1>3. ASSUME NEW writes \in Writes, TxVersion(w, writes)
      PROVE  /\ LockVersion(w, TRUE, writes)
             /\ {k \in Keys : writes[k] # "none"} \subseteq setting.keys
             /\ Truncates => /\ \A k \in Keys : writes[k] # "delete"
                             /\ \E k \in Keys : writes[k] = "put"
  <2>1. \A k \in Keys : writes[k] \in {"put", "delete", "none"}
    BY DEF Writes
  <2> QED BY <1>1, <1>3, <2>1 DEF TxVersion
<1>4. \/ \E k \in setting.keys : CasVersion(w, k)
      \/ \E writes \in Writes : TxVersion(w, writes)
  BY <1>1 DEF Request, PutVersion, DeleteRemove
<1> QED BY <1>2, <1>3, <1>4

(* A writer takes the mutex and a version.                                 *)
LEMMA LockVersionOrderly ==
  ASSUME Typed, BackwardsInv, Orderly, OrderlyParts, NEW w \in Writers, NEW tx \in BOOLEAN,
         NEW writes \in Writes, LockVersion(w, tx, writes),
         {k \in Keys : writes[k] # "none"} \subseteq setting.keys,
         Truncates => /\ \A k \in Keys : writes[k] # "delete"
                      /\ \E k \in Keys : writes[k] = "put"
  PROVE  OrderlyParts'
<1>1. /\ commands \in Seq(Command) /\ leader.global_version \in Nat /\ leader \in Node
      /\ pc \in [Writers -> Pcs] /\ job \in [Writers -> Job] /\ Whole(leader.wal)
      /\ leader.wal \in Seq(Line)
  BY TypedFacts, OrderlyWhole
<1>2. /\ LeaderOrderly /\ Serial /\ CommandsShaped /\ IdsAscend /\ Backed /\ TreeCovers /\ TreeOrderly
      /\ FilesOrderly
  BY DEF OrderlyParts, LeaderOrderly
<1>3. \A u \in Writers : pc[u] = "idle"
  BY <1>2, UnlockedIdle DEF LockVersion
<1>4. /\ ~Handshake /\ wal_lock' = w /\ UNCHANGED <<setting, task, stream, link, replica>>
      /\ FetchAdd(w, tx, writes) /\ leader' = [leader EXCEPT !.global_version = @ + 1]
  BY DEF LockVersion, Ready, Orderly
<1>5. /\ leader'.global_version = leader.global_version + 1 /\ leader'.tree = leader.tree
      /\ leader'.wal = leader.wal /\ leader'.snapshot = leader.snapshot
  BY <1>1, <1>4 DEF Node
<1>6. /\ commands' \in Seq(Command) /\ Len(commands') = Len(commands) + 1
      /\ \A c \in DOMAIN commands : c \in DOMAIN commands' /\ commands'[c] = commands[c]
      /\ \A c \in DOMAIN commands' : c = Len(commands') \/ c \in DOMAIN commands
      /\ Len(commands') \in DOMAIN commands'
      /\ commands'[Len(commands')] =
           [tx_id |-> leader.global_version + 1, tx |-> tx, writes |-> writes, logged |-> FALSE]
      /\ job' \in [Writers -> Job]
      /\ job'[w].cmd = Len(commands') /\ job'[w].kind = job[w].kind
      /\ job'[w].todo = {k \in Keys : writes[k] # "none"}
      /\ \A u \in Writers : u # w => job'[u] = job[u]
      /\ pc' = [pc EXCEPT ![w] = "append"]
  BY <1>1, <1>4, FetchAdded
<1>7. pc'[w] = "append" /\ \A u \in Writers : u # w => pc'[u] = "idle"
  BY <1>1, <1>3, <1>6
<1>8. Settled = leader.global_version /\ Unapplied = {}
  BY <1>3, AllIdle
<1>9. Settled' = leader.global_version
  <2>1. \E u \in Writers : pc'[u] = "append"
    BY <1>7
  <2>2. Settled' = leader'.global_version - 1
    BY <2>1 DEF Settled
  <2> QED BY <1>1, <1>5, <2>2
<1>10. Unapplied' = {}
  BY <1>7 DEF Unapplied
<1>0. PICK j : j = Len(commands')
  OBVIOUS
<1>11. /\ commands'[j].tx_id = leader.global_version + 1 /\ ~commands'[j].logged
       /\ commands'[j].writes = writes
  BY <1>0, <1>6
<1>12. \A c \in DOMAIN commands' : c \in DOMAIN commands \/ ~commands'[c].logged
  BY <1>0, <1>6, <1>11
<1>13. \A v, k : Amount(commands', v, k) = Amount(commands, v, k)
  BY <1>1, <1>6, <1>12, AmountsAfterFetchAdd
<1>14. \A c \in DOMAIN commands : Touched(c)' = Touched(c)
  BY <1>6 DEF Touched
<1>15. Touched(j)' = {k \in Keys : writes[k] # "none"}
  BY <1>11 DEF Touched
<1>15a. job'[w].todo = Touched(job[w].cmd)'
  <2>1. Touched(job[w].cmd)' = {k \in Keys : commands'[job'[w].cmd].writes[k] # "none"}
    BY DEF Touched
  <2> QED BY <1>0, <1>6, <1>11, <2>1
<1>16. /\ Settled \in Nat /\ \A c \in DOMAIN commands : commands[c].logged => commands[c].tx_id <= Settled
       /\ \A c \in DOMAIN commands : c \in Nat \ {0} /\ commands[c].tx_id \in Nat \ {0}
  BY <1>2, LeaderFacts
<1>17. Serial'
  <2>1. \A u \in Writers : job'[u].kind = "none"
    BY <1>2, <1>6 DEF Serial
  <2>4. Handshake' = Handshake
    BY <1>4 DEF Handshake
  <2>5. /\ commands'[job'[w].cmd].tx_id = leader'.global_version /\ ~commands'[job'[w].cmd].logged
        /\ job'[w].cmd = Len(commands')
    BY <1>0, <1>5, <1>6, <1>11
  <2> QED BY <1>4, <1>7, <1>15a, <2>1, <2>4, <2>5 DEF Serial
<1>18. CommandsShaped'
  <2>1. Truncates' = Truncates /\ setting' = setting
    BY <1>4 DEF Truncates
  <2>2. ASSUME NEW c \in DOMAIN commands
        PROVE  /\ Touched(c)' \subseteq setting.keys
               /\ Truncates => /\ \A k \in Keys : commands'[c].writes[k] # "delete"
                               /\ \E k \in Keys : commands'[c].writes[k] = "put"
    BY <1>2, <1>6, <1>14 DEF CommandsShaped
  <2>3. /\ Touched(j)' \subseteq setting.keys
        /\ Truncates => /\ \A k \in Keys : commands'[j].writes[k] # "delete"
                        /\ \E k \in Keys : commands'[j].writes[k] = "put"
    BY <1>11, <1>15
  <2>4. \A c \in DOMAIN commands' : c = j \/ c \in DOMAIN commands
    BY <1>0, <1>6
  <2> QED BY <2>1, <2>2, <2>3, <2>4 DEF CommandsShaped
<1>19. IdsAscend'
  BY <1>2, <1>6, <1>8, <1>9, <1>12 DEF IdsAscend
<1>20. Backed'
  BY <1>2, <1>5, <1>8, <1>9 DEF Backed
<1>21. TreeCovers'
  <2>1. Truncates => Covers(leader.tree, leader.global_version)
    <3>1. ~\E u \in Writers : pc[u] # "idle" /\ job[u].todo = Touched(job[u].cmd)
      BY <1>3
    <3> QED BY <1>2, <3>1 DEF TreeCovers
  <2>2. \E u \in Writers : pc'[u] # "idle" /\ job'[u].todo = Touched(job[u].cmd)'
    BY <1>7, <1>15a
  <2>3. leader'.global_version - 1 = leader.global_version
    BY <1>1, <1>5
  <2> QED BY <1>4, <1>5, <2>1, <2>2, <2>3 DEF TreeCovers, Truncates
<1>22. TreeOrderly'
  <2>1. \A k \in Keys : Cmd(leader.tree[k]) = Amount(commands, leader.global_version, k)
    BY <1>2, <1>8 DEF TreeOrderly
  <2>2. ASSUME NEW k \in Keys
        PROVE  Amount(commands, leader.global_version, k) = Amount(commands, leader.global_version + 1, k)
    BY <1>1, <1>8, <1>16, AmountBetween
  <2>3. leader.tree' = leader.tree
    BY <1>5
  <2> QED BY <1>5, <1>13, <2>1, <2>2, <2>3 DEF TreeOrderly
<1>23. Cut' = Cut
  BY <1>5, <1>8, <1>9 DEF Cut
<1>24. FilesOrderly'
  <2>1. \A i \in DOMAIN leader.wal : leader.wal[i].cmd \in DOMAIN commands
    BY <1>1 DEF Whole, Written
  <2>2. \A i \in DOMAIN leader.wal : commands'[leader.wal[i].cmd] = commands[leader.wal[i].cmd]
    BY <1>6, <2>1
  <2>3. \A c \in DOMAIN commands' : commands'[c].logged => c \in DOMAIN commands /\ commands'[c] = commands[c]
    BY <1>6, <1>12
  <2> QED BY <1>2, <1>4, <1>5, <1>8, <1>9, <1>13, <1>23, <2>2, <2>3 DEF FilesOrderly, Truncates
<1>25. KeepsLogged
  <2>1. Settled' \in Nat /\ Settled <= Settled'
    BY <1>1, <1>8, <1>9
  <2> QED BY <1>6, <1>13, <2>1 DEF KeepsLogged
<1>26. StreamOrderly' /\ ReplicaOrderly'
  BY <1>4, <1>25, StreamKept
<1>27. ASSUME NEW c, Announced(c) PROVE Announced(c)'
  BY <1>3, <1>4, <1>27 DEF Announced
<1>28. TaskOrderly'
  <2>1. \A c \in DOMAIN commands' : commands'[c].logged =>
           \/ Announced(c)'
           \/ c \in DOMAIN commands /\ commands[c].logged /\ (Announced(c) => Announced(c)')
    BY <1>6, <1>12, <1>27
  <2>2. \A i \in DOMAIN task.rx.queue : \A u \in Writers :
           pc'[u] = "send" => task.rx.queue[i] < job'[u].cmd
    BY <1>7
  <2> QED BY <1>4, <1>25, <2>1, <2>2, TaskKept
<1> QED BY <1>17, <1>18, <1>19, <1>20, <1>21, <1>22, <1>24, <1>26, <1>28 DEF OrderlyParts, LeaderOrderly

(* Its command gets into the log.                                          *)
LEMMA LogAppendOrderly ==
  ASSUME Typed, BackwardsInv, Orderly, OrderlyParts, NEW w \in Writers, LogAppend(w)
  PROVE  OrderlyParts'
<1>1. /\ commands \in Seq(Command) /\ leader.global_version \in Nat /\ leader \in Node
      /\ pc \in [Writers -> Pcs] /\ job \in [Writers -> Job] /\ Whole(leader.wal)
      /\ leader.wal \in Seq(Line) /\ TaskTyped
  BY TypedFacts, OrderlyWhole
<1>2. /\ LeaderOrderly /\ Serial /\ CommandsShaped /\ IdsAscend /\ Backed /\ TreeCovers /\ TreeOrderly
      /\ FilesOrderly
  BY DEF OrderlyParts, LeaderOrderly
<1>3. /\ pc[w] = "append" /\ pc' = [pc EXCEPT ![w] = "send"]
      /\ UNCHANGED <<setting, wal_lock, job, task, stream, link, replica>>
  BY DEF LogAppend
<1>4. pc'[w] = "send" /\ \A u \in Writers : u # w => pc'[u] = pc[u]
  BY <1>1, <1>3
<1>5. PICK j : j = job[w].cmd
  OBVIOUS
<1>6. /\ \A u \in Writers : u # w => pc[u] = "idle"
      /\ wal_lock = w /\ ~Handshake
      /\ j = Len(commands) /\ j \in DOMAIN commands
      /\ j \in Nat \ {0} /\ \A c \in DOMAIN commands : c <= j
      /\ commands[j].tx_id = leader.global_version /\ leader.global_version \in Nat \ {0}
      /\ ~commands[j].logged
      /\ job[w].kind = "none" /\ job[w].todo = Touched(j)
      /\ Settled = leader.global_version - 1
      /\ Unapplied = {}
  BY <1>2, <1>3, <1>5, OneBusy
<1>7. /\ commands' \in Seq(Command) /\ DOMAIN commands' = DOMAIN commands
      /\ \A c \in DOMAIN commands :
           /\ commands'[c].tx_id = commands[c].tx_id /\ commands'[c].tx = commands[c].tx
           /\ commands'[c].writes = commands[c].writes
           /\ (commands'[c].logged <=> c = j \/ commands[c].logged)
      /\ leader'.wal = Append(leader.wal, Envelope(leader.global_version, j))
      /\ Envelope(leader.global_version, j) \in Line
      /\ leader'.tree = leader.tree /\ leader'.snapshot = leader.snapshot
      /\ leader'.global_version = leader.global_version
  BY <1>1, <1>5, <1>6, LogAppended
<1>8. /\ \A c \in DOMAIN commands : commands[c].logged => commands[c].tx_id <= leader.global_version - 1
      /\ \A c \in DOMAIN commands : c \in Nat \ {0} /\ commands[c].tx_id \in Nat \ {0}
      /\ Cut \in Nat /\ Cut <= leader.global_version - 1
      /\ Ascending(commands) /\ Settled \in Nat
  BY <1>2, <1>6, LeaderFacts
<1>9. \A u \in Writers : pc'[u] # "append"
  BY <1>4, <1>6
<1>10. Settled' = leader.global_version
  BY <1>7, <1>9 DEF Settled
<1>11. Unapplied' = Touched(j)
  <2>1. \A u \in Writers : u # w => pc'[u] = "idle"
    BY <1>4, <1>6
  <2>2. Unapplied' = job'[w].todo
    BY <1>4, <2>1 DEF Unapplied
  <2> QED BY <1>3, <1>6, <2>2
<1>12. \A v \in Nat : \A k : v < leader.global_version => Amount(commands', v, k) = Amount(commands, v, k)
  <2>1. /\ commands \in Seq(Command) /\ DOMAIN commands' = DOMAIN commands /\ j \in DOMAIN commands
        /\ \A c \in DOMAIN commands :
             /\ commands'[c].tx_id = commands[c].tx_id /\ commands'[c].writes = commands[c].writes
             /\ (commands'[c].logged <=> c = j \/ commands[c].logged)
    BY <1>1, <1>6, <1>7
  <2>2. \A v \in Nat : \A k : v < commands[j].tx_id => Amount(commands', v, k) = Amount(commands, v, k)
    BY <2>1, AmountsAfterAppend
  <2> QED BY <1>6, <2>2
<1>13. \A c \in DOMAIN commands : Touched(c)' = Touched(c)
  BY <1>7 DEF Touched
<1>14. \A c \in DOMAIN commands : c # j => c < j
  BY <1>6, <1>8
<1>15. Serial'
  <2>1. Touched(job[w].cmd)' = Touched(j)
    <3>1. job' = job
      BY <1>3
    <3>2. Touched(job[w].cmd)' = {k \in Keys : commands'[j].writes[k] # "none"}
      BY <1>5, <3>1 DEF Touched
    <3> QED BY <1>6, <1>7, <3>2 DEF Touched
  <2>2. Len(commands') = Len(commands)
    <3>1. /\ Len(commands) \in Nat /\ DOMAIN commands = 1..Len(commands)
          /\ Len(commands') \in Nat /\ DOMAIN commands' = 1..Len(commands')
      BY <1>1, <1>7, LenProperties
    <3>2. Len(commands) \in DOMAIN commands'
      BY <1>6, <1>7
    <3>3. Len(commands') \in DOMAIN commands
      BY <1>6, <1>7, <3>1, <3>2
    <3>4. Len(commands) \in 1..Len(commands')
      BY <3>1, <3>2
    <3>5. Len(commands') \in 1..Len(commands)
      BY <3>1, <3>3
    <3>6. \A a, b \in Nat : a \in 1..b /\ b \in 1..a => a = b
      OBVIOUS
    <3> QED BY <3>1, <3>4, <3>5, <3>6
  <2>3. Handshake' = Handshake
    BY <1>3 DEF Handshake
  <2>4. /\ commands'[job'[w].cmd].tx_id = leader'.global_version /\ commands'[job'[w].cmd].logged
        /\ job'[w].cmd = Len(commands')
    BY <1>3, <1>5, <1>6, <1>7, <2>2
  <2>5. \A u \in Writers : job'[u].kind = "none"
    BY <1>2, <1>3 DEF Serial
  <2>6. job'[w].todo = Touched(job[w].cmd)' /\ wal_lock' = w
    BY <1>3, <1>6, <2>1
  <2>7. \A u \in Writers : u # w => pc'[u] = "idle"
    BY <1>4, <1>6
  <2> QED BY <1>4, <1>6, <2>3, <2>4, <2>5, <2>6, <2>7 DEF Serial
<1>16. CommandsShaped'
  <2>1. setting' = setting /\ Truncates' = Truncates
    BY <1>3 DEF Truncates
  <2> QED BY <1>2, <1>7, <1>13, <2>1 DEF CommandsShaped
<1>17. IdsAscend'
  <2> SUFFICES ASSUME NEW c \in DOMAIN commands', commands'[c].logged
               PROVE  /\ commands'[c].tx_id <= Settled'
                      /\ \A d \in DOMAIN commands' :
                           commands'[d].logged /\ c < d => commands'[c].tx_id < commands'[d].tx_id
    BY DEF IdsAscend
  <2>1. c \in DOMAIN commands /\ (c = j \/ commands[c].logged)
    BY <1>7
  <2>2. commands'[c].tx_id <= Settled'
    BY <1>6, <1>7, <1>8, <1>10, <2>1
  <2>3. ASSUME NEW d \in DOMAIN commands', commands'[d].logged, c < d
        PROVE  commands'[c].tx_id < commands'[d].tx_id
    <3>1. d \in DOMAIN commands /\ (d = j \/ commands[d].logged) /\ c # j
      BY <1>6, <1>7, <1>8, <2>1, <2>3
    <3>2. CASE d = j
      BY <1>6, <1>7, <1>8, <2>1, <3>1, <3>2
    <3>3. CASE d # j
      BY <1>7, <1>8, <2>1, <2>3, <3>1, <3>3 DEF Ascending
    <3> QED BY <3>2, <3>3
  <2> QED BY <2>2, <2>3
(* The log, one line longer.                                               *)
<1>18. /\ leader'.wal \in Seq(Line) /\ leader'.wal # <<>> /\ Len(leader'.wal) = Len(leader.wal) + 1
       /\ \A i \in DOMAIN leader'.wal :
            \/ leader'.wal[i].cmd = j /\ leader'.wal[i].tx_id = leader.global_version /\ i = Len(leader.wal) + 1
            \/ i \in DOMAIN leader.wal /\ leader'.wal[i] = leader.wal[i]
       /\ \A i \in DOMAIN leader.wal : i \in DOMAIN leader'.wal /\ leader'.wal[i] = leader.wal[i]
       /\ Len(leader.wal) + 1 \in DOMAIN leader'.wal
       /\ leader'.wal[Len(leader.wal) + 1].cmd = j
       /\ leader'.wal[Len(leader.wal) + 1].tx_id = leader.global_version
  <2> DEFINE e == Envelope(leader.global_version, j)
  <2>1. e.cmd = j /\ e.tx_id = leader.global_version
    BY DEF Envelope
  <2> HIDE DEF e
  <2>2. leader'.wal = Append(leader.wal, e) /\ e \in Line
    BY <1>7 DEF e
  <2> QED BY <1>1, <2>1, <2>2, Appended
<1>19. Backed'
  BY <1>6, <1>10, <1>18 DEF Backed
<1>20. TreeCovers'
  <2>1. (\E u \in Writers : pc'[u] # "idle" /\ job'[u].todo = Touched(job[u].cmd)')
    <3>1. Touched(job[w].cmd)' = {k \in Keys : commands'[j].writes[k] # "none"}
      BY <1>3, <1>5 DEF Touched
    <3>2. Touched(job[w].cmd)' = Touched(j)
      BY <1>6, <1>7, <3>1 DEF Touched
    <3> QED BY <1>3, <1>4, <1>6, <3>2
  <2>2. \E u \in Writers : pc[u] # "idle" /\ job[u].todo = Touched(job[u].cmd)
    BY <1>3, <1>5, <1>6
  <2>3. setting' = setting
    BY <1>3
  <2> QED BY <1>2, <1>7, <2>1, <2>2, <2>3 DEF TreeCovers, Truncates
<1>21. Ascending(commands')
  BY <1>17 DEF IdsAscend, Ascending
<1>22. TreeOrderly'
  <2> SUFFICES ASSUME NEW k \in Keys, k \notin Touched(j)
               PROVE  Cmd(leader.tree[k]) = Amount(commands', leader.global_version, k)
    BY <1>7, <1>11 DEF TreeOrderly
  <2>1. commands'[j].writes[k] = "none"
    BY <1>6, <1>7 DEF Touched
  <2>2. Amount(commands', leader.global_version, k) = Amount(commands', leader.global_version - 1, k)
    <3>1. j \in DOMAIN commands' /\ commands'[j].logged /\ commands'[j].tx_id = leader.global_version
      BY <1>6, <1>7
    <3> QED BY <1>7, <1>21, <2>1, <3>1, AmountNext
  <2>3. Amount(commands', leader.global_version - 1, k) = Amount(commands, leader.global_version - 1, k)
    BY <1>6, <1>12
  <2>4. Amount(commands, leader.global_version - 1, k) = Amount(commands, leader.global_version, k)
    <3>1. leader.global_version - 1 \in Nat /\ leader.global_version - 1 <= leader.global_version
      BY <1>6
    <3> QED BY <1>1, <1>8, <3>1, AmountBetween
  <2>5. Cmd(leader.tree[k]) = Amount(commands, leader.global_version, k)
    BY <1>2, <1>6 DEF TreeOrderly
  <2> QED BY <2>2, <2>3, <2>4, <2>5
<1>23. Cut' = Cut
  <2>1. CASE leader.wal = <<>>
    <3>1. Len(leader.wal) = 0
      BY <2>1
    <3>2. leader'.wal[1].tx_id = leader.global_version
      BY <1>18, <3>1
    <3> QED BY <1>6, <1>18, <2>1, <3>2 DEF Cut
  <2>2. CASE leader.wal # <<>>
    <3>1. 1 \in DOMAIN leader.wal
      BY <1>1, <2>2, Tailed
    <3> QED BY <1>18, <2>2, <3>1 DEF Cut
  <2> QED BY <2>1, <2>2
<1>24. FilesOrderly'
  <2>1. \A i \in DOMAIN leader.wal :
          /\ leader.wal[i].cmd \in DOMAIN commands /\ commands[leader.wal[i].cmd].logged
          /\ commands[leader.wal[i].cmd].tx_id = leader.wal[i].tx_id
          /\ \A h \in 1..(i - 1) : leader.wal[h].cmd < leader.wal[i].cmd
    BY <1>1, <1>2 DEF Whole, Written, FilesOrderly
  <2>2. \A i \in DOMAIN leader.wal : leader.wal[i].cmd < j
    BY <1>6, <1>14, <2>1
  <2>3. /\ DOMAIN leader.wal = 1..Len(leader.wal) /\ Len(leader.wal) \in Nat
    BY <1>1, LenProperties
  <2>4. ASSUME NEW i \in DOMAIN leader'.wal
        PROVE  /\ commands'[leader'.wal[i].cmd].logged
               /\ commands'[leader'.wal[i].cmd].tx_id = leader'.wal[i].tx_id
               /\ \A h \in 1..(i - 1) : leader'.wal[h].cmd < leader'.wal[i].cmd
    <3>1. CASE i \in DOMAIN leader.wal /\ leader'.wal[i] = leader.wal[i]
      <4>1. \A h \in 1..(i - 1) : h \in DOMAIN leader.wal
        BY <2>3, <3>1
      <4>2. \A h \in 1..(i - 1) : leader'.wal[h] = leader.wal[h]
        BY <1>18, <4>1
      <4> QED BY <1>7, <2>1, <3>1, <4>2
    <3>2. CASE leader'.wal[i].cmd = j /\ leader'.wal[i].tx_id = leader.global_version /\ i = Len(leader.wal) + 1
      <4>1. \A h \in 1..(i - 1) : h \in DOMAIN leader.wal
        BY <2>3, <3>2
      <4>2. \A h \in 1..(i - 1) : leader'.wal[h] = leader.wal[h]
        BY <1>18, <4>1
      <4> QED BY <1>6, <1>7, <2>2, <3>2, <4>1, <4>2
    <3> QED BY <1>18, <3>1, <3>2
  <2>5. ASSUME NEW c \in DOMAIN commands', commands'[c].logged, commands'[c].tx_id > Cut
        PROVE  \E i \in DOMAIN leader'.wal : leader'.wal[i].cmd = c
    <3>1. CASE c = j
      BY <1>18, <3>1
    <3>2. CASE c # j
      <4>1. c \in DOMAIN commands /\ commands[c].logged /\ commands[c].tx_id > Cut
        BY <1>7, <2>5, <3>2
      <4>2. PICK i \in DOMAIN leader.wal : leader.wal[i].cmd = c
        BY <1>2, <4>1 DEF FilesOrderly
      <4> QED BY <1>18, <4>2
    <3> QED BY <3>1, <3>2
  <2>6. \A k \in Keys : Cmd(leader.snapshot[k]) = Amount(commands', Cut, k)
    <3>1. Cut \in Nat /\ Cut < leader.global_version
      BY <1>6, <1>8
    <3>2. \A k \in Keys : Amount(commands', Cut, k) = Amount(commands, Cut, k)
      BY <1>12, <3>1
    <3> QED BY <1>2, <3>2 DEF FilesOrderly
  <2>7. ASSUME ~Truncates
        PROVE  /\ leader.snapshot = EmptyStore
               /\ Settled' = Len(leader'.wal)
               /\ \A i \in DOMAIN leader'.wal : leader'.wal[i].tx_id = i
    <3>1. /\ leader.snapshot = EmptyStore /\ Settled = Len(leader.wal)
          /\ \A i \in DOMAIN leader.wal : leader.wal[i].tx_id = i
      BY <1>2, <2>7 DEF FilesOrderly
    <3>2. leader.global_version = Len(leader.wal) + 1
      BY <1>6, <3>1
    <3> QED BY <1>10, <1>18, <3>1, <3>2
  <2>8. Truncates' = Truncates
    BY <1>3 DEF Truncates
  <2> QED BY <1>7, <1>23, <2>4, <2>5, <2>6, <2>7, <2>8 DEF FilesOrderly
<1>25. KeepsLogged
  <2>1. Settled' \in Nat /\ Settled <= Settled' /\ \A v \in Nat : v <= Settled => v < leader.global_version
    BY <1>6, <1>10
  <2> QED BY <1>7, <1>12, <2>1 DEF KeepsLogged
<1>26. StreamOrderly' /\ ReplicaOrderly'
  BY <1>3, <1>25, StreamKept
<1>27. TaskOrderly'
  <2>1. ASSUME NEW c \in DOMAIN commands', commands'[c].logged
        PROVE  \/ Announced(c)'
               \/ c \in DOMAIN commands /\ commands[c].logged /\ (Announced(c) => Announced(c)')
    <3>1. CASE c = j
      <4>1. pc'[w] = "send" /\ job'[w].cmd = c
        BY <1>3, <1>4, <1>5, <3>1
      <4> QED BY <4>1 DEF Announced
    <3>2. CASE c # j
      <4>1. c \in DOMAIN commands /\ commands[c].logged
        BY <1>7, <2>1, <3>2
      <4>2. \A u \in Writers : pc[u] # "send"
        BY <1>3, <1>6
      <4>3. Announced(c) => Announced(c)'
        BY <1>3, <4>2 DEF Announced
      <4> QED BY <4>1, <4>3
    <3> QED BY <3>1, <3>2
  <2>2. ASSUME NEW i \in DOMAIN task.rx.queue, NEW u \in Writers, pc'[u] = "send"
        PROVE  task.rx.queue[i] < job'[u].cmd
    <3>1. u = w
      BY <1>4, <1>6, <2>2
    <3>2. task.rx.queue[i] \in DOMAIN commands /\ commands[task.rx.queue[i]].logged
      BY <1>1 DEF TaskTyped, OrderlyParts, TaskOrderly, TaskLogged
    <3> QED BY <1>3, <1>5, <1>6, <1>14, <3>1, <3>2
  <2> QED BY <1>3, <1>6, <1>25, <2>1, <2>2, TaskKept
<1> QED BY <1>15, <1>16, <1>17, <1>19, <1>20, <1>22, <1>24, <1>26, <1>27 DEF OrderlyParts, LeaderOrderly

(* Nothing in the commands and the files changes.                          *)
LEMMA FilesKept ==
  ASSUME LeaderOrderly, UNCHANGED <<setting, commands>>, leader'.wal = leader.wal,
         leader'.snapshot = leader.snapshot, Settled' = Settled
  PROVE  CommandsShaped' /\ IdsAscend' /\ Backed' /\ FilesOrderly'
<1>1. CommandsShaped /\ IdsAscend /\ Backed /\ FilesOrderly
  BY DEF LeaderOrderly
<1>2. Truncates' = Truncates
  BY DEF Truncates
<1>3. Cut' = Cut
  BY DEF Cut
<1>4. \A c : Touched(c)' = Touched(c)
  BY DEF Touched
<1>5. CommandsShaped'
  BY <1>1, <1>2, <1>4 DEF CommandsShaped
<1>6. IdsAscend'
  BY <1>1 DEF IdsAscend
<1>7. Backed'
  BY <1>1 DEF Backed
<1>8. FilesOrderly'
  BY <1>1, <1>2, <1>3 DEF FilesOrderly
<1> QED BY <1>5, <1>6, <1>7, <1>8

(* Nothing in the commands changes.                                        *)
LEMMA LoggedKept ==
  ASSUME Typed, Orderly, BackwardsInv, LeaderOrderly, commands' = commands, Settled' = Settled
  PROVE  KeepsLogged
<1>1. Settled \in Nat
  BY LeaderFacts
<1> QED BY <1>1 DEF KeepsLogged

(* A message that the channel takes.                                       *)
LEMMA ReceivedLast ==
  ASSUME NEW rx \in Receivers, NEW c \in Nat \ {0}
  PROVE  /\ \A i \in DOMAIN Sync!Received(rx, c).queue :
              \/ Sync!Received(rx, c).queue[i] = c
              \/ \E h \in DOMAIN rx.queue : Sync!Received(rx, c).queue[i] = rx.queue[h]
         /\ (\A i \in DOMAIN rx.queue : rx.queue[i] < c /\ \A h \in 1..(i - 1) : rx.queue[h] < rx.queue[i]) =>
              \A i \in DOMAIN Sync!Received(rx, c).queue : \A h \in 1..(i - 1) :
                Sync!Received(rx, c).queue[h] < Sync!Received(rx, c).queue[i]
         /\ ~Sync!Received(rx, c).lagged =>
              /\ ~rx.lagged
              /\ \E i \in DOMAIN Sync!Received(rx, c).queue : Sync!Received(rx, c).queue[i] = c
              /\ \A h \in DOMAIN rx.queue : \E i \in DOMAIN Sync!Received(rx, c).queue :
                   Sync!Received(rx, c).queue[i] = rx.queue[h]
<1> DEFINE q == Sync!Received(rx, c).queue
           l == Sync!Received(rx, c).lagged
<1>1. rx.queue \in Seq(Nat \ {0}) /\ rx.lagged \in BOOLEAN /\ rx = [queue |-> rx.queue, lagged |-> rx.lagged]
  BY DEF Receivers
<1>2. CASE Len(rx.queue) < SyncCapacity
  <2>1. q = Append(rx.queue, c) /\ l = rx.lagged
    BY <1>1, <1>2 DEF Sync!Received
  <2>2. /\ \A i \in DOMAIN q : (q[i] = c /\ i = Len(rx.queue) + 1) \/ (i \in DOMAIN rx.queue /\ q[i] = rx.queue[i])
        /\ \A i \in DOMAIN rx.queue : i \in DOMAIN q /\ q[i] = rx.queue[i]
        /\ Len(rx.queue) + 1 \in DOMAIN q /\ q[Len(rx.queue) + 1] = c
    BY <1>1, <2>1, Appended
  <2>3. DOMAIN rx.queue = 1..Len(rx.queue) /\ Len(rx.queue) \in Nat
    BY <1>1, LenProperties
  <2> HIDE DEF q, l
  <2>4. ASSUME \A i \in DOMAIN rx.queue : rx.queue[i] < c /\ \A h \in 1..(i - 1) : rx.queue[h] < rx.queue[i],
               NEW i \in DOMAIN q, NEW h \in 1..(i - 1)
        PROVE  q[h] < q[i]
    <3>1. h \in DOMAIN rx.queue
      BY <2>2, <2>3
    <3> QED BY <2>2, <2>4, <3>1
  <2> QED BY <2>1, <2>2, <2>4 DEF q, l
<1>3. CASE ~(Len(rx.queue) < SyncCapacity)
  <2>1. q = Append(Tail(rx.queue), c) /\ l = TRUE
    BY <1>3 DEF Sync!Received
  <2>2. rx.queue # <<>>
    <3>1. Len(<<>>) = 0 /\ 0 < SyncCapacity
      BY WorkloadsAssumption
    <3> QED BY <1>3, <3>1
  <2>0. PICK t : t = Tail(rx.queue)
    OBVIOUS
  <2>3. /\ t \in Seq(Nat \ {0})
        /\ \A i \in DOMAIN t : i + 1 \in DOMAIN rx.queue /\ t[i] = rx.queue[i + 1] /\ i \in Nat \ {0}
    BY <1>1, <2>0, <2>2, Tailed
  <2>4. /\ \A i \in DOMAIN q : (q[i] = c /\ i = Len(t) + 1) \/ (i \in DOMAIN t /\ q[i] = t[i])
        /\ \A i \in DOMAIN t : i \in DOMAIN q /\ q[i] = t[i]
    <3>1. q = Append(t, c)
      BY <2>0, <2>1
    <3> HIDE DEF q, l
    <3> QED BY <2>3, <3>1, Appended
  <2>5. DOMAIN t = 1..Len(t) /\ Len(t) \in Nat
    BY <2>3, LenProperties
  <2> HIDE DEF q, l
  <2>6. ASSUME \A i \in DOMAIN rx.queue : rx.queue[i] < c /\ \A h \in 1..(i - 1) : rx.queue[h] < rx.queue[i],
               NEW i \in DOMAIN q, NEW h \in 1..(i - 1)
        PROVE  q[h] < q[i]
    <3>1. h \in DOMAIN t
      BY <2>4, <2>5
    <3>2. h + 1 \in DOMAIN rx.queue /\ q[h] = rx.queue[h + 1]
      BY <2>3, <2>4, <3>1
    <3>3. CASE q[i] = c
      BY <2>6, <3>2, <3>3
    <3>4. CASE i \in DOMAIN t /\ q[i] = t[i]
      <4>1. i + 1 \in DOMAIN rx.queue /\ q[i] = rx.queue[i + 1] /\ h + 1 \in 1..((i + 1) - 1)
        BY <2>3, <2>5, <3>4
      <4> QED BY <2>6, <3>2, <4>1
    <3> QED BY <2>4, <3>3, <3>4
  <2>7. \A i \in DOMAIN q : q[i] = c \/ \E h \in DOMAIN rx.queue : q[i] = rx.queue[h]
    BY <2>3, <2>4
  <2> QED BY <2>1, <2>6, <2>7 DEF q, l
<1> QED BY <1>2, <1>3

(* It is sent to the task.                                                 *)
LEMMA SyncSendOrderly ==
  ASSUME Typed, BackwardsInv, Orderly, OrderlyParts, NEW w \in Writers, SyncSend(w)
  PROVE  OrderlyParts'
<1>1. /\ commands \in Seq(Command) /\ leader.global_version \in Nat
      /\ pc \in [Writers -> Pcs] /\ job \in [Writers -> Job]
      /\ TaskTyped /\ task \in Task /\ task.rx \in Receivers
  BY TypedFacts
<1>2. /\ LeaderOrderly /\ Serial /\ TreeCovers /\ TreeOrderly /\ TaskLogged /\ StreamsFromZero
  BY DEF OrderlyParts, LeaderOrderly, TaskOrderly
<1>3. /\ pc[w] = "send" /\ pc' = [pc EXCEPT ![w] = "apply"]
      /\ UNCHANGED <<setting, commands, leader, wal_lock, stream, link, replica>>
      /\ task' = IF task.pc = "stream" THEN [task EXCEPT !.rx = Sync!Received(@, job[w].cmd)] ELSE task
  BY DEF SyncSend
<1>4. pc'[w] = "apply" /\ \A u \in Writers : u # w => pc'[u] = pc[u]
  BY <1>1, <1>3
<1>5. PICK j : j = job[w].cmd
  OBVIOUS
<1>6. /\ \A u \in Writers : u # w => pc[u] = "idle"
      /\ wal_lock = w /\ ~Handshake
      /\ j = Len(commands) /\ j \in DOMAIN commands /\ j \in Nat \ {0}
      /\ commands[j].tx_id = leader.global_version /\ commands[j].logged
      /\ job[w].kind = "none" /\ job[w].todo = Touched(j)
      /\ Settled = leader.global_version /\ Unapplied = job[w].todo
  BY <1>2, <1>3, <1>5, OneBusy
<1>7. job' = job
  <2>1. job' = [job EXCEPT ![w].todo = job[w].todo]
    BY <1>6 DEF SyncSend
  <2> QED BY <1>1, <2>1 DEF Job
<1>8. Settled' = Settled
  <2>1. \A u \in Writers : pc'[u] # "append"
    BY <1>4, <1>6
  <2> QED BY <1>3, <1>6, <2>1 DEF Settled
<1>9. CommandsShaped' /\ IdsAscend' /\ Backed' /\ FilesOrderly'
  BY <1>2, <1>3, <1>8, FilesKept
<1>10. \A c : Touched(c)' = Touched(c)
  BY <1>3 DEF Touched
<1>11. task'.pc = task.pc
  BY <1>1, <1>3 DEF Task
<1>12. Serial'
  <2>1. Handshake' = Handshake
    BY <1>11 DEF Handshake
  <2>2. \A u \in Writers : u # w => pc'[u] = "idle"
    BY <1>4, <1>6
  <2>3. Touched(job[w].cmd)' = Touched(j)
    BY <1>3, <1>5, <1>7 DEF Touched
  <2> QED BY <1>2, <1>3, <1>4, <1>5, <1>6, <1>7, <2>1, <2>2, <2>3 DEF Serial
<1>13. Unapplied' = Unapplied
  <2>1. \A u \in Writers : u # w => pc'[u] = "idle"
    BY <1>4, <1>6
  <2>2. Unapplied' = job'[w].todo
    BY <1>4, <2>1 DEF Unapplied
  <2> QED BY <1>6, <1>7, <2>2
<1>14. TreeOrderly'
  BY <1>2, <1>3, <1>13 DEF TreeOrderly
<1>15. TreeCovers'
  <2>1. \E u \in Writers : pc[u] # "idle" /\ job[u].todo = Touched(job[u].cmd)
    BY <1>3, <1>5, <1>6
  <2>2. \E u \in Writers : pc'[u] # "idle" /\ job'[u].todo = Touched(job[u].cmd)'
    <3>1. Touched(job[w].cmd)' = Touched(j)
      BY <1>3, <1>5, <1>7 DEF Touched
    <3> QED BY <1>4, <1>6, <1>7, <3>1
  <2> QED BY <1>2, <1>3, <2>1, <2>2 DEF TreeCovers, Truncates
<1>16. KeepsLogged
  BY <1>2, <1>3, <1>8, LoggedKept
<1>17. StreamOrderly' /\ ReplicaOrderly'
  BY <1>3, <1>16, StreamKept
<1>18. \A u \in Writers : pc'[u] # "send"
  BY <1>4, <1>6
<1>19. CASE task.pc # "stream"
  <2>1. task.pc \notin {"read", "check", "snapshot", "visit", "replay", "subscribe", "stream"} /\ task' = task
    BY <1>3, <1>6, <1>19 DEF Handshake
  <2>2. HandshakeOrderly' /\ VisitOrderly' /\ StreamsFromZero'
    BY <2>1 DEF HandshakeOrderly, VisitOrderly, StreamsFromZero
  <2>3. TaskLogged'
    BY <1>2, <1>3, <1>18, <2>1 DEF TaskLogged
  <2> QED BY <1>9, <1>12, <1>14, <1>15, <1>17, <2>2, <2>3 DEF OrderlyParts, LeaderOrderly, TaskOrderly
<1>20. CASE task.pc = "stream"
  <2>1. task' = [task EXCEPT !.rx = Sync!Received(task.rx, j)]
    BY <1>3, <1>5, <1>20
  <2>2. task'.rx = Sync!Received(task.rx, j) /\ task'.records = task.records /\ task'.start = task.start
    BY <1>1, <2>1 DEF Task
  <2>3. HandshakeOrderly' /\ VisitOrderly'
    BY <1>11, <1>20 DEF HandshakeOrderly, VisitOrderly
  <2>4. \A i \in DOMAIN task.rx.queue : task.rx.queue[i] < j /\ \A h \in 1..(i - 1) : task.rx.queue[h] < task.rx.queue[i]
    BY <1>2, <1>3, <1>5 DEF TaskLogged
  <2>5. /\ \A i \in DOMAIN task'.rx.queue :
              task'.rx.queue[i] = j \/ \E h \in DOMAIN task.rx.queue : task'.rx.queue[i] = task.rx.queue[h]
        /\ \A i \in DOMAIN task'.rx.queue : \A h \in 1..(i - 1) : task'.rx.queue[h] < task'.rx.queue[i]
        /\ ~task'.rx.lagged =>
              /\ ~task.rx.lagged
              /\ \E i \in DOMAIN task'.rx.queue : task'.rx.queue[i] = j
              /\ \A h \in DOMAIN task.rx.queue : \E i \in DOMAIN task'.rx.queue : task'.rx.queue[i] = task.rx.queue[h]
    BY <1>1, <1>6, <2>2, <2>4, ReceivedLast
  <2>6. TaskLogged'
    <3>1. \A i \in DOMAIN task.rx.queue : commands[task.rx.queue[i]].logged
      BY <1>2 DEF TaskLogged
    <3>2. \A i \in DOMAIN task'.rx.queue : commands[task'.rx.queue[i]].logged
      BY <1>6, <2>5, <3>1
    <3>3. \A i \in DOMAIN task.records :
             /\ commands[task.records[i].cmd].logged
             /\ commands[task.records[i].cmd].tx_id = task.records[i].tx_id
      BY <1>2 DEF TaskLogged
    <3> QED BY <1>3, <1>18, <2>2, <2>5, <3>2, <3>3 DEF TaskLogged
  <2>7. StreamsFromZero'
    <3> SUFFICES ASSUME AtZero', ~task'.rx.lagged
                 PROVE  /\ Blank(task.start)' /\ task.start <= Settled'
                        /\ \A c \in DOMAIN commands :
                             commands[c].logged /\ commands[c].tx_id > task.start => Announced(c)'
      BY <1>3, <1>11, <1>20, <2>2 DEF StreamsFromZero, Blank
    <3>1. AtZero
      BY <1>3 DEF AtZero
    <3>2. /\ Blank(task.start) /\ task.start <= Settled
          /\ \A c \in DOMAIN commands :
               commands[c].logged /\ commands[c].tx_id > task.start => Announced(c)
      BY <1>2, <1>20, <2>5, <3>1 DEF StreamsFromZero
    <3>3. Blank(task.start)'
      BY <1>3, <2>2, <3>2 DEF Blank
    <3>4. ASSUME NEW c, Announced(c) PROVE Announced(c)'
      <4>1. c = j \/ \E h \in DOMAIN task.rx.queue : task.rx.queue[h] = c
        BY <1>5, <1>6, <3>4 DEF Announced
      <4>2. \E i \in DOMAIN task'.rx.queue : task'.rx.queue[i] = c
        BY <2>5, <4>1
      <4> QED BY <4>2 DEF Announced
    <3> QED BY <1>8, <3>2, <3>3, <3>4
  <2> QED BY <1>9, <1>12, <1>14, <1>15, <1>17, <2>3, <2>6, <2>7 DEF OrderlyParts, LeaderOrderly, TaskOrderly
<1> QED BY <1>19, <1>20

(* One of its keys is changed in the tree.                                 *)
LEMMA InsertOrderly ==
  ASSUME Typed, BackwardsInv, Orderly, OrderlyParts, NEW w \in Writers, NEW k \in Keys, Insert(w, k)
  PROVE  OrderlyParts'
<1>1. /\ commands \in Seq(Command) /\ leader.global_version \in Nat /\ leader \in Node
      /\ leader.tree \in Store /\ pc \in [Writers -> Pcs] /\ job \in [Writers -> Job]
  BY TypedFacts
<1>2. /\ LeaderOrderly /\ Serial /\ CommandsShaped /\ TreeOrderly /\ TaskLogged
  BY DEF OrderlyParts, LeaderOrderly, TaskOrderly
<1>3. PICK j : j = job[w].cmd
  OBVIOUS
<1>4. /\ pc[w] = "apply" /\ k \in job[w].todo
      /\ leader' = [leader EXCEPT !.tree[k] = Applied(leader.tree, j, commands[j].tx_id)[k]]
      /\ job' = [job EXCEPT ![w].todo = @ \ {k}]
      /\ UNCHANGED <<setting, commands, wal_lock, pc, task, stream, link, replica>>
  BY <1>3 DEF Insert
<1>5. /\ \A u \in Writers : u # w => pc[u] = "idle"
      /\ wal_lock = w /\ ~Handshake
      /\ j = Len(commands) /\ j \in DOMAIN commands /\ j \in Nat \ {0}
      /\ commands[j].tx_id = leader.global_version /\ commands[j].logged
      /\ job[w].todo \subseteq Touched(j)
      /\ Settled = leader.global_version /\ Unapplied = job[w].todo
  BY <1>2, <1>3, <1>4, OneBusy
<1>6. /\ job'[w].todo = job[w].todo \ {k} /\ job'[w].cmd = j /\ job'[w].kind = job[w].kind
      /\ \A u \in Writers : u # w => job'[u] = job[u]
  BY <1>1, <1>3, <1>4 DEF Job
<1>7. /\ leader'.wal = leader.wal /\ leader'.snapshot = leader.snapshot
      /\ leader'.global_version = leader.global_version
      /\ leader'.tree[k] = Applied(leader.tree, j, leader.global_version)[k]
      /\ \A i \in Keys : i # k => leader'.tree[i] = leader.tree[i]
  BY <1>1, <1>4, <1>5 DEF Node, Store
<1>8. Settled' = Settled
  BY <1>4, <1>7 DEF Settled
<1>9. CommandsShaped' /\ IdsAscend' /\ Backed' /\ FilesOrderly'
  BY <1>2, <1>4, <1>7, <1>8, FilesKept
<1>10. Serial'
  <2>1. Handshake' = Handshake
    BY <1>4 DEF Handshake
  <2>2. Touched(job[w].cmd)' = Touched(j)
    BY <1>4, <1>6 DEF Touched
  <2>3. \A u \in Writers : job'[u].kind = "none"
    BY <1>2, <1>6 DEF Serial
  <2> QED BY <1>4, <1>5, <1>6, <1>7, <2>1, <2>2, <2>3 DEF Serial
<1>11. Unapplied' = Unapplied \ {k}
  <2>1. Unapplied' = job'[w].todo
    BY <1>4, <1>5 DEF Unapplied
  <2> QED BY <1>5, <1>6, <2>1
<1>12. commands[j].writes[k] \in {"put", "delete"}
  <2>1. commands[j].writes[k] # "none"
    BY <1>4, <1>5 DEF Touched
  <2> QED BY <1>1, <1>5, <2>1, MemberFacts
<1>13. leader'.tree[k] = IF commands[j].writes[k] = "put" THEN [cmd |-> j, version |-> leader.global_version] ELSE None
  BY <1>7, <1>12 DEF Applied
<1>14. [cmd |-> j, version |-> leader.global_version] # None
  <2>1. [cmd |-> j, version |-> leader.global_version] \in Record
    BY <1>1, <1>5 DEF Record
  <2> QED BY <2>1, NoneAssumption
<1>15. TreeOrderly'
  <2>1. ASSUME NEW i \in Keys, i \notin Unapplied', i # k
        PROVE  Cmd(leader'.tree[i]) = Amount(commands, leader.global_version, i)
    BY <1>2, <1>7, <1>11, <2>1 DEF TreeOrderly
  <2>2. Cmd(leader'.tree[k]) = IF commands[j].writes[k] = "put" THEN j ELSE 0
    BY <1>13, <1>14 DEF Cmd
  <2>3. Ascending(commands)
    BY <1>2, LeaderFacts
  <2>4. Amount(commands, leader.global_version, k) = IF commands[j].writes[k] = "put" THEN j ELSE 0
    BY <1>1, <1>5, <1>12, <2>3, AmountNext
  <2> QED BY <1>4, <1>7, <2>1, <2>2, <2>4 DEF TreeOrderly
<1>16. TreeCovers'
  <2> SUFFICES ASSUME Truncates' PROVE Covers(leader'.tree, leader'.global_version) /\ Covers(leader'.tree, leader'.global_version - 1)
    BY DEF TreeCovers
  <2>1. Truncates
    BY <1>4 DEF Truncates
  <2>2. commands[j].writes[k] = "put"
    BY <1>2, <1>5, <1>12, <2>1 DEF CommandsShaped
  <2>3. leader'.tree[k] = [cmd |-> j, version |-> leader.global_version]
    BY <1>13, <2>2
  <2>4. leader'.tree[k] # None /\ leader.global_version <= leader'.tree[k].version
        /\ leader.global_version - 1 <= leader'.tree[k].version
    BY <1>1, <1>14, <2>3
  <2> QED BY <1>7, <2>4 DEF Covers
<1>17. KeepsLogged
  BY <1>2, <1>4, <1>8, LoggedKept
<1>18. StreamOrderly' /\ ReplicaOrderly'
  BY <1>4, <1>17, StreamKept
<1>19. \A u \in Writers : pc[u] # "send"
  BY <1>4, <1>5
<1>20. TaskOrderly'
  <2>1. \A c : Announced(c) => Announced(c)'
    BY <1>4, <1>19 DEF Announced
  <2> QED BY <1>4, <1>5, <1>17, <1>19, <2>1, TaskKept
<1> QED BY <1>9, <1>10, <1>15, <1>16, <1>18, <1>20 DEF OrderlyParts, LeaderOrderly

(* It is done.                                                             *)
LEMMA FinishOrderly ==
  ASSUME Typed, BackwardsInv, Orderly, OrderlyParts, NEW w \in Writers, Finish(w)
  PROVE  OrderlyParts'
<1>1. /\ commands \in Seq(Command) /\ leader.global_version \in Nat
      /\ pc \in [Writers -> Pcs] /\ job \in [Writers -> Job]
  BY TypedFacts
<1>2. /\ LeaderOrderly /\ Serial /\ CommandsShaped /\ TreeOrderly /\ TreeCovers
  BY DEF OrderlyParts, LeaderOrderly
<1>3. /\ pc[w] = "apply" /\ job[w].todo = {} /\ pc' = [pc EXCEPT ![w] = "idle"]
      /\ job' = [job EXCEPT ![w] = NoJob]
      /\ UNCHANGED <<setting, commands, leader, task, stream, link, replica>>
  BY DEF Finish
<1>4. /\ \A u \in Writers : u # w => pc[u] = "idle"
      /\ ~Handshake /\ job[w].cmd \in DOMAIN commands
      /\ Settled = leader.global_version /\ Unapplied = {}
  BY <1>2, <1>3, OneBusy
<1>5. \A u \in Writers : pc'[u] = "idle"
  BY <1>1, <1>3, <1>4
<1>6. Settled' = Settled /\ Unapplied' = {}
  BY <1>3, <1>4, <1>5 DEF Settled, Unapplied
<1>7. CommandsShaped' /\ IdsAscend' /\ Backed' /\ FilesOrderly'
  BY <1>2, <1>3, <1>6, FilesKept
<1>8. Serial'
  <2>1. job'[w] = NoJob /\ \A u \in Writers : u # w => job'[u] = job[u]
    BY <1>1, <1>3
  <2>2. \A u \in Writers : job'[u].kind = "none"
    BY <1>2, <2>1 DEF Serial, NoJob
  <2> QED BY <1>5, <2>2 DEF Serial
<1>9. TreeOrderly'
  BY <1>2, <1>3, <1>4, <1>6 DEF TreeOrderly
<1>10. TreeCovers'
  <2> SUFFICES ASSUME Truncates PROVE Covers(leader.tree, leader.global_version)
    BY <1>3, <1>5 DEF TreeCovers, Truncates
  <2>1. Touched(job[w].cmd) # {}
    BY <1>2, <1>4 DEF CommandsShaped, Touched
  <2>2. ~\E u \in Writers : pc[u] # "idle" /\ job[u].todo = Touched(job[u].cmd)
    BY <1>3, <1>4, <2>1
  <2> QED BY <1>2, <2>2 DEF TreeCovers
<1>11. KeepsLogged
  BY <1>2, <1>3, <1>6, LoggedKept
<1>12. StreamOrderly' /\ ReplicaOrderly'
  BY <1>3, <1>11, StreamKept
<1>13. TaskOrderly'
  <2>1. \A u \in Writers : pc[u] # "send"
    BY <1>3, <1>4
  <2>2. \A c : Announced(c) => Announced(c)'
    BY <1>3, <2>1 DEF Announced
  <2> QED BY <1>3, <1>4, <1>5, <1>11, <2>2, TaskKept
<1> QED BY <1>7, <1>8, <1>9, <1>10, <1>12, <1>13 DEF OrderlyParts, LeaderOrderly

(* The tree is saved and the log truncated: no writer is busy, so that the *)
(* tree is what the logged commands amount to.                             *)
LEMMA LeaderSaveOrderly ==
  ASSUME Typed, BackwardsInv, Orderly, OrderlyParts, LeaderSave
  PROVE  OrderlyParts'
<1>1. /\ commands \in Seq(Command) /\ leader.global_version \in Nat /\ leader \in Node
  BY TypedFacts
<1>2. /\ LeaderOrderly /\ Serial /\ CommandsShaped /\ IdsAscend /\ TreeOrderly /\ TreeCovers
      /\ TaskLogged /\ HandshakeOrderly /\ VisitOrderly /\ StreamsFromZero
  BY DEF OrderlyParts, LeaderOrderly, TaskOrderly
<1>3. /\ Truncates /\ wal_lock = None /\ leader' = Saved(leader)
      /\ UNCHANGED <<setting, commands, wal_lock, pc, job, task, stream, link, replica>>
  BY DEF LeaderSave, Truncates
<1>4. \A u \in Writers : pc[u] = "idle"
  BY <1>2, <1>3, UnlockedIdle
<1>5. /\ leader'.wal = <<>> /\ leader'.snapshot = leader.tree
      /\ leader'.tree = leader.tree /\ leader'.global_version = leader.global_version
  BY <1>1, <1>3, SavedTyped
<1>6. Settled = leader.global_version /\ Unapplied = {}
  BY <1>4, AllIdle
<1>7. Settled' = Settled /\ Unapplied' = {}
  BY <1>3, <1>4, <1>5, <1>6 DEF Settled, Unapplied
<1>8. Truncates' /\ \A c : Touched(c)' = Touched(c)
  BY <1>3 DEF Truncates, Touched
<1>9. CommandsShaped' /\ IdsAscend'
  BY <1>2, <1>3, <1>7, <1>8 DEF CommandsShaped, IdsAscend, Truncates
<1>10. Serial'
  BY <1>2, <1>3, <1>4 DEF Serial, Handshake
<1>11. Covers(leader.tree, leader.global_version)
  BY <1>2, <1>3, <1>4 DEF TreeCovers
<1>12. Backed' /\ TreeCovers'
  <2>1. \A u \in Writers : pc'[u] = "idle"
    BY <1>3, <1>4
  <2> QED BY <1>5, <1>6, <1>7, <1>11, <2>1 DEF Backed, TreeCovers
<1>13. TreeOrderly'
  BY <1>2, <1>3, <1>5, <1>6, <1>7 DEF TreeOrderly
<1>14. FilesOrderly'
  <2>1. Cut' = leader.global_version
    BY <1>5, <1>6, <1>7 DEF Cut
  <2>2. DOMAIN leader'.wal = {}
    BY <1>5
  <2>3. \A c \in DOMAIN commands : commands[c].logged => ~(commands[c].tx_id > leader.global_version)
    <3>1. \A c \in DOMAIN commands : commands[c].tx_id \in Nat
      BY <1>1, CommandFacts
    <3>2. \A c \in DOMAIN commands : commands[c].logged => commands[c].tx_id <= leader.global_version
      BY <1>2, <1>6 DEF IdsAscend
    <3> QED BY <1>1, <3>1, <3>2
  <2>4. \A k \in Keys : Cmd(leader'.snapshot[k]) = Amount(commands, leader.global_version, k)
    BY <1>2, <1>5, <1>6 DEF TreeOrderly
  <2> QED BY <1>3, <1>8, <2>1, <2>2, <2>3, <2>4 DEF FilesOrderly
<1>15. KeepsLogged
  BY <1>2, <1>3, <1>7, LoggedKept
<1>16. StreamOrderly' /\ ReplicaOrderly'
  BY <1>3, <1>15, StreamKept
<1>17. TaskLogged' /\ HandshakeOrderly' /\ VisitOrderly' /\ StreamsFromZero'
  <2>1. AtZero' <=> AtZero
    BY <1>3 DEF AtZero
  <2>2. \A c : Announced(c)' <=> Announced(c)
    BY <1>3 DEF Announced
  <2>3. Blank(task.start)' <=> Blank(task.start)
    BY <1>3 DEF Blank
  <2>4. TaskLogged'
    BY <1>2, <1>3 DEF TaskLogged
  <2>5. HandshakeOrderly'
    BY <1>2, <1>3, <1>5, <1>8 DEF HandshakeOrderly
  <2>6. VisitOrderly'
    <3>1. \A S : TreeRecords(S)' = TreeRecords(S)
      BY <1>5 DEF TreeRecords
    <3> QED BY <1>2, <1>3, <1>5, <1>8, <2>1, <3>1 DEF VisitOrderly
  <2>7. StreamsFromZero'
    BY <1>2, <1>3, <1>5, <1>7, <2>1, <2>2, <2>3 DEF StreamsFromZero
  <2> QED BY <2>4, <2>5, <2>6, <2>7
<1> QED BY <1>9, <1>10, <1>12, <1>13, <1>14, <1>16, <1>17 DEF OrderlyParts, LeaderOrderly, TaskOrderly
-----------------------------------------------------------------------------
(* OrderlyReplica: a restart of the leader.                                *)

(* Of numbers up to len, the least of some is 0 or comes after another.    *)
LEMMA LeastIndex ==
  ASSUME NEW len \in Nat, NEW T \in SUBSET (0..len), T # {}
  PROVE  \E i \in T : i = 0 \/ (i \in 1..len /\ i - 1 \in 0..len /\ i - 1 \notin T)
<1>1. T \in SUBSET Nat
  OBVIOUS
<1>2. PICK i \in T : \A y \in T : i <= y
  BY <1>1, LeastNumber
<1>3. i \in 0..len
  OBVIOUS
<1>4. i # 0 => i \in 1..len /\ i - 1 \in 0..len /\ ~(i <= i - 1)
  BY <1>3
<1> QED BY <1>2, <1>4

(* The counter of new is the version of a record or of a line; and if all  *)
(* commands leave a record, the tree has one of that version or a later.   *)
LEMMA ReplayCovers ==
  ASSUME NEW n, n \in Node, commands \in Seq(Command), Whole(n.wal)
  PROVE  /\ \/ Covers(n.snapshot, Restarted(n).global_version)
            \/ \E i \in DOMAIN n.wal : Restarted(n).global_version <= n.wal[i].tx_id
         /\ (\A c \in DOMAIN commands : \E k \in Keys : commands[c].writes[k] = "put") =>
              Covers(Restarted(n).tree, Restarted(n).global_version)
<1>1. PICK g : g = Replay(n)
  OBVIOUS
<1>2. PICK len : len = Len(n.wal)
  OBVIOUS
<1>3. n.wal \in Seq(Line) /\ n.snapshot \in Store /\ DOMAIN n.wal = 1..len
  BY <1>2, LenProperties DEF Node
<1>4. /\ len \in Nat
      /\ \A i \in 0..len :
           /\ g[i] = IF i = 0 THEN Begun(n) ELSE Replayed(g[i - 1], n.wal[i])
           /\ g[i].tree \in Store /\ g[i].global_version \in Nat
  <2>1. Sound(n.wal)
    BY DEF Whole, Sound
  <2> QED BY <1>1, <1>2, <2>1, ReplayTyped
<1>5. Restarted(n).tree = g[len].tree /\ Restarted(n).global_version = g[len].global_version
  <2>1. ReplayedLines(n) = len
    BY <1>2 DEF ReplayedLines, Readable, Whole, Written
  <2> QED BY <1>1, <2>1 DEF Restarted, Node
<1>6. Covers(n.snapshot, VersionOf(n.snapshot))
  BY <1>3, VersionIsHighest
<1>7. g[0].tree = n.snapshot /\ g[0].global_version = VersionOf(n.snapshot)
  BY <1>4 DEF Begun
<1>8. ASSUME NEW i \in 1..len
      PROVE  /\ n.wal[i].cmd \in DOMAIN commands /\ n.wal[i].tx_id \in Nat
             /\ g[i].global_version \in {g[i - 1].global_version, n.wal[i].tx_id}
             /\ \E v \in Nat : g[i].global_version <= v /\ g[i].tree = Applied(g[i - 1].tree, n.wal[i].cmd, v)
  <2>1. g[i] = Replayed(g[i - 1], n.wal[i]) /\ g[i].global_version \in Nat
    BY <1>4
  <2>2. n.wal[i].cmd \in DOMAIN commands /\ n.wal[i].tx_id \in Nat
    <3>1. i \in DOMAIN n.wal
      BY <1>3
    <3>2. n.wal[i].cmd \in DOMAIN commands
      BY <3>1 DEF Whole, Written
    <3>3. n.wal[i] \in Line
      BY <1>2, <1>3, ElementOfSeq
    <3> QED BY <3>2, <3>3 DEF Line
  <2>3. PICK m : m = MaxOf(g[i - 1].global_version, n.wal[i].tx_id)
    OBVIOUS
  <2>0. n.wal[i].ok
    BY <1>3 DEF Whole, Written
  <2>4. g[i].global_version = m
    BY <2>0, <2>1, <2>3 DEF Replayed
  <2>5. m \in Nat /\ m + 1 \in Nat /\ m <= m /\ m <= m + 1
    BY <2>1, <2>4
  <2>6. m \in {g[i - 1].global_version, n.wal[i].tx_id}
    BY <2>3 DEF MaxOf
  <2>7. g[i].tree = Applied(g[i - 1].tree, n.wal[i].cmd, IF commands[n.wal[i].cmd].tx THEN m + 1 ELSE m)
    BY <2>0, <2>1, <2>3 DEF Replayed
  <2> QED BY <2>2, <2>4, <2>5, <2>6, <2>7
<1> DEFINE Known(i) == \/ Covers(n.snapshot, g[i].global_version)
                       \/ \E j \in DOMAIN n.wal : g[i].global_version <= n.wal[j].tx_id
           T == {i \in 0..len : ~Known(i)}
<1>9. Known(len)
  <2>1. T = {}
    <3> SUFFICES ASSUME T # {} PROVE FALSE
      OBVIOUS
    <3>1. PICK i \in T : i = 0 \/ (i \in 1..len /\ i - 1 \in 0..len /\ i - 1 \notin T)
      BY <1>4, LeastIndex
    <3>2. ~Known(i)
      BY <3>1
    <3>3. Known(0)
      BY <1>6, <1>7
    <3>4. i \in 1..len /\ Known(i - 1)
      BY <3>1, <3>2, <3>3
    <3>5. g[i].global_version \in {g[i - 1].global_version, n.wal[i].tx_id} /\ n.wal[i].tx_id \in Nat
      BY <1>8, <3>4
    <3>6. CASE g[i].global_version = g[i - 1].global_version
      BY <3>2, <3>4, <3>6
    <3>7. CASE g[i].global_version = n.wal[i].tx_id
      <4>1. i \in DOMAIN n.wal /\ g[i].global_version <= n.wal[i].tx_id
        BY <1>3, <3>4, <3>5, <3>7
      <4> QED BY <3>2, <4>1
    <3> QED BY <3>5, <3>6, <3>7
  <2>2. len \in 0..len
    BY <1>4
  <2> QED BY <2>1, <2>2
<1>10. ASSUME \A c \in DOMAIN commands : \E k \in Keys : commands[c].writes[k] = "put"
       PROVE  Covers(g[len].tree, g[len].global_version)
  <2>1. CASE len = 0
    BY <1>6, <1>7, <2>1
  <2>2. CASE len # 0
    <3>1. len \in 1..len
      BY <1>4, <2>2
    <3>2. PICK v \in Nat : g[len].global_version <= v /\ g[len].tree = Applied(g[len - 1].tree, n.wal[len].cmd, v)
      BY <1>8, <3>1
    <3>3. n.wal[len].cmd \in DOMAIN commands
      BY <1>8, <3>1
    <3>4. PICK k \in Keys : commands[n.wal[len].cmd].writes[k] = "put"
      BY <1>10, <3>3
    <3>5. g[len].tree[k] = [cmd |-> n.wal[len].cmd, version |-> v]
      BY <3>2, <3>4 DEF Applied
    <3>6. g[len].tree[k] # None
      <4>1. [cmd |-> n.wal[len].cmd, version |-> v] \in Record
        BY <3>2, <3>3, CommandFacts DEF Record
      <4> QED BY <3>5, <4>1, NoneAssumption
    <3> QED BY <3>2, <3>5, <3>6 DEF Covers
  <2> QED BY <2>1, <2>2
<1> QED BY <1>5, <1>9, <1>10

(* The version after i lines of the log.                                   *)
VersionAfter(i) == IF i = 0 THEN Cut ELSE leader.wal[i].tx_id

(* The lines are the logged commands past the cut, one after another.      *)
LEMMA LogComplete ==
  ASSUME Typed, Orderly, BackwardsInv, LeaderOrderly
  PROVE  /\ Len(leader.wal) \in Nat /\ DOMAIN leader.wal = 1..Len(leader.wal)
         /\ \A i \in 0..Len(leader.wal) : VersionAfter(i) \in Nat
         /\ \A i \in 1..Len(leader.wal) :
              /\ leader.wal[i].cmd \in DOMAIN commands /\ commands[leader.wal[i].cmd].logged
              /\ commands[leader.wal[i].cmd].tx_id = leader.wal[i].tx_id
              /\ leader.wal[i].tx_id \in Nat \ {0} /\ VersionAfter(i - 1) <= leader.wal[i].tx_id - 1
              /\ \A d \in DOMAIN commands :
                   commands[d].logged /\ commands[d].tx_id <= leader.wal[i].tx_id - 1 =>
                     commands[d].tx_id <= VersionAfter(i - 1)
         /\ \A d \in DOMAIN commands :
              commands[d].logged => commands[d].tx_id <= VersionAfter(Len(leader.wal))
<1>1. leader.wal \in Seq(Line) /\ Whole(leader.wal) /\ commands \in Seq(Command)
  BY TypedFacts, OrderlyWhole
<1>2. /\ Cut \in Nat /\ Settled \in Nat /\ Ascending(commands)
      /\ \A c \in DOMAIN commands : commands[c].logged => commands[c].tx_id <= Settled
      /\ \A c \in DOMAIN commands : c \in Nat \ {0} /\ commands[c].tx_id \in Nat \ {0}
  BY LeaderFacts
<1>3. FilesOrderly
  BY DEF LeaderOrderly
<1>4. PICK len : len = Len(leader.wal)
  OBVIOUS
<1>5. len \in Nat /\ DOMAIN leader.wal = 1..len
  BY <1>1, <1>4, LenProperties
<1>6. \A i \in 1..len :
        /\ leader.wal[i].cmd \in DOMAIN commands /\ commands[leader.wal[i].cmd].logged
        /\ commands[leader.wal[i].cmd].tx_id = leader.wal[i].tx_id
        /\ leader.wal[i].tx_id \in Nat \ {0} /\ leader.wal[i].cmd \in Nat \ {0}
  BY <1>1, <1>2, <1>3, <1>5 DEF Whole, Written, FilesOrderly
<1>7. ASSUME NEW i \in 1..len, NEW h \in 1..len, h < i
      PROVE  leader.wal[h].tx_id < leader.wal[i].tx_id
  <2>1. h \in 1..(i - 1) /\ i \in DOMAIN leader.wal
    BY <1>5, <1>7
  <2>2. leader.wal[h].cmd < leader.wal[i].cmd
    BY <1>3, <2>1 DEF FilesOrderly
  <2> QED BY <1>2, <1>6, <2>2 DEF Ascending
<1>8. 0 < len => Cut = leader.wal[1].tx_id - 1 /\ 1 \in 1..len
  <2>1. ASSUME 0 < len PROVE leader.wal # <<>>
    <3>1. Len(<<>>) = 0
      OBVIOUS
    <3> QED BY <1>4, <2>1, <3>1
  <2> QED BY <1>5, <2>1 DEF Cut
<1>9. \A i \in 0..len : VersionAfter(i) \in Nat
  BY <1>2, <1>5, <1>6 DEF VersionAfter
<1>10. \A d \in DOMAIN commands : commands[d].logged =>
         commands[d].tx_id <= Cut \/ \E h \in 1..len : leader.wal[h].tx_id = commands[d].tx_id
  <2> SUFFICES ASSUME NEW d \in DOMAIN commands, commands[d].logged, ~(commands[d].tx_id <= Cut)
               PROVE  \E h \in 1..len : leader.wal[h].tx_id = commands[d].tx_id
    OBVIOUS
  <2>1. commands[d].tx_id > Cut
    BY <1>2
  <2>2. PICK h \in DOMAIN leader.wal : leader.wal[h].cmd = d
    BY <1>3, <2>1 DEF FilesOrderly
  <2> QED BY <1>5, <1>6, <2>2
<1>11. ASSUME NEW i \in 1..len
       PROVE  /\ VersionAfter(i - 1) <= leader.wal[i].tx_id - 1
              /\ \A d \in DOMAIN commands :
                   commands[d].logged /\ commands[d].tx_id <= leader.wal[i].tx_id - 1 =>
                     commands[d].tx_id <= VersionAfter(i - 1)
  <2>1. CASE i = 1
    <3>1. VersionAfter(i - 1) = Cut /\ Cut = leader.wal[i].tx_id - 1
      BY <1>5, <1>8, <2>1 DEF VersionAfter
    <3> QED BY <1>2, <3>1
  <2>2. CASE i # 1
    <3>1. i - 1 \in 1..len /\ i - 1 < i /\ i - 1 # 0 /\ 1 \in 1..len /\ 0 < len
      BY <1>5, <2>2
    <3>2. VersionAfter(i - 1) = leader.wal[i - 1].tx_id
      BY <3>1 DEF VersionAfter
    <3>3. leader.wal[i - 1].tx_id < leader.wal[i].tx_id
      BY <1>7, <3>1
    <3>4. leader.wal[i].tx_id \in Nat \ {0} /\ leader.wal[i - 1].tx_id \in Nat \ {0}
      BY <1>6, <3>1
    <3>5. ASSUME NEW d \in DOMAIN commands, commands[d].logged, commands[d].tx_id <= leader.wal[i].tx_id - 1
          PROVE  commands[d].tx_id <= leader.wal[i - 1].tx_id
      <4>1. CASE commands[d].tx_id <= Cut
        <5>1. Cut = leader.wal[1].tx_id - 1 /\ leader.wal[1].tx_id \in Nat \ {0}
          BY <1>6, <1>8, <3>1
        <5>2. leader.wal[1].tx_id <= leader.wal[i - 1].tx_id
          <6>1. CASE i - 1 = 1
            BY <5>1, <6>1
          <6>2. CASE i - 1 # 1
            <7>1. 1 < i - 1
              BY <3>1, <6>2
            <7>2. leader.wal[1].tx_id < leader.wal[i - 1].tx_id
              BY <1>7, <3>1, <7>1
            <7> QED BY <3>4, <5>1, <7>2
          <6> QED BY <6>1, <6>2
        <5> QED BY <1>2, <3>4, <4>1, <5>1, <5>2
      <4>2. ASSUME NEW h \in 1..len, leader.wal[h].tx_id = commands[d].tx_id
            PROVE  commands[d].tx_id <= leader.wal[i - 1].tx_id
        <5>1. leader.wal[h].tx_id < leader.wal[i].tx_id /\ leader.wal[h].tx_id \in Nat
          BY <1>6, <3>4, <3>5, <4>2
        <5>2. h # i
          BY <3>4, <5>1
        <5>3. ~(i < h)
          <6> SUFFICES ASSUME i < h PROVE FALSE
            OBVIOUS
          <6>1. leader.wal[i].tx_id < leader.wal[h].tx_id
            BY <1>7
          <6> QED BY <3>4, <5>1, <6>1
        <5>4. h = i - 1 \/ h < i - 1
          BY <1>5, <5>2, <5>3
        <5>5. h < i - 1 => leader.wal[h].tx_id < leader.wal[i - 1].tx_id
          BY <1>7, <3>1
        <5> QED BY <3>4, <4>2, <5>1, <5>4, <5>5
      <4> QED BY <1>10, <3>5, <4>1, <4>2
    <3> QED BY <3>2, <3>3, <3>4, <3>5
  <2> QED BY <2>1, <2>2
<1>12. ASSUME NEW d \in DOMAIN commands, commands[d].logged
       PROVE  commands[d].tx_id <= VersionAfter(len)
  <2>1. CASE len = 0
    <3>1. leader.wal = <<>>
      BY <1>1, <1>4, <2>1, EmptySeq
    <3> QED BY <1>2, <1>12, <2>1, <3>1 DEF VersionAfter, Cut
  <2>2. CASE len # 0
    <3>1. len \in 1..len /\ 1 \in 1..len /\ 0 < len /\ VersionAfter(len) = leader.wal[len].tx_id
      BY <1>5, <2>2 DEF VersionAfter
    <3>2. leader.wal[len].tx_id \in Nat /\ leader.wal[1].tx_id \in Nat \ {0} /\ commands[d].tx_id \in Nat
      BY <1>2, <1>6, <3>1
    <3>3. \A h \in 1..len : leader.wal[h].tx_id <= leader.wal[len].tx_id
      <4> SUFFICES ASSUME NEW h \in 1..len PROVE leader.wal[h].tx_id <= leader.wal[len].tx_id
        OBVIOUS
      <4>1. h = len \/ h < len
        BY <1>5
      <4>2. leader.wal[h].tx_id \in Nat
        BY <1>6
      <4>3. h < len => leader.wal[h].tx_id < leader.wal[len].tx_id
        BY <1>7, <3>1
      <4> QED BY <3>2, <4>1, <4>2, <4>3
    <3>4. Cut = leader.wal[1].tx_id - 1
      BY <1>8, <3>1
    <3>5. CASE commands[d].tx_id <= Cut
      BY <3>1, <3>2, <3>3, <3>4, <3>5
    <3>6. CASE \E h \in 1..len : leader.wal[h].tx_id = commands[d].tx_id
      BY <3>1, <3>3, <3>6
    <3> QED BY <1>10, <1>12, <3>5, <3>6
  <2> QED BY <2>1, <2>2
<1> QED BY <1>4, <1>5, <1>6, <1>9, <1>11, <1>12

(* After each line the tree is what the logged commands amount to there.   *)
LEMMA ReplayContents ==
  ASSUME Typed, Orderly, BackwardsInv, LeaderOrderly
  PROVE  \A i \in 0..Len(leader.wal) : \A k \in Keys :
           Cmd(Replay(leader)[i].tree[k]) = Amount(commands, VersionAfter(i), k)
<1>1. /\ leader \in Node /\ commands \in Seq(Command) /\ Sound(leader.wal) /\ Ascending(commands)
      /\ \A i \in DOMAIN leader.wal : leader.wal[i].ok
  BY TypedFacts, OrderlyWhole, LeaderFacts
<1>2. PICK g : g = Replay(leader)
  OBVIOUS
<1>3. PICK len : len = Len(leader.wal)
  OBVIOUS
<1>4. /\ len \in Nat
      /\ \A i \in 0..len :
           /\ g[i] = IF i = 0 THEN Begun(leader) ELSE Replayed(g[i - 1], leader.wal[i])
           /\ g[i].tree \in Store /\ g[i].global_version \in Nat
  BY <1>1, <1>2, <1>3, ReplayTyped
<1>5. /\ \A i \in 0..len : VersionAfter(i) \in Nat
      /\ \A i \in 1..len :
              /\ leader.wal[i].cmd \in DOMAIN commands /\ commands[leader.wal[i].cmd].logged
              /\ commands[leader.wal[i].cmd].tx_id = leader.wal[i].tx_id
              /\ leader.wal[i].tx_id \in Nat \ {0} /\ VersionAfter(i - 1) <= leader.wal[i].tx_id - 1
              /\ \A d \in DOMAIN commands :
                   commands[d].logged /\ commands[d].tx_id <= leader.wal[i].tx_id - 1 =>
                     commands[d].tx_id <= VersionAfter(i - 1)
  BY <1>3, LogComplete
<1> DEFINE Exact(i) == \A k \in Keys : Cmd(g[i].tree[k]) = Amount(commands, VersionAfter(i), k)
           T == {i \in 0..len : ~Exact(i)}
<1>6. Exact(0)
  <2>1. g[0].tree = leader.snapshot
    BY <1>4 DEF Begun
  <2>2. VersionAfter(0) = Cut
    BY DEF VersionAfter
  <2> QED BY <2>1, <2>2 DEF LeaderOrderly, FilesOrderly
<1>7. ASSUME NEW i \in 1..len, i - 1 \in 0..len, Exact(i - 1)
      PROVE  Exact(i)
  <2>1. PICK c : c = leader.wal[i].cmd
    OBVIOUS
  <2>2. PICK id : id = leader.wal[i].tx_id
    OBVIOUS
  <2>3. /\ c \in DOMAIN commands /\ commands[c].logged /\ commands[c].tx_id = id /\ id \in Nat \ {0}
        /\ VersionAfter(i - 1) <= id - 1 /\ VersionAfter(i - 1) \in Nat
        /\ \A d \in DOMAIN commands :
             commands[d].logged /\ commands[d].tx_id <= id - 1 => commands[d].tx_id <= VersionAfter(i - 1)
    BY <1>5, <1>7, <2>1, <2>2
  <2>4. VersionAfter(i) = id
    BY <1>4, <2>2 DEF VersionAfter
  <2>5. PICK v \in Nat : g[i].tree = Applied(g[i - 1].tree, c, v)
    <3>1. i \in 0..len /\ i # 0
      BY <1>4
    <3>2. g[i] = Replayed(g[i - 1], leader.wal[i])
      BY <1>4, <3>1
    <3>3. PICK m : m = MaxOf(g[i - 1].global_version, leader.wal[i].tx_id)
      OBVIOUS
    <3>4. m \in Nat /\ m + 1 \in Nat
      BY <1>4, <1>7, <2>2, <2>3, <3>3 DEF MaxOf
    <3>5. g[i].tree = Applied(g[i - 1].tree, c, IF commands[c].tx THEN m + 1 ELSE m)
      <4>1. leader.wal[i].ok
        BY <1>1, <1>3, LenProperties DEF Node
      <4> QED BY <2>1, <3>2, <3>3, <4>1 DEF Replayed
    <3> QED BY <3>4, <3>5
  <2>6. ASSUME NEW k \in Keys PROVE Cmd(g[i].tree[k]) = Amount(commands, id, k)
    <3>1. Amount(commands, id, k) =
           CASE commands[c].writes[k] = "put" -> c
             [] commands[c].writes[k] = "delete" -> 0
             [] OTHER -> Amount(commands, id - 1, k)
      BY <1>1, <2>3, AmountNext
    <3>2. Amount(commands, VersionAfter(i - 1), k) = Amount(commands, id - 1, k)
      <4>1. id - 1 \in Nat
        BY <2>3
      <4> QED BY <1>1, <2>3, <4>1, AmountBetween
    <3>3. g[i].tree[k] = CASE commands[c].writes[k] = "put" -> [cmd |-> c, version |-> v]
                    [] commands[c].writes[k] = "delete" -> None
                    [] OTHER -> g[i - 1].tree[k]
      BY <2>5 DEF Applied
    <3>4. [cmd |-> c, version |-> v] # None
      <4>1. [cmd |-> c, version |-> v] \in Record
        BY <1>1, <2>3, <2>5, CommandFacts DEF Record
      <4> QED BY <4>1, NoneAssumption
    <3>5. Cmd(g[i - 1].tree[k]) = Amount(commands, VersionAfter(i - 1), k)
      BY <1>7
    <3> QED BY <3>1, <3>2, <3>3, <3>4, <3>5 DEF Cmd
  <2> QED BY <2>4, <2>6
<1>8. T = {}
  <2> HIDE DEF Exact
  <2> SUFFICES ASSUME T # {} PROVE FALSE
    OBVIOUS
  <2>1. PICK i \in T : i = 0 \/ (i \in 1..len /\ i - 1 \in 0..len /\ i - 1 \notin T)
    BY <1>4, LeastIndex
  <2> QED BY <1>6, <1>7, <2>1
<1> QED BY <1>2, <1>3, <1>8

(* The leader restarts from its files.                                     *)
LEMMA LeaderRestartsOrderly ==
  ASSUME Typed, BackwardsInv, Orderly, OrderlyParts, LeaderRestarts
  PROVE  OrderlyParts'
<1>1. /\ commands \in Seq(Command) /\ leader \in Node /\ Whole(leader.wal) /\ leader.wal \in Seq(Line)
      /\ Sound(leader.wal) /\ Readable(leader.wal) /\ \A i \in DOMAIN leader.wal : leader.wal[i].ok
  BY TypedFacts, OrderlyWhole
<1>2. /\ LeaderOrderly /\ CommandsShaped /\ IdsAscend /\ Backed /\ FilesOrderly
  BY DEF OrderlyParts, LeaderOrderly
<1>3. /\ leader' = Restarted(leader) /\ wal_lock' = None /\ task' = NoTask
      /\ pc' = [w \in Writers |-> "idle"] /\ job' = [w \in Writers |-> NoJob]
      /\ UNCHANGED <<setting, commands, stream, link, replica>>
  BY OrderlyWhole, LeaderReplays DEF LeaderRestarts
<1>4. PICK gv : gv = leader'.global_version
  OBVIOUS
<1>5. /\ leader' \in Node /\ gv \in Nat
      /\ leader'.wal = leader.wal /\ leader'.snapshot = leader.snapshot
      /\ leader'.tree = Replay(leader)[Len(leader.wal)].tree
      /\ \A i \in DOMAIN leader.wal : leader.wal[i].tx_id <= gv
      /\ \A v \in Nat : Covers(leader.snapshot, v) => v <= gv
      /\ \A b \in Nat :
              /\ leader.snapshot = EmptyStore
              /\ \A i \in DOMAIN leader.wal : leader.wal[i].tx_id <= b
              => gv <= b
  <2>1. leader' \in Node
    BY <1>1, <1>3, RestartedNode
  <2>2. gv \in Nat
    BY <1>4, <2>1 DEF Node
  <2> QED BY <1>1, <1>3, <1>4, <2>1, <2>2, RestartedNode
<1>6. /\ Covers(leader.snapshot, gv) \/ \E i \in DOMAIN leader.wal : gv <= leader.wal[i].tx_id
      /\ (\A c \in DOMAIN commands : \E k \in Keys : commands[c].writes[k] = "put") => Covers(leader'.tree, gv)
  BY <1>1, <1>3, <1>4, ReplayCovers
<1>7. \A w \in Writers : pc'[w] = "idle"
  BY <1>3
<1>8. Settled' = gv /\ Unapplied' = {}
  BY <1>4, <1>7 DEF Settled, Unapplied
<1>9. /\ Settled \in Nat /\ Cut \in Nat /\ Cut <= Settled
      /\ \A c \in DOMAIN commands : commands[c].logged => commands[c].tx_id <= Settled
      /\ \A c \in DOMAIN commands : c \in Nat \ {0} /\ commands[c].tx_id \in Nat \ {0}
  BY <1>2, LeaderFacts
<1>10. Settled <= gv
  <2>1. CASE Covers(leader.snapshot, Settled)
    BY <1>5, <1>9, <2>1
  <2>2. ASSUME NEW i \in DOMAIN leader.wal, Settled <= leader.wal[i].tx_id
        PROVE  Settled <= gv
    <3>1. leader.wal[i] \in Line
      BY <1>1, ElementOfSeq, LenProperties
    <3>2. leader.wal[i].tx_id \in Nat
      BY <3>1 DEF Line
    <3> QED BY <1>5, <1>9, <2>2, <3>2
  <2> QED BY <1>2, <2>1, <2>2 DEF Backed
<1>11. Truncates' = Truncates /\ (\A c : Touched(c)' = Touched(c))
  BY <1>3 DEF Truncates, Touched
<1>12. Serial'
  <2>1. ~Handshake'
    BY <1>3, NoTaskTyped DEF Handshake
  <2>2. \A w \in Writers : job'[w].kind = "none"
    BY <1>3 DEF NoJob
  <2> QED BY <1>7, <2>1, <2>2 DEF Serial
<1>13. CommandsShaped'
  BY <1>2, <1>3, <1>11 DEF CommandsShaped
<1>14. IdsAscend'
  <2>1. \A c \in DOMAIN commands : commands[c].logged => commands[c].tx_id <= gv
    BY <1>5, <1>9, <1>10
  <2> QED BY <1>2, <1>3, <1>8, <2>1 DEF IdsAscend
<1>15. Backed'
  BY <1>5, <1>6, <1>8 DEF Backed
<1>16. TreeCovers'
  <2> SUFFICES ASSUME Truncates PROVE Covers(leader'.tree, gv)
    BY <1>4, <1>7, <1>11 DEF TreeCovers
  <2> QED BY <1>2, <1>6 DEF CommandsShaped
<1>17. /\ Len(leader.wal) \in Nat /\ DOMAIN leader.wal = 1..Len(leader.wal)
       /\ VersionAfter(Len(leader.wal)) \in Nat
       /\ \A d \in DOMAIN commands :
            commands[d].logged => commands[d].tx_id <= VersionAfter(Len(leader.wal))
  <2>1. /\ Len(leader.wal) \in Nat /\ DOMAIN leader.wal = 1..Len(leader.wal)
        /\ \A i \in 0..Len(leader.wal) : VersionAfter(i) \in Nat
        /\ \A d \in DOMAIN commands :
             commands[d].logged => commands[d].tx_id <= VersionAfter(Len(leader.wal))
    BY <1>2, LogComplete
  <2>2. Len(leader.wal) \in 0..Len(leader.wal)
    BY <2>1
  <2> QED BY <2>1, <2>2
<1>18. VersionAfter(Len(leader.wal)) <= gv
  <2>1. CASE Len(leader.wal) = 0
    BY <1>5, <1>9, <1>10, <2>1 DEF VersionAfter
  <2>2. CASE Len(leader.wal) # 0
    <3>1. Len(leader.wal) \in DOMAIN leader.wal
      BY <1>17, <2>2
    <3> QED BY <1>5, <2>2, <3>1 DEF VersionAfter
  <2> QED BY <2>1, <2>2
<1>19. TreeOrderly'
  <2> SUFFICES ASSUME NEW k \in Keys PROVE Cmd(leader'.tree[k]) = Amount(commands, gv, k)
    BY <1>3, <1>4 DEF TreeOrderly
  <2>1. Cmd(leader'.tree[k]) = Amount(commands, VersionAfter(Len(leader.wal)), k)
    <3>1. Len(leader.wal) \in 0..Len(leader.wal)
      BY <1>17
    <3> QED BY <1>2, <1>5, <3>1, ReplayContents
  <2>2. Amount(commands, VersionAfter(Len(leader.wal)), k) = Amount(commands, gv, k)
    BY <1>1, <1>5, <1>17, <1>18, AmountBetween
  <2> QED BY <2>1, <2>2
<1>20. FilesOrderly'
  <2>1. Cut' \in Nat /\ Cut <= Cut' /\ (Cut' = Cut \/ Cut' = gv)
    <3>1. CASE leader.wal = <<>>
      <4>1. Cut' = gv /\ Cut = Settled
        BY <1>5, <1>8, <3>1 DEF Cut
      <4> QED BY <1>5, <1>10, <4>1
    <3>2. CASE leader.wal # <<>>
      <4>1. Cut' = Cut
        BY <1>5, <3>2 DEF Cut
      <4> QED BY <1>9, <4>1
    <3> QED BY <3>1, <3>2
  <2>2. ASSUME NEW k \in Keys PROVE Amount(commands, Cut', k) = Amount(commands, Cut, k)
    <3>1. CASE Cut' = Cut
      BY <3>1
    <3>2. CASE leader.wal = <<>>
      <4>1. Cut' = gv /\ Cut = Settled
        BY <1>5, <1>8, <3>2 DEF Cut
      <4> QED BY <1>1, <1>5, <1>9, <1>10, <4>1, AmountBetween
    <3>3. leader.wal # <<>> => Cut' = Cut
      BY <1>5 DEF Cut
    <3> QED BY <3>1, <3>2, <3>3
  <2>3. \A k \in Keys : Cmd(leader.snapshot[k]) = Amount(commands, Cut', k)
    BY <1>2, <2>2 DEF FilesOrderly
  <2>4. ASSUME NEW c \in DOMAIN commands, commands[c].logged, commands[c].tx_id > Cut'
        PROVE  \E i \in DOMAIN leader.wal : leader.wal[i].cmd = c
    <3>1. commands[c].tx_id \in Nat /\ commands[c].tx_id > Cut
      BY <1>9, <2>1, <2>4
    <3> QED BY <1>2, <2>4, <3>1 DEF FilesOrderly
  <2>5. ASSUME ~Truncates
        PROVE  /\ leader.snapshot = EmptyStore /\ gv = Len(leader.wal)
               /\ \A i \in DOMAIN leader.wal : leader.wal[i].tx_id = i
    <3>1. /\ leader.snapshot = EmptyStore /\ Settled = Len(leader.wal)
          /\ \A i \in DOMAIN leader.wal : leader.wal[i].tx_id = i
      BY <1>2, <2>5 DEF FilesOrderly
    <3>2. \A i \in DOMAIN leader.wal : leader.wal[i].tx_id <= Len(leader.wal)
      BY <1>17, <3>1
    <3>3. gv <= Len(leader.wal)
      BY <1>5, <1>17, <3>1, <3>2
    <3> QED BY <1>5, <1>10, <1>17, <3>1, <3>3
  <2> QED BY <1>2, <1>3, <1>5, <1>8, <1>11, <2>3, <2>4, <2>5 DEF FilesOrderly
<1>21. KeepsLogged
  <2>1. Settled' \in Nat /\ Settled <= Settled'
    BY <1>5, <1>8, <1>10
  <2> QED BY <1>3, <2>1 DEF KeepsLogged
<1>22. StreamOrderly' /\ ReplicaOrderly'
  BY <1>3, <1>21, StreamKept
<1>23. TaskOrderly'
  <2>1. task'.pc = "none" /\ task'.records = <<>> /\ task'.rx.queue = <<>>
    BY <1>3, NoTaskTyped
  <2> QED BY <2>1 DEF TaskOrderly, TaskLogged, HandshakeOrderly, VisitOrderly, StreamsFromZero
<1> QED BY <1>12, <1>13, <1>14, <1>15, <1>16, <1>19, <1>20, <1>22, <1>23 DEF OrderlyParts, LeaderOrderly
-----------------------------------------------------------------------------
(* OrderlyReplica: the task.                                               *)

(* The writers do nothing.                                                 *)
LEMMA LeaderKept ==
  ASSUME LeaderOrderly, UNCHANGED <<setting, writers>>,
         Handshake' => \A w \in Writers : pc[w] = "idle"
  PROVE  LeaderOrderly' /\ Settled' = Settled /\ Truncates' = Truncates
<1>1. UNCHANGED <<commands, leader, wal_lock, pc, job>>
  BY DEF writers
<1>2. Settled' = Settled /\ Unapplied' = Unapplied /\ Truncates' = Truncates
  BY <1>1 DEF Settled, Unapplied, Truncates
<1>3. CommandsShaped' /\ IdsAscend' /\ Backed' /\ FilesOrderly'
  BY <1>1, <1>2, FilesKept
<1>4. \A c : Touched(c)' = Touched(c)
  BY <1>1 DEF Touched
<1>5. Serial'
  BY <1>1, <1>4 DEF Serial, LeaderOrderly
<1>6. TreeCovers'
  BY <1>1, <1>2, <1>4 DEF TreeCovers, LeaderOrderly
<1>7. TreeOrderly'
  BY <1>1, <1>2 DEF TreeOrderly, LeaderOrderly
<1> QED BY <1>2, <1>3, <1>5, <1>6, <1>7 DEF LeaderOrderly

(* During a handshake the tree is what the logged commands amount to.      *)
LEMMA HandshakeFacts ==
  ASSUME Typed, LeaderOrderly, Handshake
  PROVE  /\ \A w \in Writers : pc[w] = "idle"
         /\ Settled = leader.global_version
         /\ \A k \in Keys : Cmd(leader.tree[k]) = Amount(commands, leader.global_version, k)
<1>1. \A w \in Writers : pc[w] = "idle"
  BY DEF LeaderOrderly, Serial
<1>2. Settled = leader.global_version /\ Unapplied = {}
  BY <1>1, AllIdle
<1> QED BY <1>1, <1>2 DEF LeaderOrderly, TreeOrderly

(* The replica has not changed, nor has what is on the way.                *)
LEMMA ReplicaKept ==
  ASSUME StreamOrderly, ReplicaOrderly, UNCHANGED <<setting, commands, stream, replica>>, Settled' = Settled
  PROVE  StreamOrderly' /\ ReplicaOrderly' /\ (AtZero' <=> AtZero) /\ (\A v : Blank(v)' <=> Blank(v))
<1>1. /\ (AtZero' <=> AtZero) /\ (\A v : Blank(v)' <=> Blank(v)) /\ (\A i : ZeroBefore(i)' <=> ZeroBefore(i))
      /\ (\A r, v : WholeSnapshot(r, v)' <=> WholeSnapshot(r, v)) /\ (Truncates' <=> Truncates)
  BY DEF AtZero, Blank, ZeroBefore, WholeSnapshot, Truncates
<1>2. \A i \in DOMAIN stream : RecordOrderly(i) => RecordOrderly(i)'
  BY <1>1 DEF RecordOrderly
<1>3. \A i \in DOMAIN stream : ChunkOrderly(i) => ChunkOrderly(i)'
  BY <1>1 DEF ChunkOrderly
<1>4. StreamOrderly'
  BY <1>2, <1>3 DEF StreamOrderly
<1>5. ReplicaOrderly'
  BY DEF ReplicaOrderly
<1> QED BY <1>1, <1>4, <1>5

(* The task reads the log.                                                 *)
LEMMA SyncReadOrderly ==
  ASSUME Typed, BackwardsInv, Orderly, OrderlyParts, SyncRead
  PROVE  OrderlyParts'
<1>1. /\ leader.wal \in Seq(Line) /\ Whole(leader.wal) /\ task \in Task /\ task.last_known \in Nat
      /\ leader.global_version \in Nat /\ Readable(leader.wal)
  BY TypedFacts, OrderlyWhole
<1>2. LeaderOrderly /\ StreamOrderly /\ ReplicaOrderly /\ TaskLogged /\ HandshakeOrderly /\ FilesOrderly
  BY DEF OrderlyParts, TaskOrderly, LeaderOrderly
<1>3. PICK records : records = read_from_tx_id(leader.wal, task.last_known + 1)
  OBVIOUS
<1>4. /\ task.pc = "read" /\ UNCHANGED <<setting, writers, stream, link, replica, faults>>
      /\ IF task.last_known = 0 \/ GapAfter(records, task.last_known)
         THEN task' = [task EXCEPT !.pc = "snapshot", !.unread = FALSE]
         ELSE task' = [task EXCEPT !.pc = IF records = <<>> THEN "check" ELSE "replay",
                                   !.records = records, !.start = task.last_known]
  BY <1>1, <1>3 DEF SyncRead
<1>5. commands' = commands /\ leader' = leader /\ pc' = pc /\ job' = job /\ stream' = stream /\ replica' = replica
      /\ setting' = setting
  BY <1>4 DEF writers
<1>6. /\ task'.chunk = task.chunk /\ task'.rx = task.rx /\ task'.last_known = task.last_known
      /\ \/ task'.pc = "snapshot" /\ task'.records = task.records
            /\ (task.last_known = 0 \/ GapAfter(records, task.last_known))
         \/ task'.pc = "check" /\ records = <<>> /\ task'.records = records /\ task.last_known # 0
         \/ task'.pc = "replay" /\ task'.records = records /\ task.last_known # 0
  BY <1>1, <1>4 DEF Task
<1>7. stream = <<>> /\ task.last_known = replica.global_version /\ task.chunk = {}
  BY <1>2, <1>4 DEF BackwardsInv, HandshakeAhead, HandshakeOrderly
<1>8. Handshake
  BY <1>4 DEF Handshake
<1>9. (\A w \in Writers : pc[w] = "idle") /\ Settled = leader.global_version
  BY <1>2, <1>8, HandshakeFacts
<1>10. LeaderOrderly' /\ Settled' = Settled /\ Truncates' = Truncates
  BY <1>2, <1>4, <1>9, LeaderKept
<1>11. StreamOrderly' /\ ReplicaOrderly'
  BY <1>2, <1>5, <1>10, ReplicaKept
<1>12. task.last_known + 1 \in Nat
  BY <1>1
<1>13. /\ \A i \in DOMAIN records :
            \E j \in DOMAIN leader.wal :
              records[i] = leader.wal[j] /\ Wanted(leader.wal[j], task.last_known + 1)
       /\ records = <<>> => \A j \in DOMAIN leader.wal : ~Wanted(leader.wal[j], task.last_known + 1)
       /\ records # <<>> =>
            \E j \in DOMAIN leader.wal :
              /\ records[1] = leader.wal[j] /\ Wanted(leader.wal[j], task.last_known + 1)
              /\ \A i \in 1..(j - 1) : ~Wanted(leader.wal[i], task.last_known + 1)
  BY <1>1, <1>3, <1>12, RecordsRead
<1>14. TaskLogged'
  <2>1. ASSUME NEW i \in DOMAIN task'.records
        PROVE  /\ commands[task'.records[i].cmd].logged
               /\ commands[task'.records[i].cmd].tx_id = task'.records[i].tx_id
    <3>1. CASE task'.records = task.records
      BY <1>2, <2>1, <3>1 DEF TaskLogged
    <3>2. CASE task'.records = records
      <4>1. PICK j \in DOMAIN leader.wal : records[i] = leader.wal[j]
        BY <1>13, <2>1, <3>2
      <4> QED BY <1>2, <3>2, <4>1 DEF FilesOrderly
    <3> QED BY <1>6, <3>1, <3>2
  <2> QED BY <1>2, <1>5, <1>6, <2>1 DEF TaskLogged
<1>15. /\ DOMAIN leader.wal = 1..Len(leader.wal) /\ Len(leader.wal) \in Nat
       /\ \A i \in DOMAIN leader.wal : leader.wal[i].ok /\ leader.wal[i].tx_id \in Nat
  <2>1. DOMAIN leader.wal = 1..Len(leader.wal) /\ Len(leader.wal) \in Nat
    BY <1>1, LenProperties
  <2>2. \A i \in DOMAIN leader.wal : leader.wal[i] \in Line
    BY <1>1, <2>1, ElementOfSeq
  <2> QED BY <1>1, <2>1, <2>2 DEF Whole, Written, Line
<1>16. ASSUME ~Truncates
       PROVE  /\ task'.pc = "check" => leader.global_version <= task.last_known
              /\ task'.pc = "snapshot" => replica.global_version = 0
  <2>1. leader.global_version = Len(leader.wal) /\ \A i \in DOMAIN leader.wal : leader.wal[i].tx_id = i
    BY <1>2, <1>9, <1>16 DEF FilesOrderly
  <2>2. ASSUME task'.pc = "check", ~(leader.global_version <= task.last_known)
        PROVE  FALSE
    <3>1. records = <<>>
      BY <1>6, <2>2
    <3>2. Len(leader.wal) \in DOMAIN leader.wal /\ Len(leader.wal) >= task.last_known + 1
      BY <1>1, <1>15, <2>1, <2>2
    <3>3. Wanted(leader.wal[Len(leader.wal)], task.last_known + 1)
      BY <1>15, <2>1, <3>2 DEF Wanted
    <3> QED BY <1>13, <3>1, <3>2, <3>3
  <2>3. ASSUME GapAfter(records, task.last_known)
        PROVE  FALSE
    <3>1. records # <<>> /\ records[1].tx_id > task.last_known + 1
      BY <2>3 DEF GapAfter
    <3>2. PICK j \in DOMAIN leader.wal :
              /\ records[1] = leader.wal[j]
              /\ \A i \in 1..(j - 1) : ~Wanted(leader.wal[i], task.last_known + 1)
      BY <1>13, <3>1
    <3>3. j > task.last_known + 1 /\ j \in 1..Len(leader.wal)
      BY <1>15, <2>1, <3>1, <3>2
    <3>4. task.last_known + 1 \in 1..(j - 1) /\ task.last_known + 1 \in DOMAIN leader.wal
      BY <1>1, <1>15, <3>3
    <3>5. Wanted(leader.wal[task.last_known + 1], task.last_known + 1)
      BY <1>1, <1>15, <2>1, <3>4 DEF Wanted
    <3> QED BY <3>2, <3>4, <3>5
  <2> QED BY <1>6, <1>7, <2>2, <2>3
<1>17. HandshakeOrderly'
  BY <1>5, <1>6, <1>7, <1>10, <1>16 DEF HandshakeOrderly
<1>18. VisitOrderly' /\ StreamsFromZero'
  BY <1>6 DEF VisitOrderly, StreamsFromZero
<1> QED BY <1>10, <1>11, <1>14, <1>17, <1>18 DEF OrderlyParts, TaskOrderly

(* It compares the counter, begins a snapshot or subscribes.               *)
LEMMA SyncTurnsOrderly ==
  ASSUME Typed, BackwardsInv, Orderly, OrderlyParts, SyncCheck \/ SyncSnapshot \/ SyncSubscribe
  PROVE  OrderlyParts'
<1>1. /\ task \in Task /\ task.last_known \in Nat /\ leader.global_version \in Nat
      /\ commands \in Seq(Command) /\ task.start \in Nat
  BY TypedFacts
<1>2. LeaderOrderly /\ StreamOrderly /\ ReplicaOrderly /\ TaskLogged /\ HandshakeOrderly /\ StreamsFromZero
  BY DEF OrderlyParts, TaskOrderly
<1>3. UNCHANGED <<setting, writers, stream, link, replica, faults>> /\ Handshake
  BY DEF SyncCheck, SyncSnapshot, SyncSubscribe, Handshake
<1>4. commands' = commands /\ leader' = leader /\ pc' = pc /\ job' = job /\ stream' = stream /\ replica' = replica
      /\ setting' = setting
  BY <1>3 DEF writers
<1>5. (\A w \in Writers : pc[w] = "idle") /\ Settled = leader.global_version
  BY <1>2, <1>3, HandshakeFacts
<1>6. LeaderOrderly' /\ Settled' = Settled /\ Truncates' = Truncates
  BY <1>2, <1>3, <1>5, LeaderKept
<1>7. StreamOrderly' /\ ReplicaOrderly' /\ (AtZero' <=> AtZero) /\ (\A v : Blank(v)' <=> Blank(v))
  BY <1>2, <1>4, <1>6, ReplicaKept
<1>8. CASE SyncCheck
  <2>1. /\ task.pc = "check"
        /\ task' = [task EXCEPT !.pc = IF Outdated(task.last_known) THEN "snapshot" ELSE "subscribe"]
    BY <1>8 DEF SyncCheck
  <2>2. /\ task'.records = task.records /\ task'.rx = task.rx /\ task'.chunk = task.chunk
        /\ task'.pc = IF Outdated(task.last_known) THEN "snapshot" ELSE "subscribe"
    BY <1>1, <2>1 DEF Task
  <2>3. replica.global_version # 0 /\ task.chunk = {} /\ (~Truncates => leader.global_version <= task.last_known)
    BY <1>2, <2>1 DEF HandshakeOrderly
  <2>4. Outdated(task.last_known) => Truncates
    BY <1>1, <2>3 DEF Outdated
  <2>5. TaskLogged'
    BY <1>2, <1>4, <2>2 DEF TaskLogged
  <2>6. HandshakeOrderly'
    BY <1>4, <1>6, <2>2, <2>3, <2>4 DEF HandshakeOrderly
  <2>7. ~AtZero'
    BY <1>4, <2>3 DEF AtZero
  <2>8. VisitOrderly' /\ StreamsFromZero'
    BY <2>2, <2>7 DEF VisitOrderly, StreamsFromZero
  <2> QED BY <1>6, <1>7, <2>5, <2>6, <2>8 DEF OrderlyParts, TaskOrderly
<1>9. CASE SyncSnapshot
  <2>1. /\ task.pc = "snapshot"
        /\ task' = [task EXCEPT !.pc = "visit", !.start = leader.global_version, !.iter = Keys]
    BY <1>9 DEF SyncSnapshot
  <2>2. /\ task'.records = task.records /\ task'.rx = task.rx /\ task'.chunk = task.chunk
        /\ task'.pc = "visit" /\ task'.start = leader.global_version /\ task'.iter = Keys
    BY <1>1, <2>1 DEF Task
  <2>3. task.chunk = {} /\ (~Truncates => replica.global_version = 0) /\ stream = <<>>
    BY <1>2, <2>1 DEF HandshakeOrderly, BackwardsInv, HandshakeAhead
  <2>4. TaskLogged'
    BY <1>2, <1>4, <2>2 DEF TaskLogged
  <2>5. HandshakeOrderly' /\ StreamsFromZero'
    BY <2>2 DEF HandshakeOrderly, StreamsFromZero
  <2>6. TreeRecords(Keys \ task.iter)' = {}
    BY <2>2 DEF TreeRecords
  <2>7. VisitOrderly'
    BY <1>4, <1>6, <2>2, <2>3, <2>6 DEF VisitOrderly
  <2> QED BY <1>6, <1>7, <2>4, <2>5, <2>7 DEF OrderlyParts, TaskOrderly
<1>10. CASE SyncSubscribe
  <2>1. task.pc = "subscribe" /\ task' = [task EXCEPT !.pc = "stream", !.rx = Sync!NewReceiver]
    BY <1>10 DEF SyncSubscribe
  <2>2. /\ task'.records = task.records /\ task'.rx = Sync!NewReceiver
        /\ task'.pc = "stream" /\ task'.start = task.start
    BY <1>1, <2>1 DEF Task
  <2>3. task'.rx.queue = <<>>
    BY <2>2 DEF Sync!NewReceiver
  <2>4. TaskLogged'
    BY <1>2, <1>4, <2>2, <2>3 DEF TaskLogged
  <2>5. HandshakeOrderly' /\ VisitOrderly'
    BY <2>2 DEF HandshakeOrderly, VisitOrderly
  <2>6. StreamsFromZero'
    <3> SUFFICES ASSUME AtZero'
                 PROVE  /\ Blank(task.start)' /\ task.start <= Settled'
                        /\ \A c \in DOMAIN commands' :
                             ~(commands'[c].logged /\ commands'[c].tx_id > task.start)
      BY <2>2 DEF StreamsFromZero, Blank
    <3>1. task.start = leader.global_version /\ Blank(task.start)
      BY <1>2, <1>7, <2>1 DEF StreamsFromZero
    <3>2. Blank(task.start)'
      BY <1>4, <2>2, <3>1 DEF Blank
    <3>3. \A c \in DOMAIN commands : commands[c].tx_id \in Nat /\ (commands[c].logged => commands[c].tx_id <= leader.global_version)
      BY <1>2, <1>5, LeaderFacts
    <3> QED BY <1>1, <1>4, <1>5, <1>6, <3>1, <3>2, <3>3
  <2> QED BY <1>6, <1>7, <2>4, <2>5, <2>6 DEF OrderlyParts, TaskOrderly
<1> QED BY <1>8, <1>9, <1>10

(* A payload is added to the stream.                                       *)
LEMMA StreamGrows ==
  ASSUME Typed, StreamOrderly, ReplicaOrderly, UNCHANGED <<setting, commands, replica>>, Settled' = Settled,
         NEW p \in Payload, stream' = Append(stream, p), NEW n, n = Len(stream) + 1,
         p.type = "wal" =>
           /\ commands[p.cmd].logged /\ commands[p.cmd].tx_id = p.tx_id
           /\ AtZero => Blank(p.tx_id - 1),
         p.type = "snapshot" =>
           /\ stream = <<>> /\ p.max_tx_id <= Settled /\ WholeSnapshot(p.records, p.max_tx_id)
           /\ ~Truncates => replica.global_version = 0
  PROVE  /\ StreamOrderly' /\ ReplicaOrderly'
         /\ AtZero' => AtZero /\ p.type = "snapshot" /\ p.max_tx_id = 0
<1>1. /\ stream \in Seq(Payload)
  BY TypedFacts
<1>2. /\ \A i \in DOMAIN stream' : (stream'[i] = p /\ i = n) \/ (i \in DOMAIN stream /\ stream'[i] = stream[i])
      /\ \A i \in DOMAIN stream : i \in DOMAIN stream' /\ stream'[i] = stream[i]
      /\ n \in DOMAIN stream' /\ stream'[n] = p
  BY <1>1, Appended
<1>3. DOMAIN stream = 1..Len(stream) /\ Len(stream) \in Nat
  BY <1>1, LenProperties
<1>4. /\ (\A v : Blank(v)' <=> Blank(v)) /\ (Truncates' <=> Truncates)
      /\ (\A r, v : WholeSnapshot(r, v)' <=> WholeSnapshot(r, v))
  BY DEF Blank, WholeSnapshot, Truncates
<1>5. ASSUME NEW i \in DOMAIN stream
      PROVE  /\ \A j \in 1..(i - 1) : stream'[j] = stream[j]
             /\ (ZeroBefore(i)' <=> ZeroBefore(i))
  <2>1. \A j \in 1..(i - 1) : j \in DOMAIN stream
    BY <1>3
  <2>2. \A j \in 1..(i - 1) : stream'[j] = stream[j]
    BY <1>2, <2>1
  <2> QED BY <2>2 DEF ZeroBefore
<1>6. ZeroBefore(n)' => AtZero
  <2>1. \A j \in DOMAIN stream : j \in 1..(n - 1) /\ stream'[j] = stream[j]
    BY <1>2, <1>3
  <2> QED BY <2>1 DEF ZeroBefore, AtZero
<1>7. ASSUME NEW i \in DOMAIN stream', stream'[i].type = "wal" PROVE RecordOrderly(i)'
  <2>1. CASE i \in DOMAIN stream /\ stream'[i] = stream[i]
    <3>1. RecordOrderly(i)
      BY <1>7, <2>1 DEF StreamOrderly
    <3> QED BY <1>4, <1>5, <2>1, <3>1 DEF RecordOrderly
  <2>2. CASE stream'[i] = p /\ i = n
    <3>1. ZeroBefore(i)' => AtZero
      BY <1>6, <2>2
    <3> QED BY <1>4, <1>7, <2>2, <3>1 DEF RecordOrderly
  <2> QED BY <1>2, <2>1, <2>2
<1>8. ASSUME NEW i \in DOMAIN stream', stream'[i].type = "snapshot" PROVE ChunkOrderly(i)'
  <2>1. CASE i \in DOMAIN stream /\ stream'[i] = stream[i]
    <3>1. ChunkOrderly(i)
      BY <1>8, <2>1 DEF StreamOrderly
    <3> QED BY <1>4, <2>1, <3>1 DEF ChunkOrderly
  <2>2. CASE stream'[i] = p /\ i = n
    <3>1. stream = <<>>
      BY <1>8, <2>2
    <3>2. Len(<<>>) = 0
      OBVIOUS
    <3>3. n = 1
      BY <3>1, <3>2
    <3> QED BY <1>4, <1>8, <2>2, <3>3 DEF ChunkOrderly
  <2> QED BY <1>2, <2>1, <2>2
<1>9. StreamOrderly'
  BY <1>7, <1>8 DEF StreamOrderly
<1>10. ReplicaOrderly'
  BY DEF ReplicaOrderly
<1>11. AtZero' => AtZero /\ p.type = "snapshot" /\ p.max_tx_id = 0
  BY <1>2 DEF AtZero
<1> QED BY <1>9, <1>10, <1>11

(* The whole tree in one chunk.                                            *)
LEMMA WholeTree ==
  ASSUME Typed, LeaderOrderly, Handshake
  PROVE  /\ WholeSnapshot(TreeRecords(Keys), leader.global_version)
         /\ TreeRecords(Keys) = {} => Blank(leader.global_version)
         /\ TreeRecords(Keys) \in SUBSET Found
         /\ \A k \in Keys : leader.tree[k] # None => leader.global_version # 0 /\ k \in setting.keys
<1>1. /\ leader.tree \in Store /\ commands \in Seq(Command) /\ leader.global_version \in Nat
  BY TypedFacts
<1>2. \A k \in Keys : Cmd(leader.tree[k]) = Amount(commands, leader.global_version, k)
  BY HandshakeFacts
<1>3. \A k \in Keys : leader.tree[k] # None => leader.tree[k].cmd \in Nat \ {0}
  BY <1>1 DEF Store, Record
<1>4. ASSUME NEW k \in Keys
      PROVE  {r \in TreeRecords(Keys) : r[1] = k} =
               IF leader.tree[k] = None THEN {} ELSE {<<k, leader.tree[k].cmd>>}
  BY DEF TreeRecords
<1>5. \A k \in Keys : /\ leader.tree[k] = None <=> Amount(commands, leader.global_version, k) = 0
                      /\ leader.tree[k] # None => leader.tree[k].cmd = Amount(commands, leader.global_version, k)
  BY <1>2, <1>3 DEF Cmd
<1>6. WholeSnapshot(TreeRecords(Keys), leader.global_version)
  BY <1>4, <1>5 DEF WholeSnapshot
<1>7. TreeRecords(Keys) = {} => Blank(leader.global_version)
  BY <1>5 DEF TreeRecords, Blank
<1>8. TreeRecords(Keys) \in SUBSET Found
  BY <1>3 DEF TreeRecords, Found
<1>9. ASSUME NEW k \in Keys, leader.tree[k] # None
      PROVE  leader.global_version # 0 /\ k \in setting.keys
  <2> DEFINE c == Amount(commands, leader.global_version, k)
  <2>1. c # 0
    BY <1>5, <1>9
  <2>2. c \in DOMAIN commands /\ commands[c].writes[k] = "put" /\ Amount(commands, 0, k) = 0
    BY <1>1, <2>1, AmountFacts
  <2>3. k \in Touched(c)
    BY <2>2 DEF Touched
  <2>4. k \in setting.keys
    BY <2>2, <2>3 DEF LeaderOrderly, CommandsShaped
  <2> QED BY <2>1, <2>2, <2>4
<1> QED BY <1>6, <1>7, <1>8, <1>9

(* A full chunk has every key of the workload.                             *)
LEMMA FullChunk ==
  ASSUME Typed, LeaderOrderly, Handshake, Orderly, NEW V \in SUBSET Keys,
         Cardinality(TreeRecords(V)) >= setting.chunk
  PROVE  \A k \in Keys : leader.tree[k] # None => k \in V
<1> DEFINE P == {i \in V : leader.tree[i] # None}
           f == [i \in P |-> <<i, leader.tree[i].cmd>>]
<1>1. IsFiniteSet(Keys)
  BY WorkloadsAssumption
<1>2. IsFiniteSet(setting.keys) /\ Cardinality(setting.keys) \in Nat /\ setting.chunk \in Nat \ {0}
  BY <1>1, TypedFacts, WorkloadTyped, FS_Subset, FS_CardinalityType
<1>3. P \subseteq setting.keys
  BY WholeTree
<1>4. IsFiniteSet(P) /\ Cardinality(P) \in Nat /\ Cardinality(P) <= Cardinality(setting.keys)
      /\ (Cardinality(P) = Cardinality(setting.keys) => P = setting.keys)
  <2> HIDE DEF P
  <2>1. IsFiniteSet(P) /\ Cardinality(P) <= Cardinality(setting.keys)
        /\ (Cardinality(P) = Cardinality(setting.keys) => P = setting.keys)
    BY <1>2, <1>3, FS_Subset
  <2> QED BY <2>1, FS_CardinalityType
<1>5. f \in Surjection(P, TreeRecords(V))
  <2>1. \A i \in P : f[i] \in TreeRecords(V)
    BY DEF TreeRecords
  <2>2. \A r \in TreeRecords(V) : \E i \in P : f[i] = r
    BY DEF TreeRecords
  <2>3. f \in [P -> TreeRecords(V)]
    BY <2>1
  <2> QED BY <2>2, <2>3 DEF Surjection
<1>6. Cardinality(TreeRecords(V)) <= Cardinality(P) /\ IsFiniteSet(TreeRecords(V))
  <2> HIDE DEF P, f
  <2> QED BY <1>4, <1>5, FS_Surjection
<1>7. Cardinality(TreeRecords(V)) \in Nat
  BY <1>6, FS_CardinalityType
<1>8. setting.chunk >= Cardinality(setting.keys)
  BY DEF Orderly
<1>9. P = setting.keys
  <2> HIDE DEF P
  <2>1. Cardinality(setting.keys) <= Cardinality(P)
    BY <1>2, <1>4, <1>6, <1>7, <1>8
  <2> QED BY <1>2, <1>4, <2>1
<1> QED BY <1>9, WholeTree

(* One key of the snapshot, and its last chunk.                            *)
LEMMA SyncVisitOrderly ==
  ASSUME Typed, BackwardsInv, Orderly, OrderlyParts, (\E k \in Keys : SyncVisit(k)) \/ SyncLastChunk
  PROVE  OrderlyParts'
<1>1. /\ task \in Task /\ leader.global_version \in Nat /\ TaskTyped /\ task.chunk \in SUBSET Found
      /\ task.iter \in SUBSET Keys
  BY TypedFacts DEF Task
<1>2. LeaderOrderly /\ StreamOrderly /\ ReplicaOrderly /\ TaskLogged /\ VisitOrderly
  BY DEF OrderlyParts, TaskOrderly
<1>3. UNCHANGED <<setting, writers, link, replica, faults>> /\ Handshake /\ task.pc = "visit"
  BY DEF SyncVisit, SyncLastChunk, Handshake
<1>4. commands' = commands /\ leader' = leader /\ pc' = pc /\ job' = job /\ replica' = replica
      /\ setting' = setting
  BY <1>3 DEF writers
<1>5. (\A w \in Writers : pc[w] = "idle") /\ Settled = leader.global_version
  BY <1>2, <1>3, HandshakeFacts
<1>6. LeaderOrderly' /\ Settled' = Settled /\ Truncates' = Truncates
  BY <1>2, <1>3, <1>5, LeaderKept
<1>7. /\ WholeSnapshot(TreeRecords(Keys), leader.global_version)
      /\ TreeRecords(Keys) = {} => Blank(leader.global_version)
      /\ TreeRecords(Keys) \in SUBSET Found
      /\ \A k \in Keys : leader.tree[k] # None => leader.global_version # 0 /\ k \in setting.keys
  BY <1>2, <1>3, WholeTree
<1>8. \A S : TreeRecords(S)' = TreeRecords(S)
  BY <1>4 DEF TreeRecords
<1>9. /\ task.start = leader.global_version
      /\ \/ /\ stream = <<>> /\ task.chunk = TreeRecords(Keys \ task.iter)
            /\ ~Truncates => replica.global_version = 0
         \/ /\ task.chunk = {} /\ TreeRecords(task.iter) = {} /\ ~AtZero /\ task.start # 0
  BY <1>2, <1>3 DEF VisitOrderly
(* The whole tree is sent as one chunk.                                    *)
<1>10. ASSUME stream' = Append(stream, Chunk(TreeRecords(Keys))), stream = <<>>,
              ~Truncates => replica.global_version = 0
       PROVE  StreamOrderly' /\ ReplicaOrderly' /\ (AtZero' => task.start = 0)
  <2>1. PICK p : p = Chunk(TreeRecords(Keys))
    OBVIOUS
  <2>2. p \in Payload /\ p.type = "snapshot" /\ p.max_tx_id = task.start /\ p.records = TreeRecords(Keys)
    BY <1>1, <1>7, <2>1, PayloadTyped
  <2>3. PICK n : n = Len(stream) + 1
    OBVIOUS
  <2>4. p.max_tx_id <= Settled /\ WholeSnapshot(p.records, p.max_tx_id)
    BY <1>1, <1>5, <1>7, <1>9, <2>2
  <2>5. stream' = Append(stream, p) /\ p.type # "wal"
    BY <1>10, <2>1, <2>2
  <2>6. StreamOrderly' /\ ReplicaOrderly' /\ (AtZero' => AtZero /\ p.type = "snapshot" /\ p.max_tx_id = 0)
    BY <1>2, <1>4, <1>6, <1>10, <2>2, <2>3, <2>4, <2>5, StreamGrows
  <2> QED BY <2>2, <2>6
<1>11. ASSUME stream' = stream PROVE StreamOrderly' /\ ReplicaOrderly' /\ (AtZero' <=> AtZero)
  BY <1>2, <1>4, <1>6, <1>11, ReplicaKept
<1>12. ASSUME task'.records = task.records, task'.rx = task.rx PROVE TaskLogged'
  BY <1>2, <1>4, <1>12 DEF TaskLogged
<1>13. ASSUME NEW k \in Keys, SyncVisit(k) PROVE OrderlyParts'
  <2>1. PICK found : found = {<<j, leader.tree[j].cmd>> : j \in {i \in {k} : leader.tree[i] # None}}
    OBVIOUS
  <2>2. PICK chunk : chunk = task.chunk \cup found
    OBVIOUS
  <2>3. /\ k \in task.iter
        /\ IF found # {} /\ Cardinality(chunk) >= setting.chunk
           THEN /\ stream' = Append(stream, Chunk(chunk))
                /\ task' = [task EXCEPT !.iter = @ \ {k}, !.chunk = {}]
           ELSE /\ task' = [task EXCEPT !.iter = @ \ {k}, !.chunk = chunk]
                /\ stream' = stream
    BY <1>13, <2>1, <2>2 DEF SyncVisit
  <2>4. /\ task'.pc = "visit" /\ task'.start = task.start /\ task'.iter = task.iter \ {k}
        /\ task'.records = task.records /\ task'.rx = task.rx
        /\ task'.chunk = IF found # {} /\ Cardinality(chunk) >= setting.chunk THEN {} ELSE chunk
    BY <1>1, <1>3, <2>3 DEF Task
  <2>5. HandshakeOrderly' /\ StreamsFromZero' /\ TaskLogged'
    BY <1>12, <2>4 DEF HandshakeOrderly, StreamsFromZero
  <2>6. PICK V : V = Keys \ (task.iter \ {k})
    OBVIOUS
  <2>7. V \in SUBSET Keys /\ V = (Keys \ task.iter) \cup {k}
    BY <2>3, <2>6
  <2>8. TreeRecords(V) = TreeRecords(Keys \ task.iter) \cup found
    BY <2>1, <2>7 DEF TreeRecords
  <2>9. found # {} => leader.tree[k] # None
    BY <2>1
  <2>10. CASE stream = <<>> /\ task.chunk = TreeRecords(Keys \ task.iter)
            /\ (~Truncates => replica.global_version = 0)
    <3>1. chunk = TreeRecords(V)
      BY <2>2, <2>8, <2>10
    <3>2. CASE found # {} /\ Cardinality(chunk) >= setting.chunk
      <4>1. \A i \in Keys : leader.tree[i] # None => i \in V
        BY <1>2, <1>3, <2>7, <3>1, <3>2, FullChunk
      <4>2. TreeRecords(V) = TreeRecords(Keys) /\ TreeRecords(task.iter \ {k}) = {}
        <5>1. {i \in V : leader.tree[i] # None} = {i \in Keys : leader.tree[i] # None}
          BY <2>7, <4>1
        <5>2. {i \in task.iter \ {k} : leader.tree[i] # None} = {}
          BY <1>1, <2>6, <4>1
        <5> QED BY <5>1, <5>2 DEF TreeRecords
      <4>3. task.start # 0
        BY <1>7, <1>9, <2>9, <3>2
      <4>4. StreamOrderly' /\ ReplicaOrderly' /\ ~AtZero'
        BY <1>10, <2>3, <2>10, <3>1, <3>2, <4>2, <4>3
      <4>5. TreeRecords(task.iter)' = {} /\ task'.chunk = {}
        <5>1. TreeRecords(task.iter)' = TreeRecords(task.iter \ {k})
          BY <1>4, <2>4 DEF TreeRecords
        <5> QED BY <2>4, <3>2, <4>2, <5>1
      <4>6. VisitOrderly'
        BY <1>4, <1>9, <2>4, <4>3, <4>4, <4>5 DEF VisitOrderly
      <4> QED BY <1>6, <2>5, <4>4, <4>6 DEF OrderlyParts, TaskOrderly
    <3>3. CASE ~(found # {} /\ Cardinality(chunk) >= setting.chunk)
      <4>1. stream' = stream /\ task'.chunk = chunk
        BY <2>3, <2>4, <3>3
      <4>2. TreeRecords(Keys \ task.iter)' = TreeRecords(V)
        BY <1>4, <2>4, <2>6 DEF TreeRecords
      <4>3. VisitOrderly'
        BY <1>4, <1>6, <1>9, <2>4, <2>10, <3>1, <4>1, <4>2 DEF VisitOrderly
      <4> QED BY <1>6, <1>11, <2>5, <4>1, <4>3 DEF OrderlyParts, TaskOrderly
    <3> QED BY <3>2, <3>3
  <2>11. CASE task.chunk = {} /\ TreeRecords(task.iter) = {} /\ ~AtZero /\ task.start # 0
    <3>1. \A i \in task.iter : leader.tree[i] = None
      BY <2>11 DEF TreeRecords
    <3>2. found = {} /\ chunk = {}
      BY <2>1, <2>2, <2>3, <2>11, <3>1
    <3>3. stream' = stream /\ task'.chunk = {}
      BY <2>3, <2>4, <3>2
    <3>4. TreeRecords(task.iter)' = {}
      <4>1. TreeRecords(task.iter)' = TreeRecords(task.iter \ {k})
        BY <1>4, <2>4 DEF TreeRecords
      <4> QED BY <3>1, <4>1 DEF TreeRecords
    <3>5. StreamOrderly' /\ ReplicaOrderly' /\ ~AtZero'
      BY <1>11, <2>11, <3>3
    <3>6. VisitOrderly'
      BY <1>4, <1>9, <2>4, <2>11, <3>3, <3>4, <3>5 DEF VisitOrderly
    <3> QED BY <1>6, <2>5, <3>5, <3>6 DEF OrderlyParts, TaskOrderly
  <2> QED BY <1>9, <2>10, <2>11
<1>14. CASE SyncLastChunk
  <2>1. /\ task.iter = {} /\ task' = [task EXCEPT !.pc = "subscribe", !.chunk = {}]
        /\ IF task.chunk # {} \/ task.start = 0 THEN stream' = Append(stream, Chunk(task.chunk))
           ELSE stream' = stream
    BY <1>14 DEF SyncLastChunk
  <2>2. /\ task'.pc = "subscribe" /\ task'.start = task.start /\ task'.chunk = {}
        /\ task'.records = task.records /\ task'.rx = task.rx
    BY <1>1, <2>1 DEF Task
  <2>3. HandshakeOrderly' /\ VisitOrderly' /\ TaskLogged'
    BY <1>12, <2>2 DEF HandshakeOrderly, VisitOrderly
  <2>4. Keys \ task.iter = Keys
    BY <2>1
  <2>5. ASSUME AtZero' => Blank(task.start) PROVE StreamsFromZero'
    <3>1. Blank(task.start)' <=> Blank(task.start)
      BY <1>4, <2>2 DEF Blank
    <3> QED BY <1>4, <1>9, <2>2, <2>5, <3>1 DEF StreamsFromZero
  <2>6. CASE stream = <<>> /\ task.chunk = TreeRecords(Keys) /\ (~Truncates => replica.global_version = 0)
    <3>1. CASE task.chunk # {} \/ task.start = 0
      <4>1. StreamOrderly' /\ ReplicaOrderly' /\ (AtZero' => task.start = 0)
        BY <1>10, <2>1, <2>6, <3>1
      <4>2. Blank(0)
        <5>1. commands \in Seq(Command)
          BY TypedFacts
        <5> QED BY <5>1, AmountFacts DEF Blank
      <4> QED BY <1>6, <2>3, <2>5, <4>1, <4>2 DEF OrderlyParts, TaskOrderly
    <3>2. CASE task.chunk = {} /\ task.start # 0
      <4>1. stream' = stream /\ Blank(task.start)
        BY <1>7, <1>9, <2>1, <2>6, <3>2
      <4> QED BY <1>6, <1>11, <2>3, <2>5, <4>1 DEF OrderlyParts, TaskOrderly
    <3> QED BY <3>1, <3>2
  <2>7. CASE task.chunk = {} /\ ~AtZero /\ task.start # 0
    <3>1. stream' = stream
      BY <2>1, <2>7
    <3> QED BY <1>6, <1>11, <2>3, <2>5, <2>7, <3>1 DEF OrderlyParts, TaskOrderly
  <2> QED BY <1>9, <2>4, <2>6, <2>7
<1> QED BY <1>13, <1>14

(* A line of the log is sent: the replica is past version 0.               *)
LEMMA SyncReplayOrderly ==
  ASSUME Typed, BackwardsInv, Orderly, OrderlyParts, SyncReplay
  PROVE  OrderlyParts'
<1>1. /\ task \in Task /\ TaskTyped /\ commands \in Seq(Command)
  BY TypedFacts
<1>2. LeaderOrderly /\ StreamOrderly /\ ReplicaOrderly /\ TaskLogged /\ HandshakeOrderly
  BY DEF OrderlyParts, TaskOrderly
<1>3. PICK line : line = Head(task.records)
  OBVIOUS
<1>4. /\ UNCHANGED <<setting, writers, link, replica, faults>> /\ Handshake /\ task.pc = "replay"
      /\ stream' = Append(stream, WalRecord(line.tx_id, line.cmd))
      /\ task' = [task EXCEPT !.start = line.tx_id, !.records = Tail(@),
                              !.pc = IF Len(task.records) = 1 THEN "subscribe" ELSE "replay"]
  BY <1>3 DEF SyncReplay, Handshake
<1>5. commands' = commands /\ leader' = leader /\ pc' = pc /\ job' = job /\ replica' = replica
      /\ setting' = setting
  BY <1>4 DEF writers
<1>6. (\A w \in Writers : pc[w] = "idle")
  BY <1>2, <1>4, HandshakeFacts
<1>7. LeaderOrderly' /\ Settled' = Settled /\ Truncates' = Truncates
  BY <1>2, <1>4, <1>6, LeaderKept
<1>8. replica.global_version # 0
  BY <1>2, <1>4 DEF HandshakeOrderly
<1>9. task.records # <<>> /\ task.records \in Seq(Line) /\ Whole(task.records)
  BY <1>1, <1>4 DEF TaskTyped, Task
<1>10. /\ Head(task.records) = task.records[1] /\ 1 \in DOMAIN task.records
       /\ \A i \in DOMAIN Tail(task.records) : i + 1 \in DOMAIN task.records /\ Tail(task.records)[i] = task.records[i + 1] /\ i \in Nat \ {0}
  BY <1>9, Tailed
<1>11. line.cmd \in DOMAIN commands /\ commands[line.cmd].logged /\ commands[line.cmd].tx_id = line.tx_id
  BY <1>2, <1>3, <1>9, <1>10 DEF Whole, Written, TaskLogged
<1>12. line.cmd \in Nat \ {0} /\ line.tx_id \in Nat \ {0}
  BY <1>1, <1>11, CommandFacts
<1>13. PICK p : p = WalRecord(line.tx_id, line.cmd)
  OBVIOUS
<1>14. p \in Payload /\ p.type = "wal" /\ p.tx_id = line.tx_id /\ p.cmd = line.cmd
  BY <1>1, <1>12, <1>13, PayloadTyped
<1>15. ~AtZero /\ ~AtZero'
  BY <1>5, <1>8 DEF AtZero
<1>16. StreamOrderly' /\ ReplicaOrderly'
  <2>1. PICK n : n = Len(stream) + 1
    OBVIOUS
  <2>2. stream' = Append(stream, p) /\ p.type # "snapshot"
    BY <1>4, <1>13, <1>14
  <2> QED BY <1>2, <1>5, <1>7, <1>11, <1>14, <1>15, <2>1, <2>2, StreamGrows
<1>17. /\ task'.pc \in {"subscribe", "replay"} /\ task'.rx = task.rx /\ task'.records = Tail(task.records)
  BY <1>1, <1>4 DEF Task
<1>18. TaskLogged'
  <2>1. \A i \in DOMAIN task'.records :
          /\ commands[task'.records[i].cmd].logged
          /\ commands[task'.records[i].cmd].tx_id = task'.records[i].tx_id
    BY <1>2, <1>10, <1>17 DEF TaskLogged
  <2> QED BY <1>2, <1>5, <1>17, <2>1 DEF TaskLogged
<1>19. HandshakeOrderly' /\ VisitOrderly' /\ StreamsFromZero'
  BY <1>5, <1>8, <1>15, <1>17 DEF HandshakeOrderly, VisitOrderly, StreamsFromZero
<1> QED BY <1>7, <1>16, <1>18, <1>19 DEF OrderlyParts, TaskOrderly

(* A message of the broadcast, or the end of a task that lagged behind.    *)
LEMMA SyncForwardOrderly ==
  ASSUME Typed, BackwardsInv, Orderly, OrderlyParts, SyncForward
  PROVE  OrderlyParts'
<1>1. /\ task \in Task /\ TaskTyped /\ commands \in Seq(Command) /\ task.start \in Nat /\ task.rx \in Receivers
      /\ stream \in Seq(Payload)
  BY TypedFacts
<1>2. LeaderOrderly /\ StreamOrderly /\ ReplicaOrderly /\ TaskLogged /\ StreamsFromZero
  BY DEF OrderlyParts, TaskOrderly
<1>3. /\ UNCHANGED <<setting, writers, link, replica, faults>> /\ task.pc = "stream"
  BY DEF SyncForward
<1>4. commands' = commands /\ leader' = leader /\ pc' = pc /\ job' = job /\ replica' = replica
      /\ setting' = setting
  BY <1>3 DEF writers
<1>5. CASE task.rx.lagged
  <2>1. task' = NoTask /\ stream' = stream
    BY <1>5 DEF SyncForward, OnLagged
  <2>2. task'.pc = "none" /\ task'.records = <<>> /\ task'.rx.queue = <<>>
    BY <2>1, NoTaskTyped
  <2>3. LeaderOrderly' /\ Settled' = Settled
    BY <1>2, <1>3, <2>2, LeaderKept DEF Handshake
  <2>4. StreamOrderly' /\ ReplicaOrderly'
    BY <1>2, <1>4, <2>1, <2>3, ReplicaKept
  <2>5. TaskOrderly'
    BY <2>2 DEF TaskOrderly, TaskLogged, HandshakeOrderly, VisitOrderly, StreamsFromZero
  <2> QED BY <2>3, <2>4, <2>5 DEF OrderlyParts
<1>6. CASE ~task.rx.lagged
  <2>1. PICK c : c = Head(task.rx.queue)
    OBVIOUS
  <2>2. PICK q : q = task.rx.queue
    OBVIOUS
  <2>3. /\ q # <<>> /\ task' = [task EXCEPT !.rx = Sync!Popped(@)]
        /\ IF commands[c].tx_id <= task.start THEN stream' = stream
           ELSE stream' = Append(stream, WalRecord(commands[c].tx_id, c))
    BY <1>6, <2>1, <2>2 DEF SyncForward
  <2>4. /\ task'.pc = "stream" /\ task'.rx = Sync!Popped(task.rx) /\ task'.records = task.records
        /\ task'.start = task.start
    BY <1>1, <1>3, <2>3 DEF Task
  <2>5. task'.rx.queue = Tail(q) /\ ~task'.rx.lagged
    BY <1>1, <1>6, <2>2, <2>4 DEF Sync!Popped, Receivers
  <2>6. q \in Seq(Nat \ {0})
    BY <1>1, <2>2 DEF Receivers
  <2>7. /\ c = q[1] /\ 1 \in DOMAIN q
        /\ \A i \in DOMAIN Tail(q) : i + 1 \in DOMAIN q /\ Tail(q)[i] = q[i + 1] /\ i \in Nat \ {0}
        /\ \A i \in DOMAIN q : i # 1 => i - 1 \in DOMAIN Tail(q) /\ Tail(q)[i - 1] = q[i]
    BY <2>1, <2>2, <2>3, <2>6, Tailed
  <2>8. c \in DOMAIN commands /\ commands[c].logged
    BY <1>1, <1>2, <2>2, <2>7 DEF TaskTyped, TaskLogged
  <2>9. c \in Nat \ {0} /\ commands[c].tx_id \in Nat \ {0}
    BY <1>1, <2>8, CommandFacts
  <2>10. LeaderOrderly' /\ Settled' = Settled /\ Truncates' = Truncates
    BY <1>2, <1>3, <2>4, LeaderKept DEF Handshake
  <2>11. HandshakeOrderly' /\ VisitOrderly'
    BY <2>4 DEF HandshakeOrderly, VisitOrderly
  <2>12. TaskLogged'
    <3>1. ASSUME NEW i \in DOMAIN Tail(q)
          PROVE  /\ commands[Tail(q)[i]].logged
                 /\ \A j \in 1..(i - 1) : Tail(q)[j] < Tail(q)[i]
                 /\ \A w \in Writers : pc[w] = "send" => Tail(q)[i] < job[w].cmd
      <4>1. i + 1 \in DOMAIN q /\ Tail(q)[i] = q[i + 1] /\ i \in Nat \ {0}
        BY <2>7
      <4>2. /\ commands[q[i + 1]].logged
            /\ \A j \in 1..((i + 1) - 1) : q[j] < q[i + 1]
            /\ \A w \in Writers : pc[w] = "send" => q[i + 1] < job[w].cmd
        BY <1>2, <2>2, <4>1 DEF TaskLogged
      <4>3. ASSUME NEW j \in 1..(i - 1) PROVE Tail(q)[j] < Tail(q)[i]
        <5>1. Tail(q) \in Seq(Nat \ {0})
          BY <2>3, <2>6, Tailed
        <5>2. DOMAIN Tail(q) = 1..Len(Tail(q)) /\ Len(Tail(q)) \in Nat
          BY <5>1, LenProperties
        <5>3. j \in DOMAIN Tail(q) /\ j + 1 \in 1..((i + 1) - 1)
          BY <4>1, <5>2
        <5>4. Tail(q)[j] = q[j + 1]
          BY <2>7, <5>3
        <5> QED BY <4>1, <4>2, <5>3, <5>4
      <4> QED BY <4>1, <4>2, <4>3
    <3> QED BY <1>2, <1>4, <2>4, <2>5, <3>1 DEF TaskLogged
(* What is announced is the message at hand or announced afterwards.       *)
  <2>13. ASSUME NEW d, Announced(d)
         PROVE  d = c \/ Announced(d)'
    <3>1. CASE \E i \in DOMAIN q : q[i] = d
      <4>1. PICK i \in DOMAIN q : q[i] = d
        BY <3>1
      <4>2. CASE i = 1
        BY <2>7, <4>1, <4>2
      <4>3. CASE i # 1
        <5>1. i - 1 \in DOMAIN task'.rx.queue /\ task'.rx.queue[i - 1] = d
          BY <2>5, <2>7, <4>1, <4>3
        <5> QED BY <5>1 DEF Announced
      <4> QED BY <4>2, <4>3
    <3>2. CASE \E w \in Writers : pc[w] = "send" /\ job[w].cmd = d
      BY <1>4, <3>2 DEF Announced
    <3> QED BY <2>2, <2>13, <3>1, <3>2 DEF Announced
  <2>14. CASE commands[c].tx_id <= task.start
    <3>1. stream' = stream
      BY <2>3, <2>14
    <3>2. StreamOrderly' /\ ReplicaOrderly' /\ (AtZero' <=> AtZero) /\ (\A v : Blank(v)' <=> Blank(v))
      BY <1>2, <1>4, <2>10, <3>1, ReplicaKept
    <3>3. StreamsFromZero'
      <4> SUFFICES ASSUME AtZero'
                   PROVE  /\ Blank(task.start)' /\ task.start <= Settled'
                          /\ \A d \in DOMAIN commands :
                               commands[d].logged /\ commands[d].tx_id > task.start => Announced(d)'
        BY <1>4, <2>4 DEF StreamsFromZero, Blank
      <4>1. /\ Blank(task.start) /\ task.start <= Settled
            /\ \A d \in DOMAIN commands :
                 commands[d].logged /\ commands[d].tx_id > task.start => Announced(d)
        BY <1>2, <1>3, <1>6, <3>2 DEF StreamsFromZero
      <4>2. Blank(task.start)'
        BY <1>4, <2>4, <4>1 DEF Blank
      <4>3. \A d \in DOMAIN commands : commands[d].tx_id > task.start => d # c
        BY <1>1, <2>9, <2>14
      <4> QED BY <2>10, <2>13, <4>1, <4>2, <4>3
    <3> QED BY <2>10, <2>11, <2>12, <3>2, <3>3 DEF OrderlyParts, TaskOrderly
  <2>15. CASE ~(commands[c].tx_id <= task.start)
    <3>1. PICK p : p = WalRecord(commands[c].tx_id, c)
      OBVIOUS
    <3>2. p \in Payload /\ p.type = "wal" /\ p.tx_id = commands[c].tx_id /\ p.cmd = c
      BY <1>1, <2>9, <3>1, PayloadTyped
    <3>3. stream' = Append(stream, p) /\ p.type # "snapshot"
      BY <2>3, <2>15, <3>1, <3>2
    <3>4. ASSUME AtZero PROVE Blank(p.tx_id - 1)
      <4>1. /\ Blank(task.start)
            /\ \A d \in DOMAIN commands :
                 commands[d].logged /\ commands[d].tx_id > task.start => Announced(d)
        BY <1>2, <1>3, <1>6, <3>4 DEF StreamsFromZero
      <4>2. p.tx_id - 1 \in Nat /\ task.start <= p.tx_id - 1
        BY <1>1, <2>9, <2>15, <3>2
      <4>3. ASSUME NEW d \in DOMAIN commands, commands[d].logged, commands[d].tx_id <= p.tx_id - 1
            PROVE  commands[d].tx_id <= task.start
        <5> SUFFICES ASSUME ~(commands[d].tx_id <= task.start) PROVE FALSE
          OBVIOUS
        <5>1. d \in Nat \ {0} /\ commands[d].tx_id \in Nat \ {0}
          BY <1>1, CommandFacts
        <5>2. Announced(d)
          BY <1>1, <4>1, <4>3, <5>1
        <5>3. d = c \/ c < d
          <6>1. ASSUME NEW i \in DOMAIN q, q[i] = d PROVE d = c \/ c < d
            <7>1. CASE i = 1
              BY <2>7, <6>1, <7>1
            <7>2. CASE i # 1
              <8>1. 1 \in 1..(i - 1)
                <9>1. DOMAIN q = 1..Len(q) /\ Len(q) \in Nat
                  BY <2>6, LenProperties
                <9> QED BY <7>2, <9>1
              <8>2. q[1] < q[i]
                BY <1>2, <2>2, <8>1 DEF TaskLogged
              <8> QED BY <2>7, <6>1, <8>2
            <7> QED BY <7>1, <7>2
          <6>2. ASSUME NEW w \in Writers, pc[w] = "send", job[w].cmd = d PROVE d = c \/ c < d
            BY <1>2, <2>2, <2>7, <6>2 DEF TaskLogged
          <6> QED BY <2>2, <5>2, <6>1, <6>2 DEF Announced
        <5>4. Ascending(commands)
          BY <1>2, LeaderFacts
        <5>5. CASE d = c
          BY <2>9, <3>2, <4>3, <5>5
        <5>6. CASE c < d
          <6>1. commands[c].tx_id < commands[d].tx_id
            BY <2>8, <4>3, <5>4, <5>6 DEF Ascending
          <6> QED BY <2>9, <3>2, <4>3, <5>1, <6>1
        <5> QED BY <5>3, <5>5, <5>6
      <4>4. \A k \in Keys : Amount(commands, task.start, k) = Amount(commands, p.tx_id - 1, k)
        BY <1>1, <4>2, <4>3, AmountBetween
      <4> QED BY <4>1, <4>4 DEF Blank
    <3>5. PICK n : n = Len(stream) + 1
      OBVIOUS
    <3>6. StreamOrderly' /\ ReplicaOrderly' /\ ~AtZero'
      BY <1>2, <1>4, <2>8, <2>10, <3>2, <3>3, <3>4, <3>5, StreamGrows
    <3>7. StreamsFromZero'
      BY <3>6 DEF StreamsFromZero
    <3> QED BY <2>10, <2>11, <2>12, <3>6, <3>7 DEF OrderlyParts, TaskOrderly
  <2> QED BY <2>14, <2>15
<1> QED BY <1>5, <1>6
-----------------------------------------------------------------------------
(* OrderlyReplica: the replica.                                            *)

(* Nothing on the way and no task, or one that begins.                     *)
LEMMA EmptyStreamOrderly ==
  ASSUME Typed, BackwardsInv, Orderly, OrderlyParts, UNCHANGED <<setting, writers>>,
         stream' = <<>>, replica'.tree = replica.tree, replica'.global_version = replica.global_version,
         task' = NoTask \/ (/\ task' = [NoTask EXCEPT !.pc = "read", !.last_known = replica.global_version]
                            /\ \A w \in Writers : pc[w] = "idle")
  PROVE  OrderlyParts'
<1>1. LeaderOrderly /\ ReplicaOrderly
  BY DEF OrderlyParts
<1>2. commands' = commands
  BY DEF writers
<1>3. /\ task'.pc \in {"none", "read"} /\ task'.records = <<>> /\ task'.rx.queue = <<>> /\ task'.chunk = {}
      /\ task'.pc = "read" => \A w \in Writers : pc[w] = "idle"
  <2>1. /\ NoTask.pc = "none" /\ NoTask.records = <<>> /\ NoTask.rx.queue = <<>> /\ NoTask.chunk = {}
    BY NoTaskTyped DEF NoTask
  <2>2. CASE task' = NoTask
    BY <2>1, <2>2
  <2>3. CASE /\ task' = [NoTask EXCEPT !.pc = "read", !.last_known = replica.global_version]
             /\ \A w \in Writers : pc[w] = "idle"
    <3>1. task'.pc = "read" /\ task'.records = NoTask.records /\ task'.rx = NoTask.rx /\ task'.chunk = NoTask.chunk
      BY <2>3 DEF NoTask
    <3> QED BY <2>1, <2>3, <3>1
  <2> QED BY <2>2, <2>3
<1>4. LeaderOrderly' /\ Settled' = Settled
  BY <1>1, <1>3, LeaderKept DEF Handshake
<1>5. TaskOrderly'
  BY <1>3 DEF TaskOrderly, TaskLogged, HandshakeOrderly, VisitOrderly, StreamsFromZero
<1>6. StreamOrderly'
  BY DEF StreamOrderly
<1>7. ReplicaOrderly'
  BY <1>1, <1>2, <1>4 DEF ReplicaOrderly
<1> QED BY <1>4, <1>5, <1>6, <1>7 DEF OrderlyParts

(* A payload is taken from the stream: what is on the way behind it.       *)
LEMMA StreamShrinks ==
  ASSUME Typed, BackwardsInv, OrderlyParts, UNCHANGED <<setting, writers, task>>,
         stream # <<>>, stream' = Tail(stream),
         stream[1].type = "snapshot" => replica'.global_version = stream[1].max_tx_id,
         stream[1].type # "snapshot" => replica'.global_version # 0,
         replica.global_version <= replica'.global_version, replica'.global_version \in Nat
  PROVE  LeaderOrderly' /\ TaskOrderly' /\ StreamOrderly' /\ Settled' = Settled
<1>1. stream \in Seq(Payload) /\ replica.global_version \in Nat
  BY TypedFacts
<1>2. LeaderOrderly /\ TaskLogged /\ HandshakeOrderly /\ VisitOrderly /\ StreamsFromZero /\ StreamOrderly
      /\ HandshakeAhead /\ ChunksAhead
  BY DEF OrderlyParts, TaskOrderly, BackwardsInv
<1>3. commands' = commands /\ leader' = leader /\ pc' = pc /\ job' = job
  BY DEF writers
<1>4. LeaderOrderly' /\ Settled' = Settled /\ Truncates' = Truncates
  <2>1. Handshake' => \A w \in Writers : pc[w] = "idle"
    BY <1>2 DEF Handshake, LeaderOrderly, Serial
  <2> QED BY <1>2, <2>1, LeaderKept
<1>5. /\ 1 \in DOMAIN stream
      /\ \A i \in DOMAIN Tail(stream) : i + 1 \in DOMAIN stream /\ Tail(stream)[i] = stream[i + 1] /\ i \in Nat \ {0}
      /\ \A i \in DOMAIN stream : i # 1 => i - 1 \in DOMAIN Tail(stream) /\ Tail(stream)[i - 1] = stream[i]
  BY <1>1, Tailed
<1>6. \A i \in DOMAIN stream' : stream'[i].type # "snapshot"
  <2>1. \A i \in DOMAIN stream : stream[i].type = "snapshot" => i = 1
    BY <1>2 DEF StreamOrderly, ChunkOrderly
  <2> QED BY <1>5, <2>1
<1>7. replica'.global_version = 0 =>
        replica.global_version = 0 /\ stream[1].type = "snapshot" /\ stream[1].max_tx_id = 0
  BY <1>1
<1>8. AtZero' => AtZero
  <2> SUFFICES ASSUME AtZero' PROVE AtZero
    OBVIOUS
  <2>1. replica.global_version = 0 /\ stream[1].type = "snapshot" /\ stream[1].max_tx_id = 0
    BY <1>7 DEF AtZero
  <2>2. ASSUME NEW i \in DOMAIN stream PROVE stream[i].type = "snapshot" /\ stream[i].max_tx_id = 0
    <3>1. CASE i = 1
      BY <2>1, <3>1
    <3>2. CASE i # 1
      <4>1. i - 1 \in DOMAIN stream' /\ stream'[i - 1] = stream[i]
        BY <1>5, <3>2
      <4> QED BY <1>6, <4>1 DEF AtZero
    <3> QED BY <3>1, <3>2
  <2> QED BY <2>1, <2>2 DEF AtZero
<1>9. ASSUME NEW i \in DOMAIN stream', stream'[i].type = "wal" PROVE RecordOrderly(i)'
  <2>1. PICK h : h = i + 1
    OBVIOUS
  <2>2. h \in DOMAIN stream /\ stream'[i] = stream[h] /\ i \in Nat \ {0}
    BY <1>5, <2>1
  <2>3. RecordOrderly(h)
    BY <1>2, <1>9, <2>2 DEF StreamOrderly
  <2>4. ZeroBefore(i)' => ZeroBefore(h)
    <3> SUFFICES ASSUME ZeroBefore(i)' PROVE ZeroBefore(h)
      OBVIOUS
    <3>1. replica.global_version = 0 /\ stream[1].type = "snapshot" /\ stream[1].max_tx_id = 0
      BY <1>7 DEF ZeroBefore
    <3>2. ASSUME NEW j \in 1..(h - 1) PROVE stream[j].type = "snapshot" /\ stream[j].max_tx_id = 0
      <4>1. CASE j = 1
        BY <3>1, <4>1
      <4>2. CASE j # 1
        <5>1. j - 1 \in 1..(i - 1) /\ j \in 1..h
          BY <2>1, <2>2, <4>2
        <5>2. j \in DOMAIN stream
          <6>1. DOMAIN stream = 1..Len(stream) /\ Len(stream) \in Nat
            BY <1>1, LenProperties
          <6> QED BY <2>2, <5>1, <6>1
        <5>3. stream'[j - 1] = stream[j]
          BY <1>5, <4>2, <5>2
        <5> QED BY <5>1, <5>3 DEF ZeroBefore
      <4> QED BY <4>1, <4>2
    <3> QED BY <3>1, <3>2 DEF ZeroBefore
  <2>5. \A v : Blank(v)' <=> Blank(v)
    BY <1>3 DEF Blank
  <2> QED BY <1>3, <2>2, <2>3, <2>4, <2>5 DEF RecordOrderly
<1>10. StreamOrderly'
  BY <1>6, <1>9 DEF StreamOrderly
<1>11. TaskLogged'
  BY <1>2, <1>3 DEF TaskLogged
<1>12. task.pc \notin {"read", "check", "snapshot"}
  BY <1>2 DEF HandshakeAhead
<1>13. HandshakeOrderly'
  <2>1. task.pc = "replay" => replica'.global_version # 0
    BY <1>1, <1>2, <1>7 DEF HandshakeOrderly
  <2> QED BY <1>12, <2>1 DEF HandshakeOrderly
<1>14. VisitOrderly'
  <2> SUFFICES ASSUME task.pc = "visit" PROVE VisitOrderly'
    BY DEF VisitOrderly
  <2>1. task.start = leader.global_version /\ task.chunk = {} /\ TreeRecords(task.iter) = {} /\ task.start # 0
    BY <1>2 DEF VisitOrderly
  <2>2. stream[1].type = "snapshot" /\ stream[1].max_tx_id = task.start
    BY <1>2, <1>5 DEF HandshakeAhead
  <2>3. ~AtZero'
    BY <2>1, <2>2 DEF AtZero
  <2>4. TreeRecords(task.iter)' = {}
    BY <1>3, <2>1 DEF TreeRecords
  <2> QED BY <1>3, <2>1, <2>3, <2>4 DEF VisitOrderly
<1>15. StreamsFromZero'
  <2>1. (\A v : Blank(v)' <=> Blank(v)) /\ (\A c : Announced(c)' <=> Announced(c))
    BY <1>3 DEF Blank, Announced
  <2>2. Blank(task.start)' <=> Blank(task.start)
    BY <1>3 DEF Blank
  <2> QED BY <1>2, <1>3, <1>4, <1>8, <2>1, <2>2 DEF StreamsFromZero
<1> QED BY <1>4, <1>10, <1>11, <1>13, <1>14, <1>15 DEF TaskOrderly

(* A snapshot of the replica changes its files only.                       *)
LEMMA ReplicaSaveOrderly ==
  ASSUME Typed, BackwardsInv, Orderly, OrderlyParts, ReplicaSave
  PROVE  OrderlyParts'
<1>1. LeaderOrderly /\ TaskOrderly /\ StreamOrderly /\ ReplicaOrderly
  BY DEF OrderlyParts
<1>2. UNCHANGED <<setting, writers, task, stream>> /\ replica' = Saved(replica)
  BY DEF ReplicaSave
<1>3. replica'.tree = replica.tree /\ replica'.global_version = replica.global_version
  BY <1>2, TypedFacts, SavedTyped
<1>4. commands' = commands /\ leader' = leader /\ pc' = pc /\ job' = job
  BY <1>2 DEF writers
<1>5. LeaderOrderly' /\ Settled' = Settled /\ Truncates' = Truncates
  <2>1. Handshake' => \A w \in Writers : pc[w] = "idle"
    BY <1>1, <1>2 DEF Handshake, LeaderOrderly, Serial
  <2> QED BY <1>1, <1>2, <2>1, LeaderKept
<1>6. /\ (AtZero' <=> AtZero) /\ (\A v : Blank(v)' <=> Blank(v)) /\ (\A i : ZeroBefore(i)' <=> ZeroBefore(i))
      /\ (\A r, v : WholeSnapshot(r, v)' <=> WholeSnapshot(r, v)) /\ (\A c : Announced(c)' <=> Announced(c))
      /\ (\A ks : TreeRecords(ks)' = TreeRecords(ks))
  BY <1>2, <1>3, <1>4 DEF AtZero, Blank, ZeroBefore, WholeSnapshot, Announced, TreeRecords
<1>7. \A i : RecordOrderly(i)' <=> RecordOrderly(i)
  BY <1>2, <1>4, <1>6 DEF RecordOrderly
<1>8. \A i : ChunkOrderly(i)' <=> ChunkOrderly(i)
  BY <1>2, <1>3, <1>5, <1>6 DEF ChunkOrderly
<1>9. StreamOrderly'
  BY <1>1, <1>2, <1>7, <1>8 DEF StreamOrderly
<1>10. ReplicaOrderly'
  BY <1>1, <1>3, <1>4, <1>5 DEF ReplicaOrderly
<1>11. TaskLogged' /\ HandshakeOrderly'
  BY <1>1, <1>2, <1>3, <1>4, <1>5 DEF TaskOrderly, TaskLogged, HandshakeOrderly
<1>12. VisitOrderly'
  <2>1. TreeRecords(Keys \ task.iter)' = TreeRecords(Keys \ task.iter)
        /\ TreeRecords(task.iter)' = TreeRecords(task.iter)
    BY <1>2, <1>4 DEF TreeRecords
  <2> QED BY <1>1, <1>2, <1>3, <1>4, <1>5, <1>6, <2>1 DEF TaskOrderly, VisitOrderly
<1>13. StreamsFromZero'
  <2>1. Blank(task.start)' <=> Blank(task.start)
    BY <1>2, <1>4 DEF Blank
  <2> QED BY <1>1, <1>2, <1>4, <1>5, <1>6, <2>1 DEF TaskOrderly, StreamsFromZero
<1> QED BY <1>5, <1>9, <1>10, <1>11, <1>12, <1>13 DEF OrderlyParts, TaskOrderly

(* A snapshot, whole in its chunk: what it does not mention the replica    *)
(* does not have, either at version 0 or because nothing is deleted.       *)
LEMMA ReceiveChunkOrderly ==
  ASSUME Typed, BackwardsInv, Orderly, OrderlyParts, ReceiveChunk
  PROVE  OrderlyParts'
<1>1. replica \in Node /\ replica.global_version \in Nat /\ StreamTyped /\ commands \in Seq(Command)
  BY TypedFacts
<1>2. PICK p : p = stream[1]
  OBVIOUS
<1>3. PICK m : m = p.max_tx_id
  OBVIOUS
<1>4. /\ stream # <<>> /\ 1 \in DOMAIN stream /\ p.type = "snapshot" /\ p \in Payload
      /\ replica'.tree = Loaded(p, replica.tree) /\ replica'.global_version = m
  BY <1>1, <1>2, <1>3, ChunkReceived
<1>5. m \in Nat
  BY <1>3, <1>4 DEF Payload
<1>6. UNCHANGED <<setting, writers, task>> /\ stream' = Tail(stream) /\ commands' = commands
  BY DEF ReceiveChunk, writers
<1>7. LeaderOrderly /\ ReplicaOrderly /\ ChunkOrderly(1) /\ CommandsShaped /\ ChunksAhead
  BY <1>2, <1>4 DEF OrderlyParts, StreamOrderly, LeaderOrderly, BackwardsInv
<1>8. replica.global_version <= m
  BY <1>2, <1>3, <1>4, <1>7, OrderlyWhole DEF ChunksAhead
<1>9. LeaderOrderly' /\ TaskOrderly' /\ StreamOrderly' /\ Settled' = Settled
  BY <1>2, <1>3, <1>4, <1>5, <1>6, <1>8, StreamShrinks
<1>10. m <= Settled /\ WholeSnapshot(p.records, m) /\ (~Truncates => replica.global_version = 0)
  BY <1>2, <1>3, <1>7 DEF ChunkOrderly
<1>11. ASSUME NEW k \in Keys
       PROVE  Cmd(Loaded(p, replica.tree)[k]) = Amount(commands, m, k)
  <2>1. PICK a : a = Amount(commands, m, k)
    OBVIOUS
  <2>2. {r \in p.records : r[1] = k} = IF a = 0 THEN {} ELSE {<<k, a>>}
    BY <1>10, <2>1 DEF WholeSnapshot
  <2>3. a \in Nat
    BY <1>1, <1>5, <2>1, AmountFacts
  <2>4. CASE a = 0
    <3>1. Loaded(p, replica.tree)[k] = replica.tree[k]
      BY <2>2, <2>4 DEF Loaded
    <3>2. Cmd(replica.tree[k]) = Amount(commands, replica.global_version, k)
      BY <1>7 DEF ReplicaOrderly
    <3>3. Amount(commands, replica.global_version, k) = 0
      <4>1. CASE ~Truncates
        BY <1>1, <1>10, <4>1, AmountFacts
      <4>2. CASE Truncates
        <5>1. \A c \in DOMAIN commands : commands[c].writes[k] # "delete"
          BY <1>7, <4>2 DEF CommandsShaped
        <5> QED BY <1>1, <1>5, <1>8, <2>1, <2>4, <5>1, AmountFacts
      <4> QED BY <4>1, <4>2
    <3> QED BY <2>1, <2>4, <3>1, <3>2, <3>3
  <2>5. CASE a # 0
    <3>1. {r \in p.records : r[1] = k} = {<<k, a>>}
      BY <2>2, <2>5
    <3>2. (CHOOSE r \in {<<k, a>>} : TRUE) = <<k, a>>
      OBVIOUS
    <3>3. PICK x : x = [cmd |-> a, version |-> m]
      OBVIOUS
    <3>4. Loaded(p, replica.tree)[k] = x
      BY <1>3, <3>1, <3>2, <3>3 DEF Loaded
    <3>5. x \in Record /\ x.cmd = a
      BY <1>5, <2>3, <2>5, <3>3 DEF Record
    <3>6. x # None
      BY <3>5, NoneAssumption
    <3> QED BY <2>1, <3>4, <3>5, <3>6 DEF Cmd
  <2> QED BY <2>4, <2>5
<1>12. ReplicaOrderly'
  BY <1>4, <1>6, <1>9, <1>10, <1>11 DEF ReplicaOrderly
<1> QED BY <1>9, <1>12 DEF OrderlyParts

(* A record of the log: the next one, or the first for an empty replica.   *)
LEMMA ApplyOrderly ==
  ASSUME Typed, BackwardsInv, Orderly, OrderlyParts, apply_command
  PROVE  OrderlyParts'
<1>1. /\ replica \in Node /\ replica.global_version \in Nat /\ StreamTyped /\ commands \in Seq(Command)
      /\ Sound(replica.wal)
  BY TypedFacts
<1>2. UNCHANGED <<setting, writers, task>> /\ stream' = Tail(stream) /\ commands' = commands
  BY DEF apply_command, writers
<1>3. PICK c : c = stream[1].cmd
  OBVIOUS
<1>4. PICK v : v = stream[1].tx_id
  OBVIOUS
<1>5. /\ stream # <<>> /\ 1 \in DOMAIN stream /\ stream[1].type = "wal" /\ c \in DOMAIN commands
      /\ replica.global_version < v /\ v \in Nat
      /\ replica.global_version # 0 => v = replica.global_version + 1
      /\ replica'.tree = Applied(replica.tree, c, v) /\ replica'.global_version = v
  BY <1>1, <1>2, <1>3, <1>4, RecordApplied
<1>6. LeaderOrderly /\ ReplicaOrderly /\ RecordOrderly(1)
  BY <1>5 DEF OrderlyParts, StreamOrderly
<1>7. v # 0 /\ replica.global_version <= v
  BY <1>1, <1>5
<1>8. LeaderOrderly' /\ TaskOrderly' /\ StreamOrderly' /\ Settled' = Settled
  BY <1>2, <1>5, <1>7, StreamShrinks
<1>9. commands[c].logged /\ commands[c].tx_id = v /\ (ZeroBefore(1) => Blank(v - 1))
  BY <1>3, <1>4, <1>6 DEF RecordOrderly
<1>10. v <= Settled /\ Ascending(commands) /\ c \in Nat \ {0}
  BY <1>5, <1>6, <1>9, LeaderFacts
<1>11. ASSUME NEW k \in Keys
       PROVE  Cmd(Applied(replica.tree, c, v)[k]) = Amount(commands, v, k)
  <2>1. Cmd(replica.tree[k]) = Amount(commands, replica.global_version, k)
    BY <1>6 DEF ReplicaOrderly
  <2>2. Amount(commands, replica.global_version, k) = Amount(commands, v - 1, k)
    <3>1. CASE replica.global_version # 0
      <4>1. v - 1 = replica.global_version
        BY <1>1, <1>5, <3>1
      <4> QED BY <4>1
    <3>2. CASE replica.global_version = 0
      <4>1. ZeroBefore(1)
        BY <3>2 DEF ZeroBefore
      <4>2. Amount(commands, v - 1, k) = 0
        BY <1>9, <4>1 DEF Blank
      <4>3. Amount(commands, 0, k) = 0
        BY <1>1, AmountFacts
      <4> QED BY <3>2, <4>2, <4>3
    <3> QED BY <3>1, <3>2
  <2>3. Amount(commands, v, k) =
          CASE commands[c].writes[k] = "put" -> c
            [] commands[c].writes[k] = "delete" -> 0
            [] OTHER -> Amount(commands, v - 1, k)
    BY <1>1, <1>5, <1>9, <1>10, AmountNext
  <2>4. commands[c].writes[k] \in {"put", "delete", "none"}
    BY <1>1, <1>5, MemberFacts
  <2>5. PICK x : x = [cmd |-> c, version |-> v]
    OBVIOUS
  <2>6. x \in Record /\ x.cmd = c /\ x # None
    <3>1. x \in Record /\ x.cmd = c
      BY <1>5, <1>10, <2>5 DEF Record
    <3> QED BY <3>1, NoneAssumption
  <2>7. Applied(replica.tree, c, v)[k] =
          CASE commands[c].writes[k] = "put" -> x
            [] commands[c].writes[k] = "delete" -> None
            [] OTHER -> replica.tree[k]
    BY <2>5 DEF Applied
  <2>8. CASE commands[c].writes[k] = "put"
    BY <2>3, <2>6, <2>7, <2>8 DEF Cmd
  <2>9. CASE commands[c].writes[k] = "delete"
    BY <2>3, <2>7, <2>9 DEF Cmd
  <2>10. CASE commands[c].writes[k] = "none"
    <3>1. Applied(replica.tree, c, v)[k] = replica.tree[k]
      BY <2>7, <2>10
    <3>2. Amount(commands, v, k) = Amount(commands, v - 1, k)
      BY <2>3, <2>10
    <3> QED BY <2>1, <2>2, <3>1, <3>2
  <2> QED BY <2>4, <2>8, <2>9, <2>10
<1>12. ReplicaOrderly'
  BY <1>2, <1>5, <1>8, <1>10, <1>11 DEF ReplicaOrderly
<1> QED BY <1>8, <1>12 DEF OrderlyParts

(* The steps of the replica.                                               *)
LEMMA ReplicaLoopOrderly ==
  ASSUME Typed, BackwardsInv, Orderly, OrderlyParts, ReplicaLoop \/ StreamBreaks
  PROVE  OrderlyParts'
<1>1. CASE Connect
  <2>1. /\ UNCHANGED <<setting, writers, replica>> /\ stream' = <<>>
        /\ task' = [NoTask EXCEPT !.pc = "read", !.last_known = replica.global_version]
        /\ \A w \in Writers : pc[w] = "idle"
    BY <1>1 DEF Connect, Orderly
  <2> QED BY <2>1, EmptyStreamOrderly
<1>2. CASE ReceiveChunk
  BY <1>2, ReceiveChunkOrderly
<1>3. CASE SkipDuplicate
  <2>1. /\ UNCHANGED <<setting, writers, task, replica>> /\ stream' = Tail(stream) /\ stream # <<>>
        /\ Head(stream).type = "wal" /\ Head(stream).tx_id <= replica.global_version
    BY <1>3 DEF SkipDuplicate, NextRecord, IsDuplicate
  <2>2. stream \in Seq(Payload) /\ replica.global_version \in Nat
    BY TypedFacts
  <2>3. Head(stream) = stream[1] /\ stream[1] \in Payload
    BY <2>1, <2>2, Tailed
  <2>4. stream[1].type # "snapshot" /\ stream[1].tx_id \in Nat \ {0}
    BY <2>1, <2>3 DEF Payload
  <2>5. replica'.global_version # 0 /\ replica.global_version <= replica'.global_version
    BY <2>1, <2>2, <2>3, <2>4
  <2>6. LeaderOrderly' /\ TaskOrderly' /\ StreamOrderly' /\ Settled' = Settled
    BY <2>1, <2>2, <2>4, <2>5, StreamShrinks
  <2>7. ReplicaOrderly'
    BY <2>1, <2>6 DEF OrderlyParts, ReplicaOrderly, writers
  <2> QED BY <2>6, <2>7 DEF OrderlyParts
<1>4. CASE BreakOnGap
  <2>1. UNCHANGED <<setting, writers, replica>> /\ stream' = <<>> /\ task' = NoTask
    BY <1>4 DEF BreakOnGap
  <2> QED BY <2>1, EmptyStreamOrderly
<1>5. CASE apply_command
  BY <1>5, ApplyOrderly
<1>6. CASE StreamEnds
  <2>1. UNCHANGED <<setting, writers, replica>> /\ stream' = <<>> /\ task' = task /\ task.pc = "none"
    BY <1>6 DEF StreamEnds
  <2>2. task' = NoTask
    BY <2>1, TypedFacts DEF TaskTyped
  <2> QED BY <2>1, <2>2, EmptyStreamOrderly
<1>7. CASE StreamBreaks
  <2>1. UNCHANGED <<setting, writers, replica>> /\ stream' = <<>> /\ task' = NoTask
    BY <1>7 DEF StreamBreaks
  <2> QED BY <2>1, EmptyStreamOrderly
<1> QED BY <1>1, <1>2, <1>3, <1>4, <1>5, <1>6, <1>7 DEF ReplicaLoop
-----------------------------------------------------------------------------
(* OrderlyReplica: the theorem.                                            *)

(* Every step keeps the invariant.                                         *)
LEMMA OrderlyStep ==
  ASSUME Typed, BackwardsInv, OrderlyInv, [Next]_vars
  PROVE  OrderlyInv'
<1>1. Orderly' => Orderly
  BY SettingKept DEF Orderly
<1> SUFFICES ASSUME Orderly, OrderlyParts PROVE OrderlyParts'
  BY <1>1 DEF OrderlyInv
<1>2. CASE UNCHANGED vars
  <2>1. LeaderOrderly /\ TaskOrderly /\ StreamOrderly /\ ReplicaOrderly
    BY DEF OrderlyParts
  <2>2. UNCHANGED <<setting, writers>> /\ UNCHANGED <<task, stream, replica>>
    BY <1>2 DEF vars
  <2>3. UNCHANGED <<commands, leader, wal_lock, pc, job>>
    BY <2>2 DEF writers
  <2>4. LeaderOrderly' /\ Settled' = Settled /\ Truncates' = Truncates
    <3>1. Handshake' => \A w \in Writers : pc[w] = "idle"
      BY <2>1, <2>2 DEF Handshake, LeaderOrderly, Serial
    <3> QED BY <2>1, <2>2, <3>1, LeaderKept
  <2>5. StreamOrderly' /\ ReplicaOrderly' /\ (AtZero' <=> AtZero)
    BY <2>1, <2>2, <2>3, <2>4, ReplicaKept
  <2>6. TaskLogged' /\ HandshakeOrderly'
    BY <2>1, <2>2, <2>3, <2>4 DEF TaskOrderly, TaskLogged, HandshakeOrderly
  <2>7. TreeRecords(Keys \ task.iter)' = TreeRecords(Keys \ task.iter)
        /\ TreeRecords(task.iter)' = TreeRecords(task.iter)
    BY <2>2, <2>3 DEF TreeRecords
  <2>8. VisitOrderly'
    BY <2>1, <2>2, <2>3, <2>4, <2>5, <2>7 DEF TaskOrderly, VisitOrderly
  <2>9. (Blank(task.start)' <=> Blank(task.start)) /\ (\A c : Announced(c)' <=> Announced(c))
    BY <2>2, <2>3 DEF Blank, Announced
  <2>10. StreamsFromZero'
    BY <2>1, <2>2, <2>3, <2>4, <2>5, <2>9 DEF TaskOrderly, StreamsFromZero
  <2> QED BY <2>4, <2>5, <2>6, <2>8, <2>10 DEF OrderlyParts, TaskOrderly
<1>3. ASSUME NEW w \in Writers, Request(w) PROVE OrderlyParts'
  <2>1. PICK tx \in BOOLEAN, writes \in Writes :
           /\ LockVersion(w, tx, writes)
           /\ {k \in Keys : writes[k] # "none"} \subseteq setting.keys
           /\ Truncates => /\ \A k \in Keys : writes[k] # "delete"
                           /\ \E k \in Keys : writes[k] = "put"
    BY <1>3, OrderlyRequest
  <2> QED BY <2>1, LockVersionOrderly
<1>4. ASSUME NEW w \in Writers, Handle(w) PROVE OrderlyParts'
  <2>1. ~DeleteVersion(w)
    BY DEF DeleteVersion, OrderlyParts, LeaderOrderly, Serial
  <2> QED BY <1>4, <2>1, LogAppendOrderly, SyncSendOrderly, InsertOrderly, FinishOrderly DEF Handle
<1>5. CASE LeaderSave
  BY <1>5, LeaderSaveOrderly
<1>6. CASE SyncTask
  BY <1>6, SyncReadOrderly, SyncTurnsOrderly, SyncVisitOrderly, SyncReplayOrderly, SyncForwardOrderly
     DEF SyncTask
<1>7. CASE ReplicaLoop \/ StreamBreaks
  BY <1>7, ReplicaLoopOrderly
<1>8. CASE ReplicaSave
  BY <1>8, ReplicaSaveOrderly
<1>9. ~ReplicaRestarts
  BY DEF ReplicaRestarts, Fault, Orderly
<1>10. CASE LeaderRestarts
  BY <1>10, LeaderRestartsOrderly
<1> QED BY <1>2, <1>3, <1>4, <1>5, <1>6, <1>7, <1>8, <1>9, <1>10 DEF Next

(* It holds at first, of two empty processes.                              *)
LEMMA OrderlyInit ==
  ASSUME Init
  PROVE  OrderlyInv
<1>1. /\ commands = <<>> /\ leader = Fresh /\ replica = Fresh /\ stream = <<>> /\ task = NoTask
      /\ \A w \in Writers : pc[w] = "idle" /\ job[w] = NoJob
  BY DEF Init
<1>2. /\ leader.wal = <<>> /\ leader.tree = EmptyStore /\ leader.snapshot = EmptyStore
      /\ leader.global_version = 0
      /\ replica.tree = EmptyStore /\ replica.global_version = 0
  BY <1>1 DEF Fresh
<1>3. task.pc = "none" /\ task.records = <<>> /\ task.rx.queue = <<>>
  BY <1>1, NoTaskTyped
<1>4. DOMAIN commands = {} /\ DOMAIN leader.wal = {} /\ DOMAIN stream = {}
  BY <1>1, <1>2
<1>5. Settled = 0 /\ Unapplied = {}
  <2>1. Typed
    BY TypedInit
  <2> QED BY <1>1, <1>2, <2>1, AllIdle
<1>6. Cut = 0
  BY <1>2, <1>5 DEF Cut
<1>7. \A k \in Keys : Amount(commands, 0, k) = 0
  BY <1>4 DEF Amount, Carriers
<1>8. \A k \in Keys : Cmd(EmptyStore[k]) = 0
  BY DEF Cmd, EmptyStore
<1>9. Serial
  BY <1>1, <1>3 DEF Serial, NoJob, Handshake
<1>10. CommandsShaped /\ IdsAscend
  BY <1>4 DEF CommandsShaped, IdsAscend
<1>11. Backed /\ TreeCovers
  BY <1>1, <1>2, <1>5 DEF Backed, TreeCovers, Covers
<1>12. TreeOrderly
  BY <1>2, <1>7, <1>8 DEF TreeOrderly
<1>13. FilesOrderly
  <2>1. Len(leader.wal) = 0
    BY <1>2
  <2> QED BY <1>2, <1>4, <1>5, <1>6, <1>7, <1>8, <2>1 DEF FilesOrderly
<1>14. TaskOrderly
  BY <1>3 DEF TaskOrderly, TaskLogged, HandshakeOrderly, VisitOrderly, StreamsFromZero
<1>15. StreamOrderly
  BY <1>4 DEF StreamOrderly
<1>16. ReplicaOrderly
  BY <1>2, <1>5, <1>7, <1>8 DEF ReplicaOrderly
<1> QED BY <1>9, <1>10, <1>11, <1>12, <1>13, <1>14, <1>15, <1>16 DEF OrderlyInv, OrderlyParts, LeaderOrderly

(* "Strictly sequential replication", for every number of writers, keys    *)
(* and commands: where writers send under the mutex, none writes during a  *)
(* sync call's start, a snapshot is one chunk, the replica is not          *)
(* restarted and truncation meets no delete and no empty transaction, the  *)
(* replica at version v holds what the leader's logged commands up to v    *)
(* amount to, over broken streams, lagging tasks, truncations and restarts *)
(* of the leader.                                                          *)
THEOREM OrderlyReplicaTheorem == Spec => []OrderlyReplica
<1>1. Init => Typed /\ BackwardsInv /\ OrderlyInv
  BY TypedInit, BackwardsInit, OrderlyInit
<1>2. Typed /\ BackwardsInv /\ OrderlyInv /\ [Next]_vars => Typed' /\ BackwardsInv' /\ OrderlyInv'
  BY TypedStep, BackwardsStep, OrderlyStep
<1>3. OrderlyInv => OrderlyReplica
  <2> SUFFICES ASSUME Orderly, OrderlyParts PROVE SequentialReplica
    BY DEF OrderlyInv, OrderlyReplica
  <2>1. \A k \in Keys : Cmd(replica.tree[k]) = Amount(commands, replica.global_version, k)
    BY DEF OrderlyParts, ReplicaOrderly
  <2>2. \A k \in Keys : Contents(replica)[k] = Cmd(replica.tree[k])
    BY DEF Contents, Cmd
  <2>3. \A k \in Keys : Contents(replica)[k] = StateAt(replica.global_version)[k]
    BY <2>1, <2>2, StateIsAmount
  <2>4. Contents(replica) = [k \in Keys |-> Contents(replica)[k]]
    BY DEF Contents
  <2>5. StateAt(replica.global_version) = [k \in Keys |-> StateAt(replica.global_version)[k]]
    BY DEF StateAt
  <2> QED BY <2>3, <2>4, <2>5 DEF SequentialReplica
<1> QED BY <1>1, <1>2, <1>3, PTL DEF Spec
-----------------------------------------------------------------------------
(* No transaction id is logged for two commands.                           *)

(* Commands that take no other id and are not logged leave ids apart.      *)
LEMMA ApartKept ==
  ASSUME IdsApart, commands' = commands, leader'.global_version = leader.global_version,
         \A w \in Writers : pc'[w] = "append" => pc[w] = "append" /\ job'[w].cmd = job[w].cmd
  PROVE  IdsApart'
<1>1. \A c \in DOMAIN commands : Live(c)' => Live(c)
  BY DEF Live
<1> QED BY <1>1 DEF IdsApart

(* A writer takes a version.                                               *)
LEMMA FetchAddIds ==
  ASSUME Typed, IdsParts, NEW w \in Writers, NEW tx \in BOOLEAN, NEW writes \in Writes,
         FetchAdd(w, tx, writes), leader' = [leader EXCEPT !.global_version = @ + 1],
         setting' = setting,
         Truncates => /\ wal_lock = None /\ wal_lock' = w
                      /\ \A k \in Keys : writes[k] # "delete"
                      /\ \E k \in Keys : writes[k] = "put"
  PROVE  IdsParts'
<1>1. /\ commands \in Seq(Command) /\ leader \in Node /\ leader.global_version \in Nat
      /\ pc \in [Writers -> Pcs] /\ job \in [Writers -> Job]
  BY TypedFacts
<1>2. PICK n : n = Len(commands')
  OBVIOUS
<1>3. /\ \A c \in DOMAIN commands : c \in DOMAIN commands' /\ commands'[c] = commands[c]
      /\ \A c \in DOMAIN commands' : c = n \/ c \in DOMAIN commands
      /\ n \in DOMAIN commands' /\ n \notin DOMAIN commands
      /\ job'[w].cmd = n /\ job'[w].kind = job[w].kind
      /\ job'[w].todo = {k \in Keys : writes[k] # "none"}
      /\ \A u \in Writers : u # w => job'[u] = job[u]
      /\ pc' = [pc EXCEPT ![w] = "append"]
  <2>1. /\ commands' \in Seq(Command) /\ n = Len(commands) + 1
        /\ Len(commands) \in Nat /\ DOMAIN commands = 1..Len(commands)
    BY <1>1, <1>2, FetchAdded, LenProperties
  <2>2. n \notin DOMAIN commands
    BY <2>1
  <2>3. /\ commands' \in Seq(Command) /\ Len(commands') = Len(commands) + 1
        /\ \A c \in DOMAIN commands : c \in DOMAIN commands' /\ commands'[c] = commands[c]
        /\ \A c \in DOMAIN commands' : c = Len(commands') \/ c \in DOMAIN commands
        /\ Len(commands') \in DOMAIN commands'
        /\ commands'[Len(commands')] =
             [tx_id |-> leader.global_version + 1, tx |-> tx, writes |-> writes, logged |-> FALSE]
        /\ job' \in [Writers -> Job]
        /\ job'[w].cmd = Len(commands') /\ job'[w].kind = job[w].kind
        /\ job'[w].todo = {k \in Keys : writes[k] # "none"}
        /\ \A u \in Writers : u # w => job'[u] = job[u]
        /\ pc' = [pc EXCEPT ![w] = "append"]
    BY <1>1, FetchAdded
  <2> QED BY <1>2, <2>2, <2>3
<1>4. commands'[n] =
        [tx_id |-> leader.global_version + 1, tx |-> tx, writes |-> writes, logged |-> FALSE]
  BY <1>1, <1>2, FetchAdded
<1>5. commands'[n].tx_id = leader.global_version + 1 /\ commands'[n].writes = writes /\ ~commands'[n].logged
  BY <1>4
<1>6. /\ leader'.global_version = leader.global_version + 1 /\ leader'.wal = leader.wal
      /\ leader'.snapshot = leader.snapshot /\ leader'.tree = leader.tree
  BY <1>1 DEF Node
<1>7. pc'[w] = "append" /\ \A u \in Writers : u # w => pc'[u] = pc[u]
  BY <1>1, <1>3
<1>8. ASSUME NEW c \in DOMAIN commands, Live(c)' PROVE Live(c)
  <2>1. CASE commands'[c].logged
    BY <1>3, <2>1 DEF Live
  <2>2. ASSUME NEW u \in Writers, pc'[u] = "append", job'[u].cmd = c PROVE Live(c)
    <3>1. u # w
      BY <1>3, <2>2
    <3> QED BY <1>3, <1>7, <2>2, <3>1 DEF Live
  <2> QED BY <1>8, <2>1, <2>2 DEF Live
<1>9. \A c \in DOMAIN commands : Live(c)' =>
        /\ commands'[c].tx_id = commands[c].tx_id /\ commands[c].tx_id \in Nat
        /\ commands[c].tx_id <= leader.global_version
        /\ \A d \in DOMAIN commands : Live(d)' /\ commands[c].tx_id = commands[d].tx_id => c = d
  BY <1>1, <1>3, <1>8, CommandFacts DEF IdsParts, IdsApart
<1>10. IdsApart'
  <2> SUFFICES ASSUME NEW c \in DOMAIN commands', Live(c)'
               PROVE  /\ commands'[c].tx_id <= leader'.global_version
                      /\ \A d \in DOMAIN commands' :
                           Live(d)' /\ commands'[c].tx_id = commands'[d].tx_id => c = d
    BY DEF IdsApart
  <2>1. CASE c = n
    BY <1>1, <1>3, <1>5, <1>6, <1>9, <2>1
  <2>2. CASE c \in DOMAIN commands
    BY <1>1, <1>3, <1>5, <1>6, <1>9, <2>2
  <2> QED BY <1>3, <2>1, <2>2
<1>11. \A c \in DOMAIN commands' : commands'[c].logged =>
         c \in DOMAIN commands /\ commands[c].logged /\ commands'[c].tx_id = commands[c].tx_id
  BY <1>3, <1>5
<1>12. IdsBacked'
  BY <1>6, <1>11 DEF IdsParts, IdsBacked, Covers
<1>13. ASSUME Truncates PROVE OneWriter' /\ IdsInTree'
  <2>1. OneWriter /\ IdsInTree
    BY <1>13 DEF IdsParts
  <2>2. \A u \in Writers : pc[u] = "idle"
    BY <1>13, <2>1, WorkloadsAssumption DEF OneWriter
  <2>3. \A c \in DOMAIN commands' :
          /\ \A k \in Keys : commands'[c].writes[k] # "delete"
          /\ \E k \in Keys : commands'[c].writes[k] = "put"
    BY <1>3, <1>5, <1>13, <2>1 DEF OneWriter
  <2>4. ASSUME NEW u \in Writers
        PROVE  /\ job'[u].kind = "none"
               /\ pc'[u] # "idle" =>
                    /\ wal_lock' = u /\ pc'[u] # "version"
                    /\ commands'[job'[u].cmd].tx_id = leader'.global_version
                    /\ job'[u].todo = Touched(job[u].cmd)'
    <3>1. CASE u = w
      <4>1. Touched(job[w].cmd)' = {k \in Keys : writes[k] # "none"}
        BY <1>3, <1>5 DEF Touched
      <4> QED BY <1>3, <1>5, <1>6, <1>7, <1>13, <2>1, <3>1, <4>1 DEF OneWriter
    <3>2. CASE u # w
      BY <1>3, <1>7, <2>1, <2>2, <3>2 DEF OneWriter
    <3> QED BY <3>1, <3>2
  <2>5. OneWriter'
    BY <2>3, <2>4 DEF OneWriter
  <2>6. IdsInTree'
    BY <1>6, <1>11, <2>1, <2>2 DEF IdsInTree, Covers
  <2> QED BY <2>5, <2>6
<1> QED BY <1>10, <1>12, <1>13 DEF IdsParts, Truncates

(* A client's request; if the log is truncated it is one under the mutex   *)
(* that leaves a record.                                                   *)
LEMMA RequestIds ==
  ASSUME Typed, Remembers, IdsParts, NEW w \in Writers, Request(w)
  PROVE  IdsParts'
<1>1. Truncates => "put" \notin setting.ops /\ "delete" \notin setting.ops /\ "tx_any" \notin setting.ops
  BY DEF Remembers, Truncates
<1>2. ASSUME NEW k \in setting.keys, PutVersion(w, k) \/ CasVersion(w, k) PROVE IdsParts'
  <2>1. k \in Keys
    BY TypedFacts
  <2>2. One(k, "put") \in Writes
    BY <2>1, OneTyped
  <2>3. /\ FetchAdd(w, FALSE, One(k, "put")) /\ leader' = [leader EXCEPT !.global_version = @ + 1]
        /\ setting' = setting /\ (Truncates => wal_lock = None /\ wal_lock' = w)
    BY <1>1, <1>2 DEF PutVersion, CasVersion, LockVersion
  <2>4. (\A j \in Keys : One(k, "put")[j] # "delete") /\ One(k, "put")[k] = "put"
    BY <2>1 DEF One
  <2> QED BY <2>1, <2>2, <2>3, <2>4, FetchAddIds
<1>3. ASSUME NEW writes \in Writes, TxVersion(w, writes) PROVE IdsParts'
  <2>1. \A k \in Keys : writes[k] \in {"put", "delete", "none"}
    BY DEF Writes
  <2>2. Truncates => /\ \A k \in Keys : writes[k] # "delete"
                     /\ \E k \in Keys : writes[k] = "put"
    BY <1>1, <1>3, <2>1 DEF TxVersion
  <2>3. /\ FetchAdd(w, TRUE, writes) /\ leader' = [leader EXCEPT !.global_version = @ + 1]
        /\ setting' = setting /\ wal_lock = None /\ wal_lock' = w
    BY <1>3 DEF TxVersion, LockVersion
  <2> QED BY <2>2, <2>3, FetchAddIds
<1>4. ASSUME NEW k \in setting.keys, DeleteRemove(w, k) PROVE IdsParts'
  <2>1. leader \in Node /\ pc \in [Writers -> Pcs] /\ job \in [Writers -> Job]
    BY TypedFacts
  <2>2. /\ commands' = commands /\ pc' = [pc EXCEPT ![w] = "version"] /\ setting' = setting
        /\ job' = [job EXCEPT ![w] = [kind |-> "delete", cmd |-> 0, todo |-> {k}]]
    BY <1>4 DEF DeleteRemove
  <2>3. /\ leader'.global_version = leader.global_version /\ leader'.wal = leader.wal
        /\ leader'.snapshot = leader.snapshot
    BY <1>4, <2>1 DEF DeleteRemove, Node
  <2>4. \A u \in Writers : pc'[u] = "append" => pc[u] = "append" /\ job'[u].cmd = job[u].cmd
    BY <2>1, <2>2
  <2>5. IdsApart'
    BY <2>2, <2>3, <2>4, ApartKept DEF IdsParts
  <2>6. IdsBacked'
    BY <2>2, <2>3 DEF IdsParts, IdsBacked, Covers
  <2>7. ~Truncates'
    BY <1>1, <1>4, <2>2 DEF DeleteRemove, Truncates
  <2> QED BY <2>5, <2>6, <2>7 DEF IdsParts
<1> QED BY <1>2, <1>3, <1>4 DEF Request

(* Its line is what a restarted leader finds.                              *)
LEMMA LogAppendIds ==
  ASSUME Typed, Remembers, IdsParts, NEW w \in Writers, LogAppend(w)
  PROVE  IdsParts'
<1>1. /\ commands \in Seq(Command) /\ leader \in Node /\ leader.wal \in Seq(Line)
      /\ pc \in [Writers -> Pcs] /\ job \in [Writers -> Job]
      /\ \A u \in Writers : pc[u] \in {"append", "send", "apply"} => job[u].cmd \in DOMAIN commands
  BY TypedFacts
<1>2. /\ pc[w] = "append" /\ pc' = [pc EXCEPT ![w] = "send"]
      /\ UNCHANGED <<setting, wal_lock, job>>
  BY DEF LogAppend
<1>3. PICK j : j = job[w].cmd
  OBVIOUS
<1>4. j \in DOMAIN commands /\ Live(j)
  BY <1>1, <1>2, <1>3 DEF Live
<1>5. Whole(leader.wal)
  BY IntactFacts DEF Remembers, Torn
<1>6. /\ DOMAIN commands' = DOMAIN commands
      /\ \A c \in DOMAIN commands :
           /\ commands'[c].tx_id = commands[c].tx_id /\ commands'[c].writes = commands[c].writes
           /\ (commands'[c].logged <=> c = j \/ commands[c].logged)
      /\ leader'.wal = Append(leader.wal, Envelope(commands[j].tx_id, j))
      /\ Envelope(commands[j].tx_id, j) \in Line
      /\ leader'.tree = leader.tree /\ leader'.snapshot = leader.snapshot
      /\ leader'.global_version = leader.global_version
  BY <1>1, <1>3, <1>4, <1>5, LogAppended
<1>7. pc'[w] = "send" /\ \A u \in Writers : u # w => pc'[u] = pc[u]
  BY <1>1, <1>2
<1>8. \A c \in DOMAIN commands : Live(c)' => Live(c)
  BY <1>2, <1>3, <1>4, <1>6, <1>7 DEF Live
<1>9. IdsApart'
  BY <1>6, <1>8 DEF IdsParts, IdsApart
<1>10. IdsBacked'
  <2>1. PICK e : e = Envelope(commands[j].tx_id, j)
    OBVIOUS
  <2>2. e \in Line /\ leader'.wal = Append(leader.wal, e) /\ e.tx_id = commands[j].tx_id
    BY <1>6, <2>1 DEF Envelope
  <2>3. /\ \A i \in DOMAIN leader.wal : i \in DOMAIN leader'.wal /\ leader'.wal[i] = leader.wal[i]
        /\ \E i \in DOMAIN leader'.wal : leader'.wal[i] = e
    BY <1>1, <2>2, Appended
  <2>4. commands[j].tx_id \in Nat
    BY <1>1, <1>4, CommandFacts
  <2>5. \E i \in DOMAIN leader'.wal : commands[j].tx_id <= leader'.wal[i].tx_id
    BY <2>2, <2>3, <2>4
  <2>6. ASSUME NEW c \in DOMAIN commands, commands[c].logged
        PROVE  \/ Covers(leader.snapshot, commands[c].tx_id)
               \/ \E i \in DOMAIN leader'.wal : commands[c].tx_id <= leader'.wal[i].tx_id
    BY <2>3, <2>6 DEF IdsParts, IdsBacked
  <2> QED BY <1>6, <2>5, <2>6 DEF IdsBacked, Covers
<1>11. ASSUME Truncates PROVE OneWriter' /\ IdsInTree'
  <2>1. OneWriter /\ IdsInTree
    BY <1>11 DEF IdsParts
  <2>2. \A c \in DOMAIN commands : Touched(c)' = Touched(c)
    BY <1>6 DEF Touched
  <2>3. \A u \in Writers : pc'[u] # "idle" => u = w
    BY <1>2, <1>7, <2>1 DEF OneWriter
  <2>4. /\ wal_lock = w /\ commands[j].tx_id = leader.global_version /\ job[w].todo = Touched(j)
    BY <1>2, <1>3, <2>1 DEF OneWriter
  <2>5. OneWriter'
    BY <1>2, <1>3, <1>4, <1>6, <1>7, <2>1, <2>2, <2>3, <2>4 DEF OneWriter
  <2>6. ASSUME NEW c \in DOMAIN commands, commands'[c].logged
        PROVE  \/ Covers(leader.tree, commands[c].tx_id)
               \/ \E u \in Writers : pc'[u] # "idle" /\ job[u].cmd = c /\ job[u].todo = Touched(c)
    <3>1. CASE c = j
      BY <1>3, <1>7, <2>4, <3>1
    <3>2. CASE commands[c].logged
      BY <1>7, <2>1, <3>2 DEF IdsInTree
    <3> QED BY <1>6, <2>6, <3>1, <3>2
  <2>7. IdsInTree'
    BY <1>2, <1>6, <2>2, <2>6 DEF IdsInTree, Covers
  <2> QED BY <2>5, <2>7
<1> QED BY <1>2, <1>9, <1>10, <1>11 DEF IdsParts, Truncates

(* The writer sends its command, which changes nothing here.               *)
LEMMA SyncSendIds ==
  ASSUME Typed, IdsParts, NEW w \in Writers, SyncSend(w)
  PROVE  IdsParts'
<1>1. pc \in [Writers -> Pcs] /\ job \in [Writers -> Job]
  BY TypedFacts
<1>2. /\ pc[w] = "send" /\ pc' = [pc EXCEPT ![w] = "apply"]
      /\ UNCHANGED <<setting, commands, leader, wal_lock>>
      /\ job' = [job EXCEPT ![w].todo = IF job[w].kind = "delete" THEN {} ELSE @]
  BY DEF SyncSend
<1>3. pc'[w] = "apply" /\ \A u \in Writers : u # w => pc'[u] = pc[u]
  BY <1>1, <1>2
<1>4. \A u \in Writers : job'[u].cmd = job[u].cmd /\ job'[u].kind = job[u].kind
  BY <1>1, <1>2 DEF Job
<1>5. IdsApart' /\ IdsBacked'
  BY <1>2, <1>3, <1>4, ApartKept DEF IdsParts, IdsBacked, Covers
<1>6. ASSUME Truncates PROVE OneWriter' /\ IdsInTree'
  <2>1. OneWriter /\ IdsInTree
    BY <1>6 DEF IdsParts
  <2>2. job[w].kind = "none"
    BY <2>1 DEF OneWriter
  <2>3. \A u \in Writers : job'[u].todo = job[u].todo
    BY <1>1, <1>2, <2>2 DEF Job
  <2>4. \A u \in Writers : (pc'[u] = "idle" <=> pc[u] = "idle") /\ (pc'[u] = "version" <=> pc[u] = "version")
    BY <1>2, <1>3
  <2>5. \A c : Touched(c)' = Touched(c)
    BY <1>2 DEF Touched
  <2>6. \A u \in Writers : pc'[u] # "apply" => pc[u] # "apply"
    BY <1>2, <1>3
  <2>7. OneWriter'
    BY <1>2, <1>4, <2>1, <2>3, <2>4, <2>5, <2>6 DEF OneWriter
  <2>8. IdsInTree'
    BY <1>2, <1>4, <2>1, <2>3, <2>4, <2>5 DEF IdsInTree, Covers
  <2> QED BY <2>7, <2>8
<1> QED BY <1>2, <1>5, <1>6 DEF IdsParts, Truncates

(* The record it puts has its id, which is the highest.                    *)
LEMMA InsertIds ==
  ASSUME Typed, IdsParts, NEW w \in Writers, NEW k \in Keys, Insert(w, k)
  PROVE  IdsParts'
<1>1. /\ commands \in Seq(Command) /\ leader \in Node /\ leader.tree \in Store
      /\ leader.global_version \in Nat /\ pc \in [Writers -> Pcs] /\ job \in [Writers -> Job]
      /\ \A u \in Writers : pc[u] \in {"append", "send", "apply"} => job[u].cmd \in DOMAIN commands
  BY TypedFacts
<1>2. PICK c : c = job[w].cmd
  OBVIOUS
<1>3. PICK id : id = commands[c].tx_id
  OBVIOUS
<1>4. /\ pc[w] = "apply" /\ k \in job[w].todo /\ UNCHANGED <<setting, commands, wal_lock, pc>>
      /\ leader' = [leader EXCEPT !.tree[k] = Applied(leader.tree, c, id)[k]]
      /\ job' = [job EXCEPT ![w].todo = @ \ {k}]
  BY <1>2, <1>3 DEF Insert
<1>5. /\ leader'.global_version = leader.global_version /\ leader'.wal = leader.wal
      /\ leader'.snapshot = leader.snapshot
      /\ leader'.tree = [leader.tree EXCEPT ![k] = Applied(leader.tree, c, id)[k]]
  BY <1>1, <1>4 DEF Node
<1>6. \A u \in Writers : /\ job'[u].cmd = job[u].cmd /\ job'[u].kind = job[u].kind
                         /\ job'[u].todo \subseteq job[u].todo /\ (u # w => job'[u].todo = job[u].todo)
  BY <1>1, <1>4 DEF Job
<1>7. IdsApart' /\ IdsBacked'
  BY <1>4, <1>5, <1>6, ApartKept DEF IdsParts, IdsBacked, Covers
<1>8. ASSUME Truncates PROVE OneWriter' /\ IdsInTree'
  <2>1. OneWriter
    BY <1>8 DEF IdsParts
  <2>2. c \in DOMAIN commands /\ id = leader.global_version /\ k \in Touched(c)
    BY <1>1, <1>2, <1>3, <1>4, <2>1 DEF OneWriter
  <2>3. commands[c].writes[k] = "put"
    <3>1. commands[c].writes \in Writes /\ commands[c].writes[k] # "none" /\ commands[c].writes[k] # "delete"
      BY <1>1, <2>1, <2>2, CommandFacts DEF OneWriter, Touched
    <3> QED BY <3>1 DEF Writes
  <2>4. leader'.tree[k] = [cmd |-> c, version |-> id]
    BY <1>1, <1>5, <2>3 DEF Applied, Store
  <2>5. leader'.tree[k] # None /\ leader'.tree[k].version = leader.global_version
    <3>1. [cmd |-> c, version |-> id] \in Record
      BY <1>1, <2>2, CommandFacts DEF Record
    <3> QED BY <2>2, <2>4, <3>1, NoneAssumption
  <2>6. \A d \in DOMAIN commands : commands[d].logged => commands[d].tx_id <= leader.global_version
    BY DEF IdsParts, IdsApart, Live
  <2>7. IdsInTree'
    BY <1>4, <2>5, <2>6 DEF IdsInTree, Covers
  <2>8. \A d : Touched(d)' = Touched(d)
    BY <1>4 DEF Touched
  <2>9. \A u \in Writers : pc[u] # "apply" => u # w
    BY <1>4
  <2>10. OneWriter'
    BY <1>4, <1>5, <1>6, <2>1, <2>8, <2>9 DEF OneWriter
  <2> QED BY <2>7, <2>10
<1> QED BY <1>4, <1>7, <1>8 DEF IdsParts, Truncates

(* The writer is done: all its keys are in the tree, and it has one.       *)
LEMMA FinishIds ==
  ASSUME Typed, IdsParts, NEW w \in Writers, Finish(w)
  PROVE  IdsParts'
<1>1. /\ pc \in [Writers -> Pcs] /\ job \in [Writers -> Job]
      /\ \A u \in Writers : pc[u] \in {"append", "send", "apply"} => job[u].cmd \in DOMAIN commands
  BY TypedFacts
<1>2. /\ pc[w] = "apply" /\ job[w].todo = {} /\ pc' = [pc EXCEPT ![w] = "idle"]
      /\ job' = [job EXCEPT ![w] = NoJob] /\ UNCHANGED <<setting, commands, leader>>
  BY DEF Finish
<1>3. /\ pc'[w] = "idle" /\ job'[w] = NoJob
      /\ \A u \in Writers : u # w => pc'[u] = pc[u] /\ job'[u] = job[u]
  BY <1>1, <1>2
<1>4. IdsApart' /\ IdsBacked'
  BY <1>2, <1>3, ApartKept DEF IdsParts, IdsBacked, Covers
<1>5. ASSUME Truncates PROVE OneWriter' /\ IdsInTree'
  <2>1. OneWriter /\ IdsInTree
    BY <1>5 DEF IdsParts
  <2>2. \A u \in Writers : pc'[u] = "idle"
    BY <1>2, <1>3, <2>1 DEF OneWriter
  <2>3. \A u \in Writers : job'[u].kind = "none"
    BY <1>3, <2>1 DEF OneWriter, NoJob
  <2>4. OneWriter'
    BY <1>2, <2>1, <2>2, <2>3 DEF OneWriter
  <2>5. ASSUME NEW c \in DOMAIN commands, commands[c].logged PROVE Covers(leader.tree, commands[c].tx_id)
    <3>1. SUFFICES ASSUME NEW u \in Writers, pc[u] # "idle", job[u].cmd = c, job[u].todo = Touched(c)
                   PROVE  FALSE
      BY <2>1, <2>5 DEF IdsInTree
    <3>2. u = w
      BY <1>2, <2>1, <3>1 DEF OneWriter
    <3>3. Touched(c) # {}
      BY <2>1 DEF OneWriter, Touched
    <3> QED BY <1>2, <3>1, <3>2, <3>3
  <2>6. IdsInTree'
    BY <1>2, <2>5 DEF IdsInTree, Covers
  <2> QED BY <2>4, <2>6
<1> QED BY <1>2, <1>4, <1>5 DEF IdsParts, Truncates

(* The snapshot has a record of every logged id or a later one.            *)
LEMMA LeaderSaveIds ==
  ASSUME Typed, IdsParts, LeaderSave
  PROVE  IdsParts'
<1>1. leader \in Node
  BY TypedFacts
<1>2. /\ Truncates /\ wal_lock = None /\ leader' = Saved(leader)
      /\ UNCHANGED <<setting, commands, wal_lock, pc, job>>
  BY DEF LeaderSave, Truncates
<1>3. /\ leader'.wal = <<>> /\ leader'.snapshot = leader.tree /\ leader'.tree = leader.tree
      /\ leader'.global_version = leader.global_version
  BY <1>1, <1>2, SavedTyped
<1>4. OneWriter /\ IdsInTree
  BY <1>2 DEF IdsParts
<1>5. \A w \in Writers : pc[w] = "idle"
  BY <1>2, <1>4, WorkloadsAssumption DEF OneWriter
<1>6. IdsApart'
  BY <1>2, <1>3, ApartKept DEF IdsParts
<1>7. IdsBacked'
  BY <1>2, <1>3, <1>4, <1>5 DEF IdsInTree, IdsBacked, Covers
<1>8. (\A c : Touched(c)' = Touched(c))
  BY <1>2 DEF Touched
<1>9. OneWriter' /\ IdsInTree'
  BY <1>2, <1>3, <1>4, <1>8 DEF OneWriter, IdsInTree, Covers
<1> QED BY <1>6, <1>7, <1>9 DEF IdsParts

(* The leader restarts: its counter is not behind a logged id.             *)
LEMMA LeaderRestartsIds ==
  ASSUME Typed, Remembers, IdsParts, LeaderRestarts
  PROVE  IdsParts'
<1>1. /\ commands \in Seq(Command) /\ leader \in Node /\ leader.wal \in Seq(Line)
      /\ Sound(leader.wal)
  BY TypedFacts
<1>2. /\ ~Torn /\ Whole(leader.wal) /\ Readable(leader.wal)
      /\ \A i \in DOMAIN leader.wal : leader.wal[i].ok
  <2>1. ~Torn
    BY DEF Remembers, Torn
  <2> QED BY <2>1, IntactFacts
<1>3. /\ leader' = Restarted(leader) /\ UNCHANGED <<setting, commands>>
      /\ pc' = [w \in Writers |-> "idle"] /\ job' = [w \in Writers |-> NoJob]
  BY <1>2, LeaderReplays DEF LeaderRestarts
<1>4. PICK gv : gv = leader'.global_version
  OBVIOUS
<1>5. /\ gv \in Nat /\ leader'.wal = leader.wal /\ leader'.snapshot = leader.snapshot
      /\ \A i \in DOMAIN leader.wal : leader.wal[i].tx_id <= gv
      /\ \A v \in Nat : Covers(leader.snapshot, v) => v <= gv
  <2>1. /\ Restarted(leader) \in Node
        /\ Restarted(leader).wal = leader.wal /\ Restarted(leader).snapshot = leader.snapshot
        /\ \A i \in DOMAIN leader.wal : leader.wal[i].tx_id <= Restarted(leader).global_version
        /\ \A v \in Nat : Covers(leader.snapshot, v) => v <= Restarted(leader).global_version
    BY <1>1, <1>2, RestartedNode
  <2> QED BY <1>3, <1>4, <2>1 DEF Node
<1>6. \A i \in DOMAIN leader.wal : leader.wal[i].tx_id \in Nat
  BY <1>1 DEF Line
<1>7. \A w \in Writers : pc'[w] = "idle" /\ job'[w].kind = "none"
  BY <1>3 DEF NoJob
<1>8. ASSUME NEW c \in DOMAIN commands, commands[c].logged
      PROVE  commands[c].tx_id \in Nat /\ commands[c].tx_id <= gv
  <2>1. commands[c].tx_id \in Nat
    BY <1>1, CommandFacts
  <2>2. \/ Covers(leader.snapshot, commands[c].tx_id)
        \/ \E i \in DOMAIN leader.wal : commands[c].tx_id <= leader.wal[i].tx_id
    BY <1>8 DEF IdsParts, IdsBacked
  <2> QED BY <1>5, <1>6, <2>1, <2>2
<1>9. \A c \in DOMAIN commands : Live(c)' => commands[c].logged
  BY <1>3, <1>7 DEF Live
<1>10. \A c, d \in DOMAIN commands :
         commands[c].logged /\ commands[d].logged /\ commands[c].tx_id = commands[d].tx_id => c = d
  BY DEF IdsParts, IdsApart, Live
<1>11. IdsApart'
  BY <1>3, <1>4, <1>8, <1>9, <1>10 DEF IdsApart
<1>12. IdsBacked'
  BY <1>3, <1>5 DEF IdsParts, IdsBacked, Covers
<1>13. ASSUME Truncates PROVE OneWriter' /\ IdsInTree'
  <2>1. \A c \in DOMAIN commands : /\ \A k \in Keys : commands[c].writes[k] # "delete"
                                   /\ \E k \in Keys : commands[c].writes[k] = "put"
    BY <1>13 DEF IdsParts, OneWriter
  <2>2. OneWriter'
    BY <1>3, <1>7, <2>1 DEF OneWriter
  <2>3. Covers(leader'.tree, gv)
    BY <1>1, <1>2, <1>3, <1>4, <2>1, ReplayCovers
  <2>4. leader'.tree \in Store
    BY <1>1, <1>3, RestartedNode DEF Node
  <2>5. \A c \in DOMAIN commands : commands[c].logged => Covers(leader'.tree, commands[c].tx_id)
    <3>1. \A k \in Keys : leader'.tree[k] # None => leader'.tree[k].version \in Nat
      BY <2>4 DEF Store, Record
    <3> QED BY <1>5, <1>8, <2>3, <3>1 DEF Covers
  <2>6. IdsInTree'
    BY <1>3, <2>5 DEF IdsInTree, Covers
  <2> QED BY <2>2, <2>6
<1> QED BY <1>3, <1>11, <1>12, <1>13 DEF IdsParts, Truncates

(* Every step keeps the ids apart.                                         *)
LEMMA IdsStep ==
  ASSUME Typed, IdsInv, [Next]_vars
  PROVE  IdsInv'
<1>1. Remembers' => Remembers
  BY SettingKept DEF Remembers
<1> SUFFICES ASSUME Remembers, IdsParts PROVE IdsParts'
  BY <1>1 DEF IdsInv
<1>2. ASSUME UNCHANGED <<setting, writers>> PROVE IdsParts'
  <2>1. UNCHANGED <<setting, commands, leader, wal_lock, pc, job>>
    BY <1>2 DEF writers
  <2>2. IdsApart' /\ IdsBacked'
    BY <2>1, ApartKept DEF IdsParts, IdsBacked, Covers
  <2>3. \A c : Touched(c)' = Touched(c)
    BY <2>1 DEF Touched
  <2>4. Truncates => OneWriter' /\ IdsInTree'
    BY <2>1, <2>3 DEF IdsParts, OneWriter, IdsInTree, Covers
  <2> QED BY <2>1, <2>2, <2>4 DEF IdsParts, Truncates
<1>3. ASSUME NEW w \in Writers, Handle(w) PROVE IdsParts'
  <2>1. CASE DeleteVersion(w)
    <3>1. PICK k \in job[w].todo : FetchAdd(w, FALSE, One(k, "delete"))
      BY <2>1 DEF DeleteVersion
    <3>2. One(k, "delete") \in Writes
      <4>1. k \in Keys
        BY <3>1, TypedFacts DEF Job
      <4> QED BY <4>1, OneTyped
    <3>3. leader' = [leader EXCEPT !.global_version = @ + 1] /\ setting' = setting /\ pc[w] = "version"
      BY <2>1 DEF DeleteVersion
    <3>4. ~Truncates
      BY <3>3 DEF IdsParts, OneWriter
    <3> QED BY <3>1, <3>2, <3>3, <3>4, FetchAddIds
  <2> QED BY <1>3, <2>1, LogAppendIds, SyncSendIds, InsertIds, FinishIds DEF Handle
<1>4. CASE UNCHANGED vars
  BY <1>2, <1>4 DEF vars
<1>5. CASE SyncTask \/ ReplicaLoop \/ ReplicaSave \/ StreamBreaks \/ ReplicaRestarts
  <2>1. UNCHANGED <<setting, writers>>
    BY <1>5 DEF SyncTask, SyncRead, SyncCheck, SyncSnapshot, SyncVisit, SyncLastChunk, SyncReplay,
       SyncSubscribe, SyncForward, ReplicaLoop, ReplicaSave, StreamBreaks, ReplicaRestarts, Connect,
       ReceiveChunk, SkipDuplicate, BreakOnGap, apply_command, StreamEnds
  <2> QED BY <1>2, <2>1
<1> QED BY <1>3, <1>4, <1>5, RequestIds, LeaderSaveIds, LeaderRestartsIds DEF Next

(* For every number of writers, keys and commands: unless a crash cuts a   *)
(* line short, and if the log is truncated only where all writes are cas   *)
(* and transactions that put something, no id is logged for two commands,  *)
(* over any number of truncations and restarts of the leader.  A restarted *)
(* leader finds every logged id or a later one in the snapshot or in the   *)
(* log, because a truncation finds it in the tree.                         *)
THEOREM IdsNeverReusedTheorem == Spec => []IdsNeverReused
<1>1. Init => Typed /\ IdsInv
  <2>1. Init => IdsInv
    BY DEF Init, IdsInv, IdsParts, IdsApart, IdsBacked, OneWriter, IdsInTree, NoJob
  <2> QED BY <2>1, TypedInit
<1>2. Typed /\ IdsInv /\ [Next]_vars => Typed' /\ IdsInv'
  BY TypedStep, IdsStep
<1>3. IdsInv => IdsNeverReused
  BY DEF IdsInv, IdsParts, IdsApart, IdsNeverReused, Live
<1> QED BY <1>1, <1>2, <1>3, PTL DEF Spec
=============================================================================
