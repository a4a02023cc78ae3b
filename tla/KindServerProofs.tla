-------------------------- MODULE KindServerProofs --------------------------
(***************************************************************************)
(* Theorems about KindServer, for every set of threads, keys and values.   *)
(***************************************************************************)
EXTENDS KindServer, SequenceTheorems, TLAPS

(* What Wal::append writes is a line, and append keeps a file a file.      *)
LEMMA LineTypes ==
  ASSUME NEW tx_id \in Nat, NEW cmd \in WalCommand
  PROVE  /\ Envelope(tx_id, cmd) \in Line
         /\ TornForms(tx_id, cmd) \subseteq Line
         /\ TornUtf8Forms \subseteq Line
         /\ \A l \in TornForms(tx_id, cmd) : l.ok => l.tx_id = tx_id /\ l.cmd = cmd
         /\ \A l \in TornUtf8Forms : ~l.ok
<1>1. Envelope(tx_id, cmd) \in Line
  BY DEF Envelope, Line
<1>2. [tx_id |-> tx_id, cmd |-> cmd, ok |-> TRUE, nl |-> FALSE, utf8 |-> TRUE] \in Line
  BY DEF Line
<1>3. Unparsable(FALSE, TRUE) \in Line /\ Unparsable(FALSE, FALSE) \in Line
  BY DEF Unparsable, Line
<1>4. ~Unparsable(FALSE, TRUE).ok /\ ~Unparsable(FALSE, FALSE).ok
  BY DEF Unparsable
<1>5. ASSUME NEW l \in TornForms(tx_id, cmd), l.ok
      PROVE  l.tx_id = tx_id /\ l.cmd = cmd
  <2>1. l = [tx_id |-> tx_id, cmd |-> cmd, ok |-> TRUE, nl |-> FALSE, utf8 |-> TRUE]
    BY <1>4, <1>5, Zenon DEF TornForms
  <2> QED BY <2>1
<1> QED BY <1>1, <1>2, <1>3, <1>4, <1>5 DEF TornForms, TornUtf8Forms

LEMMA AppendType ==
  ASSUME NEW file \in Seq(Line), NEW line \in Line
  PROVE  append(file, line) \in Seq(Line)
<1>1. CASE file # <<>> /\ ~file[Len(file)].nl
  <2> DEFINE n == Len(file)
             l == Unparsable(line.nl, file[n].utf8 /\ line.utf8)
  <2>1. n \in 1..Len(file)
    BY <1>1, EmptySeq
  <2>2. l \in Line
    BY DEF Unparsable, Line
  <2>3. append(file, line) = [file EXCEPT ![n] = l]
    BY <1>1 DEF append
  <2> HIDE DEF n, l
  <2> QED BY <2>1, <2>2, <2>3, ExceptSeq
<1>2. CASE ~(file # <<>> /\ ~file[Len(file)].nl)
  BY <1>2, AppendProperties DEF append
<1> QED BY <1>1, <1>2

(* The facts about the constants that the proofs use.                      *)
LEMMA Constants ==
  /\ None \notin Threads /\ SnapshotTask \notin Threads /\ None # SnapshotTask
  /\ Keys \subseteq Nat /\ Empty \in Values
  /\ None \notin DbRecord /\ None \notin Payload /\ None \notin Nat
  /\ NoWrite \notin Payload /\ NoWrite # None
  /\ Ttls \subseteq Nat \cup {None} /\ ClockRange \in Nat \ {0}
BY ConstantsAssumption

LEMMA DataTypes ==
  /\ NoWrites \in WriteSet
  /\ EmptyStore \in Store
  /\ \A k \in Keys, w \in Payload \cup {None, NoWrite} : Only(k, w) \in WriteSet
  /\ \A w \in WriteSet : Touched(w) \subseteq Keys
BY DEF NoWrites, EmptyStore, Only, WriteSet, Store, Touched

LEMMA RequestTypes ==
  ASSUME TypeOK, NEW ttl \in Ttls, NEW v \in Values
  PROVE  [value |-> v, expires_at |-> ExpiresAt(ttl)] \in Payload
<1>1. ExpiresAt(ttl) \in Times
  <2>1. CASE ttl = None
    BY <2>1 DEF ExpiresAt, Times
  <2>2. CASE ttl # None
    <3>1. now + ttl \in Nat
      BY <2>2, Constants DEF TypeOK
    <3>2. \A m \in Nat : m % ClockRange \in 0..(ClockRange - 1)
      BY Constants
    <3> QED BY <2>2, <3>1, <3>2 DEF ExpiresAt, Times
  <2> QED BY <2>1, <2>2
<1> QED BY <1>1 DEF Payload

LEMMA RecordType ==
  ASSUME NEW p \in Payload, NEW v \in Nat
  PROVE  Record(p, v) \in DbRecord
BY DEF Record, Payload, DbRecord

LEMMA AppliedType ==
  ASSUME TypeOK, NEW w \in WriteSet, NEW v \in Nat
  PROVE  Applied(w, v) \in Store
<1>1. \A k \in Keys : Applied(w, v)[k] \in DbRecord \cup {None}
  <2> TAKE k \in Keys
  <2>1. CASE w[k] = NoWrite
    BY <2>1 DEF Applied, TypeOK, Store
  <2>2. CASE w[k] = None
    BY <2>2, Constants DEF Applied
  <2>3. CASE w[k] # NoWrite /\ w[k] # None
    <3>1. w[k] \in Payload
      BY <2>3 DEF WriteSet
    <3>2. Applied(w, v)[k] = Record(w[k], v)
      BY <2>3 DEF Applied
    <3> QED BY <3>1, <3>2, RecordType
  <2> QED BY <2>1, <2>2, <2>3
<1> QED BY <1>1 DEF Applied, Store

LEMMA LivePartType ==
  ASSUME NEW store \in Store
  PROVE  LivePart(store) \in Store
BY DEF LivePart, Store

(* A handler that logs leaves a log.                                       *)
LEMMA LogType ==
  ASSUME TypeOK, NEW t \in Threads, NEW tx \in BOOLEAN, Log(t, tx)
  PROVE  wal' \in Seq(Line)
<1>1. Command(t, tx) \in WalCommand /\ ver[t] \in Nat
  BY DEF Command, WalCommand, TypeOK
<1>2. Envelope(ver[t], Command(t, tx)) \in Line /\ TornForms(ver[t], Command(t, tx)) \subseteq Line
  BY <1>1, LineTypes
<1>3. wal \in Seq(Line)
  BY DEF TypeOK
<1> QED BY <1>2, <1>3, AppendType DEF Log

(* A crash leaves a log.                                                   *)
LEMMA CrashLogType ==
  ASSUME TypeOK, Crash
  PROVE  wal' \in Seq(Line)
<1>1. ASSUME NEW t \in Threads, NEW l \in TornLines(t)
      PROVE  l \in Line
  <2>1. Command(t, pc[t] = "tx_append") \in WalCommand /\ ver[t] \in Nat
    BY DEF Command, WalCommand, TypeOK
  <2> QED BY <1>1, <2>1, LineTypes DEF TornLines
<1> QED BY <1>1, AppendType DEF Crash, TypeOK

(* Replaying a command yields a store and a counter.                       *)
LEMMA ReplayType ==
  ASSUME TypeOK, ReplayCommand
  PROVE  tree' \in Store /\ global_version' \in Nat
<1> DEFINE max_ver == MaxVer(wal[pos].tx_id)
           w == Unexpired(wal[pos].cmd.writes)
<1>1. wal[pos] \in Line /\ wal[pos].ok
  BY ElementOfSeq DEF ReplayCommand, TypeOK
<1>2. wal[pos].cmd \in WalCommand /\ wal[pos].tx_id \in Nat
  BY <1>1 DEF Line
<1>3. max_ver \in Nat
  BY <1>2 DEF MaxVer, TypeOK
<1>4. w \in WriteSet
  BY <1>2 DEF Unexpired, WriteSet, WalCommand
<1>5. Applied(w, max_ver) \in Store /\ Applied(w, max_ver + 1) \in Store
  BY <1>3, <1>4, AppliedType
<1> QED BY <1>3, <1>5 DEF ReplayCommand

(* Every state of the server is well formed, and the sections of cas,      *)
(* commit and save_snapshot_and_truncate_wal that hold the WAL mutex       *)
(* exclude each other.                                                     *)
THEOREM TypeCorrect == Spec => []TypeOK
<1>1. Init => TypeOK
  BY Constants, ConstantsAssumption, DataTypes DEF Init, TypeOK, Labels, Locked
<1>2. TypeOK /\ [Next]_vars => TypeOK'
  <2> SUFFICES ASSUME TypeOK, [Next]_vars
               PROVE  TypeOK'
    OBVIOUS
  <2> USE Constants DEF locals, files, tasks, saver, sweeper, env
  <2>1. ASSUME NEW t \in Threads, NEW k \in Keys, NEW v \in Values, NEW ttl \in Ttls, PutBegin(t, k, v, ttl)
         PROVE  TypeOK'
    BY <2>1, RequestTypes, DataTypes DEF PutBegin, Ready, Goto, TypeOK, Labels, Locked
  <2>2. ASSUME NEW t \in Threads, PutVersion(t)
         PROVE  TypeOK'
    BY <2>2 DEF PutVersion, FetchAdd, Goto, TypeOK, Labels, Locked
  <2>3. ASSUME NEW t \in Threads, PutAppend(t)
         PROVE  TypeOK'
    BY <2>3, LogType DEF PutAppend, Goto, TypeOK, Labels, Locked
  <2>4. ASSUME NEW t \in Threads, PutInsert(t)
         PROVE  TypeOK'
    BY <2>4, AppliedType, DataTypes DEF PutInsert, Return, Goto, TypeOK, Labels, Locked
  <2>5. ASSUME NEW t \in Threads, NEW k \in Keys, DeleteBegin(t, k)
         PROVE  TypeOK'
    BY <2>5, DataTypes DEF DeleteBegin, Ready, Goto, TypeOK, Labels, Locked
  <2>6. ASSUME NEW t \in Threads, DeleteRemove(t)
         PROVE  TypeOK'
    BY <2>6, AppliedType DEF DeleteRemove, Goto, TypeOK, Labels, Locked
  <2>7. ASSUME NEW t \in Threads, DeleteVersion(t)
         PROVE  TypeOK'
    BY <2>7 DEF DeleteVersion, FetchAdd, Goto, TypeOK, Labels, Locked
  <2>8. ASSUME NEW t \in Threads, DeleteAppend(t)
         PROVE  TypeOK'
    BY <2>8, LogType, DataTypes DEF DeleteAppend, Return, Goto, TypeOK, Labels, Locked
  <2>9. ASSUME NEW t \in Threads, NEW k \in Keys, NEW v \in Values, NEW ttl \in Ttls, NEW e \in Values, CasBegin(t, k, e, v, ttl)
         PROVE  TypeOK'
    BY <2>9, RequestTypes, DataTypes DEF CasBegin, Ready, Goto, TypeOK, Labels, Locked
  <2>10. ASSUME NEW t \in Threads, CasHit(t)
         PROVE  TypeOK'
    BY <2>10 DEF CasHit, Goto, TypeOK, Labels, Locked
  <2>11. ASSUME NEW t \in Threads, CasMiss(t)
         PROVE  TypeOK'
    BY <2>11, DataTypes DEF CasMiss, Return, Goto, TypeOK, Labels, Locked
  <2>12. ASSUME NEW t \in Threads, CasVersion(t)
         PROVE  TypeOK'
    BY <2>12 DEF CasVersion, FetchAdd, Goto, TypeOK, Labels, Locked
  <2>13. ASSUME NEW t \in Threads, CasAppend(t)
         PROVE  TypeOK'
    BY <2>13, LogType DEF CasAppend, Goto, TypeOK, Labels, Locked
  <2>14. ASSUME NEW t \in Threads, CasInsert(t)
         PROVE  TypeOK'
    BY <2>14, AppliedType, DataTypes DEF CasInsert, Return, Goto, TypeOK, Labels, Locked
  <2>15. ASSUME NEW t \in Threads, TxBegin(t)
         PROVE  TypeOK'
    BY <2>15 DEF TxBegin, Ready, Goto, TypeOK, Labels, Locked
  <2>16. ASSUME NEW t \in Threads, NEW k \in Keys, NEW v \in Values, NEW ttl \in Ttls, TxPut(t, k, v, ttl)
         PROVE  TypeOK'
    BY <2>16, RequestTypes DEF TxPut, WriteSet, TypeOK, Labels, Locked
  <2>17. ASSUME NEW t \in Threads, NEW k \in Keys, TxDelete(t, k)
         PROVE  TypeOK'
    BY <2>17 DEF TxDelete, WriteSet, TypeOK, Labels, Locked
  <2>18. ASSUME NEW t \in Threads, TxRollback(t)
         PROVE  TypeOK'
    BY <2>18, DataTypes DEF TxRollback, Return, Goto, TypeOK, Labels, Locked
  <2>19. ASSUME NEW t \in Threads, TxCommit(t)
         PROVE  TypeOK'
    BY <2>19 DEF TxCommit, Goto, TypeOK, Labels, Locked
  <2>20. ASSUME NEW t \in Threads, TxAbort(t)
         PROVE  TypeOK'
    BY <2>20, DataTypes DEF TxAbort, Return, Goto, TypeOK, Labels, Locked
  <2>21. ASSUME NEW t \in Threads, TxVersion(t)
         PROVE  TypeOK'
    BY <2>21 DEF TxVersion, FetchAdd, Goto, TypeOK, Labels, Locked
  <2>22. ASSUME NEW t \in Threads, TxAppend(t)
         PROVE  TypeOK'
    BY <2>22, LogType, DataTypes DEF TxAppend, Goto, TypeOK, Labels, Locked
  <2>23. ASSUME NEW t \in Threads, NEW k \in Keys, TxApply(t, k)
         PROVE  TypeOK'
    <3>1. Applied(writes[t], ver[t])[k] \in DbRecord \cup {None}
      BY AppliedType DEF TypeOK, Store
    <3>2. tree' \in Store /\ todo' \in [Threads -> SUBSET Keys]
      BY <2>23, <3>1 DEF TxApply, TypeOK, Store
    <3> QED BY <2>23, <3>2 DEF TxApply, TypeOK, Labels, Locked
  <2>24. ASSUME NEW t \in Threads, TxDone(t)
         PROVE  TypeOK'
    BY <2>24, DataTypes DEF TxDone, Return, Goto, TypeOK, Labels, Locked
  <2>25. ASSUME NEW t \in Threads, NEW k \in Keys, GetExpired(t, k)
         PROVE  TypeOK'
    BY <2>25 DEF GetExpired, Goto, TypeOK, Labels, Locked
  <2>26. ASSUME NEW t \in Threads, GetPurge(t)
         PROVE  TypeOK'
    BY <2>26, DataTypes DEF GetPurge, Return, Goto, Store, TypeOK, Labels, Locked
  <2>27. ASSUME SweepBegin
         PROVE  TypeOK'
    BY <2>27 DEF SweepBegin, TypeOK, Labels, Locked
  <2>28. ASSUME NEW k \in Keys, SweepVisit(k)
         PROVE  TypeOK'
    BY <2>28 DEF SweepVisit, FirstOf, TypeOK, Labels, Locked
  <2>29. ASSUME NEW k \in Keys, SweepRemove(k)
         PROVE  TypeOK'
    BY <2>29 DEF SweepRemove, FirstOf, Store, TypeOK, Labels, Locked
  <2>30. ASSUME SnapshotBegin
         PROVE  TypeOK'
    BY <2>30 DEF SnapshotBegin, TypeOK, Labels, Locked
  <2>31. ASSUME NEW k \in Keys, SnapshotVisit(k)
         PROVE  TypeOK'
    BY <2>31, LivePartType DEF SnapshotVisit, FirstOf, Store, TypeOK, Labels, Locked
  <2>32. ASSUME SnapshotRename
         PROVE  TypeOK'
    BY <2>32 DEF SnapshotRename, Store, TypeOK, Labels, Locked
  <2>33. ASSUME SnapshotRenameFails
         PROVE  TypeOK'
    BY <2>33, DataTypes DEF SnapshotRenameFails, TypeOK, Labels, Locked
  <2>34. ASSUME SnapshotTruncate
         PROVE  TypeOK'
    <3>1. wal' \in Seq(Line)
      <4>1. wal' = <<>> \/ wal' = wal
        BY <2>34 DEF SnapshotTruncate, truncate
      <4>2. wal \in Seq(Line)
        BY DEF TypeOK
      <4> QED BY <4>1, <4>2, EmptySeq
    <3> QED BY <2>34, <3>1 DEF SnapshotTruncate, TypeOK, Labels, Locked
  <2>35. ASSUME SnapshotFlush
         PROVE  TypeOK'
    BY <2>35, DataTypes DEF SnapshotFlush, TypeOK, Labels, Locked
  <2>36. ASSUME Tick
         PROVE  TypeOK'
    BY <2>36 DEF Tick, TypeOK, Labels, Locked
  <2>37. ASSUME Crash
         PROVE  TypeOK'
    BY <2>37, CrashLogType, DataTypes DEF Crash, TypeOK, Labels, Locked
  <2>38. ASSUME LoadSnapshot
         PROVE  TypeOK'
    BY <2>38, LivePartType DEF LoadSnapshot, Live, DbRecord, Store, TypeOK, Labels, Locked
  <2>39. ASSUME ReplayCommand
         PROVE  TypeOK'
    BY <2>39, ReplayType DEF ReplayCommand, TypeOK, Labels, Locked
  <2>40. ASSUME SkipLine
         PROVE  TypeOK'
    BY <2>40 DEF SkipLine, TypeOK, Labels, Locked
  <2>41. ASSUME Serve
         PROVE  TypeOK'
    BY <2>41 DEF Serve, TypeOK, Labels, Locked
  <2>42. CASE UNCHANGED vars
    BY <2>42 DEF vars, TypeOK, Labels, Locked
  <2> QED BY <2>1, <2>2, <2>3, <2>4, <2>5, <2>6, <2>7, <2>8, <2>9, <2>10,
         <2>11, <2>12, <2>13, <2>14, <2>15, <2>16, <2>17, <2>18, <2>19, <2>20, <2>21,
         <2>22, <2>23, <2>24, <2>25, <2>26, <2>27, <2>28, <2>29, <2>30, <2>31, <2>32,
         <2>33, <2>34, <2>35, <2>36, <2>37, <2>38, <2>39, <2>40, <2>41, <2>42 DEF
         Next, Request, Handle, FinishSnapshot, Sweep, Start
<1> QED BY <1>1, <1>2, PTL DEF Spec
-----------------------------------------------------------------------------
(* Versions.                                                               *)

(* append adds the line, or spoils it together with an unfinished one.     *)
LEMMA AppendLines ==
  ASSUME NEW file \in Seq(Line), NEW line \in Line
  PROVE  LET f == append(file, line)
         IN /\ Readable(f) => Readable(file)
            /\ Len(f) \in {Len(file), Len(file) + 1}
            /\ \A i \in DOMAIN f : f[i].ok =>
                 \/ i \in DOMAIN file /\ f[i] = file[i]
                 \/ i = Len(file) + 1 /\ f[i] = line
<1> DEFINE f == append(file, line)
<1>1. CASE file # <<>> /\ ~file[Len(file)].nl
  <2> DEFINE n == Len(file)
             l == Unparsable(line.nl, file[n].utf8 /\ line.utf8)
  <2>1. n \in 1..Len(file) /\ DOMAIN file = 1..Len(file)
    BY <1>1, EmptySeq, LenProperties
  <2>2. l \in Line /\ ~l.ok /\ (l.utf8 => file[n].utf8)
    BY DEF Unparsable, Line
  <2>3. f = [file EXCEPT ![n] = l]
    BY <1>1 DEF append
  <2> HIDE DEF n, l, f
  <2>4. Len(f) = Len(file) /\ DOMAIN f = DOMAIN file
    BY <2>1, <2>2, <2>3, ExceptSeq
  <2>5. \A i \in DOMAIN f : f[i] = IF i = n THEN l ELSE file[i]
    BY <2>1, <2>2, <2>3, ExceptSeq
  <2>6. Readable(f) => Readable(file)
    BY <2>2, <2>4, <2>5 DEF Readable
  <2> QED BY <2>2, <2>4, <2>5, <2>6 DEF f
<1>2. CASE ~(file # <<>> /\ ~file[Len(file)].nl)
  <2>1. f = Append(file, line)
    BY <1>2 DEF append
  <2>2. /\ Len(f) = Len(file) + 1 /\ f \in Seq(Line)
        /\ \A i \in 1..Len(file) : f[i] = file[i]
        /\ f[Len(file) + 1] = line
    BY <2>1, AppendProperties
  <2>3. DOMAIN f = 1..(Len(file) + 1) /\ DOMAIN file = 1..Len(file) /\ Len(file) \in Nat
    BY <2>2, LenProperties
  <2> HIDE DEF f
  <2>4. Readable(f) => Readable(file)
    BY <2>2, <2>3 DEF Readable
  <2> QED BY <2>2, <2>3, <2>4 DEF f
<1> QED BY <1>1, <1>2

(* Each line of the log that counts was there before, or is the one line   *)
(* just written and carries the version v.                                 *)
Logged(v) ==
  /\ Readable(wal)' => Readable(wal)
  /\ \A i \in DOMAIN wal' : wal'[i].ok =>
       \/ i \in DOMAIN wal /\ wal'[i] = wal[i]
       \/ i = Len(wal) + 1 /\ wal'[i].tx_id = v

LEMMA LogLines ==
  ASSUME TypeOK, NEW t \in Threads, NEW tx \in BOOLEAN, Log(t, tx)
  PROVE  Logged(ver[t])
<1>1. Command(t, tx) \in WalCommand /\ ver[t] \in Nat /\ wal \in Seq(Line)
  BY DEF Command, WalCommand, TypeOK
<1>2. Envelope(ver[t], Command(t, tx)) \in Line /\ Envelope(ver[t], Command(t, tx)).tx_id = ver[t]
  BY <1>1, LineTypes DEF Envelope
<1>3. \A l \in TornForms(ver[t], Command(t, tx)) : l \in Line /\ (l.ok => l.tx_id = ver[t])
  BY <1>1, LineTypes
<1>4. CASE wal' = append(wal, Envelope(ver[t], Command(t, tx)))
  BY <1>1, <1>2, <1>4, AppendLines DEF Logged
<1>5. CASE UNCHANGED wal
  BY <1>5 DEF Logged, Readable
<1>6. ASSUME NEW l \in TornForms(ver[t], Command(t, tx)), wal' = append(wal, l)
      PROVE  Logged(ver[t])
  BY <1>1, <1>3, <1>6, AppendLines DEF Logged
<1> QED BY <1>4, <1>5, <1>6 DEF Log

(* Handlers between fetch_add and their return.                            *)
Numbered ==
  {"put_append", "put_insert", "delete_append", "cas_append", "cas_insert", "tx_append",
   "tx_apply"}

(* Handlers that are about to log their version.                           *)
Appenders == {"put_append", "delete_append", "cas_append", "tx_append"}

(* The inductive invariant behind LogIdsUnique.  The counter is past every *)
(* version that is held by a handler or in the log; while the log is being *)
(* replayed, past those of the lines already read.                         *)
VersionsHeld ==
  /\ phase # "up" => \A t \in Threads : pc[t] = "idle"
  /\ \A t \in Threads : pc[t] \notin Numbered => ver[t] = 0
  /\ \A t \in Threads : pc[t] \in Numbered => ver[t] \in 1..global_version
  /\ \A t, u \in Threads : pc[t] \in Numbered /\ ver[t] = ver[u] => t = u

VersionsLogged ==
  Readable(wal) =>
    /\ \A i, j \in DOMAIN wal :
         wal[i].ok /\ wal[j].ok /\ wal[i].tx_id = wal[j].tx_id /\ wal[i].tx_id # 0 => i = j
    /\ \A t \in Threads : pc[t] \in Appenders =>
         \A i \in DOMAIN wal : wal[i].ok => wal[i].tx_id # ver[t]
    /\ \A i \in DOMAIN wal :
         wal[i].ok /\ (phase = "up" \/ (phase = "replay" /\ i < pos)) => wal[i].tx_id <= global_version

(* fetch_add hands out a version that no handler holds.                    *)
LEMMA FetchAddStep ==
  ASSUME TypeOK, VersionsHeld, NEW t \in Threads, NEW label \in Numbered,
         pc[t] \notin Numbered, pc[t] # "idle", FetchAdd(t), Goto(t, label), phase' = phase
  PROVE  VersionsHeld'
<1>1. \A u \in Threads : ver[u] \in 0..global_version
  BY DEF VersionsHeld, TypeOK
<1>2. /\ global_version' = global_version + 1 /\ global_version \in Nat
      /\ \A u \in Threads : ver'[u] = IF u = t THEN global_version + 1 ELSE ver[u]
      /\ \A u \in Threads : pc'[u] = IF u = t THEN label ELSE pc[u]
  BY DEF FetchAdd, Goto, TypeOK
<1>3. phase' # "up" => \A u \in Threads : pc'[u] = "idle"
  BY <1>2 DEF VersionsHeld
<1>4. \A u \in Threads : pc'[u] \notin Numbered => ver'[u] = 0
  BY <1>2 DEF VersionsHeld
<1>5. \A u \in Threads : pc'[u] \in Numbered => ver'[u] \in 1..global_version'
  BY <1>1, <1>2 DEF VersionsHeld
<1>6. \A u, w \in Threads : pc'[u] \in Numbered /\ ver'[u] = ver'[w] => u = w
  BY <1>1, <1>2 DEF VersionsHeld
<1> QED BY <1>3, <1>4, <1>5, <1>6 DEF VersionsHeld

LEMMA VersionsHeldStep ==
  ASSUME TypeOK, VersionsHeld, [Next]_vars
  PROVE  VersionsHeld'
<1> USE DEF locals, files, tasks, saver, sweeper, env
<1>1. ASSUME NEW t \in Threads, NEW k \in Keys, NEW v \in Values, NEW ttl \in Ttls, PutBegin(t, k, v, ttl)
       PROVE  VersionsHeld'
  BY <1>1 DEF PutBegin, Ready, Goto, VersionsHeld, Numbered, TypeOK
<1>2. ASSUME NEW t \in Threads, PutVersion(t)
       PROVE  VersionsHeld'
  BY <1>2, FetchAddStep DEF PutVersion, Numbered, env
<1>3. ASSUME NEW t \in Threads, PutAppend(t)
       PROVE  VersionsHeld'
  BY <1>3 DEF PutAppend, Goto, VersionsHeld, Numbered, TypeOK
<1>4. ASSUME NEW t \in Threads, PutInsert(t)
       PROVE  VersionsHeld'
  BY <1>4 DEF PutInsert, Return, Goto, VersionsHeld, Numbered, TypeOK
<1>5. ASSUME NEW t \in Threads, NEW k \in Keys, DeleteBegin(t, k)
       PROVE  VersionsHeld'
  BY <1>5 DEF DeleteBegin, Ready, Goto, VersionsHeld, Numbered, TypeOK
<1>6. ASSUME NEW t \in Threads, DeleteRemove(t)
       PROVE  VersionsHeld'
  BY <1>6 DEF DeleteRemove, Goto, VersionsHeld, Numbered, TypeOK
<1>7. ASSUME NEW t \in Threads, DeleteVersion(t)
       PROVE  VersionsHeld'
  BY <1>7, FetchAddStep DEF DeleteVersion, Numbered, env
<1>8. ASSUME NEW t \in Threads, DeleteAppend(t)
       PROVE  VersionsHeld'
  BY <1>8 DEF DeleteAppend, Return, Goto, VersionsHeld, Numbered, TypeOK
<1>9. ASSUME NEW t \in Threads, NEW k \in Keys, NEW v \in Values, NEW ttl \in Ttls, NEW e \in Values, CasBegin(t, k, e, v, ttl)
       PROVE  VersionsHeld'
  BY <1>9 DEF CasBegin, Ready, Goto, VersionsHeld, Numbered, TypeOK
<1>10. ASSUME NEW t \in Threads, CasHit(t)
       PROVE  VersionsHeld'
  BY <1>10 DEF CasHit, Goto, VersionsHeld, Numbered, TypeOK
<1>11. ASSUME NEW t \in Threads, CasMiss(t)
       PROVE  VersionsHeld'
  BY <1>11 DEF CasMiss, Return, Goto, VersionsHeld, Numbered, TypeOK
<1>12. ASSUME NEW t \in Threads, CasVersion(t)
       PROVE  VersionsHeld'
  BY <1>12, FetchAddStep DEF CasVersion, Numbered, env
<1>13. ASSUME NEW t \in Threads, CasAppend(t)
       PROVE  VersionsHeld'
  BY <1>13 DEF CasAppend, Goto, VersionsHeld, Numbered, TypeOK
<1>14. ASSUME NEW t \in Threads, CasInsert(t)
       PROVE  VersionsHeld'
  BY <1>14 DEF CasInsert, Return, Goto, VersionsHeld, Numbered, TypeOK
<1>15. ASSUME NEW t \in Threads, TxBegin(t)
       PROVE  VersionsHeld'
  BY <1>15 DEF TxBegin, Ready, Goto, VersionsHeld, Numbered, TypeOK
<1>16. ASSUME NEW t \in Threads, NEW k \in Keys, NEW v \in Values, NEW ttl \in Ttls, TxPut(t, k, v, ttl)
       PROVE  VersionsHeld'
  BY <1>16 DEF TxPut, VersionsHeld, Numbered, TypeOK
<1>17. ASSUME NEW t \in Threads, NEW k \in Keys, TxDelete(t, k)
       PROVE  VersionsHeld'
  BY <1>17 DEF TxDelete, VersionsHeld, Numbered, TypeOK
<1>18. ASSUME NEW t \in Threads, TxRollback(t)
       PROVE  VersionsHeld'
  BY <1>18 DEF TxRollback, Return, Goto, VersionsHeld, Numbered, TypeOK
<1>19. ASSUME NEW t \in Threads, TxCommit(t)
       PROVE  VersionsHeld'
  BY <1>19 DEF TxCommit, Goto, VersionsHeld, Numbered, TypeOK
<1>20. ASSUME NEW t \in Threads, TxAbort(t)
       PROVE  VersionsHeld'
  BY <1>20 DEF TxAbort, Return, Goto, VersionsHeld, Numbered, TypeOK
<1>21. ASSUME NEW t \in Threads, TxVersion(t)
       PROVE  VersionsHeld'
  BY <1>21, FetchAddStep DEF TxVersion, Numbered, env
<1>22. ASSUME NEW t \in Threads, TxAppend(t)
       PROVE  VersionsHeld'
  BY <1>22 DEF TxAppend, Goto, VersionsHeld, Numbered, TypeOK
<1>23. ASSUME NEW t \in Threads, NEW k \in Keys, TxApply(t, k)
       PROVE  VersionsHeld'
  BY <1>23 DEF TxApply, VersionsHeld, Numbered, TypeOK
<1>24. ASSUME NEW t \in Threads, TxDone(t)
       PROVE  VersionsHeld'
  BY <1>24 DEF TxDone, Return, Goto, VersionsHeld, Numbered, TypeOK
<1>25. ASSUME NEW t \in Threads, NEW k \in Keys, GetExpired(t, k)
       PROVE  VersionsHeld'
  BY <1>25 DEF GetExpired, Goto, VersionsHeld, Numbered, TypeOK
<1>26. ASSUME NEW t \in Threads, GetPurge(t)
       PROVE  VersionsHeld'
  BY <1>26 DEF GetPurge, Return, Goto, VersionsHeld, Numbered, TypeOK
<1>27. ASSUME SweepBegin
       PROVE  VersionsHeld'
  BY <1>27 DEF SweepBegin, VersionsHeld, Numbered, TypeOK
<1>28. ASSUME NEW k \in Keys, SweepVisit(k)
       PROVE  VersionsHeld'
  BY <1>28 DEF SweepVisit, FirstOf, VersionsHeld, Numbered, TypeOK
<1>29. ASSUME NEW k \in Keys, SweepRemove(k)
       PROVE  VersionsHeld'
  BY <1>29 DEF SweepRemove, FirstOf, VersionsHeld, Numbered, TypeOK
<1>30. ASSUME SnapshotBegin
       PROVE  VersionsHeld'
  BY <1>30 DEF SnapshotBegin, VersionsHeld, Numbered, TypeOK
<1>31. ASSUME NEW k \in Keys, SnapshotVisit(k)
       PROVE  VersionsHeld'
  BY <1>31 DEF SnapshotVisit, FirstOf, VersionsHeld, Numbered, TypeOK
<1>32. ASSUME SnapshotRename
       PROVE  VersionsHeld'
  BY <1>32 DEF SnapshotRename, VersionsHeld, Numbered, TypeOK
<1>33. ASSUME SnapshotRenameFails
       PROVE  VersionsHeld'
  BY <1>33 DEF SnapshotRenameFails, VersionsHeld, Numbered, TypeOK
<1>34. ASSUME SnapshotTruncate
       PROVE  VersionsHeld'
  BY <1>34 DEF SnapshotTruncate, VersionsHeld, Numbered, TypeOK
<1>35. ASSUME SnapshotFlush
       PROVE  VersionsHeld'
  BY <1>35 DEF SnapshotFlush, VersionsHeld, Numbered, TypeOK
<1>36. ASSUME Tick
       PROVE  VersionsHeld'
  BY <1>36 DEF Tick, VersionsHeld, Numbered, TypeOK
<1>37. ASSUME Crash
       PROVE  VersionsHeld'
  BY <1>37 DEF Crash, VersionsHeld, Numbered, TypeOK
<1>38. ASSUME LoadSnapshot
       PROVE  VersionsHeld'
  BY <1>38 DEF LoadSnapshot, VersionsHeld, Numbered, TypeOK
<1>39. ASSUME ReplayCommand
       PROVE  VersionsHeld'
  BY <1>39 DEF ReplayCommand, VersionsHeld, Numbered, TypeOK
<1>40. ASSUME SkipLine
       PROVE  VersionsHeld'
  BY <1>40 DEF SkipLine, VersionsHeld, Numbered, TypeOK
<1>41. ASSUME Serve
       PROVE  VersionsHeld'
  BY <1>41 DEF Serve, VersionsHeld, Numbered, TypeOK
<1>42. CASE UNCHANGED vars
  BY <1>42 DEF vars, VersionsHeld, Numbered, TypeOK
<1> QED BY <1>1, <1>2, <1>3, <1>4, <1>5, <1>6, <1>7, <1>8, <1>9, <1>10, <1>11,
       <1>12, <1>13, <1>14, <1>15, <1>16, <1>17, <1>18, <1>19, <1>20, <1>21, <1>22,
       <1>23, <1>24, <1>25, <1>26, <1>27, <1>28, <1>29, <1>30, <1>31, <1>32, <1>33,
       <1>34, <1>35, <1>36, <1>37, <1>38, <1>39, <1>40, <1>41, <1>42 DEF Next,
       Request, Handle, FinishSnapshot, Sweep, Start

(* Steps that leave the log alone, and may hand out a fresh version.       *)
LEMMA NoAppendStep ==
  ASSUME TypeOK, VersionsLogged, wal' = wal, phase' = phase, pos' = pos,
         global_version' \in Nat, global_version <= global_version',
         \A t \in Threads : pc'[t] \in Appenders =>
            \/ pc[t] \in Appenders /\ ver'[t] = ver[t]
            \/ phase = "up" /\ ver'[t] = global_version + 1
  PROVE  VersionsLogged'
<1>1. \A i \in DOMAIN wal : wal[i].tx_id \in Nat
  BY ElementOfSeq, LenProperties DEF TypeOK, Line
<1>2. global_version \in Nat /\ (Readable(wal)' <=> Readable(wal))
  BY DEF TypeOK, Readable
<1> QED BY <1>1, <1>2 DEF VersionsLogged

(* A handler logs its version and is done with it.                         *)
LEMMA AppendStep ==
  ASSUME TypeOK, VersionsHeld, VersionsLogged, NEW t \in Threads, pc[t] \in Appenders,
         Logged(ver[t]), wal' \in Seq(Line), phase' = phase, pos' = pos,
         global_version' = global_version, pc'[t] \notin Appenders,
         \A u \in Threads \ {t} : pc'[u] = pc[u] /\ ver'[u] = ver[u]
  PROVE  VersionsLogged'
<1>1. phase = "up" /\ ver[t] \in 1..global_version /\ pc[t] \in Numbered
  BY DEF VersionsHeld, Appenders, Numbered
<1>2. \A u \in Threads \ {t} : ver[u] # ver[t]
  BY <1>1 DEF VersionsHeld
<1>3. SUFFICES ASSUME Readable(wal), Readable(wal)'
               PROVE  VersionsLogged'
  BY DEF Logged, VersionsLogged
<1>4. \A i \in DOMAIN wal' : wal'[i].ok =>
        (i \in DOMAIN wal /\ wal'[i] = wal[i]) \/ (i = Len(wal) + 1 /\ wal'[i].tx_id = ver[t])
  BY DEF Logged
<1>5. \A i \in DOMAIN wal : wal[i].ok => wal[i].tx_id # ver[t] /\ wal[i].tx_id <= global_version
  BY <1>1, <1>3 DEF VersionsLogged
<1>6. \A i, j \in DOMAIN wal' :
        wal'[i].ok /\ wal'[j].ok /\ wal'[i].tx_id = wal'[j].tx_id /\ wal'[i].tx_id # 0 => i = j
  BY <1>3, <1>4, <1>5 DEF VersionsLogged
<1>7. \A u \in Threads : pc'[u] \in Appenders =>
        \A i \in DOMAIN wal' : wal'[i].ok => wal'[i].tx_id # ver'[u]
  BY <1>2, <1>3, <1>4 DEF VersionsLogged
<1>8. \A i \in DOMAIN wal' : wal'[i].ok => wal'[i].tx_id <= global_version'
  BY <1>1, <1>4, <1>5
<1> QED BY <1>6, <1>7, <1>8 DEF VersionsLogged

(* A crash may leave one more line, with the version of the handler that   *)
(* was writing it.                                                         *)
LEMMA CrashLines ==
  ASSUME TypeOK, VersionsHeld, VersionsLogged, Crash, Readable(wal)'
  PROVE  \A i, j \in DOMAIN wal' :
           wal'[i].ok /\ wal'[j].ok /\ wal'[i].tx_id = wal'[j].tx_id /\ wal'[i].tx_id # 0 => i = j
<1>1. CASE UNCHANGED wal
  BY <1>1 DEF VersionsLogged, Readable
<1>2. ASSUME NEW t \in Threads, Appending(t), NEW l \in TornLines(t), wal' = append(wal, l)
      PROVE  \A i, j \in DOMAIN wal' :
               wal'[i].ok /\ wal'[j].ok /\ wal'[i].tx_id = wal'[j].tx_id /\ wal'[i].tx_id # 0 => i = j
  <2>1. Command(t, pc[t] = "tx_append") \in WalCommand /\ ver[t] \in Nat /\ wal \in Seq(Line)
    BY DEF Command, WalCommand, TypeOK
  <2>2. l \in Line /\ (l.ok => l.tx_id = ver[t])
    BY <1>2, <2>1, LineTypes DEF TornLines
  <2>3. Logged(ver[t])
    BY <1>2, <2>1, <2>2, AppendLines DEF Logged
  <2>4. \A i \in DOMAIN wal : wal[i].ok => wal[i].tx_id # ver[t]
    BY <1>2, <2>3 DEF Appending, Appenders, Logged, VersionsLogged
  <2> QED BY <2>3, <2>4 DEF Logged, VersionsLogged
<1> QED BY <1>1, <1>2 DEF Crash

LEMMA VersionsLoggedStep ==
  ASSUME TypeOK, VersionsHeld, VersionsLogged, [Next]_vars
  PROVE  VersionsLogged'
<1> USE DEF locals, files, tasks, saver, sweeper, env
<1>1. ASSUME NEW t \in Threads, NEW k \in Keys, NEW v \in Values, NEW ttl \in Ttls, PutBegin(t, k, v, ttl)
       PROVE  VersionsLogged'
  BY <1>1, NoAppendStep DEF PutBegin, Ready, Goto, Appenders, TypeOK
<1>2. ASSUME NEW t \in Threads, PutVersion(t)
       PROVE  VersionsLogged'
  <2>1. /\ global_version' = global_version + 1 /\ phase = "up"
        /\ \A u \in Threads : u # t => pc'[u] = pc[u] /\ ver'[u] = ver[u]
        /\ ver'[t] = global_version + 1
    BY <1>2 DEF PutVersion, FetchAdd, Goto, VersionsHeld, TypeOK
  <2>2. wal' = wal /\ phase' = phase /\ pos' = pos
    BY <1>2 DEF PutVersion, files, tasks, env
  <2>3. global_version \in Nat
    BY DEF TypeOK
  <2> QED BY <2>1, <2>2, <2>3, NoAppendStep
<1>3. ASSUME NEW t \in Threads, PutAppend(t)
       PROVE  VersionsLogged'
  <2>1. wal' \in Seq(Line) /\ Logged(ver[t])
    BY <1>3, LogType, LogLines DEF PutAppend
  <2> QED BY <1>3, <2>1, AppendStep DEF PutAppend, Goto, Appenders, TypeOK
<1>4. ASSUME NEW t \in Threads, PutInsert(t)
       PROVE  VersionsLogged'
  BY <1>4, NoAppendStep DEF PutInsert, Return, Goto, Appenders, TypeOK
<1>5. ASSUME NEW t \in Threads, NEW k \in Keys, DeleteBegin(t, k)
       PROVE  VersionsLogged'
  BY <1>5, NoAppendStep DEF DeleteBegin, Ready, Goto, Appenders, TypeOK
<1>6. ASSUME NEW t \in Threads, DeleteRemove(t)
       PROVE  VersionsLogged'
  BY <1>6, NoAppendStep DEF DeleteRemove, Goto, Appenders, TypeOK
<1>7. ASSUME NEW t \in Threads, DeleteVersion(t)
       PROVE  VersionsLogged'
  <2>1. /\ global_version' = global_version + 1 /\ phase = "up"
        /\ \A u \in Threads : u # t => pc'[u] = pc[u] /\ ver'[u] = ver[u]
        /\ ver'[t] = global_version + 1
    BY <1>7 DEF DeleteVersion, FetchAdd, Goto, VersionsHeld, TypeOK
  <2>2. wal' = wal /\ phase' = phase /\ pos' = pos
    BY <1>7 DEF DeleteVersion, files, tasks, env
  <2>3. global_version \in Nat
    BY DEF TypeOK
  <2> QED BY <2>1, <2>2, <2>3, NoAppendStep
<1>8. ASSUME NEW t \in Threads, DeleteAppend(t)
       PROVE  VersionsLogged'
  <2>1. wal' \in Seq(Line) /\ Logged(ver[t])
    BY <1>8, LogType, LogLines DEF DeleteAppend
  <2> QED BY <1>8, <2>1, AppendStep DEF DeleteAppend, Return, Goto, Appenders, TypeOK
<1>9. ASSUME NEW t \in Threads, NEW k \in Keys, NEW v \in Values, NEW ttl \in Ttls, NEW e \in Values, CasBegin(t, k, e, v, ttl)
       PROVE  VersionsLogged'
  BY <1>9, NoAppendStep DEF CasBegin, Ready, Goto, Appenders, TypeOK
<1>10. ASSUME NEW t \in Threads, CasHit(t)
       PROVE  VersionsLogged'
  BY <1>10, NoAppendStep DEF CasHit, Goto, Appenders, TypeOK
<1>11. ASSUME NEW t \in Threads, CasMiss(t)
       PROVE  VersionsLogged'
  BY <1>11, NoAppendStep DEF CasMiss, Return, Goto, Appenders, TypeOK
<1>12. ASSUME NEW t \in Threads, CasVersion(t)
       PROVE  VersionsLogged'
  <2>1. /\ global_version' = global_version + 1 /\ phase = "up"
        /\ \A u \in Threads : u # t => pc'[u] = pc[u] /\ ver'[u] = ver[u]
        /\ ver'[t] = global_version + 1
    BY <1>12 DEF CasVersion, FetchAdd, Goto, VersionsHeld, TypeOK
  <2>2. wal' = wal /\ phase' = phase /\ pos' = pos
    BY <1>12 DEF CasVersion, files, tasks, env
  <2>3. global_version \in Nat
    BY DEF TypeOK
  <2> QED BY <2>1, <2>2, <2>3, NoAppendStep
<1>13. ASSUME NEW t \in Threads, CasAppend(t)
       PROVE  VersionsLogged'
  <2>1. wal' \in Seq(Line) /\ Logged(ver[t])
    BY <1>13, LogType, LogLines DEF CasAppend
  <2> QED BY <1>13, <2>1, AppendStep DEF CasAppend, Goto, Appenders, TypeOK
<1>14. ASSUME NEW t \in Threads, CasInsert(t)
       PROVE  VersionsLogged'
  BY <1>14, NoAppendStep DEF CasInsert, Return, Goto, Appenders, TypeOK
<1>15. ASSUME NEW t \in Threads, TxBegin(t)
       PROVE  VersionsLogged'
  BY <1>15, NoAppendStep DEF TxBegin, Ready, Goto, Appenders, TypeOK
<1>16. ASSUME NEW t \in Threads, NEW k \in Keys, NEW v \in Values, NEW ttl \in Ttls, TxPut(t, k, v, ttl)
       PROVE  VersionsLogged'
  BY <1>16, NoAppendStep DEF TxPut, Appenders, TypeOK
<1>17. ASSUME NEW t \in Threads, NEW k \in Keys, TxDelete(t, k)
       PROVE  VersionsLogged'
  BY <1>17, NoAppendStep DEF TxDelete, Appenders, TypeOK
<1>18. ASSUME NEW t \in Threads, TxRollback(t)
       PROVE  VersionsLogged'
  BY <1>18, NoAppendStep DEF TxRollback, Return, Goto, Appenders, TypeOK
<1>19. ASSUME NEW t \in Threads, TxCommit(t)
       PROVE  VersionsLogged'
  BY <1>19, NoAppendStep DEF TxCommit, Goto, Appenders, TypeOK
<1>20. ASSUME NEW t \in Threads, TxAbort(t)
       PROVE  VersionsLogged'
  BY <1>20, NoAppendStep DEF TxAbort, Return, Goto, Appenders, TypeOK
<1>21. ASSUME NEW t \in Threads, TxVersion(t)
       PROVE  VersionsLogged'
  <2>1. /\ global_version' = global_version + 1 /\ phase = "up"
        /\ \A u \in Threads : u # t => pc'[u] = pc[u] /\ ver'[u] = ver[u]
        /\ ver'[t] = global_version + 1
    BY <1>21 DEF TxVersion, FetchAdd, Goto, VersionsHeld, TypeOK
  <2>2. wal' = wal /\ phase' = phase /\ pos' = pos
    BY <1>21 DEF TxVersion, files, tasks, env
  <2>3. global_version \in Nat
    BY DEF TypeOK
  <2> QED BY <2>1, <2>2, <2>3, NoAppendStep
<1>22. ASSUME NEW t \in Threads, TxAppend(t)
       PROVE  VersionsLogged'
  <2>1. wal' \in Seq(Line) /\ Logged(ver[t])
    BY <1>22, LogType, LogLines DEF TxAppend
  <2> QED BY <1>22, <2>1, AppendStep DEF TxAppend, Goto, Appenders, TypeOK
<1>23. ASSUME NEW t \in Threads, NEW k \in Keys, TxApply(t, k)
       PROVE  VersionsLogged'
  BY <1>23, NoAppendStep DEF TxApply, Appenders, TypeOK
<1>24. ASSUME NEW t \in Threads, TxDone(t)
       PROVE  VersionsLogged'
  BY <1>24, NoAppendStep DEF TxDone, Return, Goto, Appenders, TypeOK
<1>25. ASSUME NEW t \in Threads, NEW k \in Keys, GetExpired(t, k)
       PROVE  VersionsLogged'
  BY <1>25, NoAppendStep DEF GetExpired, Goto, Appenders, TypeOK
<1>26. ASSUME NEW t \in Threads, GetPurge(t)
       PROVE  VersionsLogged'
  BY <1>26, NoAppendStep DEF GetPurge, Return, Goto, Appenders, TypeOK
<1>27. ASSUME SweepBegin
       PROVE  VersionsLogged'
  BY <1>27, NoAppendStep DEF SweepBegin, Appenders, TypeOK
<1>28. ASSUME NEW k \in Keys, SweepVisit(k)
       PROVE  VersionsLogged'
  BY <1>28, NoAppendStep DEF SweepVisit, FirstOf, Appenders, TypeOK
<1>29. ASSUME NEW k \in Keys, SweepRemove(k)
       PROVE  VersionsLogged'
  BY <1>29, NoAppendStep DEF SweepRemove, FirstOf, Appenders, TypeOK
<1>30. ASSUME SnapshotBegin
       PROVE  VersionsLogged'
  BY <1>30, NoAppendStep DEF SnapshotBegin, Appenders, TypeOK
<1>31. ASSUME NEW k \in Keys, SnapshotVisit(k)
       PROVE  VersionsLogged'
  BY <1>31, NoAppendStep DEF SnapshotVisit, FirstOf, Appenders, TypeOK
<1>32. ASSUME SnapshotRename
       PROVE  VersionsLogged'
  BY <1>32, NoAppendStep DEF SnapshotRename, Appenders, TypeOK
<1>33. ASSUME SnapshotRenameFails
       PROVE  VersionsLogged'
  BY <1>33, NoAppendStep DEF SnapshotRenameFails, Appenders, TypeOK
<1>34. ASSUME SnapshotTruncate
       PROVE  VersionsLogged'
  BY <1>34 DEF SnapshotTruncate, truncate, VersionsLogged
<1>35. ASSUME SnapshotFlush
       PROVE  VersionsLogged'
  BY <1>35, NoAppendStep DEF SnapshotFlush, Appenders, TypeOK
<1>36. ASSUME Tick
       PROVE  VersionsLogged'
  BY <1>36, NoAppendStep DEF Tick, Appenders, TypeOK
<1>37. ASSUME Crash
       PROVE  VersionsLogged'
  BY <1>37, CrashLines DEF VersionsLogged, Crash, Appenders
<1>38. ASSUME LoadSnapshot
       PROVE  VersionsLogged'
  <2>1. Readable(wal)' => Readable(wal) /\ pos' = 1
    BY <1>38 DEF LoadSnapshot, files, Readable
  <2>2. \A i \in DOMAIN wal : i \in Nat /\ ~(i < 1)
    BY LenProperties DEF TypeOK
  <2>3. \A t \in Threads : pc'[t] = "idle"
    BY <1>38 DEF LoadSnapshot, VersionsHeld
  <2> QED BY <1>38, <2>1, <2>2, <2>3 DEF LoadSnapshot, VersionsLogged, Appenders
<1>39. ASSUME ReplayCommand
       PROVE  VersionsLogged'
  <2>1. \A i \in DOMAIN wal : i \in Nat /\ wal[i].tx_id \in Nat
    BY ElementOfSeq, LenProperties DEF TypeOK, Line
  <2>2. pos \in DOMAIN wal
    BY <1>39, LenProperties DEF ReplayCommand, TypeOK
  <2>3. /\ global_version' \in Nat /\ global_version <= global_version'
        /\ wal[pos].tx_id <= global_version'
    BY <1>39, <2>1, <2>2 DEF ReplayCommand, MaxVer, TypeOK
  <2>4. /\ wal' = wal /\ phase = "replay" /\ phase' = "replay" /\ pos' = pos + 1 /\ pos \in Nat
        /\ global_version \in Nat
        /\ \A t \in Threads : pc'[t] = "idle"
    BY <1>39 DEF ReplayCommand, VersionsHeld, TypeOK
  <2>5. \A i \in DOMAIN wal : i < pos + 1 => i < pos \/ i = pos
    BY <2>1, <2>4
  <2>6. Readable(wal)' => \A i \in DOMAIN wal : wal[i].ok /\ i < pos' => wal[i].tx_id <= global_version'
    BY <2>1, <2>3, <2>4, <2>5 DEF VersionsLogged, Readable
  <2> QED BY <2>4, <2>6 DEF VersionsLogged, Appenders, Readable
<1>40. ASSUME SkipLine
       PROVE  VersionsLogged'
  <2>1. /\ wal' = wal /\ phase = "replay" /\ phase' = "replay" /\ pos' = pos + 1 /\ pos \in Nat
        /\ global_version' = global_version /\ ~wal[pos].ok
        /\ \A t \in Threads : pc'[t] = "idle"
    BY <1>40 DEF SkipLine, VersionsHeld, TypeOK
  <2>2. \A i \in DOMAIN wal : i < pos + 1 => i < pos \/ i = pos
    BY <2>1, LenProperties DEF TypeOK
  <2> QED BY <2>1, <2>2 DEF VersionsLogged, Appenders, Readable
<1>41. ASSUME Serve
       PROVE  VersionsLogged'
  <2>1. \A i \in DOMAIN wal : i < pos
    BY <1>41, LenProperties DEF Serve, TypeOK
  <2> QED BY <1>41, <2>1 DEF Serve, VersionsLogged, VersionsHeld, Appenders, Readable
<1>42. CASE UNCHANGED vars
  BY <1>42, NoAppendStep DEF vars, TypeOK
<1> QED BY <1>1, <1>2, <1>3, <1>4, <1>5, <1>6, <1>7, <1>8, <1>9, <1>10, <1>11,
       <1>12, <1>13, <1>14, <1>15, <1>16, <1>17, <1>18, <1>19, <1>20, <1>21, <1>22,
       <1>23, <1>24, <1>25, <1>26, <1>27, <1>28, <1>29, <1>30, <1>31, <1>32, <1>33,
       <1>34, <1>35, <1>36, <1>37, <1>38, <1>39, <1>40, <1>41, <1>42 DEF Next,
       Request, Handle, FinishSnapshot, Sweep, Start

(* Every line of a log that can be read has a tx_id of its own, whatever   *)
(* the interleaving of put, delete, cas and commit, also where a restarted *)
(* process adds to the lines of an earlier one: new takes the counter past *)
(* every line it reads, those of puts that have expired included.  It says *)
(* nothing of ids whose lines have been truncated.                         *)
THEOREM LogIdsAreUnique == Spec => []LogIdsUnique
<1>1. Init => VersionsHeld /\ VersionsLogged
  BY ConstantsAssumption DEF Init, VersionsHeld, VersionsLogged, Numbered, Appenders
<1>2. TypeOK /\ VersionsHeld /\ VersionsLogged /\ [Next]_vars => (VersionsHeld /\ VersionsLogged)'
  BY VersionsHeldStep, VersionsLoggedStep
<1>3. VersionsHeld /\ VersionsLogged => LogIdsUnique
  BY DEF VersionsHeld, VersionsLogged, LogIdsUnique, Numbered, Appenders
<1> QED BY <1>1, <1>2, <1>3, TypeCorrect, PTL DEF Spec
=============================================================================
