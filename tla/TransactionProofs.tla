-------------------------- MODULE TransactionProofs --------------------------
(***************************************************************************)
(* The conflict check of commit, in both directions.                       *)
(*                                                                         *)
(* First committer wins, under LockedWorkload: the version of a record in  *)
(* the tree, which is all that commit looks at, is never behind the line   *)
(* of the log or the record of the snapshot it stands for.                 *)
(*                                                                         *)
(* No spurious conflict, in one lifetime of the process and with every     *)
(* writer: a version in the tree that is past an open transaction is that  *)
(* of a line of the log.                                                   *)
(***************************************************************************)
EXTENDS WriteAheadProofs

Mentions(file, k, n) == {i \in 1..n : file[i].cmd.writes[k] # NoWrite}

(* The value that the first n lines leave in k was written no later than   *)
(* version v.  A key whose last write was a delete has none.               *)
NotPast(file, base, k, n, v) ==
  LET I == Mentions(file, k, n)
  IN /\ I = {} /\ base[k] # None => base[k].version <= v
     /\ I # {} /\ file[LastOf(I)].cmd.writes[k] # None => file[LastOf(I)].tx_id <= v

(* No version in the tree is behind the files: when requests are served,   *)
(* while the files are swapped, and at each round of replay.               *)
StampedTree ==
  phase = "up" /\ ~Swapping => \A k \in Keys :
    /\ (\A t \in Threads : ~Pending(t, k)) /\ tree[k] # None =>
         NotPast(wal, snapshot, k, Len(wal), tree[k].version)
    /\ \A t \in Threads : Pending(t, k) => NotPast(wal, snapshot, k, Len(wal), ver[t])

StampedBuffer ==
  Swapping => \A k \in Keys : snap_buf[k] # None =>
    NotPast(wal, snap_buf, k, Len(wal), snap_buf[k].version)

StampedReplay ==
  phase = "replay" => \A k \in Keys : tree[k] # None =>
    NotPast(wal, snapshot, k, pos - 1, tree[k].version)

Stamped == StampedTree /\ StampedBuffer /\ StampedReplay
-----------------------------------------------------------------------------
(* NotPast, line by line.                                                  *)

LEMMA NotPastNext ==
  ASSUME NEW file, NEW base, NEW k, NEW n \in Nat, NEW v
  PROVE  /\ file[n + 1].cmd.writes[k] = NoWrite =>
              (NotPast(file, base, k, n + 1, v) <=> NotPast(file, base, k, n, v))
         /\ file[n + 1].cmd.writes[k] # NoWrite =>
              (NotPast(file, base, k, n + 1, v) <=>
                 (file[n + 1].cmd.writes[k] # None => file[n + 1].tx_id <= v))
<1>1. CASE file[n + 1].cmd.writes[k] = NoWrite
  <2>1. Mentions(file, k, n + 1) = Mentions(file, k, n)
    BY <1>1 DEF Mentions
  <2> QED BY <1>1, <2>1 DEF NotPast
<1>2. CASE file[n + 1].cmd.writes[k] # NoWrite
  <2> DEFINE I == Mentions(file, k, n + 1)
  <2>1. n + 1 \in I /\ I \in SUBSET (1..(n + 1)) /\ n + 1 \in Nat
    BY <1>2 DEF Mentions
  <2> HIDE DEF I
  <2>2. LastOf(I) \in I /\ n + 1 <= LastOf(I)
    BY <2>1, LastOfIsMax
  <2>3. LastOf(I) = n + 1
    <3>1. LastOf(I) \in 1..(n + 1)
      BY <2>1, <2>2
    <3> QED BY <2>2, <3>1
  <2> QED BY <1>2, <2>1, <2>3 DEF NotPast, I
<1> QED BY <1>1, <1>2

LEMMA NotPastPrefix ==
  ASSUME NEW f, NEW g, NEW base, NEW k, NEW n \in Nat, \A i \in 1..n : f[i] = g[i], NEW v
  PROVE  NotPast(f, base, k, n, v) <=> NotPast(g, base, k, n, v)
<1> DEFINE I == Mentions(f, k, n)
<1>1. I = Mentions(g, k, n) /\ I \in SUBSET (1..n)
  BY DEF Mentions
<1> HIDE DEF I
<1>2. CASE I = {}
  BY <1>1, <1>2 DEF NotPast, I
<1>3. CASE I # {}
  <2>1. LastOf(I) \in 1..n
    BY <1>1, <1>3, LastOfIsMax
  <2>2. f[LastOf(I)] = g[LastOf(I)]
    BY <2>1
  <2> QED BY <1>1, <1>3, <2>2 DEF NotPast, I
<1> QED BY <1>2, <1>3

(* A later version is past no less.                                        *)
LEMMA NotPastUp ==
  ASSUME TypeOK, LockedShape, NEW k \in Keys, NEW n \in Nat, n <= Len(wal),
         NEW v \in Nat, NEW u \in Nat, v <= u, NotPast(wal, snapshot, k, n, v)
  PROVE  NotPast(wal, snapshot, k, n, u)
<1> DEFINE I == Mentions(wal, k, n)
<1>1. I \in SUBSET (1..n)
  BY DEF Mentions
<1>2. snapshot[k] # None => snapshot[k].version \in Nat
  BY DEF TypeOK, Store, DbRecord
<1> HIDE DEF I
<1>3. CASE I = {}
  BY <1>2, <1>3 DEF NotPast, I
<1>4. CASE I # {}
  <2>1. LastOf(I) \in 1..n
    BY <1>1, <1>4, LastOfIsMax
  <2>2. LastOf(I) \in 1..Len(wal)
    BY <2>1, LenProperties DEF TypeOK
  <2>3. wal[LastOf(I)] \in Line
    BY <2>2, ElementOfSeq DEF TypeOK
  <2>4. wal[LastOf(I)].tx_id \in Nat
    BY <2>3 DEF Line
  <2> QED BY <1>4, <2>4 DEF NotPast, I
<1> QED BY <1>3, <1>4

(* A key the files hold no value for is past nothing.                      *)
LEMMA NotPastAbsent ==
  ASSUME NEW k \in Keys, NEW v, TypeOK,
         Plain(wal, snapshot, k, Len(wal)) = None
  PROVE  NotPast(wal, snapshot, k, Len(wal), v)
<1>1. \A r \in DbRecord : PayloadOf(r) # None
  BY Constants DEF PayloadOf, Payload, DbRecord
<1>2. snapshot[k] \in DbRecord \cup {None}
  BY DEF TypeOK, Store
<1> QED BY <1>1, <1>2 DEF NotPast, Plain, Mentions

(* A line that t logged.                                                   *)
LEMMA NotPastLogged ==
  ASSUME LockedWorkload, TypeOK, LockedShape, NEW t \in Threads, NEW tx \in BOOLEAN, Log(t, tx),
         NEW k \in Keys, NEW v
  PROVE  /\ writes[t][k] = NoWrite =>
              (NotPast(wal', snapshot, k, Len(wal'), v) <=> NotPast(wal, snapshot, k, Len(wal), v))
         /\ writes[t][k] # NoWrite =>
              (NotPast(wal', snapshot, k, Len(wal'), v) <=> (writes[t][k] # None => ver[t] <= v))
<1> DEFINE n == Len(wal)
<1>1. n \in Nat /\ Len(wal') = n + 1 /\ \A i \in 1..n : wal'[i] = wal[i]
  BY LockedLog, LenProperties DEF TypeOK
<1>2. wal'[n + 1].cmd.writes = writes[t] /\ wal'[n + 1].tx_id = ver[t]
  <2>1. wal'[n + 1].cmd.writes = writes[t]
    BY LockedLog
  <2> DEFINE line == Envelope(ver[t], Command(t, tx))
  <2>2. wal' = append(wal, line)
    BY DEF LockedWorkload, Log
  <2>3. wal # <<>> => wal[n].nl
    <3>1. wal # <<>> => Len(wal) \in DOMAIN wal
      BY EmptySeq, LenProperties DEF TypeOK
    <3> QED BY <3>1 DEF LockedShape, Sound
  <2>4. wal' = Append(wal, line)
    BY <2>2, <2>3 DEF append
  <2>5. line \in Line /\ line.tx_id = ver[t]
    <3>1. Command(t, tx) \in WalCommand /\ ver[t] \in Nat
      BY DEF Command, WalCommand, TypeOK
    <3> QED BY <3>1, LineTypes DEF Envelope
  <2> HIDE DEF line
  <2>6. wal'[n + 1] = line
    BY <2>4, <2>5, AppendProperties DEF TypeOK
  <2> QED BY <2>1, <2>5, <2>6
<1> HIDE DEF n
<1>3. PICK f : f = wal'
  OBVIOUS
<1>4. NotPast(f, snapshot, k, n, v) <=> NotPast(wal, snapshot, k, n, v)
  BY <1>1, <1>3, NotPastPrefix
<1>5. /\ f[n + 1].cmd.writes[k] = NoWrite =>
           (NotPast(f, snapshot, k, n + 1, v) <=> NotPast(f, snapshot, k, n, v))
      /\ f[n + 1].cmd.writes[k] # NoWrite =>
           (NotPast(f, snapshot, k, n + 1, v) <=> (f[n + 1].cmd.writes[k] # None => f[n + 1].tx_id <= v))
  BY <1>1, NotPastNext
<1>6. NotPast(wal', snapshot, k, Len(wal'), v) <=> NotPast(f, snapshot, k, n + 1, v)
  BY <1>1, <1>3
<1> QED BY <1>2, <1>3, <1>4, <1>5, <1>6 DEF n
-----------------------------------------------------------------------------
(* Steps that touch neither the files nor the tree.                        *)

Undisturbed ==
  /\ UNCHANGED <<wal, snapshot, tree, phase, pos>>
  /\ Swapping' <=> Swapping
  /\ Swapping => snap_buf' = snap_buf
  /\ \A t \in Threads, k \in Keys : Pending(t, k)' <=> Pending(t, k)
  /\ \A t \in Threads, k \in Keys : Pending(t, k) => ver'[t] = ver[t]

LEMMA StampedQuiet ==
  ASSUME Stamped, Undisturbed
  PROVE  Stamped'
<1> USE DEF Stamped, Undisturbed
<1>1. StampedTree'
  BY DEF StampedTree
<1>2. StampedBuffer'
  BY DEF StampedBuffer
<1>3. StampedReplay'
  BY DEF StampedReplay
<1> QED BY <1>1, <1>2, <1>3

(* The steps that do disturb them.                                         *)
Disturbing ==
  \/ \E t \in Threads : CasAppend(t) \/ CasInsert(t) \/ TxAppend(t) \/ \E k \in Keys : TxApply(t, k)
  \/ SnapshotRename \/ SnapshotTruncate \/ SnapshotFlush
  \/ Crash \/ LoadSnapshot \/ ReplayCommand \/ Serve

LEMMA Disturbances ==
  ASSUME LockedWorkload, TypeOK, LockedShape, [Next]_vars
  PROVE  Undisturbed \/ Disturbing
<1> USE Constants DEF locals, files, tasks, saver, sweeper, env, Undisturbed
<1>1. ASSUME NEW t \in Threads, NEW k \in Keys, NEW v \in Values, NEW ttl \in Ttls, NEW e \in Values, CasBegin(t, k, e, v, ttl)
      PROVE  Undisturbed
  BY <1>1 DEF CasBegin, Ready, Goto, Pending, Swapping, TypeOK
<1>2. ASSUME NEW t \in Threads, CasHit(t)
      PROVE  Undisturbed
  BY <1>2 DEF CasHit, Goto, Pending, Swapping, TypeOK
<1>3. ASSUME NEW t \in Threads, CasMiss(t)
      PROVE  Undisturbed
  BY <1>3 DEF CasMiss, Return, Goto, Pending, Swapping, TypeOK
<1>4. ASSUME NEW t \in Threads, CasVersion(t)
      PROVE  Undisturbed
  BY <1>4 DEF CasVersion, FetchAdd, Goto, Pending, Swapping, TypeOK
<1>5. ASSUME NEW t \in Threads, TxBegin(t)
      PROVE  Undisturbed
  BY <1>5 DEF TxBegin, Ready, Goto, Pending, Swapping, TypeOK
<1>6. ASSUME NEW t \in Threads, NEW k \in Keys, NEW v \in Values, NEW ttl \in Ttls, TxPut(t, k, v, ttl)
      PROVE  Undisturbed
  <2>1. pc[t] = "tx_open" /\ pc' = pc /\ todo' = todo /\ \A u \in Threads \ {t} : writes'[u] = writes[u]
    BY <1>6 DEF TxPut, TypeOK
  <2>2. \A u \in Threads, j \in Keys : Pending(u, j)' <=> Pending(u, j)
    BY <2>1 DEF Pending
  <2> QED BY <1>6, <2>2 DEF TxPut, Swapping
<1>7. ASSUME NEW t \in Threads, NEW k \in Keys, TxDelete(t, k)
      PROVE  Undisturbed
  <2>1. pc[t] = "tx_open" /\ pc' = pc /\ todo' = todo /\ \A u \in Threads \ {t} : writes'[u] = writes[u]
    BY <1>7 DEF TxDelete, TypeOK
  <2>2. \A u \in Threads, j \in Keys : Pending(u, j)' <=> Pending(u, j)
    BY <2>1 DEF Pending
  <2> QED BY <1>7, <2>2 DEF TxDelete, Swapping
<1>8. ASSUME NEW t \in Threads, TxRollback(t)
      PROVE  Undisturbed
  BY <1>8 DEF TxRollback, Return, Goto, Pending, Swapping, TypeOK
<1>9. ASSUME NEW t \in Threads, TxCommit(t)
      PROVE  Undisturbed
  BY <1>9 DEF TxCommit, Goto, Pending, Swapping, TypeOK
<1>10. ASSUME NEW t \in Threads, TxAbort(t)
       PROVE  Undisturbed
  BY <1>10 DEF TxAbort, Return, Goto, Pending, Swapping, TypeOK
<1>11. ASSUME NEW t \in Threads, TxVersion(t)
       PROVE  Undisturbed
  BY <1>11 DEF TxVersion, FetchAdd, Goto, Pending, Swapping, TypeOK
<1>12. ASSUME NEW t \in Threads, TxDone(t)
       PROVE  Undisturbed
  BY <1>12 DEF TxDone, Return, Goto, Pending, Swapping, TypeOK
<1>13. ASSUME SnapshotBegin \/ SnapshotRenameFails \/ \E k \in Keys : SnapshotVisit(k)
       PROVE  Undisturbed
  BY <1>13 DEF SnapshotBegin, SnapshotRenameFails, SnapshotVisit, Pending, Swapping, TypeOK
<1>14. ASSUME Tick \/ UNCHANGED vars
       PROVE  Undisturbed
  BY <1>14 DEF vars, Tick, Pending, Swapping
<1> QED
  BY <1>1, <1>2, <1>3, <1>4, <1>5, <1>6, <1>7, <1>8, <1>9, <1>10, <1>11, <1>12, <1>13, <1>14,
     LockedSteps
  DEF LockedNext, LockedRequest, FinishSnapshot, Disturbing
-----------------------------------------------------------------------------
(* Appending: the keys of the line become pending, under its version.      *)
LEMMA StampedAppend ==
  ASSUME LockedWorkload, TypeOK, LockedInv, Stamped, NEW t \in Threads, CasAppend(t) \/ TxAppend(t)
  PROVE  Stamped'
<1> USE DEF LockedInv, Stamped
<1>1. PICK tx \in BOOLEAN : Log(t, tx)
  BY DEF CasAppend, TxAppend
<1>2. /\ pc[t] \in {"cas_append", "tx_append"} /\ phase' = phase /\ snapshot' = snapshot
      /\ tree' = tree /\ writes' = writes /\ ver' = ver /\ snap_pc' = snap_pc
      /\ pc'[t] \in {"cas_insert", "tx_apply"} /\ \A u \in Threads \ {t} : pc'[u] = pc[u]
      /\ pc'[t] = "tx_apply" => todo'[t] = Touched(writes[t])
  BY DEF CasAppend, TxAppend, Goto, locals, tasks, saver, env, TypeOK
<1>3. phase = "up" /\ ~Swapping /\ ~Swapping' /\ phase' = "up"
  BY <1>2, Alone DEF LockedShape, Locked, Swapping
<1>4. \A u \in Threads, k \in Keys : ~Pending(u, k)
  BY <1>2, Alone DEF Pending, Locked
<1>5. \A u \in Threads \ {t}, k \in Keys : ~Pending(u, k)'
  BY <1>2, Alone DEF Pending, Locked
<1>6. \A k \in Keys : Pending(t, k)' <=> writes[t][k] # NoWrite
  BY <1>2 DEF Pending, Touched
<1>7. \A k \in Keys, v \in Nat :
        /\ writes[t][k] = NoWrite =>
             (NotPast(wal', snapshot, k, Len(wal'), v) <=> NotPast(wal, snapshot, k, Len(wal), v))
        /\ writes[t][k] # NoWrite =>
             (NotPast(wal', snapshot, k, Len(wal'), v) <=> (writes[t][k] # None => ver[t] <= v))
  BY <1>1, NotPastLogged
<1>8. \A k \in Keys : tree[k] # None => tree[k].version \in Nat
  BY DEF TypeOK, Store, DbRecord
<1>9. ver[t] \in Nat
  BY DEF TypeOK
<1>10. StampedTree'
  <2>1. ASSUME NEW k \in Keys, writes[t][k] = NoWrite, tree[k] # None
        PROVE  NotPast(wal', snapshot, k, Len(wal'), tree[k].version)
    BY <1>3, <1>4, <1>7, <1>8, <2>1 DEF StampedTree
  <2>2. ASSUME NEW k \in Keys, writes[t][k] # NoWrite
        PROVE  NotPast(wal', snapshot, k, Len(wal'), ver[t])
    BY <1>7, <1>9, <2>2
  <2> QED BY <1>2, <1>5, <1>6, <2>1, <2>2 DEF StampedTree
<1>11. StampedBuffer' /\ StampedReplay'
  BY <1>3 DEF StampedBuffer, StampedReplay
<1> QED BY <1>10, <1>11

(* Inserting: the record carries the version of the line.                  *)
LEMMA StampedInsert ==
  ASSUME LockedWorkload, TypeOK, LockedInv, Stamped, NEW t \in Threads,
         CasInsert(t) \/ \E k \in Keys : TxApply(t, k)
  PROVE  Stamped'
<1> USE DEF LockedInv, Stamped
<1>1. /\ pc[t] \in {"cas_insert", "tx_apply"} /\ phase' = phase /\ snapshot' = snapshot
      /\ wal' = wal /\ snap_pc' = snap_pc
      /\ \A u \in Threads \ {t} : pc'[u] = pc[u] /\ todo'[u] = todo[u] /\ writes'[u] = writes[u]
  BY DEF CasInsert, TxApply, Return, Goto, files, tasks, saver, env, TypeOK
<1>2. phase = "up" /\ ~Swapping /\ ~Swapping' /\ phase' = "up"
  BY <1>1, Alone DEF LockedShape, Locked, Swapping
<1>3. \A u \in Threads \ {t}, k \in Keys : ~Pending(u, k)
  BY <1>1, Alone DEF Locked
<1>4. \A u \in Threads \ {t}, k \in Keys : ~Pending(u, k)'
  BY <1>1, <1>3 DEF Pending
<1>5. ASSUME NEW k \in Keys
      PROVE  \/ /\ tree'[k] = tree[k] /\ ~Pending(t, k) /\ ~Pending(t, k)'
             \/ /\ tree'[k] = tree[k] /\ Pending(t, k) /\ Pending(t, k)' /\ ver'[t] = ver[t]
             \/ /\ tree'[k] = Applied(writes[t], ver[t])[k] /\ writes[t][k] # NoWrite
                /\ Pending(t, k) /\ ~Pending(t, k)'
  <2>1. CASE CasInsert(t)
    <3>1. pc[t] = "cas_insert" /\ pc'[t] = "idle" /\ tree' = Applied(writes[t], ver[t])
      BY <2>1 DEF CasInsert, Return, Goto, TypeOK
    <3>2. ~Pending(t, k)' /\ (Pending(t, k) <=> writes[t][k] # NoWrite)
      BY <3>1 DEF Pending, Touched
    <3>3. writes[t][k] = NoWrite => Applied(writes[t], ver[t])[k] = tree[k]
      BY Constants DEF Applied
    <3> QED BY <3>1, <3>2, <3>3
  <2>2. CASE \E j \in Keys : TxApply(t, j)
    <3>0. PICK j \in Keys : TxApply(t, j)
      BY <2>2
    <3>1. /\ pc[t] = "tx_apply" /\ pc' = pc /\ j \in todo[t] /\ todo'[t] = todo[t] \ {j} /\ ver' = ver
          /\ tree'[k] = IF k = j THEN Applied(writes[t], ver[t])[k] ELSE tree[k]
      BY <3>0 DEF TxApply, TypeOK, Store
    <3>2. (Pending(t, k) <=> k \in todo[t]) /\ (Pending(t, k)' <=> k \in todo[t] /\ k # j)
      BY <3>1 DEF Pending
    <3>3. j \in Touched(writes[t])
      BY <3>1 DEF TodoIsTouched
    <3> QED BY <3>1, <3>2, <3>3 DEF Touched
  <2> QED BY <2>1, <2>2
<1>6. ASSUME NEW k \in Keys, tree'[k] # None, writes[t][k] # NoWrite,
             tree'[k] = Applied(writes[t], ver[t])[k]
      PROVE  tree'[k].version = ver[t]
  <2>1. writes[t][k] # None
    BY <1>6, Constants DEF Applied
  <2>2. tree'[k] = Record(writes[t][k], ver[t])
    BY <1>6, <2>1 DEF Applied
  <2> QED BY <2>2 DEF Record
<1>7. \A k \in Keys :
        /\ ~Pending(t, k) /\ tree[k] # None => NotPast(wal, snapshot, k, Len(wal), tree[k].version)
        /\ Pending(t, k) => NotPast(wal, snapshot, k, Len(wal), ver[t])
  BY <1>2, <1>3 DEF StampedTree
<1>8. ASSUME NEW k \in Keys
      PROVE  /\ ~Pending(t, k)' /\ tree'[k] # None =>
                  NotPast(wal, snapshot, k, Len(wal), tree'[k].version)
             /\ Pending(t, k)' => NotPast(wal, snapshot, k, Len(wal), ver'[t])
  BY <1>5, <1>6, <1>7
<1>9. StampedTree'
  BY <1>1, <1>4, <1>8 DEF StampedTree
<1>10. StampedBuffer' /\ StampedReplay'
  BY <1>2 DEF StampedBuffer, StampedReplay
<1> QED BY <1>9, <1>10

(* The swap of the files.                                                  *)
LEMMA StampedSwap ==
  ASSUME LockedWorkload, TypeOK, LockedInv, Stamped,
         SnapshotRename \/ SnapshotTruncate \/ SnapshotFlush
  PROVE  Stamped'
<1> USE DEF LockedInv, Stamped
<1>1. /\ phase' = phase /\ tree' = tree /\ pc' = pc /\ writes' = writes /\ todo' = todo /\ ver' = ver
      /\ snap_pc # "idle" /\ wal_lock = SnapshotTask
  BY DEF SnapshotRename, SnapshotTruncate, SnapshotFlush, locals, env, TypeOK
<1>2. phase = "up"
  BY <1>1, Constants DEF LockedShape
<1>3. StampedReplay'
  BY <1>1, <1>2 DEF StampedReplay
<1>4. \A t \in Threads, k \in Keys : ~Pending(t, k) /\ ~Pending(t, k)'
  <2>1. \A t \in Threads, k \in Keys : ~Pending(t, k)
    BY <1>1, NonePending
  <2> QED BY <1>1, <2>1 DEF Pending
<1>5. CASE SnapshotRename
  <2>1. wal' = wal /\ snap_buf' = snap_buf /\ Swapping' /\ ~Swapping
    BY <1>5 DEF SnapshotRename, Swapping
  <2>2. ASSUME NEW k \in Keys, snap_buf[k] # None
        PROVE  NotPast(wal, snap_buf, k, Len(wal), snap_buf[k].version)
    <3>1. snap_buf[k] = tree[k]
      BY <1>5 DEF SnapshotRename, BufferIsTree
    <3>2. NotPast(wal, snapshot, k, Len(wal), snap_buf[k].version)
      BY <1>2, <1>4, <2>1, <2>2, <3>1 DEF StampedTree
    <3>3. snap_buf[k].version \in Nat
      BY <2>2 DEF TypeOK, Store, DbRecord
    <3> QED BY <3>2, <3>3 DEF NotPast
  <2> QED BY <1>3, <2>1, <2>2 DEF StampedTree, StampedBuffer
<1>6. CASE SnapshotTruncate
  <2>1. snap_buf' = snap_buf /\ Swapping' /\ Swapping /\ (wal' = wal \/ wal' = <<>>)
    BY <1>6 DEF SnapshotTruncate, Swapping, truncate
  <2>2. CASE wal' = wal
    BY <1>3, <2>1, <2>2 DEF StampedTree, StampedBuffer
  <2>3. CASE wal' = <<>>
    <3>1. \A k : Mentions(wal', k, Len(wal')) = {}
      BY <2>3 DEF Mentions
    <3>2. \A k \in Keys : snap_buf[k] # None => snap_buf[k].version \in Nat
      BY DEF TypeOK, Store, DbRecord
    <3>3. StampedBuffer'
      BY <2>1, <3>1, <3>2 DEF StampedBuffer, NotPast
    <3> QED BY <1>3, <2>1, <3>3 DEF StampedTree
  <2> QED BY <2>1, <2>2, <2>3
<1>7. CASE SnapshotFlush
  <2>1. wal' = wal /\ snapshot' = snap_buf /\ ~Swapping' /\ Swapping
    BY <1>7 DEF SnapshotFlush, Swapping, LockedWorkload
  <2>2. snap_buf = tree
    BY <2>1 DEF BufferIsTree
  <2>3. StampedTree'
    BY <1>1, <1>4, <2>1, <2>2 DEF StampedTree, StampedBuffer
  <2> QED BY <1>3, <2>1, <2>3 DEF StampedBuffer
<1> QED BY <1>5, <1>6, <1>7

(* A crash and the restart after it.                                       *)
LEMMA StampedRestart ==
  ASSUME LockedWorkload, TypeOK, LockedInv, Stamped,
         Crash \/ LoadSnapshot \/ ReplayCommand \/ Serve
  PROVE  Stamped'
<1> USE DEF LockedInv, Stamped
<1>1. ~Swapping'
  <2>1. phase # "up" => ~Swapping
    BY Constants DEF LockedShape, TypeOK, Swapping
  <2> QED BY <2>1 DEF Crash, LoadSnapshot, ReplayCommand, Serve, Swapping, saver
<1>2. StampedBuffer'
  BY <1>1 DEF StampedBuffer
<1>3. CASE Crash
  BY <1>2, <1>3 DEF Crash, StampedTree, StampedReplay
<1>4. CASE LoadSnapshot
  <2>1. tree' = snapshot /\ wal' = wal /\ snapshot' = snapshot /\ pos' = 1 /\ phase' = "replay"
    <3>1. LivePart(snapshot) = snapshot
      BY ForeverLive DEF LockedShape, TypeOK
    <3>2. Readable(wal)
      BY DEF LockedShape, Sound, Readable
    <3> QED BY <1>4, <3>1, <3>2 DEF LoadSnapshot, files
  <2>2. \A f, k : Mentions(f, k, 0) = {}
    BY DEF Mentions
  <2>3. \A k \in Keys : snapshot[k] # None => snapshot[k].version \in Nat
    BY DEF TypeOK, Store, DbRecord
  <2>4. \A k \in Keys : snapshot[k] # None => NotPast(wal, snapshot, k, 0, snapshot[k].version)
    BY <2>2, <2>3 DEF NotPast
  <2>5. pos' - 1 = 0
    BY <2>1
  <2>6. StampedReplay'
    BY <2>1, <2>4, <2>5 DEF StampedReplay
  <2> QED BY <1>2, <2>1, <2>6 DEF StampedTree
<1>5. CASE ReplayCommand
  <2> DEFINE w == wal[pos].cmd.writes
  <2>1. phase = "replay" /\ phase' = "replay" /\ wal' = wal /\ snapshot' = snapshot /\ pos' = pos + 1
    BY <1>5 DEF ReplayCommand, files, env
  <2>2. /\ pos \in 1..Len(wal) /\ pos \in Nat /\ pos - 1 \in Nat /\ (pos - 1) + 1 = pos
        /\ pos' - 1 = pos /\ w \in WriteSet /\ Forever(w)
    BY <1>5, <2>1, ReplayApplies DEF TypeOK
  <2>3. wal[pos] \in Line /\ Sound(wal[pos])
    BY <2>2, ElementOfSeq, LenProperties DEF TypeOK, LockedShape
  <2>4. wal[pos].tx_id \in Nat
    BY <2>3 DEF Line
  <2>5. PICK v \in Nat : tree' = Applied(w, v) /\ wal[pos].tx_id <= v
    <3>1. Unexpired(w) = w
      BY <2>2, ForeverUnexpired
    <3>2. /\ MaxVer(wal[pos].tx_id) \in Nat /\ wal[pos].tx_id <= MaxVer(wal[pos].tx_id)
      BY <2>4 DEF MaxVer, TypeOK
    <3>3. MaxVer(wal[pos].tx_id) + 1 \in Nat /\ wal[pos].tx_id <= MaxVer(wal[pos].tx_id) + 1
      BY <2>4, <3>2
    <3>4. tree' = Applied(Unexpired(w), IF wal[pos].cmd.tx THEN MaxVer(wal[pos].tx_id) + 1
                                        ELSE MaxVer(wal[pos].tx_id))
      BY <1>5 DEF ReplayCommand
    <3> HIDE DEF w
    <3> QED BY <3>1, <3>2, <3>3, <3>4
  <2>6. ASSUME NEW k \in Keys, tree'[k] # None
        PROVE  NotPast(wal, snapshot, k, pos, tree'[k].version)
    <3>1. \A u : /\ wal[pos].cmd.writes[k] = NoWrite =>
                      (NotPast(wal, snapshot, k, pos, u) <=> NotPast(wal, snapshot, k, pos - 1, u))
                 /\ wal[pos].cmd.writes[k] # NoWrite =>
                      (NotPast(wal, snapshot, k, pos, u) <=>
                         (wal[pos].cmd.writes[k] # None => wal[pos].tx_id <= u))
      BY <2>2, NotPastNext
    <3> HIDE DEF w
    <3>2. CASE w[k] = NoWrite
      <4>1. tree'[k] = tree[k]
        <5>1. Applied(w, v)[k] = tree[k]
          BY <3>2, Constants DEF Applied
        <5> QED BY <2>5, <5>1
      <4>2. NotPast(wal, snapshot, k, pos - 1, tree[k].version)
        BY <2>1, <2>6, <4>1 DEF StampedReplay
      <4> QED BY <3>1, <3>2, <4>1, <4>2 DEF w
    <3>3. CASE w[k] # NoWrite
      <4>1. w[k] # None
        <5>1. w[k] = None => Applied(w, v)[k] = None
          BY Constants DEF Applied
        <5> QED BY <2>5, <2>6, <5>1
      <4>2. Applied(w, v)[k] = Record(w[k], v)
        BY <3>3, <4>1 DEF Applied
      <4>3. tree'[k].version = v
        BY <2>5, <4>2 DEF Record
      <4> QED BY <2>5, <3>1, <3>3, <4>3 DEF w
    <3> QED BY <3>2, <3>3
  <2>7. StampedReplay'
    BY <2>1, <2>2, <2>6 DEF StampedReplay
  <2> QED BY <1>2, <2>1, <2>7 DEF StampedTree
<1>6. CASE Serve
  <2>1. /\ wal' = wal /\ snapshot' = snapshot /\ tree' = tree /\ phase = "replay" /\ phase' = "up"
        /\ pc' = pc /\ writes' = writes /\ todo' = todo
    BY <1>6 DEF Serve, files, locals
  <2>2. pos - 1 = Len(wal)
    <3>1. Len(wal) \in Nat /\ pos \in Nat
      BY LenProperties DEF TypeOK
    <3> QED BY <1>6, <3>1 DEF Serve, ReplayIsExact
  <2>3. \A t \in Threads, k \in Keys : ~Pending(t, k)'
    BY <2>1 DEF Pending, LockedShape
  <2>4. StampedTree'
    BY <2>1, <2>2, <2>3 DEF StampedTree, StampedReplay
  <2> QED BY <1>2, <2>1, <2>4 DEF StampedReplay
<1> QED BY <1>3, <1>4, <1>5, <1>6

LEMMA StampedStep ==
  ASSUME LockedWorkload, TypeOK, LockedInv, Stamped, [Next]_vars
  PROVE  Stamped'
<1>1. Undisturbed \/ Disturbing
  BY Disturbances DEF LockedInv
<1> QED BY <1>1, StampedQuiet, StampedAppend, StampedInsert, StampedSwap, StampedRestart DEF Disturbing
-----------------------------------------------------------------------------
(* FirstCommitterWins, by lines that all count.                            *)

Checked == {"tx_version", "tx_append"}

NotPastChecked ==
  \A t \in Threads : pc[t] \in Checked =>
    \A k \in Touched(writes[t]) : NotPast(wal, snapshot, k, Len(wal), snap[t])

LEMMA FirstCommitter ==
  ASSUME TypeOK, LockedShape, NotPastChecked
  PROVE  FirstCommitterWins
<1> SUFFICES ASSUME NEW t \in Threads, pc[t] \in Checked, NEW k \in Touched(writes[t])
             PROVE  LET I == {i \in DOMAIN wal : wal[i].ok /\ wal[i].cmd.writes[k] # NoWrite}
                        last == wal[LastOf(I)]
                    IN IF I = {} THEN snapshot[k] # None => snapshot[k].version <= snap[t]
                       ELSE last.cmd.writes[k] # None => last.tx_id <= snap[t]
  BY DEF FirstCommitterWins, Checked
<1>1. {i \in DOMAIN wal : wal[i].ok /\ wal[i].cmd.writes[k] # NoWrite} = Mentions(wal, k, Len(wal))
  BY LenProperties DEF LockedShape, Sound, Mentions, TypeOK
<1>2. NotPast(wal, snapshot, k, Len(wal), snap[t])
  BY DEF NotPastChecked
<1> QED BY <1>1, <1>2 DEF NotPast

(* Commit's check: no value that the files hold for a key it writes is     *)
(* past its snapshot_version.                                              *)
LEMMA CheckPassed ==
  ASSUME LockedWorkload, TypeOK, LockedInv, Stamped, NEW t \in Threads, TxCommit(t),
         NEW k \in Touched(writes[t])
  PROVE  NotPast(wal, snapshot, k, Len(wal), snap[t])
<1> USE DEF LockedInv, Stamped
<1>1. k \in Keys /\ wal_lock = None /\ pc[t] = "tx_open" /\ ~Conflict(t)
  BY DEF TxCommit, Touched
<1>2. phase = "up" /\ ~Swapping
  BY <1>1, Constants DEF LockedShape, TypeOK, Swapping
<1>3. \A u \in Threads : ~Pending(u, k)
  BY <1>1, NonePending
<1>4. CASE tree[k] = None
  <2>1. Plain(wal, snapshot, k, Len(wal)) = None
    BY <1>1, <1>2, <1>3, <1>4 DEF TreeIsLog, PayloadOf
  <2> QED BY <1>1, <2>1, NotPastAbsent
<1>5. CASE tree[k] # None
  <2>1. tree[k].version \in Nat /\ snap[t] \in Nat /\ Len(wal) \in Nat
    BY <1>1, <1>5, LenProperties DEF TypeOK, Store, DbRecord
  <2>2. tree[k].version <= snap[t]
    BY <1>1, <1>5, <2>1 DEF Conflict
  <2>3. NotPast(wal, snapshot, k, Len(wal), tree[k].version)
    BY <1>1, <1>2, <1>3, <1>5 DEF StampedTree
  <2> QED BY <1>1, <2>1, <2>2, <2>3, NotPastUp
<1> QED BY <1>4, <1>5

(* A transaction gets past the check by the check alone, and is left alone *)
(* by everybody else until its line is in the log.                         *)
LEMMA CheckedBy ==
  ASSUME LockedWorkload, TypeOK, LockedShape, [Next]_vars, NEW t \in Threads, pc'[t] \in Checked
  PROVE  /\ TxCommit(t) \/ pc[t] \in Checked
         /\ UNCHANGED <<wal, snapshot>> /\ writes'[t] = writes[t] /\ snap'[t] = snap[t]
<1> DEFINE Kept == /\ TxCommit(t) \/ pc[t] \in Checked
                   /\ UNCHANGED <<wal, snapshot>> /\ writes'[t] = writes[t] /\ snap'[t] = snap[t]
<1> USE DEF locals, files, env
<1>1. ASSUME NEW u \in Threads, LockedRequest(u)
      PROVE  Kept
  <2>1. CASE u = t
    <3>1. TxCommit(t) \/ TxVersion(t) \/ ((\E k \in Keys : TxDelete(t, k)) \/
            \E k \in Keys, v \in Values, ttl \in Ttls : TxPut(t, k, v, ttl))
      <4>1. ~CasHit(t) /\ ~CasMiss(t) /\ ~CasVersion(t) /\ ~CasAppend(t) /\ ~CasInsert(t)
        BY DEF CasHit, CasMiss, CasVersion, CasAppend, CasInsert, Return, Goto, Checked, TypeOK
      <4>2. ~TxBegin(t) /\ ~TxRollback(t) /\ ~TxAbort(t) /\ ~TxAppend(t) /\ ~TxDone(t)
        BY DEF TxBegin, TxRollback, TxAbort, TxAppend, TxDone, Return, Goto, Checked, TypeOK
      <4>3. \A k \in Keys : ~TxApply(t, k)
        BY DEF TxApply, Checked
      <4>4. \A k \in Keys, v \in Values, ttl \in Ttls, e \in Values : ~CasBegin(t, k, e, v, ttl)
        BY DEF CasBegin, Goto, Checked, TypeOK
      <4> QED BY <1>1, <2>1, <4>1, <4>2, <4>3, <4>4 DEF LockedRequest
    <3>2. ~(\E k \in Keys : TxDelete(t, k))
          /\ ~\E k \in Keys, v \in Values, ttl \in Ttls : TxPut(t, k, v, ttl)
      BY DEF TxDelete, TxPut, Checked
    <3>3. CASE TxCommit(t)
      BY <3>3 DEF TxCommit
    <3>4. CASE TxVersion(t)
      BY <3>4 DEF TxVersion, Checked
    <3> QED BY <3>1, <3>2, <3>3, <3>4
  <2>2. CASE u # t
    <3>1. pc'[t] = pc[t] /\ writes'[t] = writes[t] /\ snap'[t] = snap[t]
      <4>1. CASE CasHit(u) \/ CasMiss(u) \/ CasVersion(u) \/ CasAppend(u) \/ CasInsert(u)
        BY <2>2, <4>1 DEF CasHit, CasMiss, CasVersion, CasAppend, CasInsert, FetchAdd, Return, Goto, TypeOK
      <4>2. CASE TxBegin(u) \/ TxRollback(u) \/ TxCommit(u) \/ TxAbort(u) \/ TxVersion(u)
                 \/ TxAppend(u) \/ TxDone(u)
        BY <2>2, <4>2 DEF TxBegin, TxRollback, TxCommit, TxAbort, TxVersion, TxAppend, TxDone, FetchAdd,
                          Return, Goto, TypeOK
      <4>3. CASE \E k \in Keys : TxDelete(u, k) \/ TxApply(u, k)
        BY <2>2, <4>3 DEF TxDelete, TxApply, TypeOK
      <4>4. CASE \E k \in Keys, v \in Values, ttl \in Ttls :
                   TxPut(u, k, v, ttl) \/ \E e \in Values : CasBegin(u, k, e, v, ttl)
        BY <2>2, <4>4 DEF TxPut, CasBegin, Goto, TypeOK
      <4> QED BY <1>1, <4>1, <4>2, <4>3, <4>4 DEF LockedRequest
    <3>2. pc[t] \in Checked /\ pc[t] \in Locked
      BY <3>1 DEF Checked, Locked
    <3>3. ~CasAppend(u) /\ ~TxAppend(u)
      BY <2>2, <3>2 DEF CasAppend, TxAppend, Locked, TypeOK
    <3>4. UNCHANGED <<wal, snapshot>>
      BY <1>1, <3>3 DEF LockedRequest, TxPut, CasBegin, TxDelete, TxApply, CasHit, CasMiss, CasVersion,
                        CasInsert, TxBegin, TxRollback, TxCommit, TxAbort, TxVersion, TxDone
    <3> QED BY <3>1, <3>2, <3>4
  <2> QED BY <2>1, <2>2
<1>2. CASE SnapshotBegin \/ FinishSnapshot \/ Tick \/ LoadSnapshot \/ ReplayCommand \/ Serve
             \/ UNCHANGED vars
  <2>1. pc' = pc /\ writes' = writes /\ snap' = snap
    BY <1>2 DEF SnapshotBegin, FinishSnapshot, SnapshotVisit, SnapshotRename, SnapshotRenameFails,
                SnapshotTruncate, SnapshotFlush, Tick, LoadSnapshot, ReplayCommand, Serve, vars
  <2>2. snap_pc = "idle"
    BY <2>1, Alone DEF Checked, Locked
  <2>3. UNCHANGED <<wal, snapshot>>
    BY <1>2, <2>2 DEF SnapshotBegin, FinishSnapshot, SnapshotVisit, SnapshotRename, SnapshotRenameFails,
                SnapshotTruncate, SnapshotFlush, Tick, LoadSnapshot, ReplayCommand, Serve, vars
  <2> QED BY <2>1, <2>3
<1>3. ~Crash
  BY DEF Crash, Checked
<1> QED BY <1>1, <1>2, <1>3, LockedSteps DEF LockedNext

LEMMA NotPastCheckedStep ==
  ASSUME LockedWorkload, TypeOK, LockedInv, Stamped, NotPastChecked, [Next]_vars
  PROVE  NotPastChecked'
<1> SUFFICES ASSUME NEW t \in Threads, pc'[t] \in Checked, NEW k \in Touched(writes'[t])
             PROVE  NotPast(wal', snapshot', k, Len(wal'), snap'[t])
  BY DEF NotPastChecked, Touched
<1>1. /\ TxCommit(t) \/ pc[t] \in Checked
      /\ UNCHANGED <<wal, snapshot>> /\ writes'[t] = writes[t] /\ snap'[t] = snap[t]
  BY CheckedBy DEF LockedInv
<1>2. k \in Touched(writes[t])
  BY <1>1
<1>3. NotPast(wal, snapshot, k, Len(wal), snap[t])
  BY <1>1, <1>2, CheckPassed DEF NotPastChecked
<1> QED BY <1>1, <1>3

(* First committer wins: what a commit that passed its check overwrites    *)
(* was committed no later than the transaction's snapshot_version, through *)
(* snapshots, truncations that fail, crashes and replays.                  *)
THEOREM FirstCommitterTheorem ==
  ASSUME LockedWorkload
  PROVE  Spec => []FirstCommitterWins
<1>1. Init => Stamped /\ NotPastChecked
  BY DEF Init, Stamped, StampedTree, StampedBuffer, StampedReplay, Swapping, NotPastChecked, Checked
<1>2. TypeOK /\ LockedInv /\ Stamped /\ NotPastChecked /\ [Next]_vars => (Stamped /\ NotPastChecked)'
  BY StampedStep, NotPastCheckedStep
<1>3. TypeOK /\ LockedInv /\ NotPastChecked => FirstCommitterWins
  BY FirstCommitter DEF LockedInv
<1> QED BY <1>1, <1>2, <1>3, TypeCorrect, LockedInvariant, PTL DEF Spec
-----------------------------------------------------------------------------
(* One lifetime of a process: what it starts from holds no TxCommit (their *)
(* records are replayed under a version past the counter), no append fails *)
(* and the log is not truncated.                                           *)
OneLifetime ==
  /\ "crash" \notin Faults /\ "append_error" \notin Faults /\ "snapshot" \notin Ops
  /\ \A i \in DOMAIN InitialWal : InitialWal[i].nl /\ (InitialWal[i].ok => ~InitialWal[i].cmd.tx)

(* Whoever is about to insert has logged its command under its version.    *)
LogsVersion ==
  \A t \in Threads : pc[t] \in Inserting =>
    \E i \in DOMAIN wal : wal[i].ok /\ wal[i].cmd.writes = writes[t] /\ wal[i].tx_id = ver[t]

NoTxBefore == phase # "up" => \A i \in DOMAIN wal : wal[i].ok => ~wal[i].cmd.tx

(* The counter is past every version in the tree.                          *)
CounterAhead ==
  phase # "down" => \A k \in Keys : tree[k] # None => tree[k].version <= global_version

(* A version that an open transaction would take for a conflict is logged. *)
Explained ==
  \A k \in Keys, t \in Threads : tree[k] # None /\ pc[t] = "tx_open" =>
    \/ tree[k].version <= snap[t]
    \/ \E i \in DOMAIN wal : wal[i].ok /\ wal[i].cmd.writes[k] # NoWrite
                               /\ wal[i].tx_id = tree[k].version

LifetimeInv == Terminated /\ LogsVersion /\ NoTxBefore /\ CounterAhead /\ Explained

(* Steps that leave the log alone and insert nothing; a transaction that   *)
(* opens has the counter's value for its snapshot_version.                 *)
Calm ==
  /\ wal' = wal /\ phase' = phase
  /\ \A k \in Keys : tree'[k] \in {None, tree[k]}
  /\ global_version' \in Nat /\ global_version <= global_version'
  /\ \A t \in Threads : pc'[t] \in Inserting =>
       pc[t] \in Inserting /\ writes'[t] = writes[t] /\ ver'[t] = ver[t]
  /\ \A t \in Threads : pc'[t] = "tx_open" =>
       \/ pc[t] = "tx_open" /\ snap'[t] = snap[t]
       \/ phase = "up" /\ snap'[t] = global_version

LEMMA CalmStep ==
  ASSUME TypeOK, LifetimeInv, Calm
  PROVE  LifetimeInv'
<1> USE DEF LifetimeInv, Calm
<1>1. Terminated' /\ NoTxBefore'
  BY DEF Terminated, NoTxBefore
<1>2. LogsVersion'
  BY DEF LogsVersion
<1>3. \A k \in Keys : tree'[k] # None => tree'[k] = tree[k] /\ tree[k] # None /\ tree[k].version \in Nat
  BY DEF TypeOK, Store, DbRecord
<1>4. CounterAhead'
  <2> SUFFICES ASSUME phase' # "down", NEW k \in Keys, tree'[k] # None
               PROVE  tree'[k].version <= global_version'
    BY DEF CounterAhead
  <2>1. tree'[k].version = tree[k].version /\ tree[k].version <= global_version
    BY <1>3 DEF CounterAhead
  <2> QED BY <1>3, <2>1 DEF TypeOK
<1>5. Explained'
  <2> SUFFICES ASSUME NEW k \in Keys, NEW t \in Threads, tree'[k] # None, pc'[t] = "tx_open"
               PROVE  \/ tree'[k].version <= snap'[t]
                      \/ \E i \in DOMAIN wal : wal[i].ok /\ wal[i].cmd.writes[k] # NoWrite
                                                 /\ wal[i].tx_id = tree'[k].version
    BY DEF Explained
  <2>1. tree'[k] = tree[k] /\ tree[k] # None
    BY <1>3
  <2>2. CASE pc[t] = "tx_open" /\ snap'[t] = snap[t]
    BY <2>1, <2>2 DEF Explained
  <2>3. CASE phase = "up" /\ snap'[t] = global_version
    BY <2>1, <2>3 DEF CounterAhead
  <2> QED BY <2>2, <2>3
<1> QED BY <1>1, <1>2, <1>4, <1>5

LEMMA CalmSteps ==
  ASSUME OneLifetime, TypeOK, Shapes, [Next]_vars
  PROVE  Calm \/ Start \/ \E t \in Threads : Appends(t) \/ Inserts(t)
<1> USE DEF files, env
<1>0. global_version \in Nat /\ global_version <= global_version
  BY DEF TypeOK
<1>1. ASSUME NEW t \in Threads, Request(t)
      PROVE  Calm
  <2>1. UNCHANGED <<wal, phase, tree, global_version>>
    BY <1>1 DEF Request, PutBegin, TxPut, CasBegin, DeleteBegin, TxDelete, GetExpired, TxBegin,
                TxRollback, TxCommit, TxAbort, Return
  <2>2. /\ pc'[t] \notin Inserting
        /\ pc'[t] = "tx_open" => \/ pc[t] = "tx_open" /\ snap'[t] = snap[t]
                                 \/ phase = "up" /\ snap'[t] = global_version
        /\ \A u \in Threads \ {t} : pc'[u] = pc[u] /\ writes'[u] = writes[u] /\ ver'[u] = ver[u]
                                      /\ snap'[u] = snap[u]
    <3>1. CASE \E k \in Keys, v \in Values, ttl \in Ttls :
                 PutBegin(t, k, v, ttl) \/ \E e \in Values : CasBegin(t, k, e, v, ttl)
      BY <3>1 DEF PutBegin, CasBegin, Goto, Inserting, TypeOK
    <3>2. CASE \E k \in Keys, v \in Values, ttl \in Ttls : TxPut(t, k, v, ttl)
      BY <3>2 DEF TxPut, Inserting, TypeOK
    <3>3. CASE \E k \in Keys : DeleteBegin(t, k) \/ TxDelete(t, k) \/ GetExpired(t, k)
      BY <3>3 DEF DeleteBegin, TxDelete, GetExpired, Goto, Inserting, TypeOK
    <3>4. CASE TxBegin(t)
      BY <3>4 DEF TxBegin, Ready, Goto, Inserting, TypeOK
    <3>5. CASE TxRollback(t) \/ TxCommit(t) \/ TxAbort(t)
      BY <3>5 DEF TxRollback, TxCommit, TxAbort, Return, Goto, locals, Inserting, TypeOK
    <3> QED BY <1>1, <3>1, <3>2, <3>3, <3>4, <3>5 DEF Request
  <2> QED BY <1>0, <2>1, <2>2 DEF Calm
<1>2. ASSUME NEW t \in Threads, PutVersion(t) \/ DeleteVersion(t) \/ CasHit(t) \/ CasMiss(t)
               \/ CasVersion(t) \/ TxVersion(t) \/ TxDone(t)
      PROVE  Calm
  <2>1. UNCHANGED <<wal, phase, tree>> /\ global_version' \in {global_version, global_version + 1}
    BY <1>2 DEF PutVersion, DeleteVersion, CasHit, CasMiss, CasVersion, TxVersion, TxDone, FetchAdd
  <2>2. /\ pc'[t] \notin Inserting /\ pc'[t] # "tx_open"
        /\ \A u \in Threads \ {t} : pc'[u] = pc[u] /\ writes'[u] = writes[u] /\ ver'[u] = ver[u]
                                      /\ snap'[u] = snap[u]
    BY <1>2 DEF PutVersion, DeleteVersion, CasHit, CasMiss, CasVersion, TxVersion, TxDone, FetchAdd,
                Return, Goto, locals, Inserting, TypeOK
  <2>3. global_version' \in Nat /\ global_version <= global_version'
    BY <1>0, <2>1
  <2> QED BY <2>1, <2>2, <2>3 DEF Calm
<1>3. ASSUME NEW t \in Threads, DeleteRemove(t) \/ GetPurge(t)
      PROVE  Calm
  <2>1. UNCHANGED <<wal, phase, global_version>>
    BY <1>3 DEF DeleteRemove, GetPurge
  <2>2. /\ pc'[t] \notin Inserting /\ pc'[t] # "tx_open"
        /\ \A u \in Threads \ {t} : pc'[u] = pc[u] /\ writes'[u] = writes[u] /\ ver'[u] = ver[u]
                                      /\ snap'[u] = snap[u]
    BY <1>3 DEF DeleteRemove, GetPurge, Return, Goto, locals, Inserting, TypeOK
  <2>3. ASSUME NEW k \in Keys
        PROVE  tree'[k] \in {None, tree[k]}
    <3>1. CASE GetPurge(t)
      BY <3>1 DEF GetPurge
    <3>2. CASE DeleteRemove(t)
      <4>1. tree' = Applied(writes[t], 0) /\ writes[t][k] \in {None, NoWrite}
        BY <3>2 DEF DeleteRemove, Shapes, Permitted
      <4>2. Applied(writes[t], 0)[k] \in {None, tree[k]}
        BY <4>1, Constants DEF Applied
      <4> QED BY <4>1, <4>2
    <3> QED BY <1>3, <3>1, <3>2
  <2> QED BY <1>0, <2>1, <2>2, <2>3 DEF Calm
<1>4. CASE Sweep \/ Tick \/ UNCHANGED vars
  <2>1. UNCHANGED <<wal, phase, global_version, pc, writes, ver, snap>>
    BY <1>4 DEF Sweep, SweepBegin, SweepVisit, SweepRemove, Tick, vars, locals
  <2>2. \A k \in Keys : tree'[k] \in {None, tree[k]}
    BY <1>4 DEF Sweep, SweepBegin, SweepVisit, SweepRemove, Tick, vars, TypeOK, Store
  <2> QED BY <1>0, <2>1, <2>2 DEF Calm
<1>5. ~SnapshotBegin /\ ~FinishSnapshot /\ ~Crash
  BY DEF OneLifetime, Shapes, SnapshotBegin, FinishSnapshot, SnapshotVisit, SnapshotRename,
         SnapshotRenameFails, SnapshotTruncate, SnapshotFlush, Crash
<1> QED BY <1>1, <1>2, <1>3, <1>4, <1>5 DEF Next, Handle, Appends, Inserts

LEMMA AppendLifetime ==
  ASSUME OneLifetime, TypeOK, Quiet, LifetimeInv, NEW t \in Threads, Appends(t)
  PROVE  LifetimeInv'
<1> USE DEF LifetimeInv
<1>1. /\ tree' = tree /\ global_version' = global_version /\ phase' = phase /\ pc[t] # "idle"
      /\ pc'[t] \in Inserting => writes'[t] = writes[t] /\ ver'[t] = ver[t]
      /\ pc'[t] # "tx_open"
      /\ \A u \in Threads \ {t} : pc'[u] = pc[u] /\ writes'[u] = writes[u] /\ ver'[u] = ver[u]
                                    /\ snap'[u] = snap[u]
  BY DEF Appends, PutAppend, DeleteAppend, CasAppend, TxAppend, Return, Goto, Inserting, locals, env,
         TypeOK
<1>2. phase = "up"
  BY <1>1 DEF Quiet
<1>3. PICK tx \in BOOLEAN : Log(t, tx)
  BY DEF Appends, PutAppend, DeleteAppend, CasAppend, TxAppend
<1>4. /\ \A i \in DOMAIN wal : i \in DOMAIN wal' /\ wal'[i] = wal[i]
      /\ \E i \in DOMAIN wal' : wal'[i].ok /\ wal'[i].cmd.writes = writes[t] /\ wal'[i].tx_id = ver[t]
      /\ Terminated'
  BY <1>3, LogGrows DEF OneLifetime
<1>5. LogsVersion'
  <2> SUFFICES ASSUME NEW u \in Threads, pc'[u] \in Inserting
               PROVE  \E i \in DOMAIN wal' : wal'[i].ok /\ wal'[i].cmd.writes = writes'[u]
                                             /\ wal'[i].tx_id = ver'[u]
    BY DEF LogsVersion
  <2>1. CASE u = t
    BY <1>1, <1>4, <2>1
  <2>2. CASE u # t
    <3>1. PICK i \in DOMAIN wal : wal[i].ok /\ wal[i].cmd.writes = writes[u] /\ wal[i].tx_id = ver[u]
      BY <1>1, <2>2 DEF LogsVersion
    <3> QED BY <1>1, <1>4, <2>2, <3>1
  <2> QED BY <2>1, <2>2
<1>6. NoTxBefore' /\ CounterAhead'
  BY <1>1, <1>2 DEF NoTxBefore, CounterAhead
<1>7. Explained'
  <2> SUFFICES ASSUME NEW k \in Keys, NEW u \in Threads, tree[k] # None, pc'[u] = "tx_open"
               PROVE  \/ tree[k].version <= snap'[u]
                      \/ \E i \in DOMAIN wal' : wal'[i].ok /\ wal'[i].cmd.writes[k] # NoWrite
                                                  /\ wal'[i].tx_id = tree[k].version
    BY <1>1 DEF Explained
  <2>1. pc[u] = "tx_open" /\ snap'[u] = snap[u]
    BY <1>1
  <2>2. \/ tree[k].version <= snap[u]
        \/ \E i \in DOMAIN wal : wal[i].ok /\ wal[i].cmd.writes[k] # NoWrite
                                   /\ wal[i].tx_id = tree[k].version
    BY <2>1 DEF Explained
  <2> QED BY <1>4, <2>1, <2>2
<1> QED BY <1>4, <1>5, <1>6, <1>7

LEMMA InsertLifetime ==
  ASSUME OneLifetime, TypeOK, VersionsHeld, LifetimeInv, NEW t \in Threads, Inserts(t)
  PROVE  LifetimeInv'
<1> USE DEF LifetimeInv
<1>1. /\ wal' = wal /\ phase' = phase /\ global_version' = global_version
      /\ pc[t] \in Inserting /\ pc'[t] # "tx_open"
      /\ pc'[t] \in Inserting => writes'[t] = writes[t] /\ ver'[t] = ver[t]
      /\ \A u \in Threads \ {t} : pc'[u] = pc[u] /\ writes'[u] = writes[u] /\ ver'[u] = ver[u]
                                    /\ snap'[u] = snap[u]
  BY DEF Inserts, PutInsert, CasInsert, TxApply, Return, Goto, Inserting, files, env, TypeOK
<1>2. ver[t] \in Nat /\ ver[t] <= global_version /\ writes[t] \in WriteSet
  BY <1>1 DEF VersionsHeld, Numbered, Inserting, TypeOK
<1>3. ASSUME NEW k \in Keys, tree'[k] # None
      PROVE  \/ tree'[k] = tree[k] /\ tree[k] # None
             \/ tree'[k].version = ver[t] /\ writes[t][k] # NoWrite
  <2> DEFINE a == Applied(writes[t], ver[t])
  <2>1. writes[t][k] = NoWrite => a[k] = tree[k]
    BY Constants DEF Applied
  <2>2. writes[t][k] = None => a[k] = None
    BY Constants DEF Applied
  <2>3. writes[t][k] # NoWrite /\ writes[t][k] # None => a[k].version = ver[t]
    <3>1. writes[t][k] # NoWrite /\ writes[t][k] # None => a[k] = Record(writes[t][k], ver[t])
      BY DEF Applied
    <3>2. Record(writes[t][k], ver[t]).version = ver[t]
      BY DEF Record
    <3> QED BY <3>1, <3>2
  <2> HIDE DEF a
  <2>4. CASE PutInsert(t) \/ CasInsert(t)
    <3>1. tree' = a
      BY <2>4 DEF PutInsert, CasInsert, a
    <3> QED BY <1>3, <2>1, <2>2, <2>3, <3>1
  <2>5. CASE \E j \in Keys : TxApply(t, j)
    <3>1. PICK j \in Keys : TxApply(t, j)
      BY <2>5
    <3>2. tree'[k] = IF k = j THEN a[k] ELSE tree[k]
      BY <3>1 DEF TxApply, TypeOK, Store, a
    <3> QED BY <1>3, <2>1, <2>2, <2>3, <3>2
  <2> QED BY <2>4, <2>5 DEF Inserts
<1>4. Terminated' /\ NoTxBefore'
  BY <1>1 DEF Terminated, NoTxBefore
<1>5. LogsVersion'
  BY <1>1 DEF LogsVersion
<1>6. CounterAhead'
  BY <1>1, <1>2, <1>3 DEF CounterAhead
<1>7. Explained'
  <2> SUFFICES ASSUME NEW k \in Keys, NEW u \in Threads, tree'[k] # None, pc'[u] = "tx_open"
               PROVE  \/ tree'[k].version <= snap'[u]
                      \/ \E i \in DOMAIN wal : wal[i].ok /\ wal[i].cmd.writes[k] # NoWrite
                                                 /\ wal[i].tx_id = tree'[k].version
    BY <1>1 DEF Explained
  <2>1. pc[u] = "tx_open" /\ snap'[u] = snap[u]
    BY <1>1
  <2>2. CASE tree'[k] = tree[k] /\ tree[k] # None
    BY <2>1, <2>2 DEF Explained
  <2>3. CASE tree'[k].version = ver[t] /\ writes[t][k] # NoWrite
    <3>1. PICK i \in DOMAIN wal : wal[i].ok /\ wal[i].cmd.writes = writes[t] /\ wal[i].tx_id = ver[t]
      BY <1>1 DEF LogsVersion
    <3> QED BY <2>3, <3>1
  <2> QED BY <1>3, <2>2, <2>3
<1> QED BY <1>4, <1>5, <1>6, <1>7

LEMMA StartLifetime ==
  ASSUME OneLifetime, TypeOK, Quiet, LifetimeInv, Start
  PROVE  LifetimeInv'
<1> USE DEF LifetimeInv
<1>1. UNCHANGED <<wal, snapshot, now, pc, writes, ver, snap>> /\ phase # "up"
  BY DEF Start, LoadSnapshot, ReplayCommand, SkipLine, Serve, files, locals, env
<1>2. \A t \in Threads : pc[t] = "idle" /\ pc'[t] = "idle"
  BY <1>1 DEF Quiet
<1>3. Terminated' /\ NoTxBefore' /\ LogsVersion' /\ Explained'
  BY <1>1, <1>2 DEF Terminated, NoTxBefore, LogsVersion, Explained, Inserting
<1>4. CASE LoadSnapshot
  <2> SUFFICES ASSUME NEW k \in Keys, tree'[k] # None
               PROVE  tree'[k].version <= global_version'
    BY <1>3 DEF CounterAhead
  <2>1. tree' = LivePart(snapshot) /\ \A j \in Live(snapshot) : snapshot[j].version <= global_version'
    BY <1>4 DEF LoadSnapshot
  <2>2. k \in Live(snapshot) /\ tree'[k] = snapshot[k]
    BY <2>1 DEF LivePart
  <2> QED BY <2>1, <2>2
<1>5. CASE ReplayCommand
  <2> DEFINE m == MaxVer(wal[pos].tx_id)
             w == Unexpired(wal[pos].cmd.writes)
  <2>1. phase = "replay" /\ pos \in 1..Len(wal) /\ wal[pos].ok /\ pos \in DOMAIN wal
    BY <1>5, LenProperties DEF ReplayCommand, TypeOK
  <2>2. wal[pos].tx_id \in Nat /\ wal[pos].cmd.writes \in WriteSet
    BY <2>1, LinesTyped
  <2>3. ~wal[pos].cmd.tx
    BY <2>1 DEF NoTxBefore
  <2>4. m \in Nat /\ global_version <= m /\ global_version \in Nat
    BY <2>2 DEF MaxVer, TypeOK
  <2>5. global_version' = m /\ tree' = Applied(w, m)
    BY <1>5, <2>3 DEF ReplayCommand
  <2> HIDE DEF m, w
  <2> SUFFICES ASSUME NEW k \in Keys, tree'[k] # None
               PROVE  tree'[k].version <= m
    BY <1>3, <2>5 DEF CounterAhead
  <2>6. CASE w[k] = NoWrite
    <3>1. Applied(w, m)[k] = tree[k]
      BY <2>6, Constants DEF Applied
    <3>2. tree'[k] = tree[k] /\ tree[k].version <= global_version
      BY <2>1, <2>5, <3>1 DEF CounterAhead
    <3>3. tree[k].version \in Nat
      BY <3>2 DEF TypeOK, Store, DbRecord
    <3> QED BY <2>4, <3>2, <3>3
  <2>7. CASE w[k] # NoWrite
    <3>1. w[k] = None => Applied(w, m)[k] = None
      BY Constants DEF Applied
    <3>2. w[k] # None => Applied(w, m)[k] = Record(w[k], m)
      BY <2>7 DEF Applied
    <3>3. tree'[k] = Record(w[k], m)
      BY <2>5, <3>1, <3>2
    <3> QED BY <2>4, <3>3 DEF Record
  <2> QED BY <2>6, <2>7
<1>6. CASE SkipLine \/ Serve
  <2>1. tree' = tree /\ global_version' = global_version /\ phase # "down"
    BY <1>6 DEF SkipLine, Serve
  <2> QED BY <1>3, <2>1 DEF CounterAhead
<1> QED BY <1>4, <1>5, <1>6 DEF Start

(* Commit reports no conflict that there is not: in one lifetime of the    *)
(* process, whatever put, delete, cas, other transactions and purges do    *)
(* meanwhile, a commit is refused only if one of its keys was written by a *)
(* command that was logged after the transaction began.                    *)
THEOREM ConflictsReal ==
  ASSUME OneLifetime
  PROVE  Spec => NoSpuriousAbort
<1> DEFINE Inv == Quiet /\ VersionsHeld /\ Shapes /\ LifetimeInv
           Real == \A t \in Threads : TxAbort(t) =>
                     \E k \in Touched(writes[t]), i \in DOMAIN wal :
                       wal[i].ok /\ wal[i].cmd.writes[k] # NoWrite /\ wal[i].tx_id > snap[t]
<1>1. Init => Inv
  <2> SUFFICES ASSUME Init
               PROVE  Inv
    OBVIOUS
  <2>1. Quiet /\ VersionsHeld /\ Shapes
    BY DEF Init, Quiet, VersionsHeld, Numbered, Shapes, Permitted
  <2>2. LifetimeInv
    BY DEF Init, OneLifetime, LifetimeInv, Terminated, LogsVersion, NoTxBefore, CounterAhead, Explained,
           Inserting
  <2> QED BY <2>1, <2>2
<1>2. TypeOK /\ Inv /\ [Next]_vars => Inv'
  <2> SUFFICES ASSUME TypeOK, Inv, [Next]_vars
               PROVE  Inv'
    OBVIOUS
  <2>1. LifetimeInv'
    BY CalmSteps, CalmStep, AppendLifetime, InsertLifetime, StartLifetime
  <2>2. Quiet' /\ VersionsHeld' /\ Shapes'
    BY QuietStep, VersionsHeldStep, ShapesStep
  <2> QED BY <2>1, <2>2
<1>3. TypeOK /\ Inv => Real
  <2> SUFFICES ASSUME TypeOK, Inv, NEW t \in Threads, TxAbort(t)
               PROVE  \E k \in Touched(writes[t]), i \in DOMAIN wal :
                        wal[i].ok /\ wal[i].cmd.writes[k] # NoWrite /\ wal[i].tx_id > snap[t]
    OBVIOUS
  <2>1. PICK k \in Touched(writes[t]) : tree[k] # None /\ tree[k].version > snap[t]
    BY DEF TxAbort, Conflict
  <2>2. k \in Keys /\ pc[t] = "tx_open" /\ snap[t] \in Nat /\ tree[k].version \in Nat
    BY <2>1 DEF TxAbort, Touched, TypeOK, Store, DbRecord
  <2>3. PICK i \in DOMAIN wal : /\ wal[i].ok /\ wal[i].cmd.writes[k] # NoWrite
                                /\ wal[i].tx_id = tree[k].version
    BY <2>1, <2>2 DEF LifetimeInv, Explained
  <2> QED BY <2>1, <2>3
<1> HIDE DEF Inv, Real
<1>4. Spec => [](TypeOK /\ Inv)
  BY <1>1, <1>2, TypeCorrect, PTL DEF Spec
<1>5. Spec => [][Real]_vars
  BY <1>3, <1>4, PTL
<1> QED BY <1>5 DEF NoSpuriousAbort, Real
=============================================================================
