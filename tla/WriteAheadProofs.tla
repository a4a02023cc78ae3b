-------------------------- MODULE WriteAheadProofs --------------------------
(***************************************************************************)
(* The log is ahead of the tree: no reader sees a record that a restart    *)
(* would not find on disk.  For every set of threads, keys, values and     *)
(* TTLs, with deletes, purges and any number of crashes.                   *)
(***************************************************************************)
EXTENDS RecoveryProofs

(* Appends do not fail and lines are not torn (such a line swallows the    *)
(* next one), the last flush of a snapshot does not fail, and put, which   *)
(* inserts without the mutex, does not meet a snapshot.                    *)
WriteAheadWorkload ==
  /\ Faults \subseteq {"crash", "truncate_error", "snapshot_crash"}
  /\ "put" \notin Ops \/ "snapshot" \notin Ops
  /\ \A i \in DOMAIN InitialWal : InitialWal[i].nl

OnFile(k, p) ==
  \/ \E i \in DOMAIN wal : wal[i].ok /\ wal[i].cmd.writes[k] = p
  \/ PayloadOf(snapshot[k]) = p

Inserting == {"put_insert", "cas_insert", "tx_apply"}

Terminated == \A i \in DOMAIN wal : wal[i].nl

(* Whoever is about to insert has its command in the log.                  *)
LogsFirst ==
  \A t \in Threads : pc[t] \in Inserting =>
    \E i \in DOMAIN wal : wal[i].ok /\ wal[i].cmd.writes = writes[t]

(* What the workload leaves out stays out, a delete removes, and commit    *)
(* applies keys of its write set.                                          *)
Permitted(t) ==
  /\ "put" \notin Ops => pc[t] \notin {"put_version", "put_append", "put_insert"}
  /\ pc[t] = "delete_remove" => \A k \in Keys : writes[t][k] \in {None, NoWrite}
  /\ pc[t] = "tx_apply" => todo[t] \subseteq Touched(writes[t])

Shapes ==
  /\ "snapshot" \notin Ops => snap_pc = "idle"
  /\ \A t \in Threads : Permitted(t)

(* Every live record is on file; while the snapshot task works, those its  *)
(* iterator has passed are in its buffer.                                  *)
TreeOnFile ==
  phase # "down" /\ ~Swapping => \A k \in Live(tree) : OnFile(k, PayloadOf(tree[k]))

BufferAhead ==
  /\ snap_pc # "idle" => \A k \in Live(tree) \ snap_iter : snap_buf[k] = tree[k]
  /\ Swapping => snap_iter = {}

AheadInv == Terminated /\ LogsFirst /\ Shapes /\ TreeOnFile /\ BufferAhead
-----------------------------------------------------------------------------
(* Live records.                                                           *)

LEMMA LiveSame ==
  ASSUME tree' = tree, now' = now
  PROVE  Live(tree)' = Live(tree)
BY DEF Live, Expired, is_expired

LEMMA LiveLater ==
  ASSUME TypeOK, Tick
  PROVE  Live(tree)' \subseteq Live(tree)
<1> SUFFICES ASSUME NEW k \in Live(tree)'
             PROVE  k \in Live(tree)
  OBVIOUS
<1>1. tree' = tree /\ now' = now + 1 /\ now \in Nat
  BY DEF Tick, TypeOK
<1>2. k \in Keys /\ tree[k] # None /\ ~(tree[k].expires_at # None /\ now + 1 > tree[k].expires_at)
  BY <1>1 DEF Live, Expired, is_expired
<1>3. tree[k].expires_at \in Times
  BY <1>2 DEF TypeOK, Store, DbRecord
<1>4. ~Expired(tree[k])
  BY <1>1, <1>2, <1>3 DEF Expired, is_expired, Times
<1> QED BY <1>2, <1>4 DEF Live

(* A live record that is not there yet is one that was inserted.           *)
LEMMA LiveIn ==
  ASSUME now' = now, NEW k \in Live(tree)', tree'[k] = tree[k]
  PROVE  k \in Live(tree)
BY DEF Live, Expired, is_expired
-----------------------------------------------------------------------------
(* What a handler logs is the last line, whole.                            *)
LEMMA LogGrows ==
  ASSUME "append_error" \notin Faults, TypeOK, Terminated, NEW t \in Threads, NEW tx \in BOOLEAN,
         Log(t, tx)
  PROVE  /\ \A i \in DOMAIN wal : i \in DOMAIN wal' /\ wal'[i] = wal[i]
         /\ \E i \in DOMAIN wal' : wal'[i].ok /\ wal'[i].cmd.writes = writes[t] /\ wal'[i].tx_id = ver[t]
         /\ Terminated'
<1> DEFINE line == Envelope(ver[t], Command(t, tx))
<1>1. wal' = append(wal, line)
  BY DEF Log
<1>2. wal # <<>> => wal[Len(wal)].nl
  <2>1. wal # <<>> => Len(wal) \in DOMAIN wal
    BY EmptySeq, LenProperties DEF TypeOK
  <2> QED BY <2>1 DEF Terminated
<1>3. wal' = Append(wal, line)
  BY <1>1, <1>2 DEF append
<1>4. Command(t, tx) \in WalCommand /\ ver[t] \in Nat
  BY DEF Command, WalCommand, TypeOK
<1>5. line \in Line
  BY <1>4, LineTypes
<1>6. line.ok /\ line.nl /\ line.cmd.writes = writes[t] /\ line.tx_id = ver[t]
  BY DEF Envelope, Command
<1> HIDE DEF line
<1>7. /\ wal' \in Seq(Line) /\ Len(wal') = Len(wal) + 1
      /\ \A i \in 1..Len(wal) : wal'[i] = wal[i]
      /\ wal'[Len(wal) + 1] = line
  BY <1>3, <1>5, AppendProperties DEF TypeOK
<1>8. DOMAIN wal' = 1..(Len(wal) + 1) /\ DOMAIN wal = 1..Len(wal) /\ Len(wal) \in Nat
  BY <1>7, LenProperties DEF TypeOK
<1>9. Len(wal) + 1 \in DOMAIN wal' /\ \A i \in DOMAIN wal' : i \in DOMAIN wal \/ i = Len(wal) + 1
  BY <1>8
<1>10. \A i \in DOMAIN wal : i \in DOMAIN wal' /\ wal'[i] = wal[i]
  BY <1>7, <1>8
<1>11. Terminated'
  BY <1>6, <1>7, <1>9, <1>10 DEF Terminated
<1> QED BY <1>6, <1>7, <1>9, <1>10, <1>11
-----------------------------------------------------------------------------
(* Steps that leave the files alone and insert nothing.                    *)

Harmless ==
  /\ UNCHANGED <<wal, snapshot, phase, snap_pc, snap_iter, snap_buf>>
  /\ \A k \in Live(tree)' : k \in Live(tree) /\ tree'[k] = tree[k]
  /\ \A t \in Threads : pc'[t] \in Inserting => pc[t] \in Inserting /\ writes'[t] = writes[t]

LEMMA HarmlessStep ==
  ASSUME AheadInv, Harmless
  PROVE  Terminated' /\ LogsFirst' /\ TreeOnFile' /\ BufferAhead'
<1> USE DEF AheadInv, Harmless
<1>1. Terminated'
  BY DEF Terminated
<1>2. LogsFirst'
  BY DEF LogsFirst
<1>3. TreeOnFile'
  <2> SUFFICES ASSUME phase' # "down", ~Swapping', NEW k \in Live(tree)'
               PROVE  OnFile(k, PayloadOf(tree[k]))'
    BY DEF TreeOnFile
  <2>1. k \in Live(tree) /\ tree'[k] = tree[k]
    OBVIOUS
  <2>2. OnFile(k, PayloadOf(tree[k]))
    BY <2>1 DEF TreeOnFile, Swapping
  <2> QED BY <2>1, <2>2 DEF OnFile, PayloadOf
<1>4. BufferAhead'
  BY DEF BufferAhead, Swapping
<1> QED BY <1>1, <1>2, <1>3, <1>4

Appends(t) == PutAppend(t) \/ DeleteAppend(t) \/ CasAppend(t) \/ TxAppend(t)

Inserts(t) == PutInsert(t) \/ CasInsert(t) \/ \E k \in Keys : TxApply(t, k)

LEMMA AheadSteps ==
  ASSUME TypeOK, Shapes, [Next]_vars
  PROVE  \/ Harmless
         \/ \E t \in Threads : Appends(t) \/ Inserts(t)
         \/ SnapshotBegin \/ FinishSnapshot \/ Crash \/ Start
<1> USE DEF files, tasks, saver, env
<1>1. ASSUME NEW t \in Threads, Request(t)
      PROVE  Harmless
  <2>1. UNCHANGED <<wal, snapshot, phase, snap_pc, snap_iter, snap_buf, tree, now>>
    BY <1>1 DEF Request, PutBegin, TxPut, CasBegin, DeleteBegin, TxDelete, GetExpired, TxBegin,
                TxRollback, TxCommit, TxAbort, Return
  <2>2. /\ pc'[t] \notin Inserting
        /\ \A u \in Threads \ {t} : pc'[u] = pc[u] /\ writes'[u] = writes[u]
    <3>1. CASE \E k \in Keys, v \in Values, ttl \in Ttls :
                 PutBegin(t, k, v, ttl) \/ \E e \in Values : CasBegin(t, k, e, v, ttl)
      BY <3>1 DEF PutBegin, CasBegin, Goto, Inserting, TypeOK
    <3>2. CASE \E k \in Keys, v \in Values, ttl \in Ttls : TxPut(t, k, v, ttl)
      BY <3>2 DEF TxPut, Inserting, TypeOK
    <3>3. CASE \E k \in Keys : DeleteBegin(t, k) \/ TxDelete(t, k) \/ GetExpired(t, k)
      BY <3>3 DEF DeleteBegin, TxDelete, GetExpired, Goto, Inserting, TypeOK
    <3>4. CASE TxBegin(t) \/ TxRollback(t) \/ TxCommit(t) \/ TxAbort(t)
      BY <3>4 DEF TxBegin, TxRollback, TxCommit, TxAbort, Return, Goto, locals, Inserting, TypeOK
    <3> QED BY <1>1, <3>1, <3>2, <3>3, <3>4 DEF Request
  <2> QED BY <2>1, <2>2, LiveSame DEF Harmless
<1>2. ASSUME NEW t \in Threads, PutVersion(t) \/ DeleteVersion(t) \/ CasHit(t) \/ CasMiss(t)
               \/ CasVersion(t) \/ TxVersion(t) \/ TxDone(t)
      PROVE  Harmless
  <2>1. UNCHANGED <<wal, snapshot, phase, snap_pc, snap_iter, snap_buf, tree, now>>
    BY <1>2 DEF PutVersion, DeleteVersion, CasHit, CasMiss, CasVersion, TxVersion, TxDone
  <2>2. /\ pc'[t] \notin Inserting
        /\ \A u \in Threads \ {t} : pc'[u] = pc[u] /\ writes'[u] = writes[u]
    BY <1>2 DEF PutVersion, DeleteVersion, CasHit, CasMiss, CasVersion, TxVersion, TxDone, FetchAdd,
                Return, Goto, locals, Inserting, TypeOK
  <2> QED BY <2>1, <2>2, LiveSame DEF Harmless
<1>3. ASSUME NEW t \in Threads, DeleteRemove(t) \/ GetPurge(t)
      PROVE  Harmless
  <2>1. UNCHANGED <<wal, snapshot, phase, snap_pc, snap_iter, snap_buf, now>>
    BY <1>3 DEF DeleteRemove, GetPurge
  <2>2. /\ pc'[t] \notin Inserting
        /\ \A u \in Threads \ {t} : pc'[u] = pc[u] /\ writes'[u] = writes[u]
    BY <1>3 DEF DeleteRemove, GetPurge, Return, Goto, locals, Inserting, TypeOK
  <2>3. ASSUME NEW k \in Keys
        PROVE  tree'[k] \in {None, tree[k]}
    <3>1. CASE GetPurge(t)
      BY <3>1 DEF GetPurge
    <3>2. CASE DeleteRemove(t)
      <4>1. tree' = Applied(writes[t], 0) /\ writes[t][k] \in {None, NoWrite}
        BY <3>2 DEF DeleteRemove, Shapes, Permitted
      <4>2. Applied(writes[t], 0)[k] \in {None, tree[k]}
        BY <4>1, Constants DEF Applied
      <4> QED BY <4>1, <4>2
    <3> QED BY <1>3, <3>1, <3>2
  <2>4. \A k \in Live(tree)' : k \in Keys /\ tree'[k] # None
    BY DEF Live
  <2>5. \A k \in Live(tree)' : k \in Live(tree) /\ tree'[k] = tree[k]
    BY <2>1, <2>3, <2>4, LiveIn
  <2> QED BY <2>1, <2>2, <2>5 DEF Harmless
<1>4. CASE Sweep
  <2>1. UNCHANGED <<wal, snapshot, phase, snap_pc, snap_iter, snap_buf, now, pc, writes>>
    BY <1>4 DEF Sweep, SweepBegin, SweepVisit, SweepRemove, locals
  <2>2. \A k \in Keys : tree'[k] \in {None, tree[k]}
    BY <1>4 DEF Sweep, SweepBegin, SweepVisit, SweepRemove, TypeOK, Store
  <2>3. \A k \in Live(tree)' : k \in Keys /\ tree'[k] # None
    BY DEF Live
  <2>4. \A k \in Live(tree)' : k \in Live(tree) /\ tree'[k] = tree[k]
    BY <2>1, <2>2, <2>3, LiveIn
  <2> QED BY <2>1, <2>4 DEF Harmless
<1>5. CASE Tick
  BY <1>5, LiveLater DEF Tick, Harmless, locals
<1>6. CASE UNCHANGED vars
  BY <1>6, LiveSame DEF vars, Harmless, locals
<1> QED BY <1>1, <1>2, <1>3, <1>4, <1>5, <1>6 DEF Next, Handle, Appends, Inserts
-----------------------------------------------------------------------------
(* Logging and inserting.                                                  *)

(* Nobody logs or inserts while a snapshot is taken.                       *)
LEMMA NoSnapshot ==
  ASSUME WriteAheadWorkload, TypeOK, Shapes, NEW t \in Threads, Appends(t) \/ Inserts(t)
  PROVE  /\ snap_pc = "idle" /\ UNCHANGED <<snapshot, phase, now, snap_pc, snap_iter, snap_buf>>
         /\ \A u \in Threads \ {t} : pc'[u] = pc[u] /\ writes'[u] = writes[u]
<1> USE DEF Appends, Inserts
<1>1. snap_pc = "idle"
  <2>1. CASE PutAppend(t) \/ DeleteAppend(t)
    BY <2>1, Constants DEF PutAppend, DeleteAppend, TypeOK
  <2>2. CASE PutInsert(t)
    BY <2>2 DEF PutInsert, Shapes, Permitted, WriteAheadWorkload
  <2>3. CASE CasAppend(t) \/ TxAppend(t) \/ CasInsert(t) \/ \E k \in Keys : TxApply(t, k)
    BY <2>3, Constants DEF CasAppend, TxAppend, CasInsert, TxApply, TypeOK, Locked
  <2> QED BY <2>1, <2>2, <2>3
<1>2. UNCHANGED <<snapshot, phase, now, snap_pc, snap_iter, snap_buf>>
  BY DEF PutAppend, DeleteAppend, CasAppend, TxAppend, PutInsert, CasInsert, TxApply, files, tasks,
         saver, env
<1>3. \A u \in Threads \ {t} : pc'[u] = pc[u] /\ writes'[u] = writes[u]
  BY DEF PutAppend, DeleteAppend, CasAppend, TxAppend, PutInsert, CasInsert, TxApply, Return, Goto,
         locals, TypeOK
<1> QED BY <1>1, <1>2, <1>3

LEMMA AppendAhead ==
  ASSUME WriteAheadWorkload, TypeOK, AheadInv, NEW t \in Threads, Appends(t)
  PROVE  Terminated' /\ LogsFirst' /\ TreeOnFile' /\ BufferAhead'
<1> USE DEF AheadInv
<1>1. tree' = tree /\ (pc'[t] \in Inserting => writes'[t] = writes[t])
  BY DEF Appends, PutAppend, DeleteAppend, CasAppend, TxAppend, Return, Goto, Inserting, locals, TypeOK
<1>2. PICK tx \in BOOLEAN : Log(t, tx)
  BY DEF Appends, PutAppend, DeleteAppend, CasAppend, TxAppend
<1>3. /\ \A i \in DOMAIN wal : i \in DOMAIN wal' /\ wal'[i] = wal[i]
      /\ \E i \in DOMAIN wal' : wal'[i].ok /\ wal'[i].cmd.writes = writes[t]
      /\ Terminated'
  BY <1>2, LogGrows DEF WriteAheadWorkload
<1>4. /\ snap_pc = "idle" /\ UNCHANGED <<snapshot, phase, now, snap_pc, snap_iter, snap_buf>>
      /\ \A u \in Threads \ {t} : pc'[u] = pc[u] /\ writes'[u] = writes[u]
  BY NoSnapshot
<1>5. LogsFirst'
  BY <1>1, <1>3, <1>4 DEF LogsFirst
<1>6. ASSUME phase' # "down", NEW k \in Live(tree)'
      PROVE  OnFile(k, PayloadOf(tree[k]))'
  <2>1. k \in Live(tree)
    BY <1>1, <1>4, <1>6, LiveSame
  <2>2. OnFile(k, PayloadOf(tree[k]))
    BY <1>4, <1>6, <2>1 DEF TreeOnFile, Swapping
  <2>3. PayloadOf(tree[k])' = PayloadOf(tree[k]) /\ PayloadOf(snapshot[k])' = PayloadOf(snapshot[k])
    BY <1>1, <1>4 DEF PayloadOf
  <2> QED BY <1>3, <2>2, <2>3 DEF OnFile
<1>7. TreeOnFile'
  BY <1>6 DEF TreeOnFile
<1>8. BufferAhead'
  BY <1>4 DEF BufferAhead, Swapping
<1> QED BY <1>3, <1>5, <1>7, <1>8

LEMMA InsertAhead ==
  ASSUME WriteAheadWorkload, TypeOK, AheadInv, NEW t \in Threads, Inserts(t)
  PROVE  Terminated' /\ LogsFirst' /\ TreeOnFile' /\ BufferAhead'
<1> USE DEF AheadInv
<1>1. /\ wal' = wal /\ pc[t] \in Inserting
      /\ pc'[t] \in Inserting => writes'[t] = writes[t]
  BY DEF Inserts, PutInsert, CasInsert, TxApply, Return, Goto, Inserting, files, TypeOK
<1>2. /\ snap_pc = "idle" /\ UNCHANGED <<snapshot, phase, now, snap_pc, snap_iter, snap_buf>>
      /\ \A u \in Threads \ {t} : pc'[u] = pc[u] /\ writes'[u] = writes[u]
  BY NoSnapshot
<1>3. ASSUME NEW k \in Keys
      PROVE  \/ tree'[k] = tree[k]
             \/ tree'[k] = Applied(writes[t], ver[t])[k] /\ writes[t][k] # NoWrite
  <2>1. writes[t][k] = NoWrite => Applied(writes[t], ver[t])[k] = tree[k]
    BY Constants DEF Applied
  <2>2. CASE PutInsert(t) \/ CasInsert(t)
    <3>1. tree' = Applied(writes[t], ver[t])
      BY <2>2 DEF PutInsert, CasInsert
    <3> QED BY <2>1, <3>1
  <2>3. CASE \E j \in Keys : TxApply(t, j)
    <3>1. PICK j \in Keys : TxApply(t, j)
      BY <2>3
    <3>2. tree'[k] = IF k = j THEN Applied(writes[t], ver[t])[k] ELSE tree[k]
      BY <3>1 DEF TxApply, TypeOK, Store
    <3> QED BY <2>1, <3>2
  <2> QED BY <2>2, <2>3 DEF Inserts
<1>4. ASSUME phase' # "down", NEW k \in Live(tree)'
      PROVE  OnFile(k, PayloadOf(tree[k]))'
  <2>1. k \in Keys
    BY DEF Live
  <2>2. CASE tree'[k] = tree[k]
    <3>1. k \in Live(tree)
      BY <1>2, <2>2, LiveIn
    <3>2. OnFile(k, PayloadOf(tree[k]))
      BY <1>2, <1>4, <3>1 DEF TreeOnFile, Swapping
    <3> QED BY <1>1, <1>2, <2>2, <3>2 DEF OnFile, PayloadOf
  <2>3. CASE tree'[k] = Applied(writes[t], ver[t])[k] /\ writes[t][k] # NoWrite
    <3>1. writes[t] \in WriteSet /\ ver[t] \in Nat
      BY DEF TypeOK
    <3>2. PayloadOf(Applied(writes[t], ver[t])[k]) = writes[t][k]
      BY <2>1, <2>3, <3>1, AppliedPayload
    <3>3. PayloadOf(tree[k])' = writes[t][k]
      BY <2>3, <3>2 DEF PayloadOf
    <3>4. PICK i \in DOMAIN wal : wal[i].ok /\ wal[i].cmd.writes = writes[t]
      BY <1>1 DEF LogsFirst
    <3> QED BY <1>1, <3>3, <3>4 DEF OnFile
  <2> QED BY <1>3, <2>1, <2>2, <2>3
<1>5. TreeOnFile'
  BY <1>4 DEF TreeOnFile
<1>6. LogsFirst' /\ Terminated'
  BY <1>1, <1>2 DEF LogsFirst, Terminated
<1>7. BufferAhead'
  BY <1>2 DEF BufferAhead, Swapping
<1> QED BY <1>5, <1>6, <1>7
-----------------------------------------------------------------------------
(* The snapshot task, a crash and a restart.                               *)

LEMMA SnapshotAhead ==
  ASSUME WriteAheadWorkload, TypeOK, AheadInv, Quiet, SnapshotBegin \/ FinishSnapshot
  PROVE  Terminated' /\ LogsFirst' /\ TreeOnFile' /\ BufferAhead'
<1> USE DEF AheadInv
<1>1. UNCHANGED <<tree, now, phase, pc, writes>>
  BY DEF SnapshotBegin, FinishSnapshot, SnapshotVisit, SnapshotRename, SnapshotRenameFails,
         SnapshotTruncate, SnapshotFlush, locals, env
<1>2. Live(tree)' = Live(tree) /\ Live(tree) \subseteq Keys
  BY <1>1, LiveSame DEF Live
<1>3. ASSUME UNCHANGED <<wal, snapshot>>, ~Swapping
      PROVE  Terminated' /\ LogsFirst' /\ TreeOnFile'
  <2>1. Terminated' /\ LogsFirst'
    BY <1>1, <1>3 DEF Terminated, LogsFirst
  <2>2. \A k \in Keys : OnFile(k, PayloadOf(tree[k]))' <=> OnFile(k, PayloadOf(tree[k]))
    BY <1>1, <1>3 DEF OnFile, PayloadOf
  <2> QED BY <1>1, <1>2, <1>3, <2>1, <2>2 DEF TreeOnFile
<1>4. CASE SnapshotBegin
  <2>1. ~Swapping /\ ~Swapping' /\ snap_iter' = Keys
    BY <1>4, Constants DEF SnapshotBegin, Swapping, TypeOK
  <2>2. BufferAhead'
    BY <1>2, <2>1 DEF BufferAhead
  <2> QED BY <1>3, <1>4, <2>1, <2>2 DEF SnapshotBegin, files
<1>5. ASSUME NEW j \in Keys, SnapshotVisit(j)
      PROVE  Terminated' /\ LogsFirst' /\ TreeOnFile' /\ BufferAhead'
  <2>1. /\ ~Swapping /\ ~Swapping' /\ snap_iter' = snap_iter \ {j} /\ snap_pc = "write"
        /\ UNCHANGED <<wal, snapshot>>
    BY <1>5 DEF SnapshotVisit, Swapping, files
  <2>2. ASSUME NEW k \in Live(tree) \ snap_iter'
        PROVE  snap_buf'[k] = tree[k]
    <3>1. snap_buf'[k] = IF k = j THEN LivePart(tree)[j] ELSE snap_buf[k]
      BY <1>2, <1>5 DEF SnapshotVisit, TypeOK, Store
    <3>2. LivePart(tree)[k] = tree[k]
      BY <1>2 DEF LivePart
    <3>3. k # j => snap_buf[k] = tree[k]
      BY <2>1, <2>2 DEF BufferAhead
    <3> QED BY <3>1, <3>2, <3>3
  <2>3. BufferAhead'
    BY <1>1, <1>2, <2>1, <2>2 DEF BufferAhead
  <2> QED BY <1>3, <2>1, <2>3
<1>6. CASE SnapshotRename
  <2>1. Swapping' /\ ~Swapping /\ wal' = wal /\ snap_iter = {} /\ snap_pc # "idle"
        /\ UNCHANGED <<snap_iter, snap_buf>>
    BY <1>6 DEF SnapshotRename, Swapping
  <2>2. BufferAhead'
    BY <1>1, <1>2, <2>1 DEF BufferAhead
  <2>3. Terminated' /\ LogsFirst'
    BY <1>1, <2>1 DEF Terminated, LogsFirst
  <2> QED BY <2>1, <2>2, <2>3 DEF TreeOnFile
<1>7. CASE SnapshotRenameFails
  <2>1. ~Swapping /\ ~Swapping' /\ snap_pc' = "idle" /\ UNCHANGED <<wal, snapshot>>
    BY <1>7 DEF SnapshotRenameFails, Swapping, files
  <2>2. BufferAhead'
    BY <2>1 DEF BufferAhead
  <2> QED BY <1>3, <2>1, <2>2
<1>8. CASE SnapshotTruncate
  <2>1. /\ Swapping' /\ Swapping /\ (wal' = wal \/ wal' = <<>>) /\ snap_pc # "idle"
        /\ UNCHANGED <<snap_iter, snap_buf>>
    BY <1>8 DEF SnapshotTruncate, Swapping, truncate
  <2>2. BufferAhead'
    BY <1>1, <1>2, <2>1 DEF BufferAhead
  <2>3. \A t \in Threads : pc[t] \notin Inserting
    <3>1. wal_lock = SnapshotTask /\ "put" \notin Ops
      BY <2>1 DEF TypeOK, Shapes, WriteAheadWorkload
    <3> QED BY <3>1, Constants DEF TypeOK, Locked, Inserting, Shapes, Permitted
  <2>4. Terminated' /\ LogsFirst'
    BY <1>1, <2>1, <2>3 DEF Terminated, LogsFirst
  <2> QED BY <2>1, <2>2, <2>4 DEF TreeOnFile
<1>9. CASE SnapshotFlush
  <2>1. /\ Swapping /\ ~Swapping' /\ snapshot' = snap_buf /\ wal' = wal /\ snap_pc # "idle"
        /\ snap_pc' = "idle"
    BY <1>9 DEF SnapshotFlush, Swapping, WriteAheadWorkload
  <2>2. \A k \in Live(tree) : snap_buf[k] = tree[k]
    BY <2>1 DEF BufferAhead
  <2>3. \A k \in Live(tree) : OnFile(k, PayloadOf(tree[k]))'
    BY <1>1, <2>1, <2>2 DEF OnFile, PayloadOf
  <2>4. TreeOnFile'
    BY <1>2, <2>3 DEF TreeOnFile
  <2>5. BufferAhead' /\ Terminated' /\ LogsFirst'
    BY <1>1, <2>1 DEF BufferAhead, Terminated, LogsFirst
  <2> QED BY <2>4, <2>5
<1> QED BY <1>4, <1>5, <1>6, <1>7, <1>8, <1>9 DEF FinishSnapshot

LEMMA RestartAhead ==
  ASSUME WriteAheadWorkload, TypeOK, AheadInv, Quiet, Crash \/ Start
  PROVE  Terminated' /\ LogsFirst' /\ TreeOnFile' /\ BufferAhead'
<1> USE DEF AheadInv
<1>1. CASE Crash
  <2>1. wal' = wal /\ phase' = "down" /\ snap_pc' = "idle" /\ \A t \in Threads : pc'[t] = "idle"
    BY <1>1 DEF Crash, TornLines, WriteAheadWorkload
  <2>2. Terminated' /\ LogsFirst' /\ TreeOnFile'
    BY <2>1 DEF Terminated, LogsFirst, TreeOnFile, Inserting
  <2>3. BufferAhead'
    BY <2>1 DEF BufferAhead, Swapping
  <2> QED BY <2>2, <2>3
<1>2. CASE Start
  <2>1. UNCHANGED <<wal, snapshot, now, pc, writes, snap_pc>> /\ phase # "up"
    BY <1>2 DEF Start, LoadSnapshot, ReplayCommand, SkipLine, Serve, files, locals, saver, env
  <2>2. snap_pc = "idle" /\ ~Swapping
    BY <2>1 DEF Quiet, Swapping
  <2>3. Terminated' /\ LogsFirst' /\ BufferAhead'
    BY <2>1, <2>2 DEF Terminated, LogsFirst, BufferAhead, Swapping
  <2>4. ASSUME NEW k \in Live(tree)'
        PROVE  OnFile(k, PayloadOf(tree[k]))'
    <3>1. k \in Keys /\ tree'[k] # None
      BY DEF Live
    <3>2. \A p : OnFile(k, p)' <=> OnFile(k, p)
      BY <2>1 DEF OnFile, PayloadOf
    <3>3. PayloadOf(tree[k])' = PayloadOf(tree'[k])
      BY DEF PayloadOf
    <3>4. ASSUME tree'[k] = tree[k], phase # "down"
          PROVE  OnFile(k, PayloadOf(tree[k]))
      <4>1. k \in Live(tree)
        BY <2>1, <3>4, LiveIn
      <4> QED BY <2>2, <3>4, <4>1 DEF TreeOnFile
    <3>5. CASE LoadSnapshot
      <4>1. tree'[k] = snapshot[k]
        BY <3>1, <3>5 DEF LoadSnapshot, LivePart
      <4> QED BY <2>1, <4>1 DEF OnFile, PayloadOf
    <3>6. CASE ReplayCommand
      <4> DEFINE w == Unexpired(wal[pos].cmd.writes)
      <4>1. phase = "replay" /\ pos \in 1..Len(wal) /\ wal[pos].ok
        BY <3>6, LenProperties DEF ReplayCommand, TypeOK
      <4>2. wal[pos].cmd.writes \in WriteSet /\ wal[pos].tx_id \in Nat /\ pos \in DOMAIN wal
        BY <4>1, LinesTyped, LenProperties DEF TypeOK
      <4>3. w \in WriteSet
        BY <4>2 DEF Unexpired, WriteSet
      <4>4. PICK v \in Nat : tree' = Applied(w, v)
        <5>1. MaxVer(wal[pos].tx_id) \in Nat /\ MaxVer(wal[pos].tx_id) + 1 \in Nat
          BY <4>2 DEF MaxVer, TypeOK
        <5> HIDE DEF w
        <5> QED BY <3>6, <5>1 DEF ReplayCommand, w
      <4>5. w[k] # NoWrite => w[k] = wal[pos].cmd.writes[k]
        BY <3>1 DEF Unexpired
      <4> HIDE DEF w
      <4>6. CASE w[k] = NoWrite
        <5>1. Applied(w, v)[k] = tree[k]
          BY <3>1, <4>6, Constants DEF Applied
        <5>2. tree'[k] = tree[k]
          BY <4>4, <5>1
        <5>3. OnFile(k, PayloadOf(tree[k]))
          BY <3>4, <4>1, <5>2
        <5> QED BY <3>2, <3>3, <5>2, <5>3
      <4>7. CASE w[k] # NoWrite
        <5>1. PayloadOf(Applied(w, v)[k]) = w[k]
          BY <3>1, <4>3, <4>7, AppliedPayload
        <5>2. PayloadOf(tree'[k]) = wal[pos].cmd.writes[k]
          BY <4>4, <4>5, <4>7, <5>1
        <5>3. OnFile(k, PayloadOf(tree'[k]))
          BY <4>1, <4>2, <5>2 DEF OnFile
        <5> QED BY <3>2, <3>3, <5>3
      <4> QED BY <4>6, <4>7
    <3>7. CASE SkipLine \/ Serve
      <4>1. tree'[k] = tree[k] /\ phase # "down"
        BY <3>7 DEF SkipLine, Serve
      <4> QED BY <3>2, <3>3, <3>4, <4>1
    <3> QED BY <1>2, <3>5, <3>6, <3>7 DEF Start
  <2>5. TreeOnFile'
    BY <2>4 DEF TreeOnFile
  <2> QED BY <2>3, <2>5
<1> QED BY <1>1, <1>2
-----------------------------------------------------------------------------
(* Where the threads are.                                                  *)

LEMMA ShapesStep ==
  ASSUME TypeOK, Shapes, [Next]_vars
  PROVE  Shapes'
<1>1. "snapshot" \notin Ops => snap_pc' = "idle"
  <2> SUFFICES ASSUME "snapshot" \notin Ops
               PROVE  snap_pc' = "idle"
    OBVIOUS
  <2>1. snap_pc = "idle" /\ ~SnapshotBegin /\ ~FinishSnapshot
    BY DEF Shapes, SnapshotBegin, FinishSnapshot, SnapshotVisit, SnapshotRename, SnapshotRenameFails,
           SnapshotTruncate, SnapshotFlush
  <2>2. snap_pc' \in {snap_pc, "idle"}
    <3> USE DEF tasks, saver
    <3>1. ASSUME NEW t \in Threads, Request(t)
          PROVE  snap_pc' = snap_pc
      BY <3>1 DEF Request, PutBegin, TxPut, CasBegin, DeleteBegin, TxDelete, GetExpired, TxBegin,
                  TxRollback, TxCommit, TxAbort
    <3>2. ASSUME NEW t \in Threads, Handle(t)
          PROVE  snap_pc' = snap_pc
      BY <3>2 DEF Handle, PutVersion, PutAppend, PutInsert, GetPurge, DeleteRemove, DeleteVersion,
                  DeleteAppend, CasHit, CasMiss, CasVersion, CasAppend, CasInsert, TxVersion, TxAppend,
                  TxApply, TxDone
    <3>3. ASSUME Sweep \/ Tick \/ Start \/ UNCHANGED vars
          PROVE  snap_pc' = snap_pc
      BY <3>3 DEF Sweep, SweepBegin, SweepVisit, SweepRemove, Tick, Start, LoadSnapshot, ReplayCommand,
                  SkipLine, Serve, vars
    <3>4. ASSUME Crash
          PROVE  snap_pc' = "idle"
      BY <3>4 DEF Crash
    <3> QED BY <2>1, <3>1, <3>2, <3>3, <3>4 DEF Next
  <2> QED BY <2>1, <2>2
<1>2. ASSUME NEW t \in Threads
      PROVE  Permitted(t)'
  <2> USE DEF Shapes
  <2>1. ASSUME pc'[t] = pc[t], writes'[t] = writes[t], todo'[t] = todo[t]
        PROVE  Permitted(t)'
    BY <2>1 DEF Permitted
  <2>2. ASSUME pc'[t] \in Labels \ {"put_version", "put_append", "put_insert", "delete_remove", "tx_apply"}
        PROVE  Permitted(t)'
    BY <2>2 DEF Permitted
  <2>3. ASSUME NEW u \in Threads, Request(u)
        PROVE  Permitted(t)'
    <3>1. CASE u # t
      <4>1. pc'[t] = pc[t] /\ writes'[t] = writes[t] /\ todo'[t] = todo[t]
        BY <2>3, <3>1 DEF Request, PutBegin, TxPut, CasBegin, DeleteBegin, TxDelete, GetExpired,
                TxBegin, TxRollback, TxCommit, TxAbort, Return, Goto, locals, TypeOK
      <4> QED BY <2>1, <4>1
    <3>2. CASE u = t /\ \E k \in Keys, v \in Values, ttl \in Ttls : PutBegin(t, k, v, ttl)
      BY <3>2 DEF PutBegin, Goto, Permitted, TypeOK
    <3>3. CASE u = t /\ \E k \in Keys : DeleteBegin(t, k)
      <4>1. PICK k \in Keys : DeleteBegin(t, k)
        BY <3>3
      <4>2. pc'[t] = "delete_remove" /\ writes'[t] = Only(k, None)
        BY <4>1 DEF DeleteBegin, Goto, TypeOK
      <4>3. \A j \in Keys : Only(k, None)[j] \in {None, NoWrite}
        BY DEF Only, NoWrites
      <4> QED BY <4>2, <4>3 DEF Permitted
    <3>4. CASE u = t /\ (TxBegin(t) \/ TxRollback(t) \/ TxCommit(t) \/ TxAbort(t))
      BY <2>2, <3>4 DEF TxBegin, TxRollback, TxCommit, TxAbort, Return, Goto, Labels, TypeOK
    <3>5. CASE u = t /\ \E k \in Keys : TxDelete(t, k) \/ GetExpired(t, k)
      BY <2>2, <3>5 DEF TxDelete, GetExpired, Goto, Labels, TypeOK
    <3>6. CASE u = t /\ \E k \in Keys, v \in Values, ttl \in Ttls :
                          TxPut(t, k, v, ttl) \/ \E e \in Values : CasBegin(t, k, e, v, ttl)
      BY <2>2, <3>6 DEF TxPut, CasBegin, Goto, Labels, TypeOK
    <3> QED BY <2>3, <3>1, <3>2, <3>3, <3>4, <3>5, <3>6 DEF Request
  <2>4. ASSUME NEW u \in Threads, Handle(u)
        PROVE  Permitted(t)'
    <3>1. CASE u # t
      <4>1. pc'[t] = pc[t] /\ writes'[t] = writes[t] /\ todo'[t] = todo[t]
        BY <2>4, <3>1 DEF Handle, PutVersion, PutAppend, PutInsert, GetPurge, DeleteRemove,
                DeleteVersion, DeleteAppend, CasHit, CasMiss, CasVersion, CasAppend, CasInsert, TxVersion,
                TxAppend, TxApply, TxDone, FetchAdd, Return, Goto, locals, TypeOK
      <4> QED BY <2>1, <4>1
    <3>2. CASE u = t /\ (PutVersion(t) \/ PutAppend(t))
      <4>1. "put" \in Ops /\ pc'[t] \in {"put_append", "put_insert"}
        BY <3>2 DEF PutVersion, PutAppend, Permitted, Goto, TypeOK
      <4> QED BY <4>1 DEF Permitted
    <3>3. CASE u = t /\ TxAppend(t)
      BY <3>3 DEF TxAppend, Goto, Permitted, TypeOK
    <3>4. CASE u = t /\ \E k \in Keys : TxApply(t, k)
      BY <3>4 DEF TxApply, Permitted, TypeOK
    <3>5. CASE u = t /\ (PutInsert(t) \/ GetPurge(t) \/ DeleteAppend(t) \/ CasMiss(t) \/ CasInsert(t)
                          \/ TxDone(t))
      BY <2>2, <3>5 DEF PutInsert, GetPurge, DeleteAppend, CasMiss, CasInsert, TxDone, Return, Goto,
                        Labels, TypeOK
    <3>6. CASE u = t /\ (DeleteRemove(t) \/ DeleteVersion(t) \/ CasHit(t) \/ CasVersion(t)
                          \/ CasAppend(t) \/ TxVersion(t))
      BY <2>2, <3>6 DEF DeleteRemove, DeleteVersion, CasHit, CasVersion, CasAppend, TxVersion, Goto,
                        Labels, TypeOK
    <3> QED BY <2>4, <3>1, <3>2, <3>3, <3>4, <3>5, <3>6 DEF Handle
  <2>5. CASE SnapshotBegin \/ FinishSnapshot \/ Sweep \/ Tick \/ Start \/ UNCHANGED vars
    <3>1. pc' = pc /\ writes' = writes /\ todo' = todo
      BY <2>5 DEF SnapshotBegin, FinishSnapshot, SnapshotVisit, SnapshotRename, SnapshotRenameFails,
           SnapshotTruncate, SnapshotFlush, Sweep, SweepBegin, SweepVisit, SweepRemove, Tick, Start,
           LoadSnapshot, ReplayCommand, SkipLine, Serve, vars, locals
    <3> QED BY <2>1, <3>1
  <2>6. CASE Crash
    BY <2>2, <2>6 DEF Crash, Labels
  <2> QED BY <2>3, <2>4, <2>5, <2>6 DEF Next
<1> QED BY <1>1, <1>2 DEF Shapes

LEMMA AheadStep ==
  ASSUME WriteAheadWorkload, TypeOK, Quiet, AheadInv, [Next]_vars
  PROVE  AheadInv'
<1>1. Shapes'
  BY ShapesStep DEF AheadInv
<1>2. Terminated' /\ LogsFirst' /\ TreeOnFile' /\ BufferAhead'
  BY AheadSteps, HarmlessStep, AppendAhead, InsertAhead, SnapshotAhead, RestartAhead DEF AheadInv
<1> QED BY <1>1, <1>2 DEF AheadInv

(* Everything a reader can see is on disk: each handler logs before it     *)
(* inserts, a snapshot drops only lines whose records it has, and a        *)
(* restart brings back nothing that the files do not hold.                 *)
THEOREM WriteAheadCorrect ==
  ASSUME WriteAheadWorkload
  PROVE  Spec => []WriteAhead
<1>1. Init => Quiet /\ AheadInv
  BY DEF Init, Quiet, AheadInv, Terminated, LogsFirst, Inserting, Shapes, Permitted, TreeOnFile,
         BufferAhead, Swapping, WriteAheadWorkload
<1>2. TypeOK /\ Quiet /\ AheadInv /\ [Next]_vars => (Quiet /\ AheadInv)'
  BY QuietStep, AheadStep
<1>3. AheadInv => WriteAhead
  BY DEF AheadInv, TreeOnFile, WriteAhead, OnFile
<1> QED BY <1>1, <1>2, <1>3, TypeCorrect, PTL DEF Spec
=============================================================================
