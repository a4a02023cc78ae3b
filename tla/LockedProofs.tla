---------------------------- MODULE LockedProofs ----------------------------
(***************************************************************************)
(* cas and transactions are atomic and durable when they are the only      *)
(* writers: theorems about KindServer under LockedWorkload, for every set  *)
(* of threads, keys and values and any number of snapshots and crashes.    *)
(***************************************************************************)
EXTENDS KindServerProofs, WellFoundedInduction

(* Payloads that never expire, and lines that carry a whole command of them. *)
Forever(w) == \A k \in Keys : w[k] \in Payload => w[k].expires_at = None

Sound(line) == line.ok /\ line.nl /\ line.utf8 /\ Forever(line.cmd.writes)

(* Only writers that keep the WAL mutex from their comparison to their     *)
(* last insert, no TTL, and crashes that strike neither in the middle of a *)
(* line nor between the rename and the flush of a snapshot.  Other writers *)
(* and other crashes are left out because the theorems fail with them, as  *)
(* the violations TLC finds show.                                          *)
LockedWorkload ==
  /\ Ops \subseteq {"cas", "tx", "tx_delete", "snapshot"}
  /\ Ttls \subseteq {None}
  /\ Faults \subseteq {"crash", "truncate_error"}
  /\ \A i \in DOMAIN InitialWal : Sound(InitialWal[i])

ForeverStore(s) == \A k \in Keys : s[k] # None => s[k].expires_at = None

(* What the workload leaves out stays out.                                 *)
LockedShape ==
  /\ \A t \in Threads : pc[t] \in Locked \cup {"idle", "cas_compare", "tx_open"}
  /\ phase # "up" => wal_lock = None /\ \A t \in Threads : pc[t] = "idle"
  /\ sweep_iter = {} /\ to_remove = {}
  /\ ForeverStore(tree) /\ ForeverStore(snapshot) /\ ForeverStore(snap_buf)
  /\ \A t \in Threads : Forever(writes[t])
  /\ \A i \in DOMAIN wal : Sound(wal[i])

(* Recovered for files without bad lines and without TTLs.                 *)
Plain(file, base, k, n) ==
  LET I == {i \in 1..n : file[i].cmd.writes[k] # NoWrite}
  IN IF I = {} THEN PayloadOf(base[k]) ELSE file[LastOf(I)].cmd.writes[k]

(* A key whose write is in the log but not yet in the tree.                *)
Pending(t, k) ==
  \/ pc[t] = "cas_insert" /\ k \in Touched(writes[t])
  \/ pc[t] = "tx_apply" /\ k \in todo[t]

(* The tree is what the files stand for, but for the keys that the holder  *)
(* of the mutex has logged and not applied.                                *)
TreeIsLog ==
  phase = "up" /\ ~Swapping =>
    \A k \in Keys :
      /\ (\A t \in Threads : ~Pending(t, k)) => Plain(wal, snapshot, k, Len(wal)) = PayloadOf(tree[k])
      /\ \A t \in Threads : Pending(t, k) => Plain(wal, snapshot, k, Len(wal)) = writes[t][k]

(* The snapshot task copies the tree, which nobody changes meanwhile; the  *)
(* log, truncated or not, adds nothing to a complete copy.                 *)
BufferIsTree ==
  /\ snap_pc = "write" => \A k \in Keys \ snap_iter : snap_buf[k] = tree[k]
  /\ Swapping => snap_buf = tree /\ phase = "up"
  /\ Swapping => \A k \in Keys : Plain(wal, snap_buf, k, Len(wal)) = PayloadOf(snap_buf[k])

(* Replay is exact at each of its rounds.                                  *)
ReplayIsExact ==
  phase = "replay" =>
    /\ pos <= Len(wal) + 1
    /\ \A k \in Keys : PayloadOf(tree[k]) = Plain(wal, snapshot, k, pos - 1)

TodoIsTouched ==
  \A t \in Threads : pc[t] = "tx_apply" => todo[t] \subseteq Touched(writes[t])

LockedInv ==
  /\ LockedShape /\ TreeIsLog /\ BufferIsTree /\ ReplayIsExact /\ TodoIsTouched
  /\ CasReplacesExpected
-----------------------------------------------------------------------------
(* The last line that writes a key.                                        *)

LEMMA MinExists ==
  ASSUME NEW T \in SUBSET Nat, T # {}
  PROVE  \E x \in T : \A y \in T : x <= y
<1> DEFINE R == OpToRel(<, Nat)
<1>1. IsWellFoundedOn(R, Nat)
  BY NatLessThanWellFounded
<1>2. \A x, y \in Nat : y < x => <<y, x>> \in R
  BY DEF OpToRel
<1> HIDE DEF R
<1>3. PICK x \in T : \A y \in T : ~(<<y, x>> \in R)
  BY <1>1, WFMin
<1>4. \A y \in T : y \in Nat /\ x \in Nat /\ ~(y < x)
  BY <1>2, <1>3
<1>5. \A y \in T : x <= y
  BY <1>4
<1> QED BY <1>5

(* LastOf picks the largest element of a non-empty set of line numbers.    *)
LEMMA LastOfIsMax ==
  ASSUME NEW n \in Nat, NEW I \in SUBSET (1..n), I # {}
  PROVE  LastOf(I) \in I /\ \A j \in I : j <= LastOf(I)
<1> DEFINE T == {n - i : i \in I}
<1>1. \A i \in I : i \in Nat /\ n - i \in Nat
  OBVIOUS
<1>2. T \in SUBSET Nat /\ T # {}
  BY <1>1
<1> HIDE DEF T
<1>3. PICK x \in T : \A y \in T : x <= y
  BY <1>2, MinExists
<1>4. PICK i \in I : x = n - i
  BY <1>3 DEF T
<1>5. \A j \in I : n - i <= n - j
  BY <1>3, <1>4 DEF T
<1>6. \A j \in I : j <= i
  BY <1>1, <1>4, <1>5
<1> QED BY <1>6 DEF LastOf

(* One more line counts if it writes the key.                              *)
LEMMA PlainNext ==
  ASSUME NEW file, NEW base, NEW k, NEW n \in Nat
  PROVE  Plain(file, base, k, n + 1) =
           IF file[n + 1].cmd.writes[k] = NoWrite THEN Plain(file, base, k, n)
           ELSE file[n + 1].cmd.writes[k]
<1> DEFINE I(m) == {i \in 1..m : file[i].cmd.writes[k] # NoWrite}
<1>1. CASE file[n + 1].cmd.writes[k] = NoWrite
  <2>1. I(n + 1) = I(n)
    BY <1>1
  <2> QED BY <1>1, <2>1 DEF Plain
<1>2. CASE file[n + 1].cmd.writes[k] # NoWrite
  <2>1. n + 1 \in I(n + 1) /\ I(n + 1) \in SUBSET (1..(n + 1)) /\ n + 1 \in Nat
    BY <1>2
  <2>2. LastOf(I(n + 1)) \in I(n + 1) /\ n + 1 <= LastOf(I(n + 1))
    BY <2>1, LastOfIsMax
  <2>3. LastOf(I(n + 1)) = n + 1
    <3> HIDE DEF I
    <3>1. LastOf(I(n + 1)) \in 1..(n + 1)
      BY <2>1, <2>2
    <3> QED BY <2>2, <3>1
  <2> QED BY <1>2, <2>1, <2>3 DEF Plain
<1> QED BY <1>1, <1>2

(* Lines past the n-th do not matter.                                      *)
LEMMA PlainPrefix ==
  ASSUME NEW f, NEW g, NEW base, NEW k, NEW n \in Nat, \A i \in 1..n : f[i] = g[i]
  PROVE  Plain(f, base, k, n) = Plain(g, base, k, n)
<1> DEFINE I == {i \in 1..n : f[i].cmd.writes[k] # NoWrite}
<1>1. I = {i \in 1..n : g[i].cmd.writes[k] # NoWrite}
  OBVIOUS
<1>2. CASE I = {}
  BY <1>1, <1>2 DEF Plain
<1>3. CASE I # {}
  <2>1. LastOf(I) \in 1..n
    BY <1>3, LastOfIsMax
  <2> QED BY <1>1, <1>3, <2>1 DEF Plain
<1> QED BY <1>2, <1>3
-----------------------------------------------------------------------------
(* Without TTLs nothing ever expires.                                      *)

LEMMA ForeverLive ==
  ASSUME NEW store \in Store, ForeverStore(store)
  PROVE  LivePart(store) = store
<1>1. \A k \in Keys : store[k] # None => ~Expired(store[k])
  BY DEF ForeverStore, Expired, is_expired
<1>2. Live(store) = {k \in Keys : store[k] # None}
  BY <1>1 DEF Live
<1> QED BY <1>2 DEF LivePart, Store

LEMMA ForeverUnexpired ==
  ASSUME NEW w \in WriteSet, Forever(w)
  PROVE  Unexpired(w) = w
<1>1. \A k \in Keys : w[k] \notin {None, NoWrite} => w[k].expires_at = None
  BY DEF Forever, WriteSet
<1>2. \A k \in Keys : ~(w[k] \notin {None, NoWrite} /\ is_expired(w[k].expires_at))
  BY <1>1 DEF is_expired
<1>3. Unexpired(w) = [k \in Keys |-> w[k]]
  BY <1>2 DEF Unexpired
<1> QED BY <1>3 DEF WriteSet

(* What a reader finds after a command was applied.                        *)
LEMMA AppliedPayload ==
  ASSUME TypeOK, NEW w \in WriteSet, NEW v \in Nat, NEW k \in Keys
  PROVE  PayloadOf(Applied(w, v)[k]) = IF w[k] = NoWrite THEN PayloadOf(tree[k]) ELSE w[k]
<1>1. CASE w[k] = NoWrite
  <2>1. Applied(w, v)[k] = tree[k]
    BY <1>1, Constants DEF Applied
  <2> QED BY <1>1, <2>1
<1>2. CASE w[k] = None
  BY <1>2, Constants DEF Applied, PayloadOf
<1>3. CASE w[k] # NoWrite /\ w[k] # None
  <2>1. w[k] \in Payload /\ Applied(w, v)[k] = Record(w[k], v)
    BY <1>3 DEF WriteSet, Applied
  <2>2. Record(w[k], v) # None
    BY <2>1, RecordType, Constants
  <2>3. PayloadOf(Record(w[k], v)) = [value |-> w[k].value, expires_at |-> w[k].expires_at]
    BY <2>2 DEF PayloadOf, Record
  <2>4. \A p \in Payload : [value |-> p.value, expires_at |-> p.expires_at] = p
    BY DEF Payload
  <2> QED BY <1>3, <2>1, <2>3, <2>4
<1> QED BY <1>1, <1>2, <1>3

LEMMA AppliedForever ==
  ASSUME TypeOK, ForeverStore(tree), NEW w \in WriteSet, Forever(w), NEW v \in Nat
  PROVE  ForeverStore(Applied(w, v))
<1>1. ASSUME NEW k \in Keys, Applied(w, v)[k] # None
      PROVE  Applied(w, v)[k].expires_at = None
  <2>1. CASE w[k] = NoWrite
    BY <1>1, <2>1 DEF Applied, ForeverStore
  <2>2. CASE w[k] = None
    BY <1>1, <2>2, Constants DEF Applied
  <2>3. CASE w[k] # NoWrite /\ w[k] # None
    BY <2>3 DEF Applied, Record, WriteSet, Forever
  <2> QED BY <2>1, <2>2, <2>3
<1> QED BY <1>1 DEF ForeverStore

(* A locked writer logs its whole command at the end of the file.          *)
LEMMA LockedLog ==
  ASSUME LockedWorkload, TypeOK, LockedShape, NEW t \in Threads, NEW tx \in BOOLEAN, Log(t, tx)
  PROVE  /\ wal' \in Seq(Line) /\ Len(wal') = Len(wal) + 1
         /\ \A i \in 1..Len(wal) : wal'[i] = wal[i]
         /\ wal'[Len(wal) + 1].cmd.writes = writes[t]
         /\ \A i \in DOMAIN wal' : Sound(wal'[i])
<1> DEFINE line == Envelope(ver[t], Command(t, tx))
<1>1. wal' = append(wal, line)
  BY DEF LockedWorkload, Log
<1>2. wal # <<>> => wal[Len(wal)].nl
  <2>1. wal # <<>> => Len(wal) \in DOMAIN wal
    BY EmptySeq, LenProperties DEF TypeOK
  <2> QED BY <2>1 DEF LockedShape, Sound
<1>3. wal' = Append(wal, line)
  BY <1>1, <1>2 DEF append
<1>4. Command(t, tx) \in WalCommand /\ ver[t] \in Nat
  BY DEF Command, WalCommand, TypeOK
<1>5. line \in Line
  BY <1>4, LineTypes
<1>6. line.ok /\ line.nl /\ line.utf8 /\ line.cmd.writes = writes[t]
  BY DEF Envelope, Command
<1>7. Sound(line)
  BY <1>6 DEF Sound, LockedShape
<1> HIDE DEF line
<1>8. /\ wal' \in Seq(Line) /\ Len(wal') = Len(wal) + 1
      /\ \A i \in 1..Len(wal) : wal'[i] = wal[i]
      /\ wal'[Len(wal) + 1] = line
  BY <1>3, <1>5, AppendProperties DEF TypeOK
<1>9. DOMAIN wal' = 1..(Len(wal) + 1) /\ DOMAIN wal = 1..Len(wal) /\ Len(wal) \in Nat
  BY <1>8, LenProperties DEF TypeOK
<1>10. \A i \in DOMAIN wal' : i \in 1..Len(wal) \/ i = Len(wal) + 1
  BY <1>9
<1>11. \A i \in DOMAIN wal' : Sound(wal'[i])
  BY <1>7, <1>8, <1>9, <1>10 DEF LockedShape
<1> QED BY <1>6, <1>8, <1>11
-----------------------------------------------------------------------------
(* The steps that are left under LockedWorkload.                           *)

LockedRequest(t) ==
  \/ \E k \in Keys, v \in Values, ttl \in Ttls :
       TxPut(t, k, v, ttl) \/ \E e \in Values : CasBegin(t, k, e, v, ttl)
  \/ \E k \in Keys : TxDelete(t, k) \/ TxApply(t, k)
  \/ CasHit(t) \/ CasMiss(t) \/ CasVersion(t) \/ CasAppend(t) \/ CasInsert(t)
  \/ TxBegin(t) \/ TxRollback(t) \/ TxCommit(t) \/ TxAbort(t)
  \/ TxVersion(t) \/ TxAppend(t) \/ TxDone(t)

LockedNext ==
  \/ \E t \in Threads : LockedRequest(t)
  \/ SnapshotBegin \/ FinishSnapshot
  \/ Tick \/ Crash \/ LoadSnapshot \/ ReplayCommand \/ Serve

LEMMA LockedSteps ==
  ASSUME LockedWorkload, TypeOK, LockedShape, Next
  PROVE  LockedNext
<1>1. \A t \in Threads, k \in Keys :
        /\ \A v \in Values, ttl \in Ttls : ~PutBegin(t, k, v, ttl)
        /\ ~DeleteBegin(t, k) /\ ~GetExpired(t, k)
  BY DEF LockedWorkload, PutBegin, DeleteBegin, GetExpired
<1>2. \A t \in Threads :
        /\ ~PutVersion(t) /\ ~PutAppend(t) /\ ~PutInsert(t) /\ ~GetPurge(t)
        /\ ~DeleteRemove(t) /\ ~DeleteVersion(t) /\ ~DeleteAppend(t)
  BY DEF LockedShape, Locked, PutVersion, PutAppend, PutInsert, GetPurge, DeleteRemove,
         DeleteVersion, DeleteAppend
<1>3. ~SweepBegin /\ \A k \in Keys : ~SweepVisit(k) /\ ~SweepRemove(k)
  BY DEF LockedWorkload, LockedShape, SweepBegin, SweepVisit, SweepRemove, FirstOf
<1>4. ~SkipLine
  BY LenProperties DEF SkipLine, LockedShape, Sound, TypeOK
<1>5. \A t \in Threads : Request(t) => LockedRequest(t)
  BY <1>1 DEF Request, LockedRequest
<1>6. \A t \in Threads : Handle(t) => LockedRequest(t)
  BY <1>2 DEF Handle, LockedRequest
<1> QED BY <1>3, <1>4, <1>5, <1>6 DEF Next, Sweep, Start, LockedNext

(* Replaying a line applies its command as it stands.                      *)
LEMMA ReplayApplies ==
  ASSUME TypeOK, LockedShape, ReplayCommand
  PROVE  /\ pos \in DOMAIN wal /\ pos \in 1..Len(wal)
         /\ wal[pos].cmd.writes \in WriteSet /\ Forever(wal[pos].cmd.writes)
         /\ ForeverStore(tree)
         /\ \E v \in Nat : tree' = Applied(wal[pos].cmd.writes, v)
<1>1. pos \in DOMAIN wal /\ pos \in 1..Len(wal)
  BY LenProperties DEF ReplayCommand, TypeOK
<1>2. wal[pos] \in Line /\ Sound(wal[pos])
  BY <1>1, ElementOfSeq DEF TypeOK, LockedShape
<1>3. wal[pos].cmd \in WalCommand /\ wal[pos].tx_id \in Nat
  BY <1>2 DEF Line, Sound
<1>4. wal[pos].cmd.writes \in WriteSet /\ Forever(wal[pos].cmd.writes)
  BY <1>2, <1>3 DEF Sound, WalCommand
<1>5. Unexpired(wal[pos].cmd.writes) = wal[pos].cmd.writes
  BY <1>4, ForeverUnexpired
<1>6. MaxVer(wal[pos].tx_id) \in Nat
  BY <1>3 DEF MaxVer, TypeOK
<1>7. \E v \in Nat : tree' = Applied(wal[pos].cmd.writes, v)
  BY <1>5, <1>6 DEF ReplayCommand
<1> QED BY <1>1, <1>4, <1>7 DEF LockedShape

LEMMA LockedShapeStep ==
  ASSUME LockedWorkload, TypeOK, LockedShape, [Next]_vars
  PROVE  LockedShape'
<1> USE Constants DEF locals, files, tasks, saver, sweeper, env
<1>1. ASSUME NEW t \in Threads, NEW k \in Keys, NEW v \in Values, NEW ttl \in Ttls, NEW e \in Values, CasBegin(t, k, e, v, ttl)
       PROVE  LockedShape'
  <2>1. Forever(writes'[t])
    BY <1>1 DEF CasBegin, Forever, Only, NoWrites, ExpiresAt, LockedWorkload, TypeOK
  <2> QED BY <1>1, <2>1 DEF CasBegin, Ready, Goto, LockedShape, TypeOK, Locked
<1>2. ASSUME NEW t \in Threads, CasHit(t)
       PROVE  LockedShape'
  BY <1>2 DEF CasHit, Goto, LockedShape, TypeOK, Locked
<1>3. ASSUME NEW t \in Threads, CasMiss(t)
       PROVE  LockedShape'
  <2>1. Forever(NoWrites)
    BY DEF Forever, NoWrites
  <2> QED BY <1>3, <2>1 DEF CasMiss, Return, Goto, LockedShape, TypeOK, Locked
<1>4. ASSUME NEW t \in Threads, CasVersion(t)
       PROVE  LockedShape'
  BY <1>4 DEF CasVersion, FetchAdd, Goto, LockedShape, TypeOK, Locked
<1>5. ASSUME NEW t \in Threads, CasAppend(t)
       PROVE  LockedShape'
  <2>1. \A i \in DOMAIN wal' : Sound(wal'[i])
    BY <1>5, LockedLog DEF CasAppend
  <2> QED BY <1>5, <2>1 DEF CasAppend, Goto, LockedShape, TypeOK, Locked
<1>6. ASSUME NEW t \in Threads, CasInsert(t)
       PROVE  LockedShape'
  <2>1. ForeverStore(Applied(writes[t], ver[t]))
    BY AppliedForever DEF LockedShape, TypeOK
  <2>2. Forever(NoWrites)
    BY DEF Forever, NoWrites
  <2> QED BY <1>6, <2>1, <2>2 DEF CasInsert, Return, Goto, LockedShape, TypeOK, Locked
<1>7. ASSUME NEW t \in Threads, TxBegin(t)
       PROVE  LockedShape'
  BY <1>7 DEF TxBegin, Ready, Goto, LockedShape, TypeOK, Locked
<1>8. ASSUME NEW t \in Threads, NEW k \in Keys, NEW v \in Values, NEW ttl \in Ttls, TxPut(t, k, v, ttl)
       PROVE  LockedShape'
  <2>1. Forever(writes'[t])
    BY <1>8 DEF TxPut, Forever, ExpiresAt, LockedWorkload, LockedShape, TypeOK, WriteSet
  <2> QED BY <1>8, <2>1 DEF TxPut, LockedShape, TypeOK, Locked
<1>9. ASSUME NEW t \in Threads, NEW k \in Keys, TxDelete(t, k)
       PROVE  LockedShape'
  <2>1. Forever(writes'[t])
    BY <1>9 DEF TxDelete, Forever, LockedShape, TypeOK, WriteSet
  <2> QED BY <1>9, <2>1 DEF TxDelete, LockedShape, TypeOK, Locked
<1>10. ASSUME NEW t \in Threads, TxRollback(t)
       PROVE  LockedShape'
  <2>1. Forever(NoWrites)
    BY DEF Forever, NoWrites
  <2> QED BY <1>10, <2>1 DEF TxRollback, Return, Goto, LockedShape, TypeOK, Locked
<1>11. ASSUME NEW t \in Threads, TxCommit(t)
       PROVE  LockedShape'
  BY <1>11 DEF TxCommit, Goto, LockedShape, TypeOK, Locked
<1>12. ASSUME NEW t \in Threads, TxAbort(t)
       PROVE  LockedShape'
  <2>1. Forever(NoWrites)
    BY DEF Forever, NoWrites
  <2> QED BY <1>12, <2>1 DEF TxAbort, Return, Goto, LockedShape, TypeOK, Locked
<1>13. ASSUME NEW t \in Threads, TxVersion(t)
       PROVE  LockedShape'
  BY <1>13 DEF TxVersion, FetchAdd, Goto, LockedShape, TypeOK, Locked
<1>14. ASSUME NEW t \in Threads, TxAppend(t)
       PROVE  LockedShape'
  <2>1. \A i \in DOMAIN wal' : Sound(wal'[i])
    BY <1>14, LockedLog DEF TxAppend
  <2> QED BY <1>14, <2>1 DEF TxAppend, Goto, LockedShape, TypeOK, Locked
<1>15. ASSUME NEW t \in Threads, NEW k \in Keys, TxApply(t, k)
       PROVE  LockedShape'
  <2>1. ForeverStore(Applied(writes[t], ver[t]))
    BY AppliedForever DEF LockedShape, TypeOK
  <2>2. ForeverStore(tree')
    BY <1>15, <2>1 DEF TxApply, ForeverStore, LockedShape, TypeOK, Store
  <2> QED BY <1>15, <2>2 DEF TxApply, LockedShape, TypeOK, Locked
<1>16. ASSUME NEW t \in Threads, TxDone(t)
       PROVE  LockedShape'
  <2>1. Forever(NoWrites)
    BY DEF Forever, NoWrites
  <2> QED BY <1>16, <2>1 DEF TxDone, Return, Goto, LockedShape, TypeOK, Locked
<1>17. ASSUME SnapshotBegin
       PROVE  LockedShape'
  BY <1>17 DEF SnapshotBegin, LockedShape, TypeOK, Locked
<1>18. ASSUME NEW k \in Keys, SnapshotVisit(k)
       PROVE  LockedShape'
  <2>1. LivePart(tree)[k] = tree[k]
    BY ForeverLive DEF LockedShape, TypeOK
  <2>2. ForeverStore(snap_buf')
    BY <1>18, <2>1 DEF SnapshotVisit, ForeverStore, LockedShape, TypeOK, Store
  <2> QED BY <1>18, <2>2 DEF SnapshotVisit, LockedShape, TypeOK, Locked
<1>19. ASSUME SnapshotRename
       PROVE  LockedShape'
  <2>1. ForeverStore(snapshot')
    BY <1>19 DEF SnapshotRename, ForeverStore, LockedShape
  <2> QED BY <1>19, <2>1 DEF SnapshotRename, LockedShape, TypeOK, Locked
<1>20. ASSUME SnapshotRenameFails
       PROVE  LockedShape'
  BY <1>20 DEF SnapshotRenameFails, EmptyStore, ForeverStore, LockedShape, TypeOK, Locked
<1>21. ASSUME SnapshotTruncate
       PROVE  LockedShape'
  BY <1>21 DEF SnapshotTruncate, truncate, LockedShape, TypeOK, Locked
<1>22. ASSUME SnapshotFlush
       PROVE  LockedShape'
  <2>1. ForeverStore(EmptyStore)
    BY DEF ForeverStore, EmptyStore
  <2> QED BY <1>22, <2>1 DEF SnapshotFlush, LockedShape, TypeOK, Locked
<1>23. ASSUME Tick
       PROVE  LockedShape'
  BY <1>23 DEF Tick, LockedShape, TypeOK, Locked
<1>24. ASSUME Crash
       PROVE  LockedShape'
  <2>1. wal' = wal
    BY <1>24 DEF Crash, TornLines, LockedWorkload
  <2>2. Forever(NoWrites) /\ ForeverStore(EmptyStore)
    BY DEF Forever, NoWrites, ForeverStore, EmptyStore
  <2> QED BY <1>24, <2>1, <2>2 DEF Crash, LockedShape, TypeOK, Locked
<1>25. ASSUME LoadSnapshot
       PROVE  LockedShape'
  <2>1. LivePart(snapshot) = snapshot
    BY ForeverLive DEF LockedShape, TypeOK
  <2> QED BY <1>25, <2>1 DEF LoadSnapshot, LockedShape, TypeOK, Locked
<1>26. ASSUME ReplayCommand
       PROVE  LockedShape'
  <2>1. ForeverStore(tree')
    BY <1>26, ReplayApplies, AppliedForever
  <2> QED BY <1>26, <2>1 DEF ReplayCommand, LockedShape, TypeOK, Locked
<1>27. ASSUME Serve
       PROVE  LockedShape'
  BY <1>27 DEF Serve, LockedShape, TypeOK, Locked
<1>28. CASE UNCHANGED vars
  BY <1>28 DEF vars, LockedShape, TypeOK, Locked
<1> QED
  BY <1>1, <1>2, <1>3, <1>4, <1>5, <1>6, <1>7, <1>8, <1>9, <1>10, <1>11, <1>12,
     <1>13, <1>14, <1>15, <1>16, <1>17, <1>18, <1>19, <1>20, <1>21, <1>22,
     <1>23, <1>24, <1>25, <1>26, <1>27, <1>28, LockedSteps
  DEF LockedNext, LockedRequest, FinishSnapshot
-----------------------------------------------------------------------------
(* The tree and the files.                                                 *)

(* The holder of the mutex is alone.                                       *)
LEMMA Alone ==
  ASSUME TypeOK, NEW t \in Threads, pc[t] \in Locked
  PROVE  /\ snap_pc = "idle" /\ ~Swapping
         /\ \A u \in Threads \ {t}, k \in Keys : pc[u] \notin Locked /\ ~Pending(u, k)
<1>1. wal_lock = t /\ snap_pc = "idle"
  BY Constants DEF TypeOK
<1>2. \A u \in Threads \ {t} : pc[u] \notin Locked
  BY <1>1 DEF TypeOK
<1> QED BY <1>1, <1>2 DEF Swapping, Pending, Locked

(* When nobody holds the mutex, or the snapshot task does, nothing is      *)
(* pending.                                                                *)
LEMMA NonePending ==
  ASSUME TypeOK, wal_lock \in {None, SnapshotTask}
  PROVE  \A t \in Threads, k \in Keys : ~Pending(t, k)
<1>1. \A t \in Threads : pc[t] \notin Locked
  BY Constants DEF TypeOK
<1> QED BY <1>1 DEF Pending, Locked

LEMMA TreeQuiet ==
  ASSUME TreeIsLog, wal' = wal, snapshot' = snapshot, tree' = tree, phase' = phase,
         Swapping' => Swapping, Swapping => Swapping',
         \A t \in Threads, k \in Keys : Pending(t, k)' <=> Pending(t, k),
         \A t \in Threads, k \in Keys : Pending(t, k) => writes'[t][k] = writes[t][k]
  PROVE  TreeIsLog'
BY DEF TreeIsLog

LEMMA PlainLogged ==
  ASSUME LockedWorkload, TypeOK, LockedShape, NEW t \in Threads, NEW tx \in BOOLEAN, Log(t, tx),
         NEW k \in Keys
  PROVE  Plain(wal', snapshot, k, Len(wal')) =
           IF writes[t][k] = NoWrite THEN Plain(wal, snapshot, k, Len(wal)) ELSE writes[t][k]
<1>1. Len(wal) \in Nat /\ Len(wal') = Len(wal) + 1
  BY LockedLog, LenProperties DEF TypeOK
<1>2. Plain(wal', snapshot, k, Len(wal)) = Plain(wal, snapshot, k, Len(wal))
  BY <1>1, LockedLog, PlainPrefix
<1> QED BY <1>1, <1>2, LockedLog, PlainNext

(* A line was logged: the files changed by the command of t, the tree did  *)
(* not, and the keys of the command are pending.                           *)
LEMMA TreeLogged ==
  ASSUME LockedWorkload, TypeOK, LockedShape, TreeIsLog, NEW t \in Threads, NEW tx \in BOOLEAN,
         Log(t, tx), pc[t] \in {"cas_append", "tx_append"}, phase' = phase,
         snapshot' = snapshot, tree' = tree, writes' = writes,
         \A k \in Keys : Pending(t, k)' <=> k \in Touched(writes[t]),
         \A u \in Threads \ {t}, k \in Keys : ~Pending(u, k)'
  PROVE  TreeIsLog'
<1>1. phase = "up" /\ ~Swapping /\ \A u \in Threads, k \in Keys : ~Pending(u, k)
  BY Alone DEF LockedShape, Locked, Pending
<1>2. Len(wal) \in Nat /\ Len(wal') = Len(wal) + 1
  BY LockedLog, LenProperties DEF TypeOK
<1>3. \A k \in Keys : Plain(wal', snapshot, k, Len(wal')) =
               IF writes[t][k] = NoWrite THEN Plain(wal, snapshot, k, Len(wal)) ELSE writes[t][k]
  BY PlainLogged
<1>4. \A k \in Keys : Plain(wal, snapshot, k, Len(wal)) = PayloadOf(tree[k])
  BY <1>1 DEF TreeIsLog
<1> QED BY <1>1, <1>2, <1>3, <1>4 DEF TreeIsLog, Touched

LEMMA TreeIsLogStep ==
  ASSUME LockedWorkload, TypeOK, LockedInv, [Next]_vars
  PROVE  TreeIsLog'
<1> USE Constants DEF locals, files, tasks, saver, sweeper, env, LockedInv
<1>1. ASSUME NEW t \in Threads, NEW k \in Keys, NEW v \in Values, NEW ttl \in Ttls, NEW e \in Values, CasBegin(t, k, e, v, ttl)
       PROVE  TreeIsLog'
  BY <1>1, TreeQuiet, Alone DEF CasBegin, Ready, Goto, Pending, Swapping, TypeOK, Locked
<1>2. ASSUME NEW t \in Threads, CasHit(t)
       PROVE  TreeIsLog'
  BY <1>2, TreeQuiet, Alone DEF CasHit, Goto, Pending, Swapping, TypeOK, Locked
<1>3. ASSUME NEW t \in Threads, CasMiss(t)
       PROVE  TreeIsLog'
  BY <1>3, TreeQuiet, Alone DEF CasMiss, Return, Goto, Pending, Swapping, TypeOK, Locked
<1>4. ASSUME NEW t \in Threads, CasVersion(t)
       PROVE  TreeIsLog'
  BY <1>4, TreeQuiet, Alone DEF CasVersion, FetchAdd, Goto, Pending, Swapping, TypeOK, Locked
<1>5. ASSUME NEW t \in Threads, CasAppend(t)
       PROVE  TreeIsLog'
  <2>1. \A u \in Threads \ {t} : pc[u] \notin Locked /\ pc'[u] = pc[u]
    BY <1>5, Alone DEF CasAppend, Goto, TypeOK, Locked
  <2>2. \A u \in Threads \ {t}, k \in Keys : ~Pending(u, k)'
    BY <2>1 DEF Pending, Locked
  <2>3. \A k \in Keys : Pending(t, k)' <=> k \in Touched(writes[t])
    BY <1>5 DEF CasAppend, Goto, Pending, Touched, TypeOK
  <2>4. /\ Log(t, FALSE) /\ pc[t] = "cas_append" /\ phase' = phase /\ snapshot' = snapshot
        /\ tree' = tree /\ writes' = writes
    BY <1>5 DEF CasAppend
  <2> QED BY <2>2, <2>3, <2>4, TreeLogged
<1>6. ASSUME NEW t \in Threads, CasInsert(t)
       PROVE  TreeIsLog'
  <2>1. phase = "up" /\ ~Swapping /\ \A u \in Threads \ {t}, k \in Keys : ~Pending(u, k)
    BY <1>6, Alone DEF CasInsert, LockedShape, Locked
  <2>2. /\ wal' = wal /\ snapshot' = snapshot /\ tree' = Applied(writes[t], ver[t])
        /\ \A u \in Threads, k \in Keys : ~Pending(u, k)'
    BY <1>6, <2>1 DEF CasInsert, Return, Goto, Pending, TypeOK
  <2>3. \A k \in Keys : Pending(t, k) <=> writes[t][k] # NoWrite
    BY <1>6 DEF CasInsert, Pending, Touched
  <2>4. \A k \in Keys : PayloadOf(tree'[k]) =
                           IF writes[t][k] = NoWrite THEN PayloadOf(tree[k]) ELSE writes[t][k]
    <3>1. writes[t] \in WriteSet /\ ver[t] \in Nat
      BY DEF TypeOK
    <3> QED BY <2>2, <3>1, AppliedPayload
  <2> QED BY <2>1, <2>2, <2>3, <2>4 DEF TreeIsLog
<1>7. ASSUME NEW t \in Threads, TxBegin(t)
       PROVE  TreeIsLog'
  BY <1>7, TreeQuiet, Alone DEF TxBegin, Ready, Goto, Pending, Swapping, TypeOK, Locked
<1>8. ASSUME NEW t \in Threads, NEW k \in Keys, NEW v \in Values, NEW ttl \in Ttls, TxPut(t, k, v, ttl)
       PROVE  TreeIsLog'
  <2>1. /\ UNCHANGED <<wal, snapshot, tree, phase, pc, todo, snap_pc>>
        /\ pc[t] = "tx_open" /\ \A u \in Threads \ {t} : writes'[u] = writes[u]
    BY <1>8 DEF TxPut, TypeOK
  <2>2. \A u \in Threads, j \in Keys :
          (Pending(u, j)' <=> Pending(u, j)) /\ (Pending(u, j) => writes'[u] = writes[u])
    BY <2>1 DEF Pending
  <2> QED BY <2>1, <2>2, TreeQuiet DEF Swapping
<1>9. ASSUME NEW t \in Threads, NEW k \in Keys, TxDelete(t, k)
       PROVE  TreeIsLog'
  BY <1>9, TreeQuiet, Alone DEF TxDelete, Pending, Swapping, TypeOK, Locked
<1>10. ASSUME NEW t \in Threads, TxRollback(t)
       PROVE  TreeIsLog'
  BY <1>10, TreeQuiet, Alone DEF TxRollback, Return, Goto, Pending, Swapping, TypeOK, Locked
<1>11. ASSUME NEW t \in Threads, TxCommit(t)
       PROVE  TreeIsLog'
  BY <1>11, TreeQuiet, Alone DEF TxCommit, Goto, Pending, Swapping, TypeOK, Locked
<1>12. ASSUME NEW t \in Threads, TxAbort(t)
       PROVE  TreeIsLog'
  BY <1>12, TreeQuiet, Alone DEF TxAbort, Return, Goto, Pending, Swapping, TypeOK, Locked
<1>13. ASSUME NEW t \in Threads, TxVersion(t)
       PROVE  TreeIsLog'
  BY <1>13, TreeQuiet, Alone DEF TxVersion, FetchAdd, Goto, Pending, Swapping, TypeOK, Locked
<1>14. ASSUME NEW t \in Threads, TxAppend(t)
       PROVE  TreeIsLog'
  <2>1. \A u \in Threads \ {t} : pc[u] \notin Locked /\ pc'[u] = pc[u]
    BY <1>14, Alone DEF TxAppend, Goto, TypeOK, Locked
  <2>2. \A u \in Threads \ {t}, k \in Keys : ~Pending(u, k)'
    BY <2>1 DEF Pending, Locked
  <2>3. \A k \in Keys : Pending(t, k)' <=> k \in Touched(writes[t])
    BY <1>14 DEF TxAppend, Goto, Pending, Touched, TypeOK
  <2>4. /\ Log(t, TRUE) /\ pc[t] = "tx_append" /\ phase' = phase /\ snapshot' = snapshot
        /\ tree' = tree /\ writes' = writes
    BY <1>14 DEF TxAppend
  <2> QED BY <2>2, <2>3, <2>4, TreeLogged
<1>15. ASSUME NEW t \in Threads, NEW k \in Keys, TxApply(t, k)
       PROVE  TreeIsLog'
  <2>1. /\ phase = "up" /\ ~Swapping
        /\ \A u \in Threads \ {t}, j \in Keys : ~Pending(u, j)
    BY <1>15, Alone DEF TxApply, LockedShape, Locked
  <2>2. /\ wal' = wal /\ snapshot' = snapshot /\ phase' = phase /\ writes' = writes
        /\ (Swapping' <=> Swapping)
        /\ \A j \in Keys : tree'[j] = IF j = k THEN Applied(writes[t], ver[t])[k] ELSE tree[j]
        /\ \A j \in Keys : Pending(t, j)' <=> Pending(t, j) /\ j # k
        /\ \A u \in Threads \ {t}, j \in Keys : ~Pending(u, j)'
    BY <1>15, <2>1 DEF TxApply, Pending, Swapping, TypeOK, Store
  <2>3. Pending(t, k) /\ writes[t][k] # NoWrite
    BY <1>15 DEF TxApply, Pending, TodoIsTouched, Touched
  <2>4. PayloadOf(tree'[k]) = writes[t][k]
    <3>1. writes[t] \in WriteSet /\ ver[t] \in Nat
      BY DEF TypeOK
    <3>2. PayloadOf(Applied(writes[t], ver[t])[k]) = writes[t][k]
      BY <2>3, <3>1, AppliedPayload
    <3> QED BY <2>2, <3>2
  <2> QED BY <2>1, <2>2, <2>3, <2>4 DEF TreeIsLog
<1>16. ASSUME NEW t \in Threads, TxDone(t)
       PROVE  TreeIsLog'
  <2>1. \A k \in Keys : ~Pending(t, k)
    BY <1>16 DEF TxDone, Pending
  <2>2. \A u \in Threads \ {t}, k \in Keys : ~Pending(u, k)
    BY <1>16, Alone DEF TxDone, Locked
  <2> QED BY <1>16, <2>1, <2>2, TreeQuiet DEF TxDone, Return, Goto, Pending, Swapping, TypeOK
<1>17. ASSUME SnapshotBegin
       PROVE  TreeIsLog'
  BY <1>17, TreeQuiet, Alone DEF SnapshotBegin, Pending, Swapping, TypeOK, Locked
<1>18. ASSUME NEW k \in Keys, SnapshotVisit(k)
       PROVE  TreeIsLog'
  BY <1>18, TreeQuiet, Alone DEF SnapshotVisit, FirstOf, Pending, Swapping, TypeOK, Locked
<1>19. ASSUME SnapshotRename
       PROVE  TreeIsLog'
  BY <1>19 DEF SnapshotRename, TreeIsLog, Swapping
<1>20. ASSUME SnapshotRenameFails
       PROVE  TreeIsLog'
  BY <1>20, TreeQuiet, Alone DEF SnapshotRenameFails, Pending, Swapping, TypeOK, Locked
<1>21. ASSUME SnapshotTruncate
       PROVE  TreeIsLog'
  BY <1>21 DEF SnapshotTruncate, TreeIsLog, Swapping
<1>22. ASSUME SnapshotFlush
       PROVE  TreeIsLog'
  <2>1. wal_lock = SnapshotTask /\ snap_buf = tree
    BY <1>22 DEF SnapshotFlush, TypeOK, BufferIsTree, Swapping
  <2>2. \A t \in Threads, k \in Keys : ~Pending(t, k)'
    BY <1>22, <2>1, NonePending DEF SnapshotFlush, Pending
  <2>3. wal' = wal /\ snapshot' = tree /\ tree' = tree
    BY <1>22, <2>1 DEF SnapshotFlush, LockedWorkload
  <2>4. \A k \in Keys : Plain(wal, tree, k, Len(wal)) = PayloadOf(tree[k])
    BY <1>22, <2>1 DEF SnapshotFlush, BufferIsTree, Swapping
  <2> QED BY <2>2, <2>3, <2>4 DEF TreeIsLog
<1>23. ASSUME Tick
       PROVE  TreeIsLog'
  BY <1>23, TreeQuiet, Alone DEF Tick, Pending, Swapping, TypeOK, Locked
<1>24. ASSUME Crash
       PROVE  TreeIsLog'
  BY <1>24 DEF Crash, TreeIsLog
<1>25. ASSUME LoadSnapshot
       PROVE  TreeIsLog'
  BY <1>25 DEF LoadSnapshot, TreeIsLog
<1>26. ASSUME ReplayCommand
       PROVE  TreeIsLog'
  BY <1>26 DEF ReplayCommand, TreeIsLog
<1>27. ASSUME Serve
       PROVE  TreeIsLog'
  <2>1. pos - 1 = Len(wal) /\ wal_lock = None
    <3>1. Len(wal) \in Nat /\ pos \in Nat
      BY LenProperties DEF TypeOK
    <3> QED BY <1>27, <3>1 DEF Serve, ReplayIsExact, LockedShape
  <2>2. \A t \in Threads, k \in Keys : ~Pending(t, k)'
    BY <1>27, <2>1, NonePending DEF Serve, Pending
  <2> QED BY <1>27, <2>1, <2>2 DEF Serve, TreeIsLog, ReplayIsExact
<1>28. CASE UNCHANGED vars
  BY <1>28, TreeQuiet, Alone DEF vars, Pending, Swapping, TypeOK, Locked
<1> QED
  BY <1>1, <1>2, <1>3, <1>4, <1>5, <1>6, <1>7, <1>8, <1>9, <1>10, <1>11, <1>12,
     <1>13, <1>14, <1>15, <1>16, <1>17, <1>18, <1>19, <1>20, <1>21, <1>22,
     <1>23, <1>24, <1>25, <1>26, <1>27, <1>28, LockedSteps
  DEF LockedNext, LockedRequest, FinishSnapshot

LEMMA BufferIsTreeStep ==
  ASSUME LockedWorkload, TypeOK, LockedInv, [Next]_vars
  PROVE  BufferIsTree'
<1> USE Constants DEF locals, files, tasks, saver, sweeper, env, LockedInv
<1>1. ASSUME NEW t \in Threads, NEW k \in Keys, NEW v \in Values, NEW ttl \in Ttls, NEW e \in Values, CasBegin(t, k, e, v, ttl)
       PROVE  BufferIsTree'
  BY <1>1, Alone DEF CasBegin, Ready, Goto, BufferIsTree, Swapping, TypeOK, Locked
<1>2. ASSUME NEW t \in Threads, CasHit(t)
       PROVE  BufferIsTree'
  BY <1>2, Alone DEF CasHit, Goto, BufferIsTree, Swapping, TypeOK, Locked
<1>3. ASSUME NEW t \in Threads, CasMiss(t)
       PROVE  BufferIsTree'
  BY <1>3, Alone DEF CasMiss, Return, Goto, BufferIsTree, Swapping, TypeOK, Locked
<1>4. ASSUME NEW t \in Threads, CasVersion(t)
       PROVE  BufferIsTree'
  BY <1>4, Alone DEF CasVersion, FetchAdd, Goto, BufferIsTree, Swapping, TypeOK, Locked
<1>5. ASSUME NEW t \in Threads, CasAppend(t)
       PROVE  BufferIsTree'
  BY <1>5, Alone DEF CasAppend, Goto, BufferIsTree, Swapping, TypeOK, Locked
<1>6. ASSUME NEW t \in Threads, CasInsert(t)
       PROVE  BufferIsTree'
  BY <1>6, Alone DEF CasInsert, Return, Goto, BufferIsTree, Swapping, TypeOK, Locked
<1>7. ASSUME NEW t \in Threads, TxBegin(t)
       PROVE  BufferIsTree'
  BY <1>7, Alone DEF TxBegin, Ready, Goto, BufferIsTree, Swapping, TypeOK, Locked
<1>8. ASSUME NEW t \in Threads, NEW k \in Keys, NEW v \in Values, NEW ttl \in Ttls, TxPut(t, k, v, ttl)
       PROVE  BufferIsTree'
  BY <1>8, Alone DEF TxPut, BufferIsTree, Swapping, TypeOK, Locked
<1>9. ASSUME NEW t \in Threads, NEW k \in Keys, TxDelete(t, k)
       PROVE  BufferIsTree'
  BY <1>9, Alone DEF TxDelete, BufferIsTree, Swapping, TypeOK, Locked
<1>10. ASSUME NEW t \in Threads, TxRollback(t)
       PROVE  BufferIsTree'
  BY <1>10, Alone DEF TxRollback, Return, Goto, BufferIsTree, Swapping, TypeOK, Locked
<1>11. ASSUME NEW t \in Threads, TxCommit(t)
       PROVE  BufferIsTree'
  BY <1>11, Alone DEF TxCommit, Goto, BufferIsTree, Swapping, TypeOK, Locked
<1>12. ASSUME NEW t \in Threads, TxAbort(t)
       PROVE  BufferIsTree'
  BY <1>12, Alone DEF TxAbort, Return, Goto, BufferIsTree, Swapping, TypeOK, Locked
<1>13. ASSUME NEW t \in Threads, TxVersion(t)
       PROVE  BufferIsTree'
  BY <1>13, Alone DEF TxVersion, FetchAdd, Goto, BufferIsTree, Swapping, TypeOK, Locked
<1>14. ASSUME NEW t \in Threads, TxAppend(t)
       PROVE  BufferIsTree'
  BY <1>14, Alone DEF TxAppend, Goto, BufferIsTree, Swapping, TypeOK, Locked
<1>15. ASSUME NEW t \in Threads, NEW k \in Keys, TxApply(t, k)
       PROVE  BufferIsTree'
  BY <1>15, Alone DEF TxApply, BufferIsTree, Swapping, TypeOK, Locked
<1>16. ASSUME NEW t \in Threads, TxDone(t)
       PROVE  BufferIsTree'
  BY <1>16, Alone DEF TxDone, Return, Goto, BufferIsTree, Swapping, TypeOK, Locked
<1>17. ASSUME SnapshotBegin
       PROVE  BufferIsTree'
  BY <1>17, Alone DEF SnapshotBegin, BufferIsTree, Swapping, TypeOK, Locked
<1>18. ASSUME NEW k \in Keys, SnapshotVisit(k)
       PROVE  BufferIsTree'
  <2>1. LivePart(tree)[k] = tree[k]
    BY ForeverLive DEF LockedShape, TypeOK
  <2> QED BY <1>18, <2>1 DEF SnapshotVisit, BufferIsTree, Swapping, TypeOK, Store
<1>19. ASSUME SnapshotRename
       PROVE  BufferIsTree'
  <2>1. snap_pc = "write" /\ phase = "up" /\ \A k \in Keys : snap_buf[k] = tree[k]
    BY <1>19 DEF SnapshotRename, BufferIsTree, TypeOK, LockedShape
  <2>2. snap_buf = [k \in Keys |-> snap_buf[k]] /\ tree = [k \in Keys |-> tree[k]]
    BY DEF TypeOK, Store
  <2>3. snap_buf = tree
    BY <2>1, <2>2, Zenon
  <2>4. \A k \in Keys : Plain(wal, snap_buf, k, Len(wal)) = PayloadOf(snap_buf[k])
    <3>1. \A t \in Threads, k \in Keys : ~Pending(t, k)
      BY <2>1, NonePending DEF TypeOK
    <3>2. \A k \in Keys : Plain(wal, snapshot, k, Len(wal)) = PayloadOf(tree[k])
      BY <2>1, <3>1 DEF TreeIsLog, Swapping
    <3> QED BY <2>1, <3>2 DEF Plain
  <2> QED BY <1>19, <2>1, <2>3, <2>4 DEF SnapshotRename, BufferIsTree, Swapping
<1>20. ASSUME SnapshotRenameFails
       PROVE  BufferIsTree'
  BY <1>20, Alone DEF SnapshotRenameFails, BufferIsTree, Swapping, TypeOK, Locked
<1>21. ASSUME SnapshotTruncate
       PROVE  BufferIsTree'
  <2>1. Swapping /\ Swapping' /\ snap_buf' = snap_buf /\ tree' = tree /\ phase' = phase
    BY <1>21 DEF SnapshotTruncate, Swapping
  <2>2. \A k \in Keys : Plain(wal', snap_buf, k, Len(wal')) = PayloadOf(snap_buf[k])
    <3>1. CASE wal' = <<>>
      <4>1. Len(wal') = 0
        BY <3>1, EmptySeq
      <4> QED BY <4>1 DEF Plain
    <3>2. CASE wal' = wal
      BY <2>1, <3>2 DEF BufferIsTree
    <3> QED BY <1>21, <3>1, <3>2 DEF SnapshotTruncate, truncate
  <2>3. snap_pc' # "write"
    BY <2>1 DEF Swapping
  <2> QED BY <2>1, <2>2, <2>3 DEF BufferIsTree
<1>22. ASSUME SnapshotFlush
       PROVE  BufferIsTree'
  BY <1>22, Alone DEF SnapshotFlush, BufferIsTree, Swapping, TypeOK, Locked
<1>23. ASSUME Tick
       PROVE  BufferIsTree'
  BY <1>23, Alone DEF Tick, BufferIsTree, Swapping, TypeOK, Locked
<1>24. ASSUME Crash
       PROVE  BufferIsTree'
  BY <1>24, Alone DEF Crash, BufferIsTree, Swapping, TypeOK, Locked
<1>25. ASSUME LoadSnapshot
       PROVE  BufferIsTree'
  BY <1>25, Constants DEF LoadSnapshot, LockedShape, BufferIsTree, Swapping, TypeOK
<1>26. ASSUME ReplayCommand
       PROVE  BufferIsTree'
  BY <1>26, Constants DEF ReplayCommand, LockedShape, BufferIsTree, Swapping, TypeOK
<1>27. ASSUME Serve
       PROVE  BufferIsTree'
  BY <1>27, Constants DEF Serve, LockedShape, BufferIsTree, Swapping, TypeOK
<1>28. CASE UNCHANGED vars
  BY <1>28, Alone DEF vars, BufferIsTree, Swapping, TypeOK, Locked
<1> QED
  BY <1>1, <1>2, <1>3, <1>4, <1>5, <1>6, <1>7, <1>8, <1>9, <1>10, <1>11, <1>12,
     <1>13, <1>14, <1>15, <1>16, <1>17, <1>18, <1>19, <1>20, <1>21, <1>22,
     <1>23, <1>24, <1>25, <1>26, <1>27, <1>28, LockedSteps
  DEF LockedNext, LockedRequest, FinishSnapshot

LEMMA ReplayIsExactStep ==
  ASSUME LockedWorkload, TypeOK, LockedInv, [Next]_vars
  PROVE  ReplayIsExact'
<1> USE Constants DEF locals, files, tasks, saver, sweeper, env, LockedInv
<1>1. ASSUME NEW t \in Threads, NEW k \in Keys, NEW v \in Values, NEW ttl \in Ttls, NEW e \in Values, CasBegin(t, k, e, v, ttl)
       PROVE  ReplayIsExact'
  BY <1>1 DEF CasBegin, Ready, Goto, LockedShape, ReplayIsExact, TypeOK
<1>2. ASSUME NEW t \in Threads, CasHit(t)
       PROVE  ReplayIsExact'
  BY <1>2 DEF CasHit, Goto, LockedShape, ReplayIsExact, TypeOK
<1>3. ASSUME NEW t \in Threads, CasMiss(t)
       PROVE  ReplayIsExact'
  BY <1>3 DEF CasMiss, Return, Goto, LockedShape, ReplayIsExact, TypeOK
<1>4. ASSUME NEW t \in Threads, CasVersion(t)
       PROVE  ReplayIsExact'
  BY <1>4 DEF CasVersion, FetchAdd, Goto, LockedShape, ReplayIsExact, TypeOK
<1>5. ASSUME NEW t \in Threads, CasAppend(t)
       PROVE  ReplayIsExact'
  BY <1>5 DEF CasAppend, Goto, LockedShape, ReplayIsExact, TypeOK
<1>6. ASSUME NEW t \in Threads, CasInsert(t)
       PROVE  ReplayIsExact'
  BY <1>6 DEF CasInsert, Return, Goto, LockedShape, ReplayIsExact, TypeOK
<1>7. ASSUME NEW t \in Threads, TxBegin(t)
       PROVE  ReplayIsExact'
  BY <1>7 DEF TxBegin, Ready, Goto, LockedShape, ReplayIsExact, TypeOK
<1>8. ASSUME NEW t \in Threads, NEW k \in Keys, NEW v \in Values, NEW ttl \in Ttls, TxPut(t, k, v, ttl)
       PROVE  ReplayIsExact'
  BY <1>8 DEF TxPut, LockedShape, ReplayIsExact, TypeOK
<1>9. ASSUME NEW t \in Threads, NEW k \in Keys, TxDelete(t, k)
       PROVE  ReplayIsExact'
  BY <1>9 DEF TxDelete, LockedShape, ReplayIsExact, TypeOK
<1>10. ASSUME NEW t \in Threads, TxRollback(t)
       PROVE  ReplayIsExact'
  BY <1>10 DEF TxRollback, Return, Goto, LockedShape, ReplayIsExact, TypeOK
<1>11. ASSUME NEW t \in Threads, TxCommit(t)
       PROVE  ReplayIsExact'
  BY <1>11 DEF TxCommit, Goto, LockedShape, ReplayIsExact, TypeOK
<1>12. ASSUME NEW t \in Threads, TxAbort(t)
       PROVE  ReplayIsExact'
  BY <1>12 DEF TxAbort, Return, Goto, LockedShape, ReplayIsExact, TypeOK
<1>13. ASSUME NEW t \in Threads, TxVersion(t)
       PROVE  ReplayIsExact'
  BY <1>13 DEF TxVersion, FetchAdd, Goto, LockedShape, ReplayIsExact, TypeOK
<1>14. ASSUME NEW t \in Threads, TxAppend(t)
       PROVE  ReplayIsExact'
  BY <1>14 DEF TxAppend, Goto, LockedShape, ReplayIsExact, TypeOK
<1>15. ASSUME NEW t \in Threads, NEW k \in Keys, TxApply(t, k)
       PROVE  ReplayIsExact'
  BY <1>15 DEF TxApply, LockedShape, ReplayIsExact, TypeOK
<1>16. ASSUME NEW t \in Threads, TxDone(t)
       PROVE  ReplayIsExact'
  BY <1>16 DEF TxDone, Return, Goto, LockedShape, ReplayIsExact, TypeOK
<1>17. ASSUME SnapshotBegin
       PROVE  ReplayIsExact'
  BY <1>17 DEF SnapshotBegin, LockedShape, ReplayIsExact, TypeOK
<1>18. ASSUME NEW k \in Keys, SnapshotVisit(k)
       PROVE  ReplayIsExact'
  BY <1>18 DEF SnapshotVisit, FirstOf, LockedShape, ReplayIsExact, TypeOK
<1>19. ASSUME SnapshotRename
       PROVE  ReplayIsExact'
  BY <1>19 DEF SnapshotRename, LockedShape, ReplayIsExact, TypeOK
<1>20. ASSUME SnapshotRenameFails
       PROVE  ReplayIsExact'
  BY <1>20 DEF SnapshotRenameFails, LockedShape, ReplayIsExact, TypeOK
<1>21. ASSUME SnapshotTruncate
       PROVE  ReplayIsExact'
  BY <1>21 DEF SnapshotTruncate, truncate, LockedShape, ReplayIsExact, TypeOK
<1>22. ASSUME SnapshotFlush
       PROVE  ReplayIsExact'
  BY <1>22 DEF SnapshotFlush, LockedShape, ReplayIsExact, TypeOK
<1>23. ASSUME Tick
       PROVE  ReplayIsExact'
  BY <1>23 DEF Tick, LockedShape, ReplayIsExact, TypeOK
<1>24. ASSUME Crash
       PROVE  ReplayIsExact'
  BY <1>24 DEF Crash, LockedShape, ReplayIsExact, TypeOK
<1>25. ASSUME LoadSnapshot
       PROVE  ReplayIsExact'
  <2>1. LivePart(snapshot) = snapshot /\ Readable(wal)
    BY ForeverLive DEF LockedShape, TypeOK, Readable, Sound
  <2>2. /\ tree' = snapshot /\ pos' = 1 /\ wal' = wal /\ snapshot' = snapshot
        /\ Len(wal) \in Nat
    BY <1>25, <2>1, LenProperties DEF LoadSnapshot, TypeOK
  <2>3. \A k \in Keys : Plain(wal, snapshot, k, 0) = PayloadOf(snapshot[k])
    BY DEF Plain
  <2>4. pos' - 1 = 0 /\ pos' <= Len(wal') + 1
    BY <2>2
  <2> QED BY <2>2, <2>3, <2>4 DEF ReplayIsExact
<1>26. ASSUME ReplayCommand
       PROVE  ReplayIsExact'
  <2> DEFINE w == wal[pos].cmd.writes
  <2>1. PICK v \in Nat : tree' = Applied(w, v)
    BY <1>26, ReplayApplies
  <2>2. w \in WriteSet /\ pos \in 1..Len(wal) /\ Len(wal) \in Nat
    BY <1>26, ReplayApplies, LenProperties DEF TypeOK
  <2>3. \A k \in Keys : PayloadOf(tree'[k]) = IF w[k] = NoWrite THEN PayloadOf(tree[k]) ELSE w[k]
    BY <2>1, <2>2, AppliedPayload
  <2>4. pos - 1 \in Nat /\ (pos - 1) + 1 = pos
    BY <2>2
  <2> HIDE DEF w
  <2>5. \A k \in Keys : Plain(wal, snapshot, k, pos) =
                           IF w[k] = NoWrite THEN Plain(wal, snapshot, k, pos - 1) ELSE w[k]
    BY <2>4, PlainNext DEF w
  <2>6. /\ pos' = pos + 1 /\ wal' = wal /\ snapshot' = snapshot /\ phase = "replay"
        /\ pos' - 1 = pos /\ pos' <= Len(wal') + 1
    BY <1>26, <2>2 DEF ReplayCommand
  <2> QED BY <2>3, <2>5, <2>6 DEF ReplayIsExact
<1>27. ASSUME Serve
       PROVE  ReplayIsExact'
  BY <1>27 DEF Serve, LockedShape, ReplayIsExact, TypeOK
<1>28. CASE UNCHANGED vars
  BY <1>28 DEF vars, LockedShape, ReplayIsExact, TypeOK
<1> QED
  BY <1>1, <1>2, <1>3, <1>4, <1>5, <1>6, <1>7, <1>8, <1>9, <1>10, <1>11, <1>12,
     <1>13, <1>14, <1>15, <1>16, <1>17, <1>18, <1>19, <1>20, <1>21, <1>22,
     <1>23, <1>24, <1>25, <1>26, <1>27, <1>28, LockedSteps
  DEF LockedNext, LockedRequest, FinishSnapshot

LEMMA TodoIsTouchedStep ==
  ASSUME LockedWorkload, TypeOK, LockedInv, [Next]_vars
  PROVE  TodoIsTouched'
<1> USE Constants DEF locals, files, tasks, saver, sweeper, env, LockedInv
<1>1. ASSUME NEW t \in Threads, NEW k \in Keys, NEW v \in Values, NEW ttl \in Ttls, NEW e \in Values, CasBegin(t, k, e, v, ttl)
       PROVE  TodoIsTouched'
  BY <1>1 DEF CasBegin, Ready, Goto, TodoIsTouched, TypeOK, Locked
<1>2. ASSUME NEW t \in Threads, CasHit(t)
       PROVE  TodoIsTouched'
  BY <1>2 DEF CasHit, Goto, TodoIsTouched, TypeOK, Locked
<1>3. ASSUME NEW t \in Threads, CasMiss(t)
       PROVE  TodoIsTouched'
  BY <1>3 DEF CasMiss, Return, Goto, TodoIsTouched, TypeOK, Locked
<1>4. ASSUME NEW t \in Threads, CasVersion(t)
       PROVE  TodoIsTouched'
  BY <1>4 DEF CasVersion, FetchAdd, Goto, TodoIsTouched, TypeOK, Locked
<1>5. ASSUME NEW t \in Threads, CasAppend(t)
       PROVE  TodoIsTouched'
  BY <1>5 DEF CasAppend, Goto, TodoIsTouched, TypeOK, Locked
<1>6. ASSUME NEW t \in Threads, CasInsert(t)
       PROVE  TodoIsTouched'
  BY <1>6 DEF CasInsert, Return, Goto, TodoIsTouched, TypeOK, Locked
<1>7. ASSUME NEW t \in Threads, TxBegin(t)
       PROVE  TodoIsTouched'
  BY <1>7 DEF TxBegin, Ready, Goto, TodoIsTouched, TypeOK, Locked
<1>8. ASSUME NEW t \in Threads, NEW k \in Keys, NEW v \in Values, NEW ttl \in Ttls, TxPut(t, k, v, ttl)
       PROVE  TodoIsTouched'
  BY <1>8 DEF TxPut, TodoIsTouched, TypeOK, Locked
<1>9. ASSUME NEW t \in Threads, NEW k \in Keys, TxDelete(t, k)
       PROVE  TodoIsTouched'
  BY <1>9 DEF TxDelete, TodoIsTouched, TypeOK, Locked
<1>10. ASSUME NEW t \in Threads, TxRollback(t)
       PROVE  TodoIsTouched'
  BY <1>10 DEF TxRollback, Return, Goto, TodoIsTouched, TypeOK, Locked
<1>11. ASSUME NEW t \in Threads, TxCommit(t)
       PROVE  TodoIsTouched'
  BY <1>11 DEF TxCommit, Goto, TodoIsTouched, TypeOK, Locked
<1>12. ASSUME NEW t \in Threads, TxAbort(t)
       PROVE  TodoIsTouched'
  BY <1>12 DEF TxAbort, Return, Goto, TodoIsTouched, TypeOK, Locked
<1>13. ASSUME NEW t \in Threads, TxVersion(t)
       PROVE  TodoIsTouched'
  BY <1>13 DEF TxVersion, FetchAdd, Goto, TodoIsTouched, TypeOK, Locked
<1>14. ASSUME NEW t \in Threads, TxAppend(t)
       PROVE  TodoIsTouched'
  BY <1>14 DEF TxAppend, Goto, TodoIsTouched, TypeOK, Locked
<1>15. ASSUME NEW t \in Threads, NEW k \in Keys, TxApply(t, k)
       PROVE  TodoIsTouched'
  BY <1>15 DEF TxApply, TodoIsTouched, TypeOK, Locked
<1>16. ASSUME NEW t \in Threads, TxDone(t)
       PROVE  TodoIsTouched'
  BY <1>16 DEF TxDone, Return, Goto, TodoIsTouched, TypeOK, Locked
<1>17. ASSUME SnapshotBegin
       PROVE  TodoIsTouched'
  BY <1>17 DEF SnapshotBegin, TodoIsTouched, TypeOK, Locked
<1>18. ASSUME NEW k \in Keys, SnapshotVisit(k)
       PROVE  TodoIsTouched'
  BY <1>18 DEF SnapshotVisit, FirstOf, TodoIsTouched, TypeOK, Locked
<1>19. ASSUME SnapshotRename
       PROVE  TodoIsTouched'
  BY <1>19 DEF SnapshotRename, TodoIsTouched, TypeOK, Locked
<1>20. ASSUME SnapshotRenameFails
       PROVE  TodoIsTouched'
  BY <1>20 DEF SnapshotRenameFails, TodoIsTouched, TypeOK, Locked
<1>21. ASSUME SnapshotTruncate
       PROVE  TodoIsTouched'
  BY <1>21 DEF SnapshotTruncate, truncate, TodoIsTouched, TypeOK, Locked
<1>22. ASSUME SnapshotFlush
       PROVE  TodoIsTouched'
  BY <1>22 DEF SnapshotFlush, TodoIsTouched, TypeOK, Locked
<1>23. ASSUME Tick
       PROVE  TodoIsTouched'
  BY <1>23 DEF Tick, TodoIsTouched, TypeOK, Locked
<1>24. ASSUME Crash
       PROVE  TodoIsTouched'
  BY <1>24 DEF Crash, TodoIsTouched, TypeOK, Locked
<1>25. ASSUME LoadSnapshot
       PROVE  TodoIsTouched'
  BY <1>25 DEF LoadSnapshot, TodoIsTouched, TypeOK, Locked
<1>26. ASSUME ReplayCommand
       PROVE  TodoIsTouched'
  BY <1>26 DEF ReplayCommand, TodoIsTouched, TypeOK, Locked
<1>27. ASSUME Serve
       PROVE  TodoIsTouched'
  BY <1>27 DEF Serve, TodoIsTouched, TypeOK, Locked
<1>28. CASE UNCHANGED vars
  BY <1>28 DEF vars, TodoIsTouched, TypeOK, Locked
<1> QED
  BY <1>1, <1>2, <1>3, <1>4, <1>5, <1>6, <1>7, <1>8, <1>9, <1>10, <1>11, <1>12,
     <1>13, <1>14, <1>15, <1>16, <1>17, <1>18, <1>19, <1>20, <1>21, <1>22,
     <1>23, <1>24, <1>25, <1>26, <1>27, <1>28, LockedSteps
  DEF LockedNext, LockedRequest, FinishSnapshot

(* Between its comparison and its insert.                                  *)
Compared == {"cas_version", "cas_append", "cas_insert"}

LEMMA CasQuiet ==
  ASSUME CasReplacesExpected, now' = now,
         \A t \in Threads : pc'[t] \in Compared =>
           /\ pc[t] \in Compared \/ (pc[t] = "cas_compare" /\ CasMatches(t))
           /\ writes'[t] = writes[t] /\ expected'[t] = expected[t] /\ tree' = tree
  PROVE  CasReplacesExpected'
<1>1. \A t \in Threads : pc'[t] \in Compared => CasMatches(t)
  BY DEF CasReplacesExpected, Compared
<1>2. \A t \in Threads : pc'[t] \in Compared => CasMatches(t)'
  BY <1>1 DEF CasMatches, Touched, Matches, Expired, is_expired
<1> QED BY <1>2 DEF CasReplacesExpected, Compared

LEMMA CasReplacesExpectedStep ==
  ASSUME LockedWorkload, TypeOK, LockedInv, [Next]_vars
  PROVE  CasReplacesExpected'
<1> USE Constants DEF locals, files, tasks, saver, sweeper, env, LockedInv
<1>1. ASSUME NEW t \in Threads, NEW k \in Keys, NEW v \in Values, NEW ttl \in Ttls, NEW e \in Values, CasBegin(t, k, e, v, ttl)
       PROVE  CasReplacesExpected'
  BY <1>1, CasQuiet DEF CasBegin, Ready, Goto, Compared, TypeOK, Locked
<1>2. ASSUME NEW t \in Threads, CasHit(t)
       PROVE  CasReplacesExpected'
  BY <1>2, CasQuiet DEF CasHit, Goto, Compared, TypeOK, Locked
<1>3. ASSUME NEW t \in Threads, CasMiss(t)
       PROVE  CasReplacesExpected'
  BY <1>3, CasQuiet DEF CasMiss, Return, Goto, Compared, TypeOK, Locked
<1>4. ASSUME NEW t \in Threads, CasVersion(t)
       PROVE  CasReplacesExpected'
  BY <1>4, CasQuiet DEF CasVersion, FetchAdd, Goto, Compared, TypeOK, Locked
<1>5. ASSUME NEW t \in Threads, CasAppend(t)
       PROVE  CasReplacesExpected'
  BY <1>5, CasQuiet DEF CasAppend, Goto, Compared, TypeOK, Locked
<1>6. ASSUME NEW t \in Threads, CasInsert(t)
       PROVE  CasReplacesExpected'
  <2>1. \A u \in Threads : pc'[u] \notin Compared
    BY <1>6, Alone DEF CasInsert, Return, Goto, Compared, TypeOK, Locked, LockedShape
  <2> QED BY <2>1 DEF CasReplacesExpected, Compared
<1>7. ASSUME NEW t \in Threads, TxBegin(t)
       PROVE  CasReplacesExpected'
  BY <1>7, CasQuiet DEF TxBegin, Ready, Goto, Compared, TypeOK, Locked
<1>8. ASSUME NEW t \in Threads, NEW k \in Keys, NEW v \in Values, NEW ttl \in Ttls, TxPut(t, k, v, ttl)
       PROVE  CasReplacesExpected'
  BY <1>8, CasQuiet DEF TxPut, Compared, TypeOK, Locked
<1>9. ASSUME NEW t \in Threads, NEW k \in Keys, TxDelete(t, k)
       PROVE  CasReplacesExpected'
  BY <1>9, CasQuiet DEF TxDelete, Compared, TypeOK, Locked
<1>10. ASSUME NEW t \in Threads, TxRollback(t)
       PROVE  CasReplacesExpected'
  BY <1>10, CasQuiet DEF TxRollback, Return, Goto, Compared, TypeOK, Locked
<1>11. ASSUME NEW t \in Threads, TxCommit(t)
       PROVE  CasReplacesExpected'
  BY <1>11, CasQuiet DEF TxCommit, Goto, Compared, TypeOK, Locked
<1>12. ASSUME NEW t \in Threads, TxAbort(t)
       PROVE  CasReplacesExpected'
  BY <1>12, CasQuiet DEF TxAbort, Return, Goto, Compared, TypeOK, Locked
<1>13. ASSUME NEW t \in Threads, TxVersion(t)
       PROVE  CasReplacesExpected'
  BY <1>13, CasQuiet DEF TxVersion, FetchAdd, Goto, Compared, TypeOK, Locked
<1>14. ASSUME NEW t \in Threads, TxAppend(t)
       PROVE  CasReplacesExpected'
  BY <1>14, CasQuiet DEF TxAppend, Goto, Compared, TypeOK, Locked
<1>15. ASSUME NEW t \in Threads, NEW k \in Keys, TxApply(t, k)
       PROVE  CasReplacesExpected'
  <2>1. \A u \in Threads : pc'[u] \notin Compared
    BY <1>15, Alone DEF TxApply, Compared, TypeOK, Locked, LockedShape
  <2> QED BY <2>1 DEF CasReplacesExpected, Compared
<1>16. ASSUME NEW t \in Threads, TxDone(t)
       PROVE  CasReplacesExpected'
  BY <1>16, CasQuiet DEF TxDone, Return, Goto, Compared, TypeOK, Locked
<1>17. ASSUME SnapshotBegin
       PROVE  CasReplacesExpected'
  BY <1>17, CasQuiet DEF SnapshotBegin, Compared, TypeOK, Locked
<1>18. ASSUME NEW k \in Keys, SnapshotVisit(k)
       PROVE  CasReplacesExpected'
  BY <1>18, CasQuiet DEF SnapshotVisit, FirstOf, Compared, TypeOK, Locked
<1>19. ASSUME SnapshotRename
       PROVE  CasReplacesExpected'
  BY <1>19, CasQuiet DEF SnapshotRename, Compared, TypeOK, Locked
<1>20. ASSUME SnapshotRenameFails
       PROVE  CasReplacesExpected'
  BY <1>20, CasQuiet DEF SnapshotRenameFails, Compared, TypeOK, Locked
<1>21. ASSUME SnapshotTruncate
       PROVE  CasReplacesExpected'
  BY <1>21, CasQuiet DEF SnapshotTruncate, truncate, Compared, TypeOK, Locked
<1>22. ASSUME SnapshotFlush
       PROVE  CasReplacesExpected'
  BY <1>22, CasQuiet DEF SnapshotFlush, Compared, TypeOK, Locked
<1>23. ASSUME Tick
       PROVE  CasReplacesExpected'
  <2>1. \A k \in Keys : tree[k] # None => ~Expired(tree[k]) /\ ~Expired(tree[k])'
    BY <1>23 DEF Tick, LockedShape, ForeverStore, Expired, is_expired
  <2>2. /\ tree' = tree /\ writes' = writes /\ expected' = expected /\ pc' = pc
    BY <1>23 DEF Tick
  <2>3. \A t \in Threads : CasMatches(t) => CasMatches(t)'
    BY <2>1, <2>2 DEF CasMatches, Touched, Matches
  <2> QED BY <2>2, <2>3 DEF CasReplacesExpected
<1>24. ASSUME Crash
       PROVE  CasReplacesExpected'
  <2>1. \A u \in Threads : pc'[u] \notin Compared
    BY <1>24 DEF Crash, Compared, TypeOK, Locked, LockedShape
  <2> QED BY <2>1 DEF CasReplacesExpected, Compared
<1>25. ASSUME LoadSnapshot
       PROVE  CasReplacesExpected'
  <2>1. \A u \in Threads : pc'[u] \notin Compared
    BY <1>25 DEF LoadSnapshot, Compared, TypeOK, Locked, LockedShape
  <2> QED BY <2>1 DEF CasReplacesExpected, Compared
<1>26. ASSUME ReplayCommand
       PROVE  CasReplacesExpected'
  <2>1. \A u \in Threads : pc'[u] \notin Compared
    BY <1>26 DEF ReplayCommand, Compared, TypeOK, Locked, LockedShape
  <2> QED BY <2>1 DEF CasReplacesExpected, Compared
<1>27. ASSUME Serve
       PROVE  CasReplacesExpected'
  BY <1>27, CasQuiet DEF Serve, Compared, TypeOK, Locked
<1>28. CASE UNCHANGED vars
  BY <1>28, CasQuiet DEF vars, Compared, TypeOK, Locked
<1> QED
  BY <1>1, <1>2, <1>3, <1>4, <1>5, <1>6, <1>7, <1>8, <1>9, <1>10, <1>11, <1>12,
     <1>13, <1>14, <1>15, <1>16, <1>17, <1>18, <1>19, <1>20, <1>21, <1>22,
     <1>23, <1>24, <1>25, <1>26, <1>27, <1>28, LockedSteps
  DEF LockedNext, LockedRequest, FinishSnapshot

-----------------------------------------------------------------------------
(* The theorems.                                                           *)

LEMMA LockedInvariant ==
  ASSUME LockedWorkload
  PROVE  Spec => []LockedInv
<1>1. Init => LockedInv
  <2> SUFFICES ASSUME Init PROVE LockedInv
    OBVIOUS
  <2>1. LockedShape
    BY Constants DEF Init, LockedShape, ForeverStore, EmptyStore, Forever, NoWrites, LockedWorkload
  <2> QED
    BY <2>1 DEF Init, LockedInv, TreeIsLog, BufferIsTree, Swapping, ReplayIsExact,
                TodoIsTouched, CasReplacesExpected
<1>2. TypeOK /\ LockedInv /\ [Next]_vars => LockedInv'
  BY LockedShapeStep, TreeIsLogStep, BufferIsTreeStep, ReplayIsExactStep, TodoIsTouchedStep,
     CasReplacesExpectedStep DEF LockedInv
<1> QED BY <1>1, <1>2, TypeCorrect, PTL DEF Spec

(* Sound files are read as they stand.                                     *)
LEMMA RecoveredPlain ==
  TypeOK /\ LockedShape =>
    \A k \in Keys : Recovered(k, Len(wal)) = Plain(wal, snapshot, k, Len(wal))
<1> SUFFICES ASSUME TypeOK, LockedShape, NEW k \in Keys
             PROVE  Recovered(k, Len(wal)) = Plain(wal, snapshot, k, Len(wal))
  OBVIOUS
<1>1. Readable(wal) /\ DOMAIN wal = 1..Len(wal)
  BY LenProperties DEF LockedShape, Sound, Readable, TypeOK
<1>2. ASSUME NEW i \in 1..Len(wal)
      PROVE  wal[i].ok /\ wal[i].cmd.writes \in WriteSet /\ Forever(wal[i].cmd.writes)
  <2>1. wal[i] \in Line /\ Sound(wal[i])
    BY <1>1, ElementOfSeq DEF LockedShape, TypeOK
  <2>2. wal[i].cmd \in WalCommand
    BY <2>1 DEF Line, Sound
  <2> QED BY <2>1, <2>2 DEF Sound, WalCommand
<1>3. \A i \in 1..Len(wal) : Unexpired(wal[i].cmd.writes) = wal[i].cmd.writes
  BY <1>2, ForeverUnexpired
<1>4. Writers(k, Len(wal)) = {i \in 1..Len(wal) : wal[i].cmd.writes[k] # NoWrite}
  BY <1>1, <1>2, <1>3 DEF Writers
<1>5. LivePart(snapshot) = snapshot
  BY ForeverLive DEF LockedShape, TypeOK
<1> QED BY <1>4, <1>5 DEF Recovered, Plain

LEMMA TreeRecoverable ==
  TypeOK /\ LockedInv => RecoverableTree
<1> SUFFICES ASSUME TypeOK, LockedInv, phase = "up", ~Swapping, NEW k \in Settled
             PROVE  Recovered(k, Len(wal)) = PayloadOf(LivePart(tree)[k])
  BY DEF RecoverableTree
<1>1. k \in Keys /\ \A t \in Threads : ~Pending(t, k)
  BY DEF Settled, Unsettled, Pending, LockedInv, TodoIsTouched
<1>2. Plain(wal, snapshot, k, Len(wal)) = PayloadOf(tree[k])
  BY <1>1 DEF LockedInv, TreeIsLog
<1>3. LivePart(tree) = tree
  BY ForeverLive DEF LockedInv, LockedShape, TypeOK
<1> QED BY <1>1, <1>2, <1>3, RecoveredPlain DEF LockedInv

(* When cas and transactions are the only writers, a restart at any moment *)
(* outside the file swap brings back what readers see: the log, the        *)
(* snapshot and the tree never drift apart.                                *)
THEOREM LockedDurability ==
  ASSUME LockedWorkload
  PROVE  Spec => []RecoverableTree
<1>1. TypeOK /\ LockedInv => RecoverableTree
  BY TreeRecoverable
<1> QED BY <1>1, LockedInvariant, TypeCorrect, PTL

(* Nobody changes the record between the comparison of a cas and its       *)
(* insert.                                                                 *)
THEOREM CasAtomicity ==
  ASSUME LockedWorkload
  PROVE  Spec => []CasReplacesExpected
<1>1. LockedInv => CasReplacesExpected
  BY DEF LockedInv
<1> QED BY <1>1, LockedInvariant, PTL

(* Only a crash takes a server down.                                       *)
LEMMA DownByCrash ==
  ASSUME LockedNext, phase = "up", phase' = "down"
  PROVE  Crash
<1> USE DEF env
<1>1. ASSUME NEW t \in Threads, LockedRequest(t)
      PROVE  phase' = phase
  <2>1. ASSUME NEW k \in Keys, NEW v \in Values, NEW ttl \in Ttls,
               TxPut(t, k, v, ttl) \/ \E e \in Values : CasBegin(t, k, e, v, ttl)
        PROVE  phase' = phase
    BY <2>1 DEF TxPut, CasBegin
  <2>2. ASSUME NEW k \in Keys, TxDelete(t, k) \/ TxApply(t, k)
        PROVE  phase' = phase
    BY <2>2 DEF TxDelete, TxApply
  <2>3. CASE CasHit(t) \/ CasMiss(t) \/ CasVersion(t) \/ CasAppend(t) \/ CasInsert(t)
    BY <2>3 DEF CasHit, CasMiss, CasVersion, CasAppend, CasInsert
  <2>4. CASE TxBegin(t) \/ TxRollback(t) \/ TxCommit(t) \/ TxAbort(t)
    BY <2>4 DEF TxBegin, TxRollback, TxCommit, TxAbort
  <2>5. CASE TxVersion(t) \/ TxAppend(t) \/ TxDone(t)
    BY <2>5 DEF TxVersion, TxAppend, TxDone
  <2> QED BY <1>1, <2>1, <2>2, <2>3, <2>4, <2>5 DEF LockedRequest
<1>2. ASSUME SnapshotBegin \/ FinishSnapshot
      PROVE  phase' = phase
  BY <1>2 DEF SnapshotBegin, FinishSnapshot, SnapshotVisit, SnapshotRename,
              SnapshotRenameFails, SnapshotTruncate, SnapshotFlush
<1>3. ASSUME Tick \/ LoadSnapshot \/ ReplayCommand \/ Serve
      PROVE  phase' # "down" \/ phase' = phase
  BY <1>3 DEF Tick, LoadSnapshot, ReplayCommand, Serve
<1> QED BY <1>1, <1>2, <1>3 DEF LockedNext

(* A crash costs no settled key its value and brings none back.            *)
THEOREM CrashSafety ==
  ASSUME LockedWorkload
  PROVE  Spec => CrashKeepsData
<1>1. ASSUME TypeOK, LockedInv, [Next]_vars, phase = "up", phase' = "down", NEW k \in Settled
      PROVE  Recovered(k, Len(wal))' = PayloadOf(LivePart(tree)[k])
  <2>1. Crash
    BY <1>1, LockedSteps, DownByCrash DEF LockedInv, vars, env
  <2>2. wal' = wal /\ snapshot' = snapshot /\ now' = now /\ ~Swapping
    BY <2>1 DEF Crash, TornLines, LockedWorkload, Swapping
  <2>3. Recovered(k, Len(wal))' = Recovered(k, Len(wal))
    BY <2>2 DEF Recovered, Writers, Readable, Unexpired, is_expired, LivePart, Live, Expired
  <2> QED BY <1>1, <2>2, <2>3, TreeRecoverable DEF RecoverableTree
<1>2. TypeOK /\ LockedInv /\ [Next]_vars =>
        [phase = "up" /\ phase' = "down" =>
           \A k \in Settled : Recovered(k, Len(wal))' = PayloadOf(LivePart(tree)[k])]_vars
  BY <1>1
<1> QED BY <1>2, LockedInvariant, TypeCorrect, PTL DEF Spec, CrashKeepsData
-----------------------------------------------------------------------------
(***************************************************************************)
(* The server implements AtomicStore when cas and transactions are the     *)
(* only writers (LockedWorkload): a refinement proof, for every set of     *)
(* threads, keys and values and any number of snapshots and crashes.       *)
(***************************************************************************)

(* A handler that has returned leaves nothing behind, and a transaction    *)
(* has no expected value: AtomicStore's NoRequest is an idle thread.       *)
Tidy ==
  \A t \in Threads :
    /\ pc[t] = "idle" => writes[t] = NoWrites
    /\ pc[t] \notin Compared \cup {"cas_compare"} => expected[t] = Empty

LEMMA TidyStep ==
  ASSUME LockedWorkload, TypeOK, LockedShape, Tidy, [Next]_vars
  PROVE  Tidy'
<1> USE DEF locals, files, tasks, saver, sweeper, env, Goto, Compared, Locked
<1>1. ASSUME NEW t \in Threads, LockedRequest(t)
      PROVE  Tidy'
  <2>1. ASSUME NEW k \in Keys, NEW v \in Values, NEW ttl \in Ttls, TxPut(t, k, v, ttl)
        PROVE  Tidy'
    BY <2>1 DEF TxPut, Tidy, TypeOK
  <2>2. ASSUME NEW k \in Keys, NEW v \in Values, NEW ttl \in Ttls, NEW e \in Values,
               CasBegin(t, k, e, v, ttl)
        PROVE  Tidy'
    BY <2>2 DEF CasBegin, Tidy, TypeOK
  <2>3. ASSUME NEW k \in Keys, TxDelete(t, k)
        PROVE  Tidy'
    BY <2>3 DEF TxDelete, Tidy, TypeOK
  <2>4. ASSUME NEW k \in Keys, TxApply(t, k)
        PROVE  Tidy'
    BY <2>4 DEF TxApply, Tidy
  <2>5. CASE Return(t)
    BY <2>5 DEF Return, Tidy, TypeOK
  <2>6. CASE CasHit(t)
    BY <2>6 DEF CasHit, Tidy, TypeOK
  <2>7. CASE CasVersion(t)
    BY <2>7 DEF CasVersion, Tidy, TypeOK
  <2>8. CASE CasAppend(t)
    BY <2>8 DEF CasAppend, Tidy, TypeOK
  <2>9. CASE TxBegin(t)
    BY <2>9 DEF TxBegin, Ready, Tidy, TypeOK
  <2>10. CASE TxCommit(t)
    BY <2>10 DEF TxCommit, Tidy, TypeOK
  <2>11. CASE TxVersion(t)
    BY <2>11 DEF TxVersion, Tidy, TypeOK
  <2>12. CASE TxAppend(t)
    BY <2>12 DEF TxAppend, Tidy, TypeOK
  <2> QED
    BY <1>1, <2>1, <2>2, <2>3, <2>4, <2>5, <2>6, <2>7, <2>8, <2>9, <2>10, <2>11, <2>12
    DEF LockedRequest, CasMiss, CasInsert, TxRollback, TxAbort, TxDone
<1>2. ASSUME SnapshotBegin \/ FinishSnapshot \/ Tick \/ LoadSnapshot \/ ReplayCommand \/ Serve
      PROVE  Tidy'
  <2>1. UNCHANGED <<pc, locals>>
    BY <1>2 DEF SnapshotBegin, FinishSnapshot, SnapshotVisit, SnapshotRename,
                SnapshotRenameFails, SnapshotTruncate, SnapshotFlush, Tick, LoadSnapshot,
                ReplayCommand, Serve
  <2> QED BY <2>1 DEF Tidy
<1>3. CASE Crash
  BY <1>3 DEF Crash, Tidy
<1>4. CASE UNCHANGED vars
  BY <1>4 DEF vars, Tidy
<1> QED BY <1>1, <1>2, <1>3, <1>4, LockedSteps DEF LockedNext
-----------------------------------------------------------------------------
(* What the files stand for, by cases of the file swap.                    *)

Contents ==
  [k \in Keys |-> IF Swapping THEN PayloadOf(snap_buf[k])
                  ELSE Plain(wal, snapshot, k, Len(wal))]

LEMMA ContentsPlain ==
  TypeOK /\ LockedShape => StoreContents = Contents
BY RecoveredPlain DEF StoreContents, Contents

(* When nobody is between its append and its insert, readers see just what *)
(* the files stand for.                                                    *)
LEMMA ContentsIsTree ==
  ASSUME TypeOK, LockedInv, phase = "up", \A t \in Threads, k \in Keys : ~Pending(t, k)
  PROVE  Contents = [k \in Keys |-> PayloadOf(tree[k])]
<1>1. ASSUME NEW k \in Keys
      PROVE  Contents[k] = PayloadOf(tree[k])
  <2>1. CASE Swapping
    BY <2>1 DEF Contents, LockedInv, BufferIsTree
  <2>2. CASE ~Swapping
    BY <2>2 DEF Contents, LockedInv, TreeIsLog
  <2> QED BY <2>1, <2>2
<1> QED BY <1>1 DEF Contents

(* Steps that touch neither the files nor the copy that replaces them.     *)
LEMMA ContentsQuiet ==
  ASSUME UNCHANGED <<wal, snapshot>>, Swapping' <=> Swapping, Swapping => snap_buf' = snap_buf
  PROVE  Contents' = Contents
BY DEF Contents

(* The rename, the truncation and the flush leave what the files stand for *)
(* as it was.                                                              *)
LEMMA ContentsSwapped ==
  ASSUME LockedWorkload, TypeOK, LockedInv, SnapshotRename \/ SnapshotTruncate \/ SnapshotFlush,
         LockedInv'
  PROVE  Contents' = Contents
<1> USE DEF tasks, saver, env, files
<1>1. CASE SnapshotRename
  <2>1. wal_lock = SnapshotTask /\ phase = "up"
    BY <1>1, Constants DEF SnapshotRename, TypeOK, LockedInv, LockedShape
  <2>2. Contents = [k \in Keys |-> PayloadOf(tree[k])]
    BY <2>1, NonePending, ContentsIsTree
  <2>3. tree' = tree /\ Swapping' /\ snap_buf' = tree'
    BY <1>1 DEF SnapshotRename, Swapping, LockedInv, BufferIsTree
  <2> QED BY <2>2, <2>3 DEF Contents
<1>2. CASE SnapshotTruncate
  BY <1>2 DEF SnapshotTruncate, Contents, Swapping
<1>3. CASE SnapshotFlush
  <2>1. snapshot' = snap_buf /\ wal' = wal /\ Swapping /\ ~Swapping'
    BY <1>3 DEF SnapshotFlush, LockedWorkload, Swapping
  <2>2. \A k \in Keys : Plain(wal, snap_buf, k, Len(wal)) = PayloadOf(snap_buf[k])
    BY <2>1 DEF LockedInv, BufferIsTree
  <2> QED BY <2>1, <2>2 DEF Contents
<1> QED BY <1>1, <1>2, <1>3

(* Logging a command is the instant at which a request takes effect.       *)
LEMMA ContentsLogged ==
  ASSUME LockedWorkload, TypeOK, LockedInv, NEW t \in Threads, NEW tx \in BOOLEAN, Log(t, tx),
         pc[t] \in {"cas_append", "tx_append"}, UNCHANGED <<snapshot, snap_pc>>
  PROVE  Contents' = [k \in Keys |-> IF writes[t][k] = NoWrite THEN Contents[k]
                                     ELSE writes[t][k]]
<1>1. ~Swapping /\ ~Swapping'
  BY Alone DEF Locked, Swapping
<1>2. \A k \in Keys : Plain(wal', snapshot, k, Len(wal')) =
        IF writes[t][k] = NoWrite THEN Plain(wal, snapshot, k, Len(wal)) ELSE writes[t][k]
  BY PlainLogged DEF LockedInv
<1> QED BY <1>1, <1>2 DEF Contents
-----------------------------------------------------------------------------
(* The requests.                                                           *)

RequestAt(label, w, e) ==
  [op |-> CASE label \in {"cas_compare", "cas_version", "cas_append", "cas_insert"} -> "cas"
            [] label \in {"tx_open", "tx_version", "tx_append", "tx_apply"} -> "tx"
            [] OTHER -> "none",
   done |-> label \in {"cas_insert", "tx_apply"}, writes |-> w, expected |-> e]

(* The five kinds of requests.                                             *)
NoneOpen(w, e) == [op |-> "none", done |-> FALSE, writes |-> w, expected |-> e]
CasOpen(w, e)  == [op |-> "cas", done |-> FALSE, writes |-> w, expected |-> e]
CasDone(w, e)  == [op |-> "cas", done |-> TRUE, writes |-> w, expected |-> e]
TxOpen(w, e)   == [op |-> "tx", done |-> FALSE, writes |-> w, expected |-> e]
TxOver(w, e)   == [op |-> "tx", done |-> TRUE, writes |-> w, expected |-> e]

LEMMA RequestForms ==
  ASSUME NEW w, NEW e
  PROVE  /\ RequestAt("idle", w, e) = NoneOpen(w, e)
         /\ \A l \in {"cas_compare", "cas_version", "cas_append"} :
              RequestAt(l, w, e) = CasOpen(w, e)
         /\ RequestAt("cas_insert", w, e) = CasDone(w, e)
         /\ \A l \in {"tx_open", "tx_version", "tx_append"} :
              RequestAt(l, w, e) = TxOpen(w, e)
         /\ RequestAt("tx_apply", w, e) = TxOver(w, e)
<1> DEFINE Cas == {"cas_compare", "cas_version", "cas_append", "cas_insert"}
           Tx  == {"tx_open", "tx_version", "tx_append", "tx_apply"}
           Op(l) == CASE l \in Cas -> "cas" [] l \in Tx -> "tx" [] OTHER -> "none"
<1>1. \A l \in Cas : Op(l) = "cas"
  OBVIOUS
<1>2. \A l \in Tx : Op(l) = "tx"
  OBVIOUS
<1>3. Op("idle") = "none"
  OBVIOUS
<1> DEFINE Done(l) == l \in {"cas_insert", "tx_apply"}
<1>4. RequestAt("idle", w, e) = [op |-> Op("idle"), done |-> Done("idle"), writes |-> w, expected |-> e]
  BY DEF RequestAt
<1>5. \A l \in Cas \cup Tx :
        RequestAt(l, w, e) = [op |-> Op(l), done |-> Done(l), writes |-> w, expected |-> e]
  BY DEF RequestAt
<1>6. Done("idle") = FALSE
  OBVIOUS
<1>7. \A l \in (Cas \cup Tx) \ {"cas_insert", "tx_apply"} : Done(l) = FALSE
  OBVIOUS
<1>8. Done("cas_insert") = TRUE /\ Done("tx_apply") = TRUE
  OBVIOUS
<1> HIDE DEF Op, Done
<1>9. \A l \in {"cas_compare", "cas_version", "cas_append"} :
        Done(l) = FALSE /\ Op(l) = "cas" /\ l \in Cas \cup Tx
  BY <1>1, <1>7
<1>10. \A l \in {"tx_open", "tx_version", "tx_append"} :
        Done(l) = FALSE /\ Op(l) = "tx" /\ l \in Cas \cup Tx
  BY <1>2, <1>7
<1>11. "cas_insert" \in Cas /\ "tx_apply" \in Tx
  OBVIOUS
<1> HIDE DEF Cas, Tx
<1> QED BY <1>1, <1>2, <1>3, <1>4, <1>5, <1>6, <1>8, <1>9, <1>10, <1>11, Zenon
      DEF NoneOpen, CasOpen, CasDone, TxOpen, TxOver

Requests == [t \in Threads |-> RequestOf(t)]

LEMMA RequestLabels ==
  /\ Requests = [t \in Threads |-> RequestAt(pc[t], writes[t], expected[t])]
  /\ Requests' = [t \in Threads |-> RequestAt(pc'[t], writes'[t], expected'[t])]
BY DEF Requests, RequestOf, RequestAt

(* A step of one handler changes one request.                              *)
LEMMA OneRequest ==
  ASSUME NEW t \in Threads,
         \A u \in Threads \ {t} : UNCHANGED <<pc[u], writes[u], expected[u]>>
  PROVE  Requests' = [Requests EXCEPT ![t] = RequestAt(pc'[t], writes'[t], expected'[t])]
BY RequestLabels
-----------------------------------------------------------------------------
(* The steps of AtomicStore, in the terms of this module.                  *)

Idle == NoneOpen(NoWrites, Empty)

HoldsValue(k, e) ==
  IF StoreContents[k] = None THEN e = Empty ELSE StoreContents[k].value = e

(* Updates of one field of a request.                                      *)
LEMMA BeginTx ==
  ASSUME NEW w, NEW e
  PROVE  [NoneOpen(w, e) EXCEPT !.op = "tx"] = TxOpen(w, e)
<1> DEFINE a == [NoneOpen(w, e) EXCEPT !.op = "tx"]
           b == TxOpen(w, e)
           Shape == [op : {"tx"}, done : BOOLEAN, writes : {w}, expected : {e}]
<1>1. a \in Shape /\ b \in Shape
  BY DEF NoneOpen, TxOpen
<1>2. a.op = b.op /\ a.done = b.done /\ a.writes = b.writes /\ a.expected = b.expected
  BY DEF NoneOpen, TxOpen
<1> HIDE DEF a, b
<1>3. a = b
  BY <1>1, <1>2
<1> QED BY <1>3 DEF a, b

LEMMA SetWrites ==
  ASSUME NEW w, NEW e, NEW x
  PROVE  [TxOpen(w, e) EXCEPT !.writes = x] = TxOpen(x, e)
<1> DEFINE a == [TxOpen(w, e) EXCEPT !.writes = x]
           b == TxOpen(x, e)
           Shape == [op : {"tx"}, done : BOOLEAN, writes : {x}, expected : {e}]
<1>1. a \in Shape /\ b \in Shape
  BY DEF TxOpen
<1>2. a.op = b.op /\ a.done = b.done /\ a.writes = b.writes /\ a.expected = b.expected
  BY DEF TxOpen
<1> HIDE DEF a, b
<1>3. a = b
  BY <1>1, <1>2
<1> QED BY <1>3 DEF a, b

LEMMA CommitTx ==
  ASSUME NEW w, NEW e
  PROVE  [TxOpen(w, e) EXCEPT !.done = TRUE] = TxOver(w, e)
<1> DEFINE a == [TxOpen(w, e) EXCEPT !.done = TRUE]
           b == TxOver(w, e)
           Shape == [op : {"tx"}, done : BOOLEAN, writes : {w}, expected : {e}]
<1>1. a \in Shape /\ b \in Shape
  BY DEF TxOpen, TxOver
<1>2. a.op = b.op /\ a.done = b.done /\ a.writes = b.writes /\ a.expected = b.expected
  BY DEF TxOpen, TxOver
<1> HIDE DEF a, b
<1>3. a = b
  BY <1>1, <1>2
<1> QED BY <1>3 DEF a, b

LEMMA CommitCas ==
  ASSUME NEW w, NEW e
  PROVE  [CasOpen(w, e) EXCEPT !.done = TRUE] = CasDone(w, e)
<1> DEFINE a == [CasOpen(w, e) EXCEPT !.done = TRUE]
           b == CasDone(w, e)
           Shape == [op : {"cas"}, done : BOOLEAN, writes : {w}, expected : {e}]
<1>1. a \in Shape /\ b \in Shape
  BY DEF CasOpen, CasDone
<1>2. a.op = b.op /\ a.done = b.done /\ a.writes = b.writes /\ a.expected = b.expected
  BY DEF CasOpen, CasDone
<1> HIDE DEF a, b
<1>3. a = b
  BY <1>1, <1>2
<1> QED BY <1>3 DEF a, b

LEMMA IsCallCas ==
  ASSUME NEW t \in Threads, NEW k \in Keys, NEW p \in Payload, NEW e \in Values,
         Requests[t] = Idle, StoreContents' = StoreContents,
         Requests' = [Requests EXCEPT ![t] = CasOpen(Only(k, p), e)]
  PROVE  Atomic!Next
<1>1. Atomic!NoRequest = Idle /\ Idle.writes = NoWrites
  BY DEF Atomic!NoRequest, Idle, NoneOpen, NoWrites
<1>2. CasOpen(Only(k, p), e) =
        [op |-> "cas", done |-> FALSE, writes |-> [Idle.writes EXCEPT ![k] = p], expected |-> e]
  BY <1>1 DEF CasOpen, Only
<1>3. \E j \in Keys, q \in Payload, x \in Values :
        Requests' = [Requests EXCEPT ![t] =
          [op |-> "cas", done |-> FALSE, writes |-> [Atomic!NoRequest.writes EXCEPT ![j] = q],
           expected |-> x]]
  BY <1>1, <1>2, Zenon
<1>4. Requests[t] = Atomic!NoRequest
  BY <1>1
<1>5. Atomic!CallCas(t)
  BY <1>3, <1>4, Zenon DEF Atomic!CallCas, Requests
<1> QED BY <1>5 DEF Atomic!Next

LEMMA IsCallTx ==
  ASSUME NEW t \in Threads, Requests[t] = Idle, StoreContents' = StoreContents,
         Requests' = [Requests EXCEPT ![t] = TxOpen(NoWrites, Empty)]
  PROVE  Atomic!Next
<1>1. Atomic!NoRequest = Idle
  BY DEF Atomic!NoRequest, Idle, NoneOpen, NoWrites
<1>2. [Requests EXCEPT ![t].op = "tx"] = Requests'
  <2>1. [Idle EXCEPT !.op = "tx"] = TxOpen(NoWrites, Empty)
    BY BeginTx DEF Idle
  <2>2. [Requests EXCEPT ![t].op = "tx"] = [Requests EXCEPT ![t] = [Requests[t] EXCEPT !.op = "tx"]]
    OBVIOUS
  <2> QED BY <2>1, <2>2, Zenon
<1>3. Atomic!CallTx(t)
  BY <1>1, <1>2 DEF Atomic!CallTx, Requests
<1> QED BY <1>3 DEF Atomic!Next

LEMMA IsExtend ==
  ASSUME NEW t \in Threads, NEW k \in Keys, NEW p \in Payload \cup {None}, NEW w \in WriteSet, NEW e,
         NEW x, x = [w EXCEPT ![k] = p],
         Requests[t] = TxOpen(w, e), StoreContents' = StoreContents,
         Requests' = [Requests EXCEPT ![t] = TxOpen(x, e)]
  PROVE  Atomic!Next
<1>1. Atomic!Open(t) /\ Requests[t].op = "tx"
  BY DEF Atomic!Open, TxOpen, Requests
<1>2. [Requests EXCEPT ![t].writes[k] = p] = Requests'
  <2>1. Requests[t].writes = w
    BY DEF TxOpen
  <2>2. [TxOpen(w, e) EXCEPT !.writes = x] = TxOpen(x, e)
    BY ONLY SetWrites, Zenon
  <2>3. [Requests EXCEPT ![t].writes[k] = p] =
          [Requests EXCEPT ![t] = [Requests[t] EXCEPT !.writes = [Requests[t].writes EXCEPT ![k] = p]]]
    OBVIOUS
  <2> QED BY <2>1, <2>2, <2>3, Zenon
<1>3. Atomic!Extend(t)
  BY <1>1, <1>2 DEF Atomic!Extend, Requests
<1> QED BY <1>3 DEF Atomic!Next

LEMMA IsCommit ==
  ASSUME NEW t \in Threads, NEW r, NEW w \in WriteSet, NEW e,
         \/ /\ Requests[t] = TxOpen(w, e) /\ r = TxOver(w, e)
         \/ /\ Requests[t] = CasOpen(w, e) /\ r = CasDone(w, e)
            /\ \A k \in Touched(w) : HoldsValue(k, e),
         StoreContents' = [k \in Keys |-> IF w[k] = NoWrite THEN StoreContents[k] ELSE w[k]],
         Requests' = [Requests EXCEPT ![t] = r]
  PROVE  Atomic!Next
<1>1. /\ Requests[t].writes = w /\ Requests[t].expected = e
      /\ Requests[t].done = FALSE /\ Requests[t].op # "none"
      /\ Requests[t].op = "cas" => \A k \in Touched(w) : HoldsValue(k, e)
  BY DEF TxOpen, CasOpen
<1>2. Atomic!Open(t)
  BY <1>1 DEF Atomic!Open, Requests
<1>3. Atomic!Expects(Requests[t])
  BY <1>1 DEF Atomic!Expects, Atomic!Touches, Atomic!Holds, Touched, HoldsValue
<1>4. StoreContents' = Atomic!Overlay(w)
  BY DEF Atomic!Overlay
<1>5. [Requests EXCEPT ![t].done = TRUE] = Requests'
  <2>1. [Requests[t] EXCEPT !.done = TRUE] = r
    BY CommitTx, CommitCas, Zenon
  <2>2. [Requests EXCEPT ![t].done = TRUE] = [Requests EXCEPT ![t] = [Requests[t] EXCEPT !.done = TRUE]]
    OBVIOUS
  <2> QED BY <2>1, <2>2, Zenon
<1>6. Atomic!Commit(t)
  BY <1>1, <1>2, <1>3, <1>4, <1>5 DEF Atomic!Commit, Requests
<1> QED BY <1>6 DEF Atomic!Next

LEMMA IsAnswer ==
  ASSUME NEW t \in Threads, NEW w, NEW e, StoreContents' = StoreContents,
         \/ Requests[t] \in {CasDone(w, e), TxOpen(w, e), TxOver(w, e)}
         \/ Requests[t] = CasOpen(w, e) /\ \E k \in Touched(w) : ~HoldsValue(k, e),
         Requests' = [Requests EXCEPT ![t] = Idle]
  PROVE  Atomic!Next
<1>1. Atomic!NoRequest = Idle
  BY DEF Atomic!NoRequest, Idle, NoneOpen, NoWrites
<1>2. /\ Requests[t].writes = w /\ Requests[t].expected = e
      /\ Requests[t] # Idle
      /\ ~Requests[t].done /\ Requests[t].op = "cas" => \E k \in Touched(w) : ~HoldsValue(k, e)
  BY DEF Idle, NoneOpen, CasOpen, CasDone, TxOpen, TxOver
<1>3. ~Requests[t].done /\ Requests[t].op = "cas" => ~Atomic!Expects(Requests[t])
  BY <1>2 DEF Atomic!Expects, Atomic!Touches, Atomic!Holds, Touched, HoldsValue
<1>4. Atomic!Answer(t)
  BY <1>1, <1>2, <1>3 DEF Atomic!Answer, Requests
<1> QED BY <1>4 DEF Atomic!Next
-----------------------------------------------------------------------------
(* The simulation.                                                         *)

(* What cas compares in the tree is what the files hold.                   *)
LEMMA MatchesContents ==
  ASSUME LockedInv, TypeOK, StoreContents = [k \in Keys |-> PayloadOf(tree[k])],
         NEW k \in Keys, NEW e
  PROVE  Matches(tree[k], e) <=> HoldsValue(k, e)
<1>1. ~Expired(tree[k])
  BY DEF LockedInv, LockedShape, ForeverStore, Expired, is_expired
<1>2. tree[k] # None => PayloadOf(tree[k]) # None /\ PayloadOf(tree[k]).value = tree[k].value
  <2>1. tree[k] # None => tree[k] \in DbRecord
    BY DEF TypeOK, Store
  <2>2. tree[k] # None => PayloadOf(tree[k]) \in Payload
    BY <2>1 DEF PayloadOf, DbRecord, Payload
  <2> QED BY <2>2, Constants DEF PayloadOf
<1>3. tree[k] = None => PayloadOf(tree[k]) = None
  BY DEF PayloadOf
<1> QED BY <1>1, <1>2, <1>3 DEF Matches, HoldsValue

LEMMA Simulation ==
  ASSUME LockedWorkload, TypeOK, LockedInv, Tidy, StoreContents = Contents,
         LockedInv', StoreContents' = Contents', [Next]_vars
  PROVE  Atomic!Next \/ UNCHANGED <<StoreContents, Requests>>
<1> USE DEF locals, files, tasks, saver, sweeper, env, Goto
<1>1. ASSUME UNCHANGED <<wal, snapshot, snap_pc, snap_buf>>
      PROVE  StoreContents' = StoreContents
  BY <1>1, ContentsQuiet DEF Swapping
<1>2. ASSUME wal_lock \in {None, SnapshotTask} \/ \E t \in Threads : pc[t] \in {"cas_append", "tx_append"},
             phase = "up"
      PROVE  StoreContents = [k \in Keys |-> PayloadOf(tree[k])]
  <2>1. \A t \in Threads, k \in Keys : ~Pending(t, k)
    BY <1>2, NonePending, Alone DEF Pending, Locked
  <2> QED BY <1>2, <2>1, ContentsIsTree
<1>3. ASSUME NEW t \in Threads, pc[t] = "idle"
      PROVE  Requests[t] = Idle
  BY <1>3, RequestLabels, RequestForms DEF Tidy, Compared, Idle
<1>4. ASSUME NEW t \in Threads, pc'[t] = "idle", writes'[t] = NoWrites, expected'[t] = Empty,
             \A u \in Threads \ {t} : UNCHANGED <<pc[u], writes[u], expected[u]>>
      PROVE  Requests' = [Requests EXCEPT ![t] = Idle]
  BY <1>4, OneRequest, RequestForms DEF Idle
<1>5. ASSUME NEW t \in Threads, Return(t)
      PROVE  Requests' = [Requests EXCEPT ![t] = Idle]
  BY <1>4, <1>5 DEF Return, TypeOK
<1>6. ASSUME NEW t \in Threads, NEW k \in Keys, NEW v \in Values, NEW ttl \in Ttls, NEW e \in Values,
             CasBegin(t, k, e, v, ttl)
      PROVE  Atomic!Next
  <2> DEFINE p == [value |-> v, expires_at |-> ExpiresAt(ttl)]
  <2>1. p \in Payload
    BY RequestTypes
  <2> HIDE DEF p
  <2>2. /\ pc[t] = "idle" /\ pc'[t] = "cas_compare" /\ writes'[t] = Only(k, p) /\ expected'[t] = e
        /\ \A u \in Threads \ {t} : UNCHANGED <<pc[u], writes[u], expected[u]>>
    BY <1>6 DEF CasBegin, Ready, TypeOK, p
  <2>3. Requests' = [Requests EXCEPT ![t] = CasOpen(Only(k, p), e)]
    BY <2>2, OneRequest, RequestForms
  <2>4. StoreContents' = StoreContents
    BY <1>1, <1>6 DEF CasBegin
  <2> QED BY <1>3, <2>1, <2>2, <2>3, <2>4, IsCallCas
<1>7. ASSUME NEW t \in Threads, TxBegin(t)
      PROVE  Atomic!Next
  <2>1. /\ pc[t] = "idle" /\ pc'[t] = "tx_open" /\ writes'[t] = NoWrites /\ expected'[t] = Empty
        /\ \A u \in Threads \ {t} : UNCHANGED <<pc[u], writes[u], expected[u]>>
    BY <1>7 DEF TxBegin, Ready, TypeOK, Tidy, Compared
  <2>2. Requests' = [Requests EXCEPT ![t] = TxOpen(NoWrites, Empty)]
    BY <2>1, OneRequest, RequestForms
  <2>3. StoreContents' = StoreContents
    BY <1>1, <1>7 DEF TxBegin
  <2> QED BY <1>3, <2>1, <2>2, <2>3, IsCallTx
<1>8. ASSUME NEW t \in Threads, NEW k \in Keys, NEW p \in Payload \cup {None}, pc[t] = "tx_open",
             writes' = [writes EXCEPT ![t][k] = p],
             UNCHANGED <<pc, expected, wal, snapshot, snap_pc, snap_buf>>
      PROVE  Atomic!Next
  <2>1. PICK x : x = [writes[t] EXCEPT ![k] = p]
    OBVIOUS
  <2>2. /\ writes'[t] = x /\ writes[t] \in WriteSet
        /\ \A u \in Threads \ {t} : UNCHANGED <<pc[u], writes[u], expected[u]>>
    BY <1>8, <2>1 DEF TypeOK
  <2>3. Requests[t] = TxOpen(writes[t], expected[t])
    BY <1>8, RequestLabels, RequestForms
  <2>4. Requests' = [Requests EXCEPT ![t] = TxOpen(x, expected[t])]
    BY <1>8, <2>2, OneRequest, RequestForms
  <2>5. StoreContents' = StoreContents
    BY <1>1, <1>8
  <2> QED BY <2>1, <2>2, <2>3, <2>4, <2>5, IsExtend
<1>9. ASSUME NEW t \in Threads, NEW k \in Keys, NEW v \in Values, NEW ttl \in Ttls, TxPut(t, k, v, ttl)
      PROVE  Atomic!Next
  <2>1. [value |-> v, expires_at |-> ExpiresAt(ttl)] \in Payload
    BY RequestTypes
  <2> QED BY <1>8, <1>9, <2>1 DEF TxPut
<1>10. ASSUME NEW t \in Threads, NEW k \in Keys, TxDelete(t, k)
      PROVE  Atomic!Next
  BY <1>8, <1>10 DEF TxDelete
<1>11. ASSUME NEW t \in Threads, CasAppend(t)
      PROVE  Atomic!Next
  <2>1. /\ pc[t] = "cas_append" /\ pc'[t] = "cas_insert" /\ writes[t] \in WriteSet
        /\ UNCHANGED <<writes, expected, snapshot, snap_pc>> /\ Log(t, FALSE)
        /\ \A u \in Threads \ {t} : UNCHANGED <<pc[u], writes[u], expected[u]>>
    BY <1>11 DEF CasAppend, TypeOK
  <2>2. Requests[t] = CasOpen(writes[t], expected[t])
    BY <2>1, RequestLabels, RequestForms
  <2>3. Requests' = [Requests EXCEPT ![t] = CasDone(writes[t], expected[t])]
    BY <2>1, OneRequest, RequestForms
  <2>4. phase = "up" /\ CasMatches(t)
    BY <2>1 DEF LockedInv, LockedShape, CasReplacesExpected
  <2>5. \A k \in Touched(writes[t]) : HoldsValue(k, expected[t])
    BY <1>2, <2>1, <2>4, MatchesContents DEF CasMatches, Touched
  <2>6. StoreContents' = [k \in Keys |-> IF writes[t][k] = NoWrite THEN StoreContents[k] ELSE writes[t][k]]
    BY <2>1, ContentsLogged
  <2> QED BY <2>1, <2>2, <2>3, <2>5, <2>6, IsCommit
<1>12. ASSUME NEW t \in Threads, TxAppend(t)
      PROVE  Atomic!Next
  <2>1. /\ pc[t] = "tx_append" /\ pc'[t] = "tx_apply" /\ writes[t] \in WriteSet
        /\ UNCHANGED <<writes, expected, snapshot, snap_pc>> /\ Log(t, TRUE)
        /\ \A u \in Threads \ {t} : UNCHANGED <<pc[u], writes[u], expected[u]>>
    BY <1>12 DEF TxAppend, TypeOK
  <2>2. Requests[t] = TxOpen(writes[t], expected[t])
    BY <2>1, RequestLabels, RequestForms
  <2>3. Requests' = [Requests EXCEPT ![t] = TxOver(writes[t], expected[t])]
    BY <2>1, OneRequest, RequestForms
  <2>4. StoreContents' = [k \in Keys |-> IF writes[t][k] = NoWrite THEN StoreContents[k] ELSE writes[t][k]]
    BY <2>1, ContentsLogged
  <2> QED BY <2>1, <2>2, <2>3, <2>4, IsCommit
<1>13. ASSUME NEW t \in Threads, CasMiss(t)
      PROVE  Atomic!Next
  <2>1. /\ pc[t] = "cas_compare" /\ Return(t) /\ ~CasMatches(t) /\ wal_lock = None
        /\ UNCHANGED <<wal, snapshot, snap_pc, snap_buf>>
    BY <1>13 DEF CasMiss
  <2>2. Requests[t] = CasOpen(writes[t], expected[t])
    BY <2>1, RequestLabels, RequestForms
  <2>3. StoreContents = [k \in Keys |-> PayloadOf(tree[k])]
    BY <1>2, <2>1 DEF LockedInv, LockedShape
  <2>4. \E k \in Touched(writes[t]) : ~HoldsValue(k, expected[t])
    BY <2>1, <2>3, MatchesContents DEF CasMatches, Touched
  <2> QED BY <1>1, <1>5, <2>1, <2>2, <2>4, IsAnswer
<1>14. ASSUME NEW t \in Threads, CasInsert(t)
      PROVE  Atomic!Next
  <2>1. Requests[t] = CasDone(writes[t], expected[t])
    BY <1>14, RequestLabels, RequestForms DEF CasInsert
  <2>2. Return(t) /\ UNCHANGED <<wal, snapshot, snap_pc, snap_buf>>
    BY <1>14 DEF CasInsert
  <2> QED BY <1>1, <1>5, <2>1, <2>2, IsAnswer
<1>15. ASSUME NEW t \in Threads, TxRollback(t) \/ TxAbort(t)
      PROVE  Atomic!Next
  <2>1. Requests[t] = TxOpen(writes[t], expected[t])
    BY <1>15, RequestLabels, RequestForms DEF TxRollback, TxAbort
  <2>2. Return(t) /\ UNCHANGED <<wal, snapshot, snap_pc, snap_buf>>
    BY <1>15 DEF TxRollback, TxAbort
  <2> QED BY <1>1, <1>5, <2>1, <2>2, IsAnswer
<1>16. ASSUME NEW t \in Threads, TxDone(t)
      PROVE  Atomic!Next
  <2>1. Requests[t] = TxOver(writes[t], expected[t])
    BY <1>16, RequestLabels, RequestForms DEF TxDone
  <2>2. Return(t) /\ UNCHANGED <<wal, snapshot, snap_pc, snap_buf>>
    BY <1>16 DEF TxDone
  <2> QED BY <1>1, <1>5, <2>1, <2>2, IsAnswer
<1>17. ASSUME NEW t \in Threads, CasHit(t) \/ CasVersion(t) \/ TxCommit(t) \/ TxVersion(t)
                                   \/ \E k \in Keys : TxApply(t, k)
      PROVE  UNCHANGED <<StoreContents, Requests>>
  <2>1. UNCHANGED <<writes, expected, wal, snapshot, snap_pc, snap_buf>>
    BY <1>17 DEF CasHit, CasVersion, TxCommit, TxVersion, TxApply
  <2>2. RequestAt(pc'[t], writes[t], expected[t]) = RequestAt(pc[t], writes[t], expected[t])
    <3>1. CASE CasHit(t) \/ CasVersion(t)
      <4>1. /\ pc[t] \in {"cas_compare", "cas_version", "cas_append"}
            /\ pc'[t] \in {"cas_compare", "cas_version", "cas_append"}
        BY <3>1 DEF CasHit, CasVersion, TypeOK
      <4> QED BY <4>1, RequestForms
    <3>2. CASE TxCommit(t) \/ TxVersion(t)
      <4>1. /\ pc[t] \in {"tx_open", "tx_version", "tx_append"}
            /\ pc'[t] \in {"tx_open", "tx_version", "tx_append"}
        BY <3>2 DEF TxCommit, TxVersion, TypeOK
      <4> QED BY <4>1, RequestForms
    <3>3. CASE \E k \in Keys : TxApply(t, k)
      BY <3>3 DEF TxApply
    <3> QED BY <1>17, <3>1, <3>2, <3>3
  <2>3. \A u \in Threads \ {t} : pc'[u] = pc[u]
    BY <1>17 DEF CasHit, CasVersion, TxCommit, TxVersion, TxApply, TypeOK
  <2>4. Requests' = Requests
    BY <2>1, <2>2, <2>3, RequestLabels
  <2> QED BY <1>1, <2>1, <2>4
<1>18. ASSUME UNCHANGED <<pc, writes, expected>>
      PROVE  Requests' = Requests
  BY <1>18, RequestLabels
<1>19. ASSUME SnapshotBegin \/ (\E k \in Keys : SnapshotVisit(k)) \/ SnapshotRenameFails \/ Tick
                \/ LoadSnapshot \/ ReplayCommand \/ Serve
      PROVE  UNCHANGED <<StoreContents, Requests>>
  <2>1. UNCHANGED <<pc, writes, expected, wal, snapshot>>
    BY <1>19 DEF SnapshotBegin, SnapshotVisit, SnapshotRenameFails, Tick, LoadSnapshot, ReplayCommand, Serve
  <2>2. (Swapping' <=> Swapping) /\ (Swapping => snap_buf' = snap_buf)
    BY <1>19, Constants DEF SnapshotBegin, SnapshotVisit, SnapshotRenameFails, Tick, LoadSnapshot,
                 ReplayCommand, Serve, Swapping, TypeOK
  <2> QED BY <1>18, <2>1, <2>2, ContentsQuiet
<1>20. ASSUME SnapshotRename \/ SnapshotTruncate \/ SnapshotFlush
      PROVE  UNCHANGED <<StoreContents, Requests>>
  <2>1. UNCHANGED <<pc, writes, expected>>
    BY <1>20 DEF SnapshotRename, SnapshotTruncate, SnapshotFlush
  <2> QED BY <1>18, <1>20, <2>1, ContentsSwapped
<1>21. ASSUME Crash
      PROVE  Atomic!Next
  <2>1. /\ UNCHANGED <<wal, snapshot>> /\ ~Swapping /\ ~Swapping'
        /\ pc' = [t \in Threads |-> "idle"] /\ writes' = [t \in Threads |-> NoWrites]
        /\ expected' = [t \in Threads |-> Empty]
    BY <1>21 DEF Crash, TornLines, LockedWorkload, Swapping
  <2>2. StoreContents' = StoreContents
    BY <2>1, ContentsQuiet
  <2>3. Requests' = [t \in Threads |-> RequestAt("idle", NoWrites, Empty)]
    BY <2>1, RequestLabels
  <2>4. Requests' = [t \in Threads |-> Idle]
    BY <2>3, RequestForms DEF Idle
  <2>5. Atomic!NoRequest = Idle
    BY DEF Atomic!NoRequest, Idle, NoneOpen, NoWrites
  <2>6. Atomic!Crash
    BY <2>2, <2>4, <2>5 DEF Atomic!Crash, Requests
  <2> QED BY <2>6 DEF Atomic!Next
<1>22. ASSUME UNCHANGED vars
      PROVE  UNCHANGED <<StoreContents, Requests>>
  BY <1>1, <1>18, <1>22 DEF vars
<1>23. ASSUME NEW t \in Threads, LockedRequest(t)
      PROVE  Atomic!Next \/ UNCHANGED <<StoreContents, Requests>>
  BY <1>6, <1>7, <1>9, <1>10, <1>11, <1>12, <1>13, <1>14, <1>15, <1>16, <1>17, <1>23 DEF LockedRequest
<1>24. Next => LockedNext
  BY LockedSteps DEF LockedInv
<1> QED
  BY <1>19, <1>20, <1>21, <1>22, <1>23, <1>24 DEF LockedNext, FinishSnapshot

(* When cas and transactions are the only writers the server implements    *)
(* AtomicStore: each request takes effect on all its keys at the instant   *)
(* its line is in the log, a refused cas did find another value, and no    *)
(* snapshot, crash or restart changes what the files stand for.            *)
THEOREM AtomicRefinement ==
  ASSUME LockedWorkload
  PROVE  Spec => ImplementsAtomicStore
<1>1. Init => Tidy
  BY DEF Init, Tidy
<1>2. TypeOK /\ LockedInv /\ Tidy /\ [Next]_vars => Tidy'
  BY TidyStep DEF LockedInv
<1> DEFINE Faithful == StoreContents = Contents
<1>3. TypeOK /\ LockedInv => Faithful
  BY ContentsPlain DEF LockedInv
<1>4. Init /\ TypeOK => Atomic!Init
  <2> SUFFICES ASSUME Init, TypeOK PROVE Atomic!Init
    OBVIOUS
  <2>1. StoreContents \in [Keys -> Payload \cup {None}]
    <3>1. snapshot = EmptyStore /\ snap_pc = "idle"
      BY DEF Init
    <3>2. ASSUME NEW k \in Keys
          PROVE  Recovered(k, Len(wal)) \in Payload \cup {None}
      <4> DEFINE I == Writers(k, Len(wal))
      <4>1. CASE I = {}
        BY <3>1, <4>1 DEF Recovered, LivePart, Live, EmptyStore, PayloadOf
      <4>2. CASE I # {}
        <5>1. Len(wal) \in Nat /\ I \in SUBSET (1..Len(wal)) /\ DOMAIN wal = 1..Len(wal)
          BY LenProperties DEF Writers, TypeOK
        <5>2. LastOf(I) \in I /\ LastOf(I) \in 1..Len(wal)
          BY <4>2, <5>1, LastOfIsMax
        <5> DEFINE l == wal[LastOf(I)]
        <5>3. l.ok /\ l \in Line /\ Unexpired(l.cmd.writes)[k] # NoWrite
          BY <5>1, <5>2, ElementOfSeq DEF Writers, TypeOK
        <5>4. l.cmd.writes[k] \in Payload \cup {None, NoWrite} /\ l.cmd.writes[k] # NoWrite
          BY <5>3 DEF Line, WalCommand, WriteSet, Unexpired
        <5> QED BY <4>2, <5>4 DEF Recovered
      <4> QED BY <4>1, <4>2
    <3> QED BY <3>1, <3>2 DEF StoreContents, Swapping
  <2>2. Requests = [t \in Threads |-> Idle]
    BY RequestLabels, RequestForms DEF Init, Idle
  <2>3. Atomic!NoRequest = Idle
    BY DEF Atomic!NoRequest, Idle, NoneOpen, NoWrites
  <2> QED BY <2>1, <2>2, <2>3 DEF Atomic!Init, Requests
<1>5. TypeOK /\ LockedInv /\ LockedInv' /\ Tidy /\ Faithful /\ Faithful' /\ [Next]_vars
        => [Atomic!Next]_<<StoreContents, [t \in Threads |-> RequestOf(t)]>>
  BY Simulation DEF Requests
<1> HIDE DEF Faithful
<1> QED
  BY <1>1, <1>2, <1>3, <1>4, <1>5, TypeCorrect, LockedInvariant, PTL
  DEF Spec, ImplementsAtomicStore, Atomic!Spec
=============================================================================
