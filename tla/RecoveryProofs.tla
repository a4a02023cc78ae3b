--------------------------- MODULE RecoveryProofs ---------------------------
(***************************************************************************)
(* KindServerImpl::new rebuilds exactly what the files stand for, under    *)
(* every workload, every fault and a clock that runs meanwhile.            *)
(***************************************************************************)
EXTENDS LockedProofs

(* A process that is not up serves nobody and runs no background task.     *)
Quiet ==
  phase # "up" =>
    /\ \A t \in Threads : pc[t] = "idle"
    /\ snap_pc = "idle" /\ sweep_iter = {} /\ to_remove = {}

(* The reader is within the file, and only a readable file is replayed.    *)
InFile ==
  phase = "replay" => pos <= Len(wal) + 1 /\ (pos <= Len(wal) => Readable(wal))

RecoveryInv == Quiet /\ InFile /\ RecoveryExact
-----------------------------------------------------------------------------
(* The steps that are left while the server is not up.                     *)

LEMMA QuietSteps ==
  ASSUME Quiet, phase # "up", Next
  PROVE  Tick \/ Crash \/ Start
<1>1. ASSUME NEW t \in Threads
      PROVE  ~Request(t)
  BY <1>1 DEF Quiet, Request, PutBegin, TxPut, CasBegin, DeleteBegin, TxDelete, GetExpired,
              TxBegin, TxRollback, TxCommit, TxAbort, Ready
<1>2. ASSUME NEW t \in Threads
      PROVE  ~Handle(t)
  <2>1. pc[t] = "idle"
    BY DEF Quiet
  <2>2. ~PutVersion(t) /\ ~PutAppend(t) /\ ~PutInsert(t) /\ ~GetPurge(t)
    BY <2>1 DEF PutVersion, PutAppend, PutInsert, GetPurge
  <2>3. ~DeleteRemove(t) /\ ~DeleteVersion(t) /\ ~DeleteAppend(t)
    BY <2>1 DEF DeleteRemove, DeleteVersion, DeleteAppend
  <2>4. ~CasHit(t) /\ ~CasMiss(t) /\ ~CasVersion(t) /\ ~CasAppend(t) /\ ~CasInsert(t)
    BY <2>1 DEF CasHit, CasMiss, CasVersion, CasAppend, CasInsert
  <2>5. ~TxVersion(t) /\ ~TxAppend(t) /\ ~TxDone(t) /\ \A k \in Keys : ~TxApply(t, k)
    BY <2>1 DEF TxVersion, TxAppend, TxApply, TxDone
  <2> QED BY <2>2, <2>3, <2>4, <2>5 DEF Handle
<1>3. ~SnapshotBegin /\ ~FinishSnapshot
  BY DEF Quiet, SnapshotBegin, FinishSnapshot, SnapshotVisit, SnapshotRename,
         SnapshotRenameFails, SnapshotTruncate, SnapshotFlush
<1>4. ~Sweep
  BY DEF Quiet, Sweep, SweepBegin, SweepVisit, SweepRemove, FirstOf
<1> QED BY <1>1, <1>2, <1>3, <1>4 DEF Next

LEMMA StaysUp ==
  ASSUME phase = "up", Next
  PROVE  Crash \/ phase' = "up"
<1> USE DEF env
<1>1. ASSUME NEW t \in Threads, Request(t)
      PROVE  phase' = phase
  BY <1>1 DEF Request, PutBegin, TxPut, CasBegin, DeleteBegin, TxDelete, GetExpired,
              TxBegin, TxRollback, TxCommit, TxAbort
<1>2. ASSUME NEW t \in Threads, Handle(t)
      PROVE  phase' = phase
  BY <1>2 DEF Handle, PutVersion, PutAppend, PutInsert, GetPurge, DeleteRemove, DeleteVersion,
              DeleteAppend, CasHit, CasMiss, CasVersion, CasAppend, CasInsert, TxVersion, TxAppend,
              TxApply, TxDone
<1>3. ASSUME SnapshotBegin \/ FinishSnapshot
      PROVE  phase' = phase
  BY <1>3 DEF SnapshotBegin, FinishSnapshot, SnapshotVisit, SnapshotRename,
              SnapshotRenameFails, SnapshotTruncate, SnapshotFlush
<1>4. ASSUME Sweep \/ Tick
      PROVE  phase' = phase
  BY <1>4 DEF Sweep, SweepBegin, SweepVisit, SweepRemove, Tick
<1>5. ~Start
  BY DEF Start, LoadSnapshot, ReplayCommand, SkipLine, Serve
<1> QED BY <1>1, <1>2, <1>3, <1>4, <1>5 DEF Next

LEMMA QuietStep ==
  ASSUME Quiet, [Next]_vars
  PROVE  Quiet'
<1> USE DEF locals, files, tasks, saver, sweeper, env
<1>1. CASE Crash
  BY <1>1 DEF Crash, Quiet
<1>2. CASE phase = "up" /\ Next
  BY <1>1, <1>2, StaysUp DEF Quiet
<1>3. CASE phase # "up" /\ Next
  <2>1. ASSUME Tick \/ Start
        PROVE  UNCHANGED <<pc, snap_pc, sweep_iter, to_remove>>
    BY <2>1 DEF Tick, Start, LoadSnapshot, ReplayCommand, SkipLine, Serve
  <2> QED BY <1>1, <1>3, <2>1, QuietSteps DEF Quiet
<1>4. CASE UNCHANGED vars
  BY <1>4 DEF vars, Quiet
<1> QED BY <1>2, <1>3, <1>4
-----------------------------------------------------------------------------
(* What the first n lines amount to.                                       *)

(* One more line.                                                          *)
LEMMA RecoveredNext ==
  ASSUME NEW k \in Keys, NEW n \in Nat
  PROVE  Recovered(k, n + 1) =
           IF Readable(wal) /\ wal[n + 1].ok /\ Unexpired(wal[n + 1].cmd.writes)[k] # NoWrite
           THEN wal[n + 1].cmd.writes[k] ELSE Recovered(k, n)
<1> DEFINE counts(i) == Readable(wal) /\ wal[i].ok /\ Unexpired(wal[i].cmd.writes)[k] # NoWrite
<1>1. \A m : Writers(k, m) = {i \in 1..m : counts(i)}
  BY DEF Writers
<1>2. CASE ~counts(n + 1)
  <2>1. Writers(k, n + 1) = Writers(k, n)
    <3> HIDE DEF counts
    <3> QED BY <1>1, <1>2
  <2> QED BY <1>2, <2>1 DEF Recovered
<1>3. CASE counts(n + 1)
  <2> DEFINE I == Writers(k, n + 1)
  <2>1. n + 1 \in I /\ I \in SUBSET (1..(n + 1)) /\ n + 1 \in Nat
    <3> HIDE DEF counts
    <3> QED BY <1>1, <1>3
  <2> HIDE DEF I
  <2>2. LastOf(I) \in I /\ n + 1 <= LastOf(I)
    BY <2>1, LastOfIsMax
  <2>3. LastOf(I) = n + 1
    <3>1. LastOf(I) \in 1..(n + 1)
      BY <2>1, <2>2
    <3> QED BY <2>2, <3>1
  <2>4. Recovered(k, n + 1) = wal[n + 1].cmd.writes[k]
    BY <2>1, <2>3 DEF Recovered, I
  <2> QED BY <1>3, <2>4
<1> QED BY <1>2, <1>3

(* As long as the files and the clock stand still, so does what they mean. *)
LEMMA RecoveredSame ==
  ASSUME wal' = wal, snapshot' = snapshot, now' = now, NEW k \in Keys, NEW n \in Nat
  PROVE  Recovered(k, n)' = Recovered(k, n)
<1>1. LivePart(snapshot)' = LivePart(snapshot)
  BY DEF LivePart, Live, Expired, is_expired
<1>2. Writers(k, n)' = Writers(k, n)
  BY DEF Writers, Readable, Unexpired, is_expired
<1>3. LastOf(Writers(k, n))' = LastOf(Writers(k, n))
  BY <1>2 DEF LastOf
<1> QED BY <1>1, <1>2, <1>3 DEF Recovered, PayloadOf

(* A write that replay applies: it is one, and it has not expired.         *)
LEMMA Counts ==
  \A w, k : k \in Keys => (Unexpired(w)[k] # NoWrite <=>
      w[k] # NoWrite /\ (w[k] = None \/ ~is_expired(w[k].expires_at)))
BY Constants DEF Unexpired

LEMMA LinesTyped ==
  ASSUME TypeOK, NEW i \in 1..Len(wal), wal[i].ok
  PROVE  wal[i] \in Line /\ wal[i].tx_id \in Nat /\ wal[i].cmd \in WalCommand
         /\ wal[i].cmd.writes \in WriteSet
<1>1. wal[i] \in Line
  BY ElementOfSeq DEF TypeOK
<1> QED BY <1>1 DEF Line, WalCommand

(* Whether a time that has a record expire is over after the next tick.    *)
Late(e) == e # None /\ now + 1 > e

LEMMA LateTick ==
  ASSUME TypeOK, Tick
  PROVE  /\ \A e : is_expired(e)' <=> Late(e)
         /\ \A e \in Times : is_expired(e) => Late(e)
<1>1. now' = now + 1 /\ now \in Nat
  BY DEF Tick, TypeOK
<1>2. \A e : is_expired(e)' <=> Late(e)
  BY <1>1 DEF is_expired, Late
<1>3. ASSUME NEW e \in Times, is_expired(e)
      PROVE  Late(e)
  BY <1>1, <1>3, Constants DEF is_expired, Late, Times
<1> QED BY <1>2, <1>3

(* Records with the same payload expire together.                          *)
LEMMA SamePayload ==
  /\ PayloadOf(None) = None
  /\ \A r \in DbRecord : PayloadOf(r) \in Payload /\ PayloadOf(r) # None
       /\ PayloadOf(r).expires_at = r.expires_at
BY Constants DEF PayloadOf, DbRecord, Payload

(* The clock moves: a record that has not expired is still the last one    *)
(* that counts, and what was passed over is passed over again.             *)
LEMMA RecoveredLater ==
  ASSUME TypeOK, Tick, NEW k \in Keys, NEW n \in Nat, n <= Len(wal),
         NEW r \in DbRecord \cup {None}, PayloadOf(r) = Recovered(k, n),
         r # None => ~Late(r.expires_at)
  PROVE  Recovered(k, n)' = Recovered(k, n)
<1>1. now' = now + 1 /\ now \in Nat /\ wal' = wal /\ snapshot' = snapshot
  BY DEF Tick, files, TypeOK
<1>2. \A e \in Times : is_expired(e) => Late(e)
  BY LateTick
<1> DEFINE w(i) == wal[i].cmd.writes[k]
           may(i) == Readable(wal) /\ wal[i].ok /\ w(i) # NoWrite
           I == {i \in 1..n : may(i) /\ (w(i) = None \/ ~is_expired(w(i).expires_at))}
           J == {i \in 1..n : may(i) /\ (w(i) = None \/ ~Late(w(i).expires_at))}
<1>3. Writers(k, n) = I /\ Writers(k, n)' = J
  <2>1. Writers(k, n) = I
    BY Counts DEF Writers
  <2>2. Writers(k, n)' = {i \in 1..n : Readable(wal) /\ wal[i].ok
                                        /\ (Unexpired(wal[i].cmd.writes)[k])' # NoWrite}
    BY <1>1 DEF Writers, Readable
  <2>3. \A i \in 1..n : (Unexpired(wal[i].cmd.writes)[k])' # NoWrite <=>
          w(i) # NoWrite /\ (w(i) = None \/ ~Late(w(i).expires_at))
    <3>1. now' > 0 /\ \A e : (e # None /\ now' > e) <=> Late(e)
      BY <1>1 DEF Late
    <3> QED BY <1>1, <3>1, Constants DEF Unexpired, is_expired
  <2>4. Writers(k, n)' = J
    BY <2>2, <2>3
  <2> QED BY <2>1, <2>4
<1>4. ASSUME NEW i \in 1..n, wal[i].ok
      PROVE  w(i) \in Payload \cup {None, NoWrite}
  <2>1. i \in 1..Len(wal)
    BY <1>1, LenProperties DEF TypeOK
  <2>2. wal[i].cmd.writes \in WriteSet
    BY <1>4, <2>1, LinesTyped
  <2> QED BY <2>2 DEF WriteSet
<1>5. J \subseteq I
  <2> SUFFICES ASSUME NEW i \in J
               PROVE  i \in I
    OBVIOUS
  <2>1. w(i) = None \/ w(i).expires_at \in Times
    BY <1>4 DEF Payload
  <2> HIDE DEF w
  <2> QED BY <1>2, <2>1
<1>6. /\ Recovered(k, n) = IF I = {} THEN PayloadOf(LivePart(snapshot)[k]) ELSE w(LastOf(I))
      /\ Recovered(k, n)' = IF J = {} THEN PayloadOf(LivePart(snapshot)'[k]) ELSE w(LastOf(J))
  <2>1. Recovered(k, n) = IF Writers(k, n) = {} THEN PayloadOf(LivePart(snapshot)[k])
                          ELSE w(LastOf(Writers(k, n)))
    BY DEF Recovered
  <2>2. Recovered(k, n)' = IF Writers(k, n)' = {} THEN PayloadOf(LivePart(snapshot)'[k])
                          ELSE w(LastOf(Writers(k, n)'))
    BY <1>1 DEF Recovered, LivePart, Live, PayloadOf, LastOf
  <2> QED BY <1>3, <2>1, <2>2
<1>7. CASE I = {}
  <2> DEFINE s == snapshot[k]
  <2>1. s \in DbRecord \cup {None} /\ (s # None => s.expires_at \in Times)
    BY DEF TypeOK, Store, DbRecord
  <2>2. /\ LivePart(snapshot)[k] = IF s # None /\ ~is_expired(s.expires_at) THEN s ELSE None
        /\ LivePart(snapshot)'[k] = IF s # None /\ ~Late(s.expires_at) THEN s ELSE None
    <3>1. LivePart(snapshot)[k] = IF s # None /\ ~is_expired(s.expires_at) THEN s ELSE None
      BY DEF LivePart, Live, Expired
    <3>2. LivePart(snapshot)'[k] = IF s # None /\ ~(s.expires_at # None /\ now' > s.expires_at)
                                   THEN s ELSE None
      BY <1>1 DEF LivePart, Live, Expired, is_expired
    <3> QED BY <1>1, <3>1, <3>2 DEF Late
  <2>3. J = {}
    BY <1>5, <1>7
  <2>4. CASE LivePart(snapshot)[k] = None
    <3>1. s = None \/ Late(s.expires_at)
      <4> HIDE DEF s
      <4> QED BY <1>2, <2>1, <2>2, <2>4
    <3>2. LivePart(snapshot)'[k] = None
      BY <2>2, <3>1
    <3> HIDE DEF I, J, s
    <3> QED BY <1>6, <1>7, <2>3, <2>4, <3>2
  <2>5. CASE LivePart(snapshot)[k] # None
    <3>1. LivePart(snapshot)[k] = s /\ s \in DbRecord
      BY <2>1, <2>2, <2>5
    <3> HIDE DEF I, J, s
    <3>2. PayloadOf(r) = PayloadOf(s)
      BY <1>6, <1>7, <3>1
    <3>3. r # None /\ r.expires_at = s.expires_at
      BY <3>1, <3>2, SamePayload
    <3>4. LivePart(snapshot)'[k] = s
      BY <2>2, <3>1, <3>3, Constants
    <3> QED BY <1>6, <1>7, <2>3, <3>1, <3>4
  <2> QED BY <2>4, <2>5
<1>8. CASE I # {}
  <2> DEFINE L == LastOf(I)
  <2>1. L \in I /\ \A j \in I : j <= L
    BY <1>8, LastOfIsMax
  <2>2. PayloadOf(r) = w(L)
    BY <1>6, <1>8
  <2>3. L \in 1..n /\ may(L)
    BY <2>1
  <2>4. w(L) = None \/ ~Late(w(L).expires_at)
    <3> HIDE DEF w, L
    <3> QED BY <2>2, SamePayload
  <2>5. L \in J
    <3> HIDE DEF may, L
    <3> QED BY <2>3, <2>4
  <2> HIDE DEF L, I, J
  <2>6. J \in SUBSET (1..n) /\ LastOf(J) \in J /\ \A j \in J : j <= LastOf(J)
    <3>1. J \in SUBSET (1..n)
      BY DEF J
    <3> QED BY <2>5, <3>1, LastOfIsMax
  <2>7. LastOf(J) = L
    <3>1. LastOf(J) <= L /\ L <= LastOf(J)
      BY <1>5, <2>1, <2>5, <2>6
    <3>2. L \in 1..n /\ LastOf(J) \in 1..n
      BY <2>3, <2>6
    <3> QED BY <3>1, <3>2
  <2>8. J # {}
    BY <2>5
  <2> QED BY <1>6, <1>8, <2>7, <2>8 DEF L
<1> QED BY <1>7, <1>8
-----------------------------------------------------------------------------
(* The four steps that lead to a round of the replay loop.                 *)

LEMMA LoadExact ==
  ASSUME TypeOK, LoadSnapshot
  PROVE  InFile' /\ RecoveryExact'
<1>1. /\ wal' = wal /\ snapshot' = snapshot /\ now' = now /\ tree' = LivePart(snapshot)
      /\ pos' = (IF Readable(wal) THEN 1 ELSE Len(wal) + 1) /\ Len(wal) \in Nat
  BY LenProperties DEF LoadSnapshot, files, TypeOK
<1>2. ~Readable(wal) \/ pos' - 1 = 0
  BY <1>1
<1>3. InFile'
  BY <1>1 DEF InFile, Readable
<1>4. ASSUME NEW k \in Keys
      PROVE  PayloadOf(tree[k])' = Recovered(k, pos - 1)'
  <2>1. Writers(k, pos - 1)' = {}
    <3>1. Writers(k, pos - 1)' = {i \in 1..(pos' - 1) : (Readable(wal) /\ wal[i].ok
                                     /\ Unexpired(wal[i].cmd.writes)[k] # NoWrite)'}
      BY DEF Writers
    <3>2. CASE ~Readable(wal)
      <4>1. ~Readable(wal)'
        BY <1>1, <3>2 DEF Readable
      <4> QED BY <3>1, <4>1
    <3>3. CASE pos' - 1 = 0
      <4>1. 1..(pos' - 1) = {}
        BY <3>3
      <4> QED BY <3>1, <4>1
    <3> QED BY <1>2, <3>2, <3>3
  <2>2. LivePart(snapshot)' = LivePart(snapshot)
    BY <1>1 DEF LivePart, Live, Expired, is_expired
  <2> QED BY <1>1, <2>1, <2>2 DEF Recovered, PayloadOf
<1>5. \A i \in 1..(pos' - 1) : ~Readable(wal)'
  <2>1. CASE Readable(wal)
    <3>1. 1..(pos' - 1) = {}
      BY <1>2, <2>1
    <3> QED BY <3>1
  <2>2. CASE ~Readable(wal)
    BY <1>1, <2>2 DEF Readable
  <2> QED BY <2>1, <2>2
<1> QED BY <1>3, <1>4, <1>5 DEF RecoveryExact

LEMMA ReplayExact ==
  ASSUME TypeOK, InFile, RecoveryExact, ReplayCommand
  PROVE  InFile' /\ RecoveryExact'
<1> DEFINE w == Unexpired(wal[pos].cmd.writes)
<1>1. /\ phase = "replay" /\ pos <= Len(wal) /\ wal[pos].ok
      /\ wal' = wal /\ snapshot' = snapshot /\ now' = now /\ pos' = pos + 1
      /\ global_version' = MaxVer(wal[pos].tx_id)
  BY DEF ReplayCommand, files, env
<1>2. /\ pos \in Nat /\ pos > 0 /\ pos - 1 \in Nat /\ Len(wal) \in Nat /\ pos \in 1..Len(wal)
      /\ pos' - 1 = (pos - 1) + 1 /\ (pos - 1) + 1 = pos /\ global_version \in Nat
  BY <1>1, LenProperties DEF TypeOK
<1>3. wal[pos].tx_id \in Nat /\ wal[pos].cmd.writes \in WriteSet
  BY <1>1, <1>2, LinesTyped
<1>4. Readable(wal)
  BY <1>1 DEF InFile
<1>5. InFile'
  BY <1>1, <1>2, <1>4 DEF InFile, Readable
<1>6. w \in WriteSet
  BY <1>3 DEF Unexpired, WriteSet
<1>7. PICK v \in Nat : tree' = Applied(w, v)
  <2>1. MaxVer(wal[pos].tx_id) \in Nat /\ MaxVer(wal[pos].tx_id) + 1 \in Nat
    BY <1>2, <1>3 DEF MaxVer
  <2> HIDE DEF w
  <2> QED BY <2>1 DEF ReplayCommand, w
<1>8. ASSUME NEW k \in Keys, ~Expired(tree[k])'
      PROVE  PayloadOf(tree[k])' = Recovered(k, pos - 1)'
  <2>1. Recovered(k, pos - 1)' = Recovered(k, pos)
    <3>1. PICK n \in Nat : n = pos
      BY <1>2
    <3>2. Recovered(k, n)' = Recovered(k, n)
      BY <1>1, RecoveredSame
    <3>3. Recovered(k, pos - 1)' = Recovered(k, n)'
      BY <1>2, <3>1 DEF Recovered, Writers
    <3> QED BY <3>1, <3>2, <3>3
  <2>2. Recovered(k, pos) = IF w[k] # NoWrite THEN wal[pos].cmd.writes[k] ELSE Recovered(k, pos - 1)
    <3>1. Recovered(k, (pos - 1) + 1) =
            IF Readable(wal) /\ wal[(pos - 1) + 1].ok
                 /\ Unexpired(wal[(pos - 1) + 1].cmd.writes)[k] # NoWrite
            THEN wal[(pos - 1) + 1].cmd.writes[k] ELSE Recovered(k, pos - 1)
      BY <1>2, RecoveredNext
    <3> QED BY <1>1, <1>2, <1>4, <3>1
  <2>3. w[k] # NoWrite => w[k] = wal[pos].cmd.writes[k]
    BY DEF Unexpired
  <2>4. PayloadOf(Applied(w, v)[k]) = IF w[k] = NoWrite THEN PayloadOf(tree[k]) ELSE w[k]
    BY <1>6, AppliedPayload
  <2>5. PayloadOf(tree[k])' = PayloadOf(Applied(w, v)[k])
    BY <1>7 DEF PayloadOf
  <2>6. CASE w[k] # NoWrite
    BY <2>1, <2>2, <2>3, <2>4, <2>5, <2>6
  <2>7. CASE w[k] = NoWrite
    <3>1. tree'[k] = tree[k]
      <4>1. Applied(w, v)[k] = tree[k]
        <5> HIDE DEF w
        <5> QED BY <2>7, Constants DEF Applied
      <4> QED BY <1>7, <4>1
    <3>2. ~Expired(tree[k])
      BY <1>1, <1>8, <3>1 DEF Expired, is_expired
    <3>3. PayloadOf(tree[k]) = Recovered(k, pos - 1)
      BY <1>1, <3>2 DEF RecoveryExact
    <3> QED BY <2>1, <2>2, <2>4, <2>5, <2>7, <3>3
  <2> QED BY <2>6, <2>7
<1>9. ASSUME NEW i \in 1..(pos' - 1), wal'[i].ok
      PROVE  wal'[i].tx_id <= global_version'
  <2>1. i = pos \/ i \in 1..(pos - 1)
    BY <1>2
  <2>2. global_version <= global_version' /\ wal[pos].tx_id <= global_version'
    BY <1>1, <1>2, <1>3 DEF MaxVer
  <2>3. CASE i = pos
    BY <1>1, <2>2, <2>3
  <2>4. CASE i \in 1..(pos - 1)
    <3>1. wal[i].tx_id <= global_version /\ i \in 1..Len(wal)
      BY <1>1, <1>2, <1>4, <1>9, <2>4 DEF RecoveryExact
    <3>2. wal[i].tx_id \in Nat /\ global_version' \in Nat
      BY <1>1, <1>2, <1>3, <1>9, <3>1, LinesTyped DEF MaxVer
    <3> QED BY <1>1, <1>2, <2>2, <3>1, <3>2
  <2> QED BY <2>1, <2>3, <2>4
<1> QED BY <1>5, <1>8, <1>9 DEF RecoveryExact

LEMMA SkipExact ==
  ASSUME TypeOK, InFile, RecoveryExact, SkipLine
  PROVE  InFile' /\ RecoveryExact'
<1>1. /\ phase = "replay" /\ pos <= Len(wal) /\ ~wal[pos].ok
      /\ wal' = wal /\ snapshot' = snapshot /\ now' = now /\ pos' = pos + 1
      /\ global_version' = global_version /\ tree' = tree
  BY DEF SkipLine, files, env
<1>2. /\ pos \in Nat /\ pos > 0 /\ pos - 1 \in Nat /\ Len(wal) \in Nat
      /\ pos' - 1 = (pos - 1) + 1 /\ (pos - 1) + 1 = pos
  BY <1>1, LenProperties DEF TypeOK
<1>3. InFile'
  BY <1>1, <1>2 DEF InFile, Readable
<1>4. ASSUME NEW k \in Keys
      PROVE  Recovered(k, pos - 1)' = Recovered(k, pos - 1)
  <2>1. Recovered(k, pos - 1)' = Recovered(k, pos)
    <3>1. PICK n \in Nat : n = pos
      BY <1>2
    <3>2. Recovered(k, n)' = Recovered(k, n)
      BY <1>1, RecoveredSame
    <3>3. Recovered(k, pos - 1)' = Recovered(k, n)'
      BY <1>2, <3>1 DEF Recovered, Writers
    <3> QED BY <3>1, <3>2, <3>3
  <2>2. Recovered(k, (pos - 1) + 1) =
          IF Readable(wal) /\ wal[(pos - 1) + 1].ok
               /\ Unexpired(wal[(pos - 1) + 1].cmd.writes)[k] # NoWrite
          THEN wal[(pos - 1) + 1].cmd.writes[k] ELSE Recovered(k, pos - 1)
    BY <1>2, RecoveredNext
  <2> QED BY <1>1, <1>2, <2>1, <2>2
<1>5. ASSUME NEW i \in 1..(pos' - 1), wal'[i].ok
      PROVE  i \in 1..(pos - 1)
  BY <1>1, <1>2, <1>5
<1> QED BY <1>1, <1>3, <1>4, <1>5 DEF RecoveryExact, Readable, PayloadOf, Expired, is_expired

LEMMA TickExact ==
  ASSUME TypeOK, InFile, RecoveryExact, Tick, phase = "replay"
  PROVE  InFile' /\ RecoveryExact'
<1>1. /\ wal' = wal /\ snapshot' = snapshot /\ pos' = pos /\ phase' = phase
      /\ global_version' = global_version /\ tree' = tree
  BY DEF Tick, files, tasks
<1>2. pos - 1 \in Nat /\ pos - 1 <= Len(wal) /\ Len(wal) \in Nat
  BY LenProperties DEF TypeOK, InFile
<1>3. ASSUME NEW k \in Keys, ~Expired(tree[k])'
      PROVE  PayloadOf(tree[k])' = Recovered(k, pos - 1)'
  <2>1. tree[k] \in DbRecord \cup {None}
    BY DEF TypeOK, Store
  <2>2. tree[k] # None => tree[k].expires_at \in Times
    BY <2>1 DEF DbRecord
  <2>3. tree[k] # None => ~Late(tree[k].expires_at)
    BY <1>1, <1>3 DEF Expired, is_expired, Late, Tick
  <2>4. ~Expired(tree[k])
    BY <2>2, <2>3, LateTick DEF Expired
  <2>5. PayloadOf(tree[k]) = Recovered(k, pos - 1)
    BY <2>4 DEF RecoveryExact
  <2>6. PICK r \in DbRecord \cup {None} : r = tree[k]
    BY <2>1
  <2>7. PICK n \in Nat : n = pos - 1
    BY <1>2
  <2>8. Recovered(k, n)' = Recovered(k, n)
    BY <1>2, <2>3, <2>5, <2>6, <2>7, RecoveredLater
  <2>9. Recovered(k, pos - 1)' = Recovered(k, n)'
    BY <1>1, <2>7 DEF Recovered, Writers
  <2> QED BY <1>1, <2>5, <2>7, <2>8, <2>9 DEF PayloadOf
<1> QED BY <1>1, <1>3 DEF InFile, RecoveryExact, Readable

LEMMA RecoveryStep ==
  ASSUME TypeOK, RecoveryInv, [Next]_vars
  PROVE  RecoveryInv'
<1>1. Quiet'
  BY QuietStep DEF RecoveryInv
<1>2. InFile' /\ RecoveryExact'
  <2> USE DEF RecoveryInv
  <2>1. CASE phase' # "replay"
    BY <2>1 DEF InFile, RecoveryExact
  <2>2. CASE phase' = "replay" /\ Next
    <3>1. ~Crash
      BY <2>2 DEF Crash
    <3>2. phase # "up"
      BY <2>2, <3>1, StaysUp
    <3>3. Tick \/ Start
      BY <2>2, <3>1, <3>2, QuietSteps
    <3>4. CASE Tick
      <4>1. phase = "replay"
        BY <2>2, <3>4 DEF Tick
      <4> QED BY <3>4, <4>1, TickExact
    <3>5. CASE Start
      <4>1. ~Serve
        BY <2>2 DEF Serve
      <4> QED BY <3>5, <4>1, LoadExact, ReplayExact, SkipExact DEF Start
    <3> QED BY <3>3, <3>4, <3>5
  <2>3. CASE UNCHANGED vars
    <3>1. RecoveryExact' <=> RecoveryExact
      <4>1. wal' = wal /\ snapshot' = snapshot /\ now' = now /\ pos' = pos /\ tree' = tree
            /\ phase' = phase /\ global_version' = global_version
        BY <2>3 DEF vars, files, tasks, env
      <4>2. PICK n \in Nat : n = pos - 1
        BY DEF TypeOK
      <4>3. ASSUME NEW k \in Keys
            PROVE  Recovered(k, pos - 1)' = Recovered(k, pos - 1)
        <5>1. Recovered(k, n)' = Recovered(k, n)
          BY <4>1, RecoveredSame
        <5>2. Recovered(k, pos - 1)' = Recovered(k, n)'
          BY <4>1, <4>2 DEF Recovered, Writers
        <5> QED BY <4>2, <5>1, <5>2
      <4> QED BY <4>1, <4>3 DEF RecoveryExact, Readable, Expired, is_expired, PayloadOf
    <3>2. InFile' <=> InFile
      BY <2>3 DEF vars, files, tasks, env, InFile, Readable
    <3> QED BY <3>1, <3>2
  <2> QED BY <2>1, <2>2, <2>3
<1> QED BY <1>1, <1>2 DEF RecoveryInv

(* KindServerImpl::new, at each round of its replay loop, holds exactly    *)
(* the live records that the snapshot and the lines read so far amount to, *)
(* and its counter is past every version read: whatever the log holds and  *)
(* whatever faults left it so, and though records expire meanwhile.        *)
THEOREM RecoveryCorrect == Spec => []RecoveryExact
<1>1. Init => RecoveryInv
  BY DEF Init, RecoveryInv, Quiet, InFile, RecoveryExact
<1>2. TypeOK /\ RecoveryInv /\ [Next]_vars => RecoveryInv'
  BY RecoveryStep
<1>3. RecoveryInv => RecoveryExact
  BY DEF RecoveryInv
<1> QED BY <1>1, <1>2, <1>3, TypeCorrect, PTL DEF Spec
=============================================================================
